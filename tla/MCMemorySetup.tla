--------------------------- MODULE MCMemorySetup ---------------------------
EXTENDS MemorySetup

Interval(a, b) == [start |-> a, end |-> b]

\* A kernel image of whole pages in the RAM, and a device tree above it, at any
\* byte, with no gap smaller than a page next to them.  The tree may also lie
\* above the RAM or reach over its end.  Together they leave some memory free.
WellPlaced ==
  {p \in [ram : {Interval(32, 64)},
          kernel : {Interval(a, b) : a \in {32, 36, 40}, b \in {44, 48}},
          tree : {Interval(a, b) : <<a, b>> \in {x \in (44 .. 66) \X (45 .. 67) : x[2] - x[1] \in 1 .. 9}}] :
     /\ p.tree.start >= p.kernel.end
     /\ LET gap == Min({p.tree.start, 64}) - p.kernel.end IN gap = 0 \/ gap >= PageLen
     /\ LET gap == 64 - p.tree.end IN gap <= 0 \/ gap - ((PageLen - (p.tree.end % PageLen)) % PageLen) >= PageLen}

\* The theorem of MemorySetupProofs is about these placements too.
ASSUME PlacementsInOrder == \A p \in Placements : InOrder(p)
=============================================================================
