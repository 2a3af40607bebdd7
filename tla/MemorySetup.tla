---------------------------- MODULE MemorySetup ----------------------------
(***************************************************************************)
(* kernel/src/memory.rs, init, with the iterator of                        *)
(* kernel_core/src/memory/subtract_ranges.rs: which part of the RAM the    *)
(* page allocator gets at boot.                                            *)
(*                                                                         *)
(* Ranges are [start, end) in bytes.  One step is one turn of the          *)
(* iterator's loop, with what init does with a range that it yields.       *)
(***************************************************************************)
EXTENDS Integers, FiniteSetsExt

CONSTANTS
  PageLen,        \* bytes of a page
  BlockLen,       \* bytes of the largest block that page tables map
  Placements      \* what the boot loader may leave behind: [ram, kernel, tree],
                  \* the ranges of the RAM, the kernel image and the device tree

Bytes(r) == r.start .. r.end - 1

ASSUME MemorySetupAssumption ==
  /\ PageLen \in Nat \ {0} /\ BlockLen \in Nat \ {0} /\ BlockLen % PageLen = 0
  /\ \A p \in Placements : \A r \in {p.ram, p.kernel, p.tree} :
       r \in [start : Nat, end : Nat] /\ r.start < r.end

\* What subtract_ranges asks of its caller, the reserved ranges in order, and
\* page borders where add_memory_region needs them.
InOrder(p) ==
  /\ p.kernel.end <= p.tree.start
  /\ p.ram.start % PageLen = 0 /\ p.ram.end % PageLen = 0 /\ p.kernel.end % PageLen = 0

VARIABLES
  placement,      \* the placement of this boot
  stage,          \* "first", "tables", "rest", "done" or "panic"
  current_pos,    \* the iterator: how far it has come,
  current,        \*   the reserved range it is at, or NoRange,
  taken,          \*   and how many of them it has taken from init's list
  given,          \* the ranges of pages that the page allocator has
  mapped          \* the kernel's page tables: ranges of RAM and of devices

vars == <<placement, stage, current_pos, current, taken, given, mapped>>

Ram == placement.ram
NoRange == [start |-> 0, end |-> 0]

\* The reserved regions, in the order in which init lists them.
Reserved(i) == IF i = 1 THEN placement.kernel ELSE placement.tree
NumReserved == 2

Init ==
  /\ placement \in Placements
  /\ stage = "first"
  /\ current_pos = Ram.start
  /\ current = NoRange
  /\ taken = 0
  /\ given = {}
  /\ mapped = {}
-----------------------------------------------------------------------------
\* A reserved range, cut to the RAM.
Cut(r) == [start |-> Max({r.start, Ram.start}), end |-> Min({r.end, Ram.end})]

\* Is a reserved range one that find_map stops at?
Matters(r) == Cut(r).start < Cut(r).end /\ Cut(r).end > current_pos

\* The range that the iterator is at after it has loaded the next one if it
\* must, and how many it has then taken.
Loaded ==
  LET found == {i \in taken + 1 .. NumReserved : Matters(Reserved(i))} IN
  IF current # NoRange THEN [at |-> current, taken |-> taken]
  ELSE IF found = {} THEN [at |-> NoRange, taken |-> NumReserved]
  ELSE [at |-> Cut(Reserved(Min(found))), taken |-> Min(found)]

\* The pages that add_memory_region takes from a range: it starts at a page
\* border and counts the pages of the whole length.
PagesOf(start, end) ==
  LET padding == (PageLen - (start % PageLen)) % PageLen IN
  [start |-> start + padding, end |-> start + padding + ((end - start) \div PageLen) * PageLen]

TooSmall(start, end) ==
  LET padding == (PageLen - (start % PageLen)) % PageLen IN
  end - start < PageLen \/ end - start - padding < PageLen

\* The iterator yields a range, and init adds it to the page allocator.
Yield(end) ==
  IF TooSmall(current_pos, end)
  THEN stage' = "panic" /\ UNCHANGED given
  ELSE /\ given' = given \cup {PagesOf(current_pos, end)}
       /\ stage' = IF stage = "first" THEN "tables" ELSE stage

\* Mutant: the range after the gap is not remembered.
IterateForgets ==
  LET at == Loaded.at IN
  /\ stage \in {"first", "rest"} /\ current_pos < Ram.end
  /\ taken' = Loaded.taken
  /\ current' = NoRange
  /\ IF at = NoRange THEN current_pos' = Ram.end /\ Yield(Ram.end)
     ELSE IF current_pos < at.start THEN current_pos' = at.start /\ Yield(at.start)
     ELSE current_pos' = at.end /\ UNCHANGED <<stage, given>>
  /\ UNCHANGED <<placement, mapped>>

\* Mutant: nothing is yielded after the last reserved range.
IterateStops ==
  LET at == Loaded.at IN
  /\ stage \in {"first", "rest"} /\ current_pos < Ram.end
  /\ taken' = Loaded.taken
  /\ IF at = NoRange
     THEN current_pos' = Ram.end /\ current' = NoRange /\ UNCHANGED <<stage, given>>
     ELSE IF current_pos < at.start
     THEN current_pos' = at.start /\ current' = at /\ Yield(at.start)
     ELSE current_pos' = at.end /\ current' = NoRange /\ UNCHANGED <<stage, given>>
  /\ UNCHANGED <<placement, mapped>>

\* One turn of the loop in SubtractRanges::next.
Iterate ==
  LET at == Loaded.at IN
  /\ stage \in {"first", "rest"} /\ current_pos < Ram.end
  /\ taken' = Loaded.taken
  /\ IF at = NoRange
     THEN current_pos' = Ram.end /\ current' = NoRange /\ Yield(Ram.end)
     ELSE IF current_pos < at.start
     THEN current_pos' = at.start /\ current' = at /\ Yield(at.start)
     ELSE current_pos' = at.end /\ current' = NoRange /\ UNCHANGED <<stage, given>>
  /\ UNCHANGED <<placement, mapped>>

\* The iterator has no more ranges: the memory is set up, and the heap gets the
\* page allocator; without a first region init panics.
Finish ==
  /\ stage \in {"first", "rest"} /\ current_pos >= Ram.end
  /\ stage' = IF stage = "first" THEN "panic" ELSE "done"
  /\ UNCHANGED <<placement, current_pos, current, taken, given, mapped>>

\* The kernel's page tables: the RAM in the largest blocks, and everything below
\* it as devices.  map refuses a region of no blocks and one that is not aligned.
SetUpTables ==
  LET blocks == (Ram.end - Ram.start + BlockLen - 1) \div BlockLen IN
  /\ stage = "tables"
  /\ IF Ram.start % BlockLen # 0 \/ Ram.start \div BlockLen = 0
     THEN stage' = "panic" /\ UNCHANGED mapped
     ELSE /\ mapped' = {[start |-> Ram.start, end |-> Ram.start + blocks * BlockLen],
                        [start |-> 0, end |-> Ram.start]}
          /\ stage' = "rest"
  /\ UNCHANGED <<placement, current_pos, current, taken, given>>

\* The memory stays as it was set up.
Stopped == stage \in {"done", "panic"} /\ UNCHANGED vars

Next == Iterate \/ SetUpTables \/ Finish \/ Stopped

Spec == Init /\ [][Next]_vars /\ WF_vars(Next)
-----------------------------------------------------------------------------
\* The page allocator never gets a byte of the kernel image or the device tree,
\* nor one outside the RAM: they are in use for as long as the system runs
\* (memory.rs:78-85), and regions are added while the iterator is under way.
ReservedKept ==
  \A g \in given :
    /\ Bytes(g) \subseteq Bytes(Ram)
    /\ Bytes(g) \cap (Bytes(placement.kernel) \cup Bytes(placement.tree)) = {}

\* Every page of the RAM that holds no reserved byte ends up with the page
\* allocator: the set-up finishes, and the ranges it has added leave nothing out
\* ("yields the ranges of `whole` that are not covered", subtract_ranges.rs:24).
\* All of them are mapped.
AllGiven ==
  <>(/\ stage = "done"
     /\ \A g \in given : \E m \in mapped : Bytes(g) \subseteq Bytes(m)
     /\ \A n \in Ram.start \div PageLen .. Ram.end \div PageLen - 1 :
          LET page == Bytes([start |-> n * PageLen, end |-> (n + 1) * PageLen]) IN
          page \cap (Bytes(placement.kernel) \cup Bytes(placement.tree)) = {}
            => \E g \in given : page \subseteq Bytes(g))
=============================================================================
