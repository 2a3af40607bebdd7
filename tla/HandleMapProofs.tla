-------------------------- MODULE HandleMapProofs --------------------------
(***************************************************************************)
(* Proofs about HandleMap.tla, for every number of threads, every fanout   *)
(* and every max_handle of at most four digits: the strong count of a      *)
(* value is the number of its Arcs, whoever gets and removes what; then    *)
(* handles, entries and the tables on the way to them, and the get of      *)
(* one's own handle.                                                       *)
(***************************************************************************)
EXTENDS HandleMap, TLAPS

\* The depth is enough for every handle.
LEMMA DepthFits ==
  /\ Depth \in 1 .. 4
  /\ Span(Depth) \in Nat \ {0}
  /\ MaxHandle < Span(Depth)
<1>1. \A d \in 0 .. 4 : Span(d) \in Nat \ {0}
  <2>1. Span(0) = 1 /\ Span(1) = Fanout /\ Span(2) = Fanout * Fanout
        /\ Span(3) = Fanout * Fanout * Fanout /\ Span(4) = Fanout * Fanout * Fanout * Fanout
    BY DEF Span
  <2> DEFINE F2 == Fanout * Fanout
             F3 == F2 * Fanout
             F4 == F3 * Fanout
  <2>2. Fanout \in Nat \ {0}
    BY MapAssumption, Zenon
  <2>3. F2 \in Nat \ {0}
    BY <2>2
  <2> HIDE DEF F2
  <2>4. F3 \in Nat \ {0}
    BY <2>2, <2>3
  <2> HIDE DEF F3
  <2>5. F4 \in Nat \ {0}
    BY <2>2, <2>4
  <2>6. \A d \in 0 .. 4 : d = 0 \/ d = 1 \/ d = 2 \/ d = 3 \/ d = 4
    OBVIOUS
  <2>7. QED BY <2>1, <2>2, <2>3, <2>4, <2>5, <2>6 DEF F2, F3, F4
<1>2. \E d \in 1 .. 4 : MaxHandle < Span(d) /\ (d = 1 \/ MaxHandle >= Span(d - 1))
  <2>1. MaxHandle \in Nat /\ MaxHandle < Span(4)
    BY MapAssumption, Zenon
  <2>2. CASE MaxHandle < Span(1)
    BY <2>2
  <2>3. CASE MaxHandle >= Span(1) /\ MaxHandle < Span(2)
    BY <2>3
  <2>4. CASE MaxHandle >= Span(2) /\ MaxHandle < Span(3)
    BY <2>4
  <2>5. CASE MaxHandle >= Span(3)
    BY <2>1, <2>5
  <2>6. QED BY <1>1, <2>1, <2>2, <2>3, <2>4, <2>5
<1>3. Depth \in 1 .. 4 /\ MaxHandle < Span(Depth)
  BY <1>2, Zenon DEF Depth
<1>4. QED BY <1>1, <1>3

\* A position is the handle itself, and a walk for it starts at the root.
LEMMA PositionFacts ==
  /\ Handles \subseteq Positions
  /\ \A h \in Positions : Position(h) = h /\ TableFor(h, 0) = Root
<1>1. MaxHandle \in Nat
  BY MapAssumption, Zenon
<1>2. Handles \subseteq Positions
  BY <1>1, DepthFits DEF Handles, Positions
<1>3. ASSUME NEW h \in Positions
      PROVE  Position(h) = h /\ Position(h) \div Span(Depth) = 0
  <2> DEFINE n == Span(Depth)
  <2>1. n \in Nat \ {0} /\ h \in 0 .. n - 1
    BY DepthFits, Zenon DEF Positions
  <2> HIDE DEF n
  <2>2. h % n = h /\ h \div n = 0
    BY <2>1
  <2>3. QED BY <2>2, Zenon DEF n, Position
<1>4. Depth - 0 = Depth
  BY DepthFits
<1>5. QED BY <1>2, <1>3, <1>4, Zenon DEF TableFor, Root
-----------------------------------------------------------------------------
(* Counting Arcs.                                                          *)

\* What the proofs need to know of cardinalities.  It is a hypothesis of the
\* lemmas, which the theorems discharge (FiniteSetTheorems).
CardinalityFacts ==
  /\ IsFiniteSet({}) /\ Cardinality({}) = 0
  /\ \A S : IsFiniteSet(S) => Cardinality(S) \in Nat /\ \A T \in SUBSET S : IsFiniteSet(T)
  /\ \A S, x : IsFiniteSet(S) /\ x \notin S =>
       IsFiniteSet(S \cup {x}) /\ Cardinality(S \cup {x}) = Cardinality(S) + 1
  /\ \A S, x : IsFiniteSet(S) /\ x \in S => Cardinality(S \ {x}) = Cardinality(S) - 1
  /\ \A m, n \in Nat : IsFiniteSet(m .. n - 1)

HoldsType == [Threads -> [Values -> Nat]]
SlotType == [Positions -> Values \cup {None}]

\* The Arcs of a thread are numbered from 1.
LEMMA ArcsHeldFacts ==
  ASSUME NEW h \in HoldsType, NEW v \in Values
  PROVE  \A x : x \in ArcsHeld(h, v) <=>
           \E t \in Threads : \E n \in Nat : x = <<t, n>> /\ 1 <= n /\ n <= h[t][v]
<1>1. \A t \in Threads : h[t][v] \in Nat
  BY Zenon DEF HoldsType
<1>2. \A t \in Threads : \A n : n \in 1 .. h[t][v] <=> n \in Nat /\ 1 <= n /\ n <= h[t][v]
  BY <1>1
<1>3. QED BY <1>2 DEF ArcsHeld

\* The Arcs of a value depend only on the numbers of it that the threads have.
LEMMA ArcsHeldSame ==
  ASSUME NEW h \in HoldsType, NEW g \in HoldsType, NEW v \in Values,
         \A t \in Threads : g[t][v] = h[t][v]
  PROVE  ArcsHeld(g, v) = ArcsHeld(h, v)
  BY Zenon DEF ArcsHeld

\* Function g is h with n as the number of Arcs of v that thread t has.
OneHeld(h, g, t, v, n) ==
  /\ g \in HoldsType
  /\ g[t][v] = n
  /\ \A u \in Threads, w \in Values : u # t \/ w # v => g[u][w] = h[u][w]

\* An update of one number is such a change.
LEMMA OneHeldExcept ==
  ASSUME NEW h \in HoldsType, NEW t \in Threads, NEW v \in Values, NEW n \in Nat
  PROVE  OneHeld(h, [h EXCEPT ![t][v] = n], t, v, n)
  BY Zenon DEF OneHeld, HoldsType

\* It leaves the other values alone.
LEMMA ArcsOther ==
  ASSUME NEW h \in HoldsType, NEW t \in Threads, NEW v \in Values, NEW n,
         NEW g, OneHeld(h, g, t, v, n), NEW w \in Values, w # v
  PROVE  ArcsHeld(g, w) = ArcsHeld(h, w)
  BY ArcsHeldSame, Zenon DEF OneHeld

\* Thread t has one Arc of v more.
LEMMA ArcsAdd ==
  ASSUME CardinalityFacts, NEW h \in HoldsType, NEW t \in Threads, NEW v \in Values,
         NEW g, OneHeld(h, g, t, v, h[t][v] + 1), IsFiniteSet(ArcsHeld(h, v))
  PROVE  /\ IsFiniteSet(ArcsHeld(g, v))
         /\ Cardinality(ArcsHeld(g, v)) = Cardinality(ArcsHeld(h, v)) + 1
<1>1. g \in HoldsType
  BY Zenon DEF OneHeld
<1>2. \A u \in Threads : g[u][v] = IF u = t THEN h[t][v] + 1 ELSE h[u][v]
  BY Zenon DEF OneHeld
<1>3. h[t][v] \in Nat
  BY Zenon DEF HoldsType
<1> DEFINE n == h[t][v] + 1
           e == <<t, n>>
<1>4. e \notin ArcsHeld(h, v)
  BY <1>3, ArcsHeldFacts
<1>5. ArcsHeld(g, v) = ArcsHeld(h, v) \cup {e}
  <2>1. ASSUME NEW x, x \in ArcsHeld(g, v)
        PROVE  x \in ArcsHeld(h, v) \/ x = e
    <3>1. PICK u \in Threads, m \in Nat : x = <<u, m>> /\ 1 <= m /\ m <= g[u][v]
      BY <1>1, <2>1, ArcsHeldFacts, Zenon
    <3>2. (u = t /\ m = n) \/ m <= h[u][v]
      BY <1>2, <1>3, <3>1
    <3>3. QED BY <3>1, <3>2, ArcsHeldFacts, Zenon
  <2>2. ASSUME NEW x, x \in ArcsHeld(h, v)
        PROVE  x \in ArcsHeld(g, v)
    <3>1. PICK u \in Threads, m \in Nat : x = <<u, m>> /\ 1 <= m /\ m <= h[u][v]
      BY <2>2, ArcsHeldFacts, Zenon
    <3>2. m <= g[u][v]
      BY <1>2, <1>3, <3>1
    <3>3. QED BY <1>1, <3>1, <3>2, ArcsHeldFacts, Zenon
  <2>3. e \in ArcsHeld(g, v)
    <3>1. n \in Nat /\ 1 <= n /\ n <= g[t][v]
      BY <1>2, <1>3
    <3>2. QED BY <1>1, <3>1, ArcsHeldFacts, Zenon
  <2>4. QED BY <2>1, <2>2, <2>3, Zenon
<1> HIDE DEF e
<1>6. QED BY <1>4, <1>5, Zenon DEF CardinalityFacts

\* Thread t has one Arc of v less.
LEMMA ArcsDrop ==
  ASSUME CardinalityFacts, NEW h \in HoldsType, NEW t \in Threads, NEW v \in Values, h[t][v] > 0,
         NEW g, OneHeld(h, g, t, v, h[t][v] - 1), IsFiniteSet(ArcsHeld(h, v))
  PROVE  /\ IsFiniteSet(ArcsHeld(g, v))
         /\ Cardinality(ArcsHeld(g, v)) = Cardinality(ArcsHeld(h, v)) - 1
<1>1. g \in HoldsType /\ h[t][v] \in Nat /\ g[t][v] \in Nat
  BY Zenon DEF OneHeld, HoldsType
<1>2. OneHeld(g, h, t, v, g[t][v] + 1)
  BY <1>1 DEF OneHeld
<1>3. IsFiniteSet(ArcsHeld(g, v))
  <2>1. \A u \in Threads : \A n \in Nat : n <= g[u][v] => n <= h[u][v]
    BY <1>1 DEF OneHeld, HoldsType
  <2>2. ASSUME NEW x, x \in ArcsHeld(g, v)
        PROVE  x \in ArcsHeld(h, v)
    <3>1. PICK u \in Threads, m \in Nat : x = <<u, m>> /\ 1 <= m /\ m <= g[u][v]
      BY <1>1, <2>2, ArcsHeldFacts, Zenon
    <3>2. QED BY <2>1, <3>1, ArcsHeldFacts, Zenon
  <2>3. QED BY <2>2, Zenon DEF CardinalityFacts
<1>4. Cardinality(ArcsHeld(h, v)) = Cardinality(ArcsHeld(g, v)) + 1
  BY <1>1, <1>2, <1>3, ArcsAdd, Zenon
<1>5. Cardinality(ArcsHeld(g, v)) \in Nat
  BY <1>3, Zenon DEF CardinalityFacts
<1>6. QED BY <1>3, <1>4, <1>5

\* The entries are finitely many.
LEMMA ArcsStoredFinite ==
  ASSUME CardinalityFacts, NEW s, NEW v
  PROVE  IsFiniteSet(ArcsStored(s, v)) /\ Cardinality(ArcsStored(s, v)) \in Nat
<1>1. IsFiniteSet(Positions)
  <2>1. 0 \in Nat /\ Span(Depth) \in Nat
    BY DepthFits, Zenon
  <2>2. QED BY <2>1, Zenon DEF Positions, CardinalityFacts
<1>2. ArcsStored(s, v) \subseteq Positions
  BY Zenon DEF ArcsStored
<1>3. QED BY <1>1, <1>2, Zenon DEF CardinalityFacts

\* Entries r are s with x at p: one Arc of x more and one of s[p] less.
LEMMA ArcsSwap ==
  ASSUME CardinalityFacts, NEW s \in SlotType, NEW p \in Positions, NEW r \in SlotType, NEW x, x # s[p],
         r[p] = x, \A q \in Positions : q # p => r[q] = s[q], NEW v \in Values
  PROVE  Cardinality(ArcsStored(r, v)) =
           IF v = x THEN Cardinality(ArcsStored(s, v)) + 1
           ELSE IF v = s[p] THEN Cardinality(ArcsStored(s, v)) - 1
           ELSE Cardinality(ArcsStored(s, v))
<1> DEFINE S == ArcsStored(s, v)
           T == ArcsStored(r, v)
<1>1. IsFiniteSet(S)
  BY ArcsStoredFinite, Zenon
<1>2. CASE v = x
  <2>1. T = S \cup {p} /\ p \notin S
    BY <1>2, Zenon DEF ArcsStored, SlotType
  <2> HIDE DEF S, T
  <2>2. Cardinality(T) = Cardinality(S) + 1
    BY <1>1, <2>1, Zenon DEF CardinalityFacts
  <2>3. QED BY <1>2, <2>2, Zenon DEF S, T
<1>3. CASE v # x /\ v = s[p]
  <2>1. T = S \ {p} /\ p \in S
    BY <1>3 DEF ArcsStored, SlotType
  <2> HIDE DEF S, T
  <2>2. Cardinality(T) = Cardinality(S) - 1
    BY <1>1, <2>1, Zenon DEF CardinalityFacts
  <2>3. QED BY <1>3, <2>2, Zenon DEF S, T
<1>4. CASE v # x /\ v # s[p]
  <2>1. T = S
    BY <1>4, Zenon DEF ArcsStored, SlotType
  <2>2. QED BY <1>4, <2>1, Zenon
<1>5. QED BY <1>2, <1>3, <1>4, Zenon
-----------------------------------------------------------------------------
(* The counts, whoever gets and removes what.                              *)

\* What a thread in the middle of a call owns, or is about to write.
CallInv ==
  \A t \in Threads :
    /\ pc[t] \in {"ins_walk", "ins_table"} => arg[t] \in Handles
    /\ pc[t] = "ins_table" => level[t] < Depth - 1
    /\ pc[t] = "get_inc" => val[t] \in made
    /\ pc[t] = "rem_free" /\ val[t] # None => holds[t][val[t]] > 0

\* Nobody has an Arc of a value that is not made yet, and counts are exact.
ArcInv ==
  /\ \A v \in Values : IsFiniteSet(ArcsHeld(holds, v))
  /\ \A v \in Values \ made :
       (\A t \in Threads : holds[t][v] = 0) /\ (\A p \in Positions : slot[p] # v)
  /\ CountsAreExact

CountInv == TypeOK /\ CallInv /\ ArcInv

\* The cardinalities of ArcInv are numbers.
LEMMA ArcNumbers ==
  ASSUME CardinalityFacts, ArcInv, NEW v \in Values
  PROVE  /\ Cardinality(ArcsHeld(holds, v)) \in Nat /\ Cardinality(ArcsStored(slot, v)) \in Nat
         /\ strong[v] = Cardinality(ArcsHeld(holds, v)) + Cardinality(ArcsStored(slot, v))
  BY ArcsStoredFinite, Zenon DEF ArcInv, CountsAreExact, CardinalityFacts

\* No Arcs at the start.
LEMMA InitCount ==
  ASSUME CardinalityFacts, Init
  PROVE  CountInv
<1>1. 0 \in Positions /\ 0 \in 0 .. Depth - 1 /\ Root = TableFor(0, 0)
  BY DepthFits, PositionFacts DEF Positions
<1>2. TypeOK
  <2>1. tables \subseteq {TableFor(p, k) : p \in Positions, k \in 0 .. Depth - 1}
    BY <1>1 DEF Init
  <2>2. strong \in [Values -> Nat] /\ holds \in [Threads -> [Values -> Nat]]
    BY Zenon DEF Init
  <2>3. /\ allocated \subseteq Handles /\ made \subseteq Values
        /\ slot \in [Positions -> Values \cup {None}]
        /\ mine \in [Threads -> SUBSET Handles]
        /\ bound \in [Handles -> Values \cup {None}]
    BY Zenon DEF Init
  <2>4. /\ pc \in [Threads -> {"idle", "ins_walk", "ins_table", "get_walk", "get_inc",
                               "rem_walk", "rem_free", "panic"}]
        /\ arg \in [Threads -> Positions]
        /\ level \in [Threads -> 0 .. Depth - 1]
        /\ val \in [Threads -> Values \cup {None}]
        /\ dangling \in BOOLEAN /\ dropped \in BOOLEAN
    BY Zenon, <1>1 DEF Init
  <2>5. QED BY <2>1, <2>2, <2>3, <2>4 DEF TypeOK
<1>3. CallInv
  BY Zenon DEF Init, CallInv
<1>4. ASSUME NEW v \in Values
      PROVE  ArcsHeld(holds, v) = {} /\ ArcsStored(slot, v) = {}
  <2>1. ArcsStored(slot, v) = {}
    BY MapAssumption, Zenon DEF Init, ArcsStored
  <2>2. holds \in HoldsType /\ \A t \in Threads : holds[t][v] = 0
    BY Zenon DEF Init, HoldsType
  <2>3. \A x : x \notin ArcsHeld(holds, v)
    BY <2>2, ArcsHeldFacts
  <2>4. QED BY <2>1, <2>3, Zenon
<1>5. ArcInv
  <2>1. \A v \in Values : IsFiniteSet(ArcsHeld(holds, v)) /\ Cardinality(ArcsHeld(holds, v)) = 0
                          /\ Cardinality(ArcsStored(slot, v)) = 0
    BY Zenon, <1>4 DEF CardinalityFacts
  <2>2. CountsAreExact
    BY <2>1 DEF Init, CountsAreExact
  <2>3. QED BY <2>1, <2>2, MapAssumption, Zenon DEF Init, ArcInv
<1>6. QED BY <1>2, <1>3, <1>5, Zenon DEF CountInv

\* What TypeOK says of the local variables, and of the others.
LocalTypes ==
  /\ pc \in [Threads -> {"idle", "ins_walk", "ins_table", "get_walk", "get_inc",
                         "rem_walk", "rem_free", "panic"}]
  /\ arg \in [Threads -> Positions]
  /\ level \in [Threads -> 0 .. Depth - 1]
  /\ val \in [Threads -> Values \cup {None}]

DataTypes ==
  /\ allocated \subseteq Handles
  /\ tables \subseteq {TableFor(p, k) : p \in Positions, k \in 0 .. Depth - 1}
  /\ slot \in [Positions -> Values \cup {None}]
  /\ strong \in [Values -> Nat]
  /\ made \subseteq Values
  /\ holds \in [Threads -> [Values -> Nat]]
  /\ mine \in [Threads -> SUBSET Handles]
  /\ bound \in [Handles -> Values \cup {None}]
  /\ dangling \in BOOLEAN /\ dropped \in BOOLEAN

\* The two halves of TypeOK, before and after a step.
LEMMA TypeHalves ==
  /\ TypeOK => LocalTypes /\ DataTypes
  /\ LocalTypes' /\ DataTypes' => TypeOK'
<1>1. TypeOK => LocalTypes /\ DataTypes
  BY DEF TypeOK, LocalTypes, DataTypes
<1>2. LocalTypes' /\ DataTypes' => TypeOK'
  BY DEF TypeOK, LocalTypes, DataTypes
<1>3. QED BY <1>1, <1>2, Zenon

\* Thread u is where it was, with what it had.
SameCall(u) ==
  /\ pc'[u] = pc[u] /\ arg'[u] = arg[u] /\ level'[u] = level[u] /\ val'[u] = val[u]
  /\ \A w \in Values : holds'[u][w] = holds[u][w]

\* The return from a call.
LEMMA ReturnLocal ==
  ASSUME CountInv, NEW t \in Threads, Return(t)
  PROVE  /\ LocalTypes' /\ pc'[t] = "idle"
         /\ \A u \in Threads : u # t => /\ pc'[u] = pc[u] /\ arg'[u] = arg[u] /\ level'[u] = level[u]
                                        /\ val'[u] = val[u]
<1>1. LocalTypes
  BY TypeHalves, Zenon DEF CountInv
<1>2. 0 \in Positions /\ 0 \in 0 .. Depth - 1
  BY DepthFits DEF Positions
<1>3. LocalTypes'
  BY <1>1, <1>2, Zenon DEF Return, Goto, LocalTypes
<1>4. QED BY <1>1, <1>3, Zenon DEF Return, Goto, LocalTypes

\* A step of t that does not leave it in the middle of an insert or a get.
LEMMA OthersCall ==
  ASSUME CountInv, NEW t \in Threads, made \subseteq made',
         \A u \in Threads : u # t => SameCall(u),
         \/ pc'[t] \in {"idle", "panic", "get_walk", "rem_walk"}
         \/ pc'[t] = "rem_free" /\ (val'[t] # None => holds'[t][val'[t]] > 0)
  PROVE  CallInv'
<1> SUFFICES ASSUME NEW u \in Threads
             PROVE  /\ pc'[u] \in {"ins_walk", "ins_table"} => arg'[u] \in Handles
                    /\ pc'[u] = "ins_table" => level'[u] < Depth - 1
                    /\ pc'[u] = "get_inc" => val'[u] \in made'
                    /\ pc'[u] = "rem_free" /\ val'[u] # None => holds'[u][val'[u]] > 0
  BY Zenon DEF CallInv
<1>1. CASE u = t
  BY <1>1, Zenon
<1>2. CASE u # t
  <2>1. val[u] \in Values \cup {None}
    BY TypeHalves, Zenon DEF CountInv, LocalTypes
  <2>2. QED BY <1>2, <2>1 DEF CountInv, CallInv, SameCall
<1>3. QED BY <1>1, <1>2, Zenon

\* The start of a get or a remove.
LEMMA StartCall ==
  ASSUME CountInv, NEW t \in Threads, NEW h \in Positions, NEW label \in {"get_walk", "rem_walk"},
         Start(t, label, h), made' = made, holds' = holds
  PROVE  LocalTypes' /\ CallInv'
<1>1. LocalTypes
  BY TypeHalves, Zenon DEF CountInv
<1>2. 0 \in 0 .. Depth - 1
  BY DepthFits
<1>3. LocalTypes'
  BY <1>1, <1>2, Zenon DEF Start, Goto, LocalTypes
<1>4. /\ pc'[t] = label
      /\ \A u \in Threads : u # t => /\ pc'[u] = pc[u] /\ arg'[u] = arg[u] /\ level'[u] = level[u]
                                     /\ val'[u] = val[u]
  BY <1>1, Zenon DEF Start, Goto, LocalTypes
<1>5. \A u \in Threads : u # t => SameCall(u)
  BY Zenon, <1>4 DEF SameCall
<1>6. QED BY Zenon, <1>3, <1>4, <1>5, OthersCall

\* A step that ends the call of t.
LEMMA ReturnCall ==
  ASSUME CountInv, NEW t \in Threads, Return(t), made \subseteq made',
         \A u \in Threads : u # t => \A w \in Values : holds'[u][w] = holds[u][w]
  PROVE  LocalTypes' /\ CallInv'
<1>1. /\ LocalTypes' /\ pc'[t] = "idle"
      /\ \A u \in Threads : u # t => /\ pc'[u] = pc[u] /\ arg'[u] = arg[u] /\ level'[u] = level[u]
                                     /\ val'[u] = val[u]
  BY Zenon, ReturnLocal
<1>2. \A u \in Threads : u # t => SameCall(u)
  BY Zenon, <1>1 DEF SameCall
<1>3. QED BY Zenon, <1>1, <1>2, OthersCall

\* Steps that leave the Arcs alone.
LEMMA QuietCount ==
  ASSUME CountInv, NEW t \in Threads,
         \/ Insert(t) \/ InsertWalk(t) \/ InsertTable(t)
         \/ (\E h \in Positions : Get(t, h) \/ Remove(t, h)) \/ Walk(t) \/ GetLoad(t)
  PROVE  CountInv'
<1>1. UNCHANGED <<slot, strong, holds, made, dangling, dropped>>
  BY Zenon DEF Insert, InsertWalk, InsertTable, Get, Remove, Walk, GetLoad, data
<1>2. ArcInv'
  BY Zenon, <1>1 DEF CountInv, ArcInv, CountsAreExact
<1>3. 0 \in Positions /\ 0 \in 0 .. Depth - 1 /\ Handles \subseteq Positions
  BY DepthFits, PositionFacts DEF Positions
<1>4. level[t] \in Nat /\ (level[t] < Depth - 1 => level[t] + 1 \in 0 .. Depth - 1)
  BY DepthFits DEF CountInv, TypeOK
<1>5. CASE Insert(t)
  <2>1. PICK h \in Handles : Alloc!Take(h) /\ Start(t, "ins_walk", h)
    BY <1>5, Zenon DEF Insert
  <2>2. UNCHANGED <<tables, mine, bound>>
    BY <1>5, Zenon DEF Insert
  <2>3. TypeOK'
    BY <1>1, <1>3, <2>1, <2>2 DEF Alloc!Take, Start, Goto, CountInv, TypeOK
  <2>4. CallInv'
    BY <1>1, <2>1 DEF Start, Goto, CountInv, TypeOK, CallInv
  <2>5. QED BY <1>2, <2>3, <2>4, Zenon DEF CountInv
<1>6. CASE InsertWalk(t)
  <2>1. TypeOK'
    BY <1>1, <1>4, <1>6 DEF InsertWalk, Goto, data, CountInv, TypeOK
  <2>2. CallInv'
    BY <1>1, <1>6 DEF InsertWalk, At, Goto, data, CountInv, TypeOK, CallInv
  <2>3. QED BY <1>2, <2>1, <2>2, Zenon DEF CountInv
<1>7. CASE InsertTable(t)
  <2>1. level[t] + 1 \in 0 .. Depth - 1
    BY <1>4, <1>7, Zenon DEF InsertTable, At, CountInv, CallInv
  <2>2. TypeOK'
    <3>1. arg[t] \in Positions
      BY DEF CountInv, TypeOK
    <3>2. tables' \subseteq {TableFor(p, k) : p \in Positions, k \in 0 .. Depth - 1}
      BY <1>7, <2>1, <3>1 DEF InsertTable, CountInv, TypeOK
    <3>3. QED BY <1>1, <1>7, <2>1, <3>2 DEF InsertTable, Goto, CountInv, TypeOK
  <2>3. CallInv'
    <3>1. arg' = arg /\ val' = val /\ pc' = [pc EXCEPT ![t] = "ins_walk"] /\ pc[t] = "ins_table"
          /\ level' = [level EXCEPT ![t] = @ + 1]
      BY <1>7, Zenon DEF InsertTable, Goto, At
    <3>2. QED BY <1>1, <3>1 DEF CountInv, TypeOK, CallInv
  <2>4. QED BY <1>2, <2>2, <2>3, Zenon DEF CountInv
<1>8. CASE \E h \in Positions : Get(t, h)
  <2>1. PICK h \in Positions : Start(t, "get_walk", h) /\ UNCHANGED <<allocated, tables, mine, bound>>
    BY Zenon, <1>8 DEF Get, data
  <2>2. DataTypes'
    BY <1>1, <2>1, TypeHalves DEF CountInv, DataTypes
  <2>3. LocalTypes' /\ CallInv'
    BY Zenon, <1>1, <2>1, StartCall
  <2>4. QED BY <1>2, <2>2, <2>3, TypeHalves, Zenon DEF CountInv
<1>9. CASE \E h \in Positions : Remove(t, h)
  <2>1. PICK h \in Positions :
          /\ Start(t, "rem_walk", h) /\ UNCHANGED <<allocated, tables>>
          /\ mine' = [u \in Threads |-> mine[u] \ {h}]
          /\ bound' = [g \in Handles |-> IF g = h THEN None ELSE bound[g]]
    BY Zenon, <1>9 DEF Remove
  <2>2. DataTypes'
    <3>1. DataTypes
      BY TypeHalves, Zenon DEF CountInv
    <3>2. QED BY <1>1, <2>1, <3>1 DEF DataTypes
  <2>3. LocalTypes' /\ CallInv'
    BY Zenon, <1>1, <2>1, StartCall
  <2>4. QED BY <1>2, <2>2, <2>3, TypeHalves, Zenon DEF CountInv
<1>10. CASE Walk(t)
  <2>1. DataTypes'
    <3>1. DataTypes /\ UNCHANGED data
      BY <1>10, TypeHalves, Zenon DEF Walk, CountInv
    <3>2. QED BY <3>1 DEF data, DataTypes
  <2>2. CASE Return(t)
    <3>1. CallInv'
      BY <1>1, <2>2, ReturnCall, Zenon
    <3>2. QED BY <1>2, <2>1, <2>2, <3>1, ReturnLocal, TypeHalves, Zenon DEF CountInv
  <2>3. CASE level' = [level EXCEPT ![t] = @ + 1] /\ UNCHANGED <<pc, arg, val>>
    <3>1. level[t] < Depth - 1 /\ pc[t] \in {"get_walk", "rem_walk"} /\ LocalTypes
      BY <1>10, TypeHalves, Zenon DEF Walk, CountInv
    <3>2. LocalTypes' /\ \A u \in Threads : u # t => level'[u] = level[u]
      BY <1>4, <2>3, <3>1, Zenon DEF LocalTypes
    <3>3. CallInv'
      BY <1>1, <2>3, <3>1, <3>2, OthersCall, Zenon DEF SameCall
    <3>4. QED BY <1>2, <2>1, <3>2, <3>3, TypeHalves, Zenon DEF CountInv
  <2>4. QED BY <1>10, <2>2, <2>3, Zenon DEF Walk
<1>11. CASE GetLoad(t)
  <2>1. arg[t] \in Positions /\ Position(arg[t]) = arg[t] /\ slot[arg[t]] \in Values \cup {None}
    BY PositionFacts DEF CountInv, TypeOK
  <2>2. DataTypes'
    BY <1>1, <1>11, TypeHalves DEF GetLoad, data, CountInv, DataTypes
  <2>3. CASE Return(t)
    <3>1. CallInv'
      BY <1>1, <2>3, ReturnCall, Zenon
    <3>2. QED BY <1>2, <2>2, <2>3, <3>1, ReturnLocal, TypeHalves, Zenon DEF CountInv
  <2>4. CASE /\ val' = [val EXCEPT ![t] = slot[arg[t]]] /\ slot[arg[t]] # None
             /\ Goto(t, "get_inc") /\ UNCHANGED <<arg, level>>
    <3>1. slot[arg[t]] \in made
      BY <2>1, <2>4, Zenon DEF CountInv, ArcInv
    <3>2. LocalTypes
      BY TypeHalves, Zenon DEF CountInv
    <3>3. LocalTypes'
      BY <2>1, <2>4, <3>2, Zenon DEF Goto, LocalTypes
    <3>4. CallInv'
      <4>1. /\ pc'[t] = "get_inc" /\ val'[t] \in made' /\ UNCHANGED <<arg, level, holds, made>>
            /\ \A u \in Threads : u # t => pc'[u] = pc[u] /\ val'[u] = val[u]
        BY <1>1, <2>4, <3>1, <3>2, Zenon DEF Goto, LocalTypes
      <4>2. QED BY <4>1, Zenon DEF CountInv, CallInv
    <3>5. QED BY <1>2, <2>2, <3>3, <3>4, TypeHalves, Zenon DEF CountInv
  <2>5. QED BY <1>11, <2>1, <2>3, <2>4, Zenon DEF GetLoad
<1>12. QED BY <1>5, <1>6, <1>7, <1>8, <1>9, <1>10, <1>11, Zenon


\* insert_self_referential makes two Arcs, one for the caller and one for the
\* table; when the assertion fails the thread also owns the one it displaced.
LEMMA InsertPutCount ==
  ASSUME CardinalityFacts, CountInv, NEW t \in Threads, NEW v \in Values, InsertPut(t, v)
  PROVE  CountInv'
<1> DEFINE p == arg[t]
           old == slot[p]
<1>1. p \in Positions /\ Position(p) = p /\ old \in Values \cup {None}
  BY PositionFacts DEF CountInv, TypeOK
<1>2. /\ holds \in HoldsType /\ slot \in SlotType /\ strong \in [Values -> Nat]
      /\ v \notin made /\ made' = made \cup {v}
      /\ strong' = [strong EXCEPT ![v] = 2]
      /\ slot' = [slot EXCEPT ![p] = v]
      /\ UNCHANGED <<allocated, tables, dangling, dropped>>
  BY <1>1 DEF CountInv, TypeOK, HoldsType, SlotType, InsertPut, MakeValue, PutValue
<1> HIDE DEF p, old
<1>3. /\ holds[t][v] = 0 /\ old # v /\ v # None
      /\ ArcsHeld(holds, v) = {} /\ ArcsStored(slot, v) = {}
  <2>1. \A u \in Threads : holds[u][v] = 0
    BY <1>2, Zenon DEF CountInv, ArcInv
  <2>2. \A q \in Positions : slot[q] # v
    BY <1>2, Zenon DEF CountInv, ArcInv
  <2>3. \A x : x \notin ArcsHeld(holds, v)
    BY <1>2, <2>1, ArcsHeldFacts
  <2>4. QED BY <1>1, <2>1, <2>2, <2>3, MapAssumption, Zenon DEF ArcsStored, old
<1>4. \A w \in Values : /\ IsFiniteSet(ArcsHeld(holds, w))
                        /\ Cardinality(ArcsHeld(holds, w)) \in Nat
                        /\ Cardinality(ArcsStored(slot, w)) \in Nat
                        /\ strong[w] = Cardinality(ArcsHeld(holds, w)) + Cardinality(ArcsStored(slot, w))
  BY ArcNumbers, Zenon DEF CountInv, ArcInv
<1>5. /\ Cardinality(ArcsStored(slot', v)) = 1
      /\ \A w \in Values : w # v =>
           Cardinality(ArcsStored(slot', w)) =
             IF w = old THEN Cardinality(ArcsStored(slot, w)) - 1 ELSE Cardinality(ArcsStored(slot, w))
  <2>1. ASSUME NEW w \in Values
        PROVE  Cardinality(ArcsStored(slot', w)) =
                 IF w = v THEN Cardinality(ArcsStored(slot, w)) + 1
                 ELSE IF w = old THEN Cardinality(ArcsStored(slot, w)) - 1
                 ELSE Cardinality(ArcsStored(slot, w))
    <3>1. /\ old = slot[p] /\ v # slot[p] /\ p \in Positions /\ slot \in SlotType
      BY <1>1, <1>2, <1>3, Zenon DEF old
    <3>2. slot' \in SlotType /\ slot'[p] = v /\ \A q \in Positions : q # p => slot'[q] = slot[q]
      BY <1>1, <1>2, Zenon DEF SlotType
    <3>3. Cardinality(ArcsStored(slot', w)) =
            IF w = v THEN Cardinality(ArcsStored(slot, w)) + 1
            ELSE IF w = slot[p] THEN Cardinality(ArcsStored(slot, w)) - 1
            ELSE Cardinality(ArcsStored(slot, w))
      BY <3>1, <3>2, ArcsSwap
    <3>4. QED BY <3>1, <3>3, Zenon
  <2>2. Cardinality(ArcsStored(slot, v)) = 0
    BY Zenon, <1>3 DEF CardinalityFacts
  <2>3. QED BY <1>3, <2>1, <2>2
<1> DEFINE g == [holds EXCEPT ![t][v] = 1]
<1>6. /\ OneHeld(holds, g, t, v, 1) /\ g \in HoldsType
      /\ IsFiniteSet(ArcsHeld(g, v)) /\ Cardinality(ArcsHeld(g, v)) = 1
      /\ \A w \in Values : w # v => ArcsHeld(g, w) = ArcsHeld(holds, w)
  <2>1. OneHeld(holds, g, t, v, 1)
    BY <1>2, OneHeldExcept, Zenon
  <2>2. OneHeld(holds, g, t, v, holds[t][v] + 1)
    BY <1>3, <2>1
  <2> HIDE DEF g
  <2>3. IsFiniteSet(ArcsHeld(g, v)) /\ Cardinality(ArcsHeld(g, v)) = Cardinality(ArcsHeld(holds, v)) + 1
    BY <1>2, <1>4, <2>2, ArcsAdd, Zenon
  <2>4. \A w \in Values : w # v => ArcsHeld(g, w) = ArcsHeld(holds, w)
    BY <1>2, <2>1, ArcsOther
  <2>5. Cardinality(ArcsHeld(holds, v)) = 0
    BY Zenon, <1>3 DEF CardinalityFacts
  <2>6. QED BY <2>1, <2>3, <2>4, <2>5 DEF OneHeld
<1>7. ASSUME \/ old = None /\ holds' = g
             \/ old # None /\ OneHeld(g, holds', t, old, g[t][old] + 1)
      PROVE  ArcInv'
  <2> HIDE DEF g
  <2>1. ASSUME NEW w \in Values
        PROVE  /\ IsFiniteSet(ArcsHeld(holds', w))
               /\ Cardinality(ArcsHeld(holds', w)) =
                    IF w = v THEN 1
                    ELSE IF w = old THEN Cardinality(ArcsHeld(holds, w)) + 1
                    ELSE Cardinality(ArcsHeld(holds, w))
    <3>1. CASE old = None
      BY <1>4, <1>6, <1>7, <3>1, MapAssumption, Zenon
    <3>2. CASE old # None /\ w = old
      BY <1>1, <1>3, <1>4, <1>6, <1>7, <3>2, ArcsAdd
    <3>3. CASE old # None /\ w # old
      <4>1. ArcsHeld(holds', w) = ArcsHeld(g, w)
        BY <1>1, <1>6, <1>7, <3>3, ArcsOther
      <4>2. QED BY <1>4, <1>6, <3>3, <4>1, Zenon
    <3>4. QED BY <3>1, <3>2, <3>3, Zenon
  <2>2. ASSUME NEW w \in Values
        PROVE  strong'[w] = Cardinality(ArcsHeld(holds', w)) + Cardinality(ArcsStored(slot', w))
    <3>1. CASE w = v
      BY <1>2, <1>5, <2>1, <3>1
    <3>2. CASE w # v
      <4> DEFINE a == Cardinality(ArcsHeld(holds, w))
                 b == Cardinality(ArcsStored(slot, w))
      <4>1. a \in Nat /\ b \in Nat /\ strong'[w] = a + b
        BY <1>2, <1>4, <3>2, Zenon
      <4>2. /\ Cardinality(ArcsHeld(holds', w)) = IF w = old THEN a + 1 ELSE a
            /\ Cardinality(ArcsStored(slot', w)) = IF w = old THEN b - 1 ELSE b
        BY <1>5, <2>1, <3>2, Zenon
      <4> HIDE DEF a, b
      <4>3. QED BY <4>1, <4>2
    <3>3. QED BY <3>1, <3>2, Zenon
  <2>3. ASSUME NEW w \in Values \ made'
        PROVE  (\A u \in Threads : holds'[u][w] = 0) /\ (\A q \in Positions : slot'[q] # w)
    <3>1. w # v /\ w \notin made /\ \A q \in Positions : slot[q] # w
      BY <1>2, Zenon DEF CountInv, ArcInv
    <3>2. w # old
      BY <1>1, <3>1, Zenon DEF old
    <3>3. \A u \in Threads : holds[u][w] = 0
      BY <3>1, Zenon DEF CountInv, ArcInv
    <3>4. \A u \in Threads : g[u][w] = 0
      BY <1>6, <3>1, <3>3, Zenon DEF OneHeld
    <3>5. \A u \in Threads : holds'[u][w] = 0
      BY <1>7, <3>2, <3>4, Zenon DEF OneHeld
    <3>6. QED BY <1>1, <1>2, <3>1, <3>5, Zenon DEF SlotType
  <2>4. QED BY <2>1, <2>2, <2>3, Zenon DEF ArcInv, CountsAreExact
<1>8. p \in Handles /\ pc[t] = "ins_walk"
  BY Zenon DEF InsertPut, PutValue, At, CountInv, CallInv, p
<1>9. /\ strong' \in [Values -> Nat] /\ made' \subseteq Values
      /\ slot' \in [Positions -> Values \cup {None}]
      /\ allocated' \subseteq Handles /\ dangling' \in BOOLEAN /\ dropped' \in BOOLEAN
      /\ tables' \subseteq {TableFor(q, k) : q \in Positions, k \in 0 .. Depth - 1}
  <2>1. 2 \in Nat
    BY Zenon
  <2>2. strong' \in [Values -> Nat] /\ made' \subseteq Values /\ slot' \in [Positions -> Values \cup {None}]
    BY <1>1, <1>2, <2>1 DEF CountInv, TypeOK
  <2>3. QED BY <1>2, <2>2 DEF CountInv, TypeOK
<1>10. CASE old = None
  <2>1. /\ Return(t) /\ holds' = g
        /\ mine' = [mine EXCEPT ![t] = @ \cup {p}]
        /\ bound' = [bound EXCEPT ![p] = v]
    BY <1>1, <1>10, Zenon DEF InsertPut, PutValue, p, old
  <2>2. holds' \in [Threads -> [Values -> Nat]]
    BY <1>6, <2>1, Zenon DEF HoldsType
  <2>3. mine' \in [Threads -> SUBSET Handles] /\ bound' \in [Handles -> Values \cup {None}]
    BY <1>8, <2>1, TypeHalves DEF CountInv, DataTypes
  <2>4. CallInv'
    <3>1. \A u \in Threads : u # t => \A w \in Values : holds'[u][w] = holds[u][w]
      BY <1>6, <2>1, Zenon DEF OneHeld
    <3>2. made \subseteq made'
      BY <1>2, Zenon
    <3>3. QED BY Zenon, <2>1, <3>1, <3>2, ReturnCall
  <2>5. DataTypes'
    BY <1>9, <2>2, <2>3 DEF DataTypes
  <2>6. QED BY <1>7, <1>10, <2>1, <2>4, <2>5, ReturnLocal, TypeHalves, Zenon DEF CountInv
<1>11. CASE old # None
  <2>1. /\ Goto(t, "panic") /\ holds' = [holds EXCEPT ![t][v] = 1, ![t][old] = @ + 1]
        /\ UNCHANGED <<arg, level, val, mine, bound>>
    BY <1>1, <1>11, Zenon DEF InsertPut, PutValue, p, old
  <2>2. OneHeld(g, holds', t, old, g[t][old] + 1)
    BY <1>1, <1>2, <1>3, <1>11, <2>1 DEF OneHeld, HoldsType
  <2> HIDE DEF g
  <2>3. LocalTypes /\ DataTypes
    BY TypeHalves, Zenon DEF CountInv
  <2>4. LocalTypes' /\ pc'[t] = "panic" /\ \A u \in Threads : u # t => pc'[u] = pc[u]
    BY <2>1, <2>3, Zenon DEF Goto, LocalTypes
  <2>5. DataTypes'
    <3>1. holds' \in [Threads -> [Values -> Nat]]
      BY <2>2, Zenon DEF OneHeld, HoldsType
    <3>2. mine' \in [Threads -> SUBSET Handles] /\ bound' \in [Handles -> Values \cup {None}]
      BY <2>1, <2>3 DEF DataTypes
    <3>3. QED BY <1>9, <3>1, <3>2 DEF DataTypes
  <2>6. CallInv'
    <3>1. \A u \in Threads : u # t => \A w \in Values : holds'[u][w] = holds[u][w]
      BY <1>6, <2>2 DEF OneHeld
    <3>2. made \subseteq made'
      BY <1>2, Zenon
    <3>3. \A u \in Threads : u # t => SameCall(u)
      BY Zenon, <2>1, <2>4, <3>1 DEF SameCall
    <3>4. QED BY Zenon, <2>4, <3>2, <3>3, OthersCall
  <2>7. QED BY <1>7, <1>11, <2>2, <2>4, <2>5, <2>6, TypeHalves, Zenon DEF CountInv
<1>12. QED BY <1>10, <1>11, Zenon

\* An Arc more, or an Arc less, with the count that goes with it.
LEMMA OneArcCount ==
  ASSUME CardinalityFacts, CountInv, NEW t \in Threads, NEW v \in made, NEW n, OneHeld(holds, holds', t, v, n),
         slot' = slot, made' = made,
         \/ n = holds[t][v] + 1 /\ strong' = [strong EXCEPT ![v] = @ + 1]
         \/ holds[t][v] > 0 /\ n = holds[t][v] - 1 /\ strong' = [strong EXCEPT ![v] = @ - 1]
  PROVE  ArcInv' /\ strong' \in [Values -> Nat]
<1>1. v \in Values /\ holds \in HoldsType /\ strong \in [Values -> Nat] /\ holds[t][v] \in Nat
  BY DEF CountInv, TypeOK, HoldsType
<1>2. \A w \in Values : /\ IsFiniteSet(ArcsHeld(holds, w))
                        /\ Cardinality(ArcsHeld(holds, w)) \in Nat
                        /\ Cardinality(ArcsStored(slot, w)) \in Nat
                        /\ strong[w] = Cardinality(ArcsHeld(holds, w)) + Cardinality(ArcsStored(slot, w))
  BY ArcNumbers, Zenon DEF CountInv, ArcInv
<1>3. /\ IsFiniteSet(ArcsHeld(holds', v))
      /\ strong'[v] = Cardinality(ArcsHeld(holds', v)) + Cardinality(ArcsStored(slot, v))
  <2>1. CASE n = holds[t][v] + 1 /\ strong' = [strong EXCEPT ![v] = @ + 1]
    <3>1. /\ IsFiniteSet(ArcsHeld(holds', v))
          /\ Cardinality(ArcsHeld(holds', v)) = Cardinality(ArcsHeld(holds, v)) + 1
      BY <1>1, <1>2, <2>1, ArcsAdd
    <3>2. QED BY <1>1, <1>2, <2>1, <3>1
  <2>2. CASE holds[t][v] > 0 /\ n = holds[t][v] - 1 /\ strong' = [strong EXCEPT ![v] = @ - 1]
    <3>1. /\ IsFiniteSet(ArcsHeld(holds', v))
          /\ Cardinality(ArcsHeld(holds', v)) = Cardinality(ArcsHeld(holds, v)) - 1
      BY <1>1, <1>2, <2>2, ArcsDrop, Zenon
    <3>2. QED BY <1>1, <1>2, <2>2, <3>1
  <2>3. QED BY <2>1, <2>2, Zenon
<1>4. \A w \in Values : w # v => ArcsHeld(holds', w) = ArcsHeld(holds, w) /\ strong'[w] = strong[w]
  <2>1. \A w \in Values : w # v => ArcsHeld(holds', w) = ArcsHeld(holds, w)
    BY <1>1, ArcsOther
  <2>2. QED BY <1>1, <2>1, Zenon
<1>5. CountsAreExact'
  <2> SUFFICES ASSUME NEW w \in Values
               PROVE  strong'[w] = Cardinality(ArcsHeld(holds', w)) + Cardinality(ArcsStored(slot', w))
    BY Zenon DEF CountsAreExact
  <2>1. CASE w = v
    BY <1>3, <2>1, Zenon
  <2>2. CASE w # v
    BY <1>2, <1>4, <2>2, Zenon
  <2>3. QED BY <2>1, <2>2, Zenon
<1>6. ASSUME NEW w \in Values \ made'
      PROVE  (\A u \in Threads : holds'[u][w] = 0) /\ (\A p \in Positions : slot'[p] # w)
  BY Zenon DEF CountInv, ArcInv, OneHeld
<1>7. \A w \in Values : IsFiniteSet(ArcsHeld(holds', w))
  BY <1>2, <1>3, <1>4, Zenon
<1>8. strong' \in [Values -> Nat]
  <2>1. strong'[v] \in Nat
    <3>1. Cardinality(ArcsHeld(holds', v)) \in Nat
      BY <1>3, Zenon DEF CardinalityFacts
    <3>2. QED BY <1>1, <1>2, <1>3, <3>1
  <2>2. QED BY <1>1, <2>1, Zenon
<1>9. QED BY <1>5, <1>6, <1>7, <1>8, Zenon DEF ArcInv

\* Drop of an Arc.
LEMMA DropRefCount ==
  ASSUME CardinalityFacts, CountInv, NEW t \in Threads, NEW v \in made, holds[t][v] > 0, DropRef(t, v),
         slot' = slot, made' = made
  PROVE  /\ ArcInv' /\ strong' \in [Values -> Nat] /\ holds' \in [Threads -> [Values -> Nat]]
         /\ \A u \in Threads : u # t => \A w \in Values : holds'[u][w] = holds[u][w]
<1>1. v \in Values /\ holds \in HoldsType /\ holds[t][v] - 1 \in Nat
  BY DEF CountInv, TypeOK, HoldsType
<1>2. holds' = [holds EXCEPT ![t][v] = holds[t][v] - 1] /\ strong' = [strong EXCEPT ![v] = @ - 1]
  BY Zenon DEF DropRef
<1>3. OneHeld(holds, holds', t, v, holds[t][v] - 1)
  BY Zenon, <1>1, <1>2, OneHeldExcept
<1>4. ArcInv' /\ strong' \in [Values -> Nat]
  BY Zenon, <1>2, <1>3, OneArcCount
<1>5. QED BY <1>3, <1>4, Zenon DEF OneHeld, HoldsType

\* get_value: the caller's Arc is counted.
LEMMA GetIncrementCount ==
  ASSUME CardinalityFacts, CountInv, NEW t \in Threads, GetIncrement(t)
  PROVE  CountInv'
<1> DEFINE v == val[t]
<1>1. v \in made /\ v \in Values
  BY DEF GetIncrement, At, CountInv, CallInv, TypeOK
<1>2. /\ holds' = [holds EXCEPT ![t][v] = holds[t][v] + 1] /\ strong' = [strong EXCEPT ![v] = @ + 1]
      /\ Return(t) /\ dangling' = (dangling \/ strong[v] = 0)
      /\ UNCHANGED <<allocated, tables, slot, made, mine, bound, dropped>>
  BY Zenon DEF GetIncrement
<1> HIDE DEF v
<1>3. OneHeld(holds, holds', t, v, holds[t][v] + 1)
  <2>1. holds \in HoldsType /\ holds[t][v] + 1 \in Nat
    BY <1>1 DEF CountInv, TypeOK, HoldsType
  <2>2. QED BY Zenon, <1>1, <1>2, <2>1, OneHeldExcept
<1>4. ArcInv' /\ strong' \in [Values -> Nat]
  BY Zenon, <1>1, <1>2, <1>3, OneArcCount
<1>5. DataTypes'
  <2>1. dangling' \in BOOLEAN
    BY Zenon, <1>2 DEF CountInv, TypeOK
  <2>2. holds' \in [Threads -> [Values -> Nat]]
    BY <1>3, Zenon DEF OneHeld, HoldsType
  <2>3. QED BY <1>2, <1>4, <2>1, <2>2, TypeHalves DEF CountInv, DataTypes
<1>6. CallInv'
  <2>1. \A u \in Threads : u # t => \A w \in Values : holds'[u][w] = holds[u][w]
    BY <1>3, Zenon DEF OneHeld
  <2>2. QED BY <1>2, <2>1, ReturnLocal, OthersCall, Zenon DEF SameCall
<1>7. QED BY <1>2, <1>4, <1>5, <1>6, ReturnLocal, TypeHalves, Zenon DEF CountInv

\* take_value: the Arc of the table becomes the thread's.
LEMMA RemoveTakeCount ==
  ASSUME CardinalityFacts, CountInv, NEW t \in Threads, RemoveTake(t)
  PROVE  CountInv'
<1> DEFINE p == arg[t]
           v == slot[p]
<1>1. p \in Positions /\ Position(p) = p /\ v \in Values \cup {None}
  BY PositionFacts DEF CountInv, TypeOK
<1>2. /\ holds \in HoldsType /\ slot \in SlotType
      /\ slot' = [slot EXCEPT ![p] = None] /\ val' = [val EXCEPT ![t] = v]
      /\ pc' = [pc EXCEPT ![t] = "rem_free"]
      /\ IF v = None THEN holds' = holds ELSE holds' = [holds EXCEPT ![t][v] = holds[t][v] + 1]
      /\ UNCHANGED <<allocated, tables, strong, made, mine, bound, dangling, dropped, arg, level>>
  BY <1>1 DEF RemoveTake, Goto, CountInv, TypeOK, HoldsType, SlotType
<1>3. v = slot[p] /\ (v # None => v \in made)
  BY <1>1, Zenon DEF CountInv, ArcInv
<1> HIDE DEF p, v
<1>4. slot' \in SlotType /\ slot'[p] = None /\ \A q \in Positions : q # p => slot'[q] = slot[q]
  BY <1>1, <1>2, Zenon DEF SlotType
<1>5. v # None => v \in Values /\ holds[t][v] \in Nat /\ OneHeld(holds, holds', t, v, holds[t][v] + 1)
  <2> SUFFICES ASSUME v # None PROVE v \in Values /\ holds[t][v] \in Nat /\ OneHeld(holds, holds', t, v, holds[t][v] + 1)
    BY Zenon
  <2>1. v \in Values /\ holds[t][v] \in Nat /\ holds[t][v] + 1 \in Nat
    BY <1>1, <1>2 DEF HoldsType
  <2>2. QED BY <1>2, <2>1, OneHeldExcept
<1>6. ASSUME NEW w \in Values
      PROVE  /\ IsFiniteSet(ArcsHeld(holds', w))
             /\ strong'[w] = Cardinality(ArcsHeld(holds', w)) + Cardinality(ArcsStored(slot', w))
  <2> DEFINE a == Cardinality(ArcsHeld(holds, w))
             b == Cardinality(ArcsStored(slot, w))
  <2>1. a \in Nat /\ b \in Nat /\ strong'[w] = a + b /\ IsFiniteSet(ArcsHeld(holds, w))
    BY <1>2, ArcNumbers, Zenon DEF CountInv, ArcInv
  <2>2. w # None
    BY MapAssumption, Zenon
  <2>3. CASE v = None
    <3>1. slot' = slot
      BY Zenon, <1>1, <1>2, <1>3, <1>4, <2>3 DEF SlotType
    <3>2. holds' = holds
      BY <1>2, <2>3, Zenon
    <3>3. QED BY Zenon, <2>1, <3>1, <3>2
  <2>4. CASE v # None
    <3>1. Cardinality(ArcsStored(slot', w)) = IF w = slot[p] THEN b - 1 ELSE b
      <4>1. /\ slot \in SlotType /\ p \in Positions /\ None # slot[p]
        BY <1>1, <1>2, <1>3, <2>4, Zenon
      <4>2. Cardinality(ArcsStored(slot', w)) =
              IF w = None THEN b + 1 ELSE IF w = slot[p] THEN b - 1 ELSE b
        BY <1>4, <4>1, ArcsSwap
      <4>3. QED BY <2>2, <4>2, Zenon
    <3>2. CASE w = v
      <4>1. IsFiniteSet(ArcsHeld(holds', w)) /\ Cardinality(ArcsHeld(holds', w)) = a + 1
        BY <1>2, <1>5, <2>1, <2>4, <3>2, ArcsAdd, Zenon
      <4> HIDE DEF a, b
      <4>2. QED BY <1>3, <2>1, <3>1, <3>2, <4>1
    <3>3. CASE w # v
      <4>1. ArcsHeld(holds', w) = ArcsHeld(holds, w)
        BY <1>2, <1>5, <2>4, <3>3, ArcsOther
      <4>2. Cardinality(ArcsStored(slot', w)) = b
        BY <1>3, <3>1, <3>3, Zenon
      <4>3. QED BY Zenon, <2>1, <4>1, <4>2
    <3>4. QED BY <3>2, <3>3, Zenon
  <2>5. QED BY <2>3, <2>4, Zenon
<1>7. ArcInv'
  <2>1. ASSUME NEW w \in Values \ made'
        PROVE  (\A u \in Threads : holds'[u][w] = 0) /\ (\A q \in Positions : slot'[q] # w)
    <3>1. (\A u \in Threads : holds[u][w] = 0) /\ (\A q \in Positions : slot[q] # w) /\ w # None
      BY <1>2, MapAssumption, Zenon DEF CountInv, ArcInv
    <3>2. w # v
      BY <1>2, <1>3, <3>1, Zenon
    <3>3. \A u \in Threads : holds'[u][w] = 0
      BY <1>2, <1>5, <3>1, <3>2, Zenon DEF OneHeld
    <3>4. QED BY <1>4, <3>1, <3>3, Zenon
  <2>2. QED BY <1>6, <2>1, Zenon DEF ArcInv, CountsAreExact
<1>8. LocalTypes /\ DataTypes
  BY TypeHalves, Zenon DEF CountInv
<1>9. LocalTypes' /\ pc'[t] = "rem_free" /\ val'[t] = v
      /\ \A u \in Threads : u # t => pc'[u] = pc[u] /\ val'[u] = val[u]
  BY <1>1, <1>2, <1>8, Zenon DEF LocalTypes
<1>10. DataTypes'
  <2>1. holds' \in [Threads -> [Values -> Nat]]
    BY <1>2, <1>5, Zenon DEF OneHeld, HoldsType
  <2>2. slot' \in [Positions -> Values \cup {None}]
    BY <1>4, Zenon DEF SlotType
  <2>3. QED BY <1>2, <1>8, <2>1, <2>2 DEF DataTypes
<1>11. CallInv'
  <2>1. \A u \in Threads : u # t => \A w \in Values : holds'[u][w] = holds[u][w]
    BY <1>2, <1>5, Zenon DEF OneHeld
  <2>2. v # None => holds'[t][v] > 0
    BY <1>5 DEF OneHeld
  <2>3. QED BY <1>2, <1>9, <2>1, <2>2, OthersCall, Zenon DEF SameCall
<1>12. QED BY <1>7, <1>9, <1>10, <1>11, TypeHalves, Zenon DEF CountInv

\* free_handle(handle).ok()?: when it fails the taken Arc is dropped.
LEMMA RemoveFreeCount ==
  ASSUME CardinalityFacts, CountInv, NEW t \in Threads, RemoveFree(t)
  PROVE  CountInv'
<1> DEFINE v == val[t]
<1>1. /\ Return(t) /\ UNCHANGED <<tables, slot, made, mine, bound, dangling, dropped>>
      /\ allocated' \subseteq allocated
      /\ \/ UNCHANGED <<strong, holds>>
         \/ v # None /\ DropRef(t, v)
  BY Zenon DEF RemoveFree, Alloc!Release
<1>2. v # None => v \in made /\ v \in Values /\ holds[t][v] > 0
  <2>1. v \in Values \cup {None} /\ (v # None => holds[t][v] > 0)
    BY DEF RemoveFree, At, CountInv, TypeOK, CallInv
  <2>2. v \in Values \ made => holds[t][v] = 0
    BY Zenon DEF CountInv, ArcInv
  <2>3. QED BY <2>1, <2>2
<1> HIDE DEF v
<1>3. /\ ArcInv' /\ strong' \in [Values -> Nat] /\ holds' \in [Threads -> [Values -> Nat]]
      /\ \A u \in Threads : u # t => \A w \in Values : holds'[u][w] = holds[u][w]
  <2>1. CASE UNCHANGED <<strong, holds>>
    <3>1. ArcInv'
      BY Zenon, <1>1, <2>1 DEF CountInv, ArcInv, CountsAreExact
    <3>2. QED BY <2>1, <3>1 DEF CountInv, TypeOK
  <2>2. CASE v # None /\ DropRef(t, v)
    BY <1>1, <1>2, <2>2, DropRefCount, Zenon
  <2>3. QED BY <1>1, <2>1, <2>2, Zenon
<1>4. DataTypes'
  BY <1>1, <1>3, TypeHalves DEF CountInv, DataTypes
<1>5. CallInv'
  BY <1>1, <1>3, ReturnLocal, OthersCall, Zenon DEF SameCall
<1>6. QED BY <1>1, <1>3, <1>4, <1>5, ReturnLocal, TypeHalves, Zenon DEF CountInv

\* A thread drops an Arc.
LEMMA DropArcCount ==
  ASSUME CardinalityFacts, CountInv, NEW t \in Threads, NEW v \in Values, DropArc(t, v)
  PROVE  CountInv'
<1>1. /\ holds[t][v] > 0 /\ DropRef(t, v) /\ pc[t] = "idle"
      /\ UNCHANGED <<allocated, tables, slot, made, mine, bound, dangling, dropped, pc, arg, level, val>>
  BY Zenon DEF DropArc, At
<1>2. v \in made
  BY <1>1 DEF CountInv, ArcInv
<1>3. /\ ArcInv' /\ strong' \in [Values -> Nat] /\ holds' \in [Threads -> [Values -> Nat]]
      /\ \A u \in Threads : u # t => \A w \in Values : holds'[u][w] = holds[u][w]
  BY <1>1, <1>2, DropRefCount, Zenon
<1>4. LocalTypes'
  <2>1. LocalTypes
    BY TypeHalves, Zenon DEF CountInv
  <2>2. QED BY <1>1, <2>1, Zenon DEF LocalTypes
<1>5. DataTypes'
  BY <1>1, <1>3, TypeHalves DEF CountInv, DataTypes
<1>6. CallInv'
  BY <1>1, <1>3, OthersCall, Zenon DEF SameCall
<1>7. QED BY <1>3, <1>4, <1>5, <1>6, TypeHalves, Zenon DEF CountInv

\* Drop for HandleMap: the Arcs of the tables go with the tables.
LEMMA DropMapCount ==
  ASSUME CardinalityFacts, CountInv, DropMap
  PROVE  CountInv'
<1>1. /\ UNCHANGED <<allocated, made, holds, dangling, pc, arg, level, val>>
      /\ \A t \in Threads : pc[t] = "idle"
      /\ dropped' = TRUE /\ tables' = {}
      /\ slot' = [p \in Positions |-> None]
      /\ bound' = [h \in Handles |-> None]
      /\ mine' = [t \in Threads |-> {}]
      /\ strong' = [v \in Values |-> strong[v] - Cardinality(ArcsStored(slot, v))]
  BY Zenon DEF DropMap, At
<1>2. ASSUME NEW v \in Values
      PROVE  /\ strong'[v] = Cardinality(ArcsHeld(holds, v)) /\ strong'[v] \in Nat
             /\ Cardinality(ArcsStored(slot', v)) = 0
  <2>1. ArcsStored(slot', v) = {}
    BY <1>1, MapAssumption, Zenon DEF ArcsStored
  <2>2. Cardinality(ArcsStored(slot', v)) = 0
    BY <2>1, Zenon DEF CardinalityFacts
  <2>3. /\ Cardinality(ArcsHeld(holds, v)) \in Nat /\ Cardinality(ArcsStored(slot, v)) \in Nat
        /\ strong[v] = Cardinality(ArcsHeld(holds, v)) + Cardinality(ArcsStored(slot, v))
    BY ArcNumbers, Zenon DEF CountInv
  <2>4. QED BY <1>1, <2>2, <2>3
<1>3. ArcInv'
  <2>1. CountsAreExact'
    BY <1>1, <1>2 DEF CountsAreExact
  <2>2. QED BY <1>1, <2>1, MapAssumption, Zenon DEF CountInv, ArcInv
<1>4. TypeOK'
  <2>1. strong' \in [Values -> Nat]
    BY <1>1, <1>2, Zenon
  <2>2. /\ slot' \in [Positions -> Values \cup {None}]
        /\ bound' \in [Handles -> Values \cup {None}]
        /\ mine' \in [Threads -> SUBSET Handles]
    BY Zenon, <1>1
  <2>3. dropped' \in BOOLEAN /\ tables' \subseteq {TableFor(p, k) : p \in Positions, k \in 0 .. Depth - 1}
    BY <1>1
  <2>4. QED BY <1>1, <2>1, <2>2, <2>3 DEF CountInv, TypeOK
<1>5. CallInv'
  BY <1>1, Zenon DEF CountInv, CallInv
<1>6. QED BY <1>3, <1>4, <1>5, Zenon DEF CountInv

\* Every step keeps the counts exact.
LEMMA NextCount ==
  ASSUME CardinalityFacts, CountInv, [Next]_vars
  PROVE  CountInv'
<1>1. CASE UNCHANGED vars
  <2>1. TypeOK'
    BY <1>1 DEF CountInv, TypeOK, vars, data
  <2>2. CallInv'
    BY <1>1, Zenon DEF CountInv, CallInv, vars, data
  <2>3. ArcInv'
    BY <1>1, Zenon DEF CountInv, ArcInv, CountsAreExact, vars, data
  <2>4. QED BY <2>1, <2>2, <2>3, Zenon DEF CountInv
<1>2. CASE DropMap
  BY <1>2, DropMapCount, Zenon
<1>3. ASSUME NEW t \in Threads,
             \/ Insert(t) \/ InsertWalk(t) \/ InsertTable(t) \/ \E v \in Values : InsertPut(t, v)
             \/ \E h \in Positions : Get(t, h) \/ Remove(t, h)
             \/ Walk(t) \/ GetLoad(t) \/ GetIncrement(t) \/ RemoveTake(t) \/ RemoveFree(t)
             \/ \E v \in Values : DropArc(t, v)
      PROVE  CountInv'
  BY <1>3, QuietCount, InsertPutCount, GetIncrementCount, RemoveTakeCount, RemoveFreeCount, DropArcCount, Zenon
<1>4. QED BY <1>1, <1>2, <1>3, Zenon DEF Next

-----------------------------------------------------------------------------
\* Thread t is between taking handle h and the end of the insert, or between
\* the call of remove for h and the release of it.
Busy(t, h) ==
  /\ pc[t] \in {"ins_walk", "ins_table", "rem_walk", "rem_free"}
  /\ arg[t] = h

TypeInv ==
  /\ allocated \subseteq Handles
  /\ slot \in [Positions -> Values \cup {None}]
  /\ mine \in [Threads -> SUBSET Handles]
  /\ bound \in [Handles -> Values \cup {None}]
  /\ pc \in [Threads -> {"idle", "ins_walk", "ins_table", "get_walk", "get_inc",
                         "rem_walk", "rem_free"}]
  /\ arg \in [Threads -> Positions]
  /\ level \in [Threads -> 0 .. Depth - 1]
  /\ dropped \in BOOLEAN

\* An allocated handle has one owner: the completed insert or one busy thread.
OwnerInv ==
  \A h \in Handles :
    /\ bound[h] # None => h \in allocated
    /\ h \in allocated /\ ~dropped => bound[h] # None \/ \E t \in Threads : Busy(t, h)
    /\ \A t \in Threads :
         /\ Busy(t, h) => h \in allocated /\ bound[h] = None
         /\ h \in mine[t] => bound[h] # None
         /\ \A u \in Threads : Busy(t, h) /\ Busy(u, h) => t = u

\* An entry that is not empty belongs to a completed insert, or to a remove
\* that has not yet taken the value.
SlotInv ==
  \A p \in Positions : slot[p] # None =>
    /\ p \in Handles
    /\ bound[p] = slot[p] \/ \E t \in Threads : pc[t] = "rem_walk" /\ arg[t] = p

BoundInv ==
  \A h \in Handles : bound[h] # None =>
    /\ \A k \in 0 .. Depth - 1 : TableFor(h, k) \in tables
    /\ slot[h] = bound[h]

\* A walk of insert has its tables behind it; one of remove for a handle that
\* was inserted finds all of them.
WalkInv ==
  /\ ~dropped => Root \in tables
  /\ dropped => \A t \in Threads : pc[t] = "idle"
  /\ \A t \in Threads :
       /\ pc[t] \in {"ins_walk", "ins_table"} =>
            arg[t] \in Handles /\ \A k \in 0 .. level[t] : TableFor(arg[t], k) \in tables
       /\ pc[t] = "ins_table" => level[t] < Depth - 1
       /\ pc[t] = "rem_walk" /\ arg[t] \in Handles =>
            \A k \in 0 .. Depth - 1 : TableFor(arg[t], k) \in tables

IInv == TypeInv /\ OwnerInv /\ SlotInv /\ BoundInv /\ WalkInv

\* At the start nothing is allocated and the root is there.
LEMMA InitIInv == Init => IInv
<1> SUFFICES ASSUME Init PROVE IInv
  BY Zenon
<1>1. TypeInv
  <2>1. 0 \in Positions /\ 0 \in 0 .. Depth - 1
    BY DepthFits DEF Positions
  <2>2. QED BY Zenon, <2>1 DEF Init, TypeInv
<1>2. OwnerInv
  BY Zenon DEF Init, OwnerInv, Busy
<1>3. SlotInv /\ BoundInv /\ WalkInv
  BY Zenon DEF Init, SlotInv, BoundInv, WalkInv
<1>4. QED BY <1>1, <1>2, <1>3, Zenon DEF IInv

\* The three properties follow from the invariant.
LEMMA IInvImplies == IInv => NothingAtFreshHandle /\ InsertedIsFound /\ HandlesAccounted
<1> SUFFICES ASSUME IInv PROVE NothingAtFreshHandle /\ InsertedIsFound /\ HandlesAccounted
  BY Zenon
<1>1. NothingAtFreshHandle
  BY Zenon DEF IInv, TypeInv, NothingAtFreshHandle
<1>2. InsertedIsFound
  BY PositionFacts, Zenon DEF IInv, OwnerInv, BoundInv, InsertedIsFound
<1>3. ASSUME ~dropped
      PROVE  allocated = {h \in Handles : bound[h] # None}
                \cup {arg[t] : t \in {u \in Threads :
                       pc[u] \in {"ins_walk", "ins_table", "rem_walk", "rem_free"} /\ arg[u] < MaxHandle}}
  <2> DEFINE A == {h \in Handles : bound[h] # None}
             B == {u \in Threads :
                     pc[u] \in {"ins_walk", "ins_table", "rem_walk", "rem_free"} /\ arg[u] < MaxHandle}
             C == {arg[t] : t \in B}
  <2>1. \A u \in Threads : arg[u] < MaxHandle <=> arg[u] \in Handles
    <3>1. MaxHandle \in Nat /\ \A u \in Threads : arg[u] \in Nat
      BY MapAssumption, DepthFits DEF IInv, TypeInv, Positions
    <3>2. QED BY <3>1 DEF Handles
  <2>2. ASSUME NEW h, h \in allocated
        PROVE  h \in A \/ h \in C
    <3>1. h \in Handles
      BY <2>2, Zenon DEF IInv, TypeInv
    <3>2. CASE bound[h] # None
      BY <3>1, <3>2, Zenon
    <3>3. CASE \E t \in Threads : Busy(t, h)
      <4>1. PICK t \in Threads : Busy(t, h)
        BY <3>3, Zenon
      <4>2. t \in B /\ h = arg[t]
        BY <2>1, <3>1, <4>1, Zenon DEF Busy
      <4> HIDE DEF B
      <4>3. QED BY <4>2, Zenon
    <3>4. QED BY <1>3, <2>2, <3>1, <3>2, <3>3, Zenon DEF IInv, OwnerInv
  <2>3. ASSUME NEW h, h \in A
        PROVE  h \in allocated
    BY <2>3, Zenon DEF IInv, OwnerInv
  <2>4. ASSUME NEW h, h \in C
        PROVE  h \in allocated
    <3>1. PICK t \in B : h = arg[t]
      BY <2>4, Zenon
    <3>2. t \in Threads /\ Busy(t, h) /\ h \in Handles
      BY <2>1, <3>1, Zenon DEF Busy
    <3>3. QED BY <3>2, Zenon DEF IInv, OwnerInv
  <2> HIDE DEF A, B, C
  <2>5. allocated = A \cup C
    BY <2>2, <2>3, <2>4, Zenon
  <2>6. QED BY <2>5, Zenon DEF A, B, C
<1>4. HandlesAccounted
  BY <1>3, Zenon DEF HandlesAccounted
<1>5. QED BY <1>1, <1>2, <1>4, Zenon
-----------------------------------------------------------------------------
\* The start of insert_self_referential: the handle that next_handle returns
\* is nobody's.
LEMMA InsertIInv ==
  ASSUME IInv, NEW t \in Threads, Insert(t)
  PROVE  IInv'
<1>1. PICK h \in Handles : Alloc!Take(h) /\ Start(t, "ins_walk", h)
  BY Zenon DEF Insert
<1>2. /\ UNCHANGED <<tables, slot, mine, bound, dropped>>
      /\ h \notin allocated /\ allocated' = allocated \cup {h}
      /\ pc[t] = "idle" /\ ~dropped
      /\ pc' = [pc EXCEPT ![t] = "ins_walk"]
      /\ arg' = [arg EXCEPT ![t] = h]
      /\ level' = [level EXCEPT ![t] = 0]
  BY Zenon, <1>1 DEF Insert, Alloc!Take, Start, At, Goto
<1>3. h \in Positions /\ TableFor(h, 0) = Root
  BY PositionFacts, Zenon
<1>4. TypeInv'
  <2>1. 0 \in 0 .. Depth - 1
    BY DepthFits
  <2>2. QED BY <1>2, <1>3, <2>1, Zenon DEF IInv, TypeInv
<1>5. OwnerInv'
  BY <1>2 DEF IInv, TypeInv, OwnerInv, Busy
<1>6. SlotInv' /\ BoundInv'
  BY <1>2, Zenon DEF IInv, TypeInv, SlotInv, BoundInv
<1>7. WalkInv'
  BY <1>2, <1>3 DEF IInv, TypeInv, WalkInv
<1>8. QED BY <1>4, <1>5, <1>6, <1>7, Zenon DEF IInv

\* The walk of an insert, one level on or one table more.
LEMMA InsertWalkIInv ==
  ASSUME IInv, NEW t \in Threads, InsertWalk(t) \/ InsertTable(t)
  PROVE  IInv'
<1>1. /\ UNCHANGED <<allocated, slot, mine, bound, dropped, arg>>
      /\ pc[t] \in {"ins_walk", "ins_table"}
      /\ \/ /\ level' = level /\ tables' = tables
            /\ pc' = [pc EXCEPT ![t] = "ins_table"]
            /\ level[t] < Depth - 1
         \/ /\ level' = [level EXCEPT ![t] = @ + 1]
            /\ level[t] < Depth - 1
            /\ pc' = [pc EXCEPT ![t] = "ins_walk"]
            /\ TableFor(arg[t], level[t] + 1) \in tables'
            /\ tables \subseteq tables'
  <2>1. CASE InsertWalk(t)
    BY <2>1, Zenon DEF InsertWalk, At, Goto, data, IInv, TypeInv
  <2>2. CASE InsertTable(t)
    BY <2>2, Zenon DEF InsertTable, At, Goto, IInv, WalkInv
  <2>3. QED BY <2>1, <2>2, Zenon
<1>2. level[t] \in Nat /\ level[t] < Depth - 1
  BY <1>1, DepthFits DEF IInv, TypeInv
<1>3. TypeInv'
  <2>1. level[t] + 1 \in 0 .. Depth - 1
    BY <1>2, DepthFits
  <2>2. QED BY <1>1, <2>1, Zenon DEF IInv, TypeInv
<1>4. \A u \in Threads, h \in Handles : Busy(u, h)' <=> Busy(u, h)
  BY <1>1, Zenon DEF IInv, TypeInv, Busy
<1>5. OwnerInv'
  BY <1>1, <1>4, Zenon DEF IInv, OwnerInv
<1>6. SlotInv'
  BY <1>1 DEF IInv, TypeInv, SlotInv
<1>7. BoundInv'
  BY <1>1, Zenon DEF IInv, BoundInv
<1>8. WalkInv'
  <2>1. ~dropped /\ (~dropped' => Root \in tables') /\ tables \subseteq tables'
    BY <1>1, Zenon DEF IInv, WalkInv
  <2>2. ASSUME NEW u \in Threads, pc'[u] \in {"ins_walk", "ins_table"}
        PROVE  arg'[u] \in Handles /\ \A k \in 0 .. level'[u] : TableFor(arg'[u], k) \in tables'
    <3>1. CASE u # t
      BY <1>1, <2>1, <2>2, <3>1, Zenon DEF IInv, TypeInv, WalkInv
    <3>2. CASE u = t
      <4>1. arg'[t] = arg[t] /\ arg[t] \in Handles
            /\ \A k \in 0 .. level[t] : TableFor(arg[t], k) \in tables'
        BY <1>1, <2>1, Zenon DEF IInv, WalkInv
      <4>2. level'[t] = level[t]
            \/ (level'[t] = level[t] + 1 /\ TableFor(arg[t], level[t] + 1) \in tables')
        BY <1>1, Zenon DEF IInv, TypeInv
      <4>3. \A k \in 0 .. level[t] + 1 : k \in 0 .. level[t] \/ k = level[t] + 1
        BY <1>2
      <4>4. QED BY <3>2, <4>1, <4>2, <4>3, Zenon
    <3>3. QED BY <3>1, <3>2, Zenon
  <2>3. ASSUME NEW u \in Threads
        PROVE  /\ pc'[u] = "ins_table" => level'[u] < Depth - 1
               /\ pc'[u] = "rem_walk" /\ arg'[u] \in Handles =>
                    \A k \in 0 .. Depth - 1 : TableFor(arg'[u], k) \in tables'
    BY <1>1, <2>1, Zenon DEF IInv, TypeInv, WalkInv
  <2>4. QED BY <1>1, <2>1, <2>2, <2>3, Zenon DEF WalkInv
<1>9. QED BY <1>3, <1>5, <1>6, <1>7, <1>8, Zenon DEF IInv

\* put_value: the entry is empty, and the handle passes from the thread to the
\* completed insert.
LEMMA InsertPutIInv ==
  ASSUME IInv, NEW t \in Threads, NEW v \in Values, InsertPut(t, v)
  PROVE  IInv'
<1> DEFINE h == arg[t]
<1>1. /\ pc[t] = "ins_walk" /\ level[t] = Depth - 1
      /\ h \in Handles /\ h \in Positions /\ Position(h) = h
  BY PositionFacts, Zenon DEF InsertPut, PutValue, At, IInv, TypeInv, WalkInv
<1>2. Busy(t, h) /\ bound[h] = None /\ h \in allocated
  BY <1>1, Zenon DEF Busy, IInv, OwnerInv
<1>3. slot[h] = None
  BY <1>1, <1>2 DEF IInv, SlotInv, OwnerInv, Busy
<1>4. /\ UNCHANGED <<allocated, tables, dropped>>
      /\ slot' = [slot EXCEPT ![h] = v]
      /\ mine' = [mine EXCEPT ![t] = @ \cup {h}]
      /\ bound' = [bound EXCEPT ![h] = v]
      /\ pc' = [pc EXCEPT ![t] = "idle"]
      /\ arg' = [arg EXCEPT ![t] = 0]
      /\ level' = [level EXCEPT ![t] = 0]
  BY <1>1, <1>3, Zenon DEF InsertPut, PutValue, Return, Goto
<1>5. v # None
  BY MapAssumption, Zenon
<1>6. \A k \in 0 .. Depth - 1 : TableFor(h, k) \in tables
  BY <1>1, Zenon DEF IInv, WalkInv
<1> HIDE DEF h
<1>7. TypeInv'
  <2>1. 0 \in 0 .. Depth - 1 /\ 0 \in Positions
    BY DepthFits DEF Positions
  <2>2. QED BY <1>1, <1>4, <2>1, Zenon DEF IInv, TypeInv
<1>8. \A u \in Threads, g \in Handles : Busy(u, g)' <=> u # t /\ Busy(u, g)
  BY <1>1, <1>4, Zenon DEF IInv, TypeInv, Busy
<1>9. OwnerInv'
  <2> SUFFICES ASSUME NEW g \in Handles
               PROVE  /\ bound'[g] # None => g \in allocated'
                      /\ g \in allocated' /\ ~dropped' => bound'[g] # None \/ \E u \in Threads : Busy(u, g)'
                      /\ \A u \in Threads :
                           /\ Busy(u, g)' => g \in allocated' /\ bound'[g] = None
                           /\ g \in mine'[u] => bound'[g] # None
                           /\ \A w \in Threads : Busy(u, g)' /\ Busy(w, g)' => u = w
    BY Zenon DEF OwnerInv
  <2>1. CASE g = h
    <3>1. bound'[g] = v /\ g \in allocated'
      BY <1>1, <1>2, <1>4, <2>1, Zenon DEF IInv, TypeInv
    <3>2. \A u \in Threads : ~Busy(u, g)'
      BY <1>2, <1>8, <2>1, Zenon DEF IInv, OwnerInv
    <3>3. QED BY <1>5, <3>1, <3>2, Zenon
  <2>2. CASE g # h
    <3>1. bound'[g] = bound[g] /\ \A u \in Threads : g \in mine'[u] <=> g \in mine[u]
      BY <1>4, <2>2, Zenon DEF IInv, TypeInv
    <3>2. ~Busy(t, g)
      BY <1>2, <2>2, Zenon DEF Busy
    <3>3. QED BY <1>4, <1>8, <3>1, <3>2, Zenon DEF IInv, OwnerInv
  <2>3. QED BY <2>1, <2>2, Zenon
<1>10. SlotInv'
  BY <1>1, <1>4, PositionFacts DEF IInv, TypeInv, SlotInv
<1>11. BoundInv'
  BY <1>1, <1>4, <1>6, PositionFacts, Zenon DEF IInv, TypeInv, BoundInv
<1>12. WalkInv'
  BY <1>1, <1>4, Zenon DEF IInv, TypeInv, WalkInv
<1>13. QED BY <1>7, <1>9, <1>10, <1>11, <1>12, Zenon DEF IInv
-----------------------------------------------------------------------------
\* A step that takes neither a handle nor a value keeps the invariant: get, and
\* the walk of remove, which for an inserted handle reaches the leaf table.
LEMMA GetIInv ==
  ASSUME IInv, NEW t \in Threads,
         (\E h \in Positions : Get(t, h)) \/ Walk(t) \/ GetLoad(t) \/ GetIncrement(t)
  PROVE  IInv'
<1>1. /\ UNCHANGED <<allocated, tables, slot, mine, bound, dropped>>
      /\ ~dropped
      /\ \/ /\ UNCHANGED <<pc, arg>>
            /\ level[t] < Depth - 1 /\ level' = [level EXCEPT ![t] = @ + 1]
            /\ pc[t] \in {"get_walk", "rem_walk"}
         \/ /\ pc[t] \in {"idle", "get_walk", "get_inc"} \/ (pc[t] = "rem_walk" /\ arg[t] \notin Handles)
            /\ \E l \in {"idle", "get_walk", "get_inc"} : pc' = [pc EXCEPT ![t] = l]
            /\ \E h \in Positions : arg' = [arg EXCEPT ![t] = h]
            /\ \E k \in {0, level[t]} : level' = [level EXCEPT ![t] = k]
  <2>1. 0 \in Positions
    BY DepthFits DEF Positions
  <2>2. CASE \E h \in Positions : Get(t, h)
    BY Zenon, <2>2 DEF Get, Start, At, Goto, data
  <2>3. CASE Walk(t)
    <3>1. ~dropped /\ level[t] + 1 \in 0 .. Depth - 1
      BY <2>3, DepthFits DEF Walk, IInv, TypeInv, WalkInv
    <3>2. pc[t] = "rem_walk" /\ arg[t] \in Handles => TableFor(arg[t], level[t] + 1) \in tables
      BY <3>1, Zenon DEF IInv, WalkInv
    <3>3. QED BY <2>1, <2>3, <3>1, <3>2, Zenon DEF Walk, Return, Goto, data
  <2>4. CASE GetLoad(t)
    <3>1. /\ UNCHANGED data /\ pc[t] = "get_walk" /\ ~dropped
          /\ \/ Return(t)
             \/ pc' = [pc EXCEPT ![t] = "get_inc"] /\ UNCHANGED <<arg, level>>
      BY <2>4, Zenon DEF GetLoad, At, Goto, IInv, WalkInv
    <3>2. CASE Return(t)
      BY Zenon, <2>1, <3>1, <3>2 DEF Return, Goto, data
    <3>3. CASE pc' = [pc EXCEPT ![t] = "get_inc"] /\ UNCHANGED <<arg, level>>
      <4>1. arg' = [arg EXCEPT ![t] = arg[t]] /\ arg[t] \in Positions
            /\ level' = [level EXCEPT ![t] = level[t]]
        BY <3>3, Zenon DEF IInv, TypeInv
      <4>2. QED BY Zenon, <3>1, <3>3, <4>1 DEF data
    <3>4. QED BY <3>1, <3>2, <3>3, Zenon
  <2>5. CASE GetIncrement(t)
    BY Zenon, <2>1, <2>5 DEF GetIncrement, At, Return, Goto, IInv, WalkInv
  <2>6. QED BY <2>2, <2>3, <2>4, <2>5, Zenon
<1>2. TypeInv'
  <2>1. level[t] \in 0 .. Depth - 1 /\ 0 \in 0 .. Depth - 1
    BY DepthFits DEF IInv, TypeInv
  <2>2. level[t] < Depth - 1 => level[t] + 1 \in 0 .. Depth - 1
    BY <2>1, DepthFits
  <2>3. QED BY <1>1, <2>1, <2>2 DEF IInv, TypeInv
<1>3. \A u \in Threads, h \in Handles : Busy(u, h)' <=> Busy(u, h)
  BY <1>1, Zenon DEF IInv, TypeInv, Busy
<1>4. OwnerInv'
  BY <1>1, <1>3, Zenon DEF IInv, OwnerInv
<1>5. \A u \in Threads : arg[u] \in Handles => (pc'[u] = "rem_walk" /\ arg'[u] = arg[u] <=> pc[u] = "rem_walk")
  BY <1>1, Zenon DEF IInv, TypeInv
<1>6. SlotInv'
  BY <1>1, <1>5 DEF IInv, SlotInv
<1>7. BoundInv'
  BY <1>1, Zenon DEF IInv, BoundInv
<1>8. WalkInv'
  BY <1>1 DEF IInv, TypeInv, WalkInv
<1>9. QED BY <1>2, <1>4, <1>6, <1>7, <1>8, Zenon DEF IInv

\* A remove takes the handle over from the completed insert: nobody else is
\* busy with it, and its tables are there.
LEMMA RemoveIInv ==
  ASSUME ~RemoveOthers, IInv, NEW t \in Threads, NEW h \in Positions, Remove(t, h)
  PROVE  IInv'
<1>1. /\ UNCHANGED <<allocated, tables, slot, dropped>>
      /\ pc[t] = "idle" /\ ~dropped
      /\ pc' = [pc EXCEPT ![t] = "rem_walk"]
      /\ arg' = [arg EXCEPT ![t] = h]
      /\ level' = [level EXCEPT ![t] = 0]
      /\ mine' = [u \in Threads |-> mine[u] \ {h}]
      /\ bound' = [g \in Handles |-> IF g = h THEN None ELSE bound[g]]
      /\ h \in mine[t] \/ h >= MaxHandle
  BY Zenon DEF Remove, MayAsk, Start, At, Goto
<1>2. h \in Handles => h \in mine[t]
  <2>1. MaxHandle \in Nat
    BY MapAssumption, Zenon
  <2>2. QED BY <1>1, <2>1 DEF Handles
<1>3. h \in Handles => /\ bound[h] # None /\ h \in allocated
                       /\ \A u \in Threads : ~Busy(u, h)
                       /\ \A k \in 0 .. Depth - 1 : TableFor(h, k) \in tables
  BY <1>2, Zenon DEF IInv, OwnerInv, BoundInv
<1>4. TypeInv'
  <2>1. 0 \in 0 .. Depth - 1
    BY DepthFits
  <2>2. QED BY <1>1, <2>1, Zenon DEF IInv, TypeInv
<1>5. \A u \in Threads, g \in Handles : Busy(u, g)' <=> Busy(u, g) \/ (u = t /\ g = h)
  BY <1>1, Zenon DEF IInv, TypeInv, Busy
<1>6. OwnerInv'
  BY <1>1, <1>3, <1>5 DEF IInv, TypeInv, OwnerInv
<1>7. SlotInv'
  BY <1>1, Zenon DEF IInv, TypeInv, SlotInv
<1>8. BoundInv'
  BY <1>1, Zenon DEF IInv, TypeInv, BoundInv
<1>9. WalkInv'
  BY <1>1, <1>3, Zenon DEF IInv, TypeInv, WalkInv
<1>10. QED BY <1>4, <1>6, <1>7, <1>8, <1>9, Zenon DEF IInv

\* take_value empties the entry before the handle is released.
LEMMA RemoveTakeIInv ==
  ASSUME IInv, NEW t \in Threads, RemoveTake(t)
  PROVE  IInv'
<1>1. arg[t] \in Positions /\ Position(arg[t]) = arg[t]
  BY PositionFacts, Zenon DEF IInv, TypeInv
<1>2. /\ UNCHANGED <<allocated, tables, mine, bound, dropped, arg, level>>
      /\ pc[t] = "rem_walk" /\ ~dropped
      /\ pc' = [pc EXCEPT ![t] = "rem_free"]
      /\ slot' = [slot EXCEPT ![arg[t]] = None]
  BY <1>1, Zenon DEF RemoveTake, At, Goto, IInv, WalkInv
<1>3. TypeInv'
  BY <1>1, <1>2, Zenon DEF IInv, TypeInv
<1>4. \A u \in Threads, h \in Handles : Busy(u, h)' <=> Busy(u, h)
  BY <1>2, Zenon DEF IInv, TypeInv, Busy
<1>5. OwnerInv'
  BY <1>2, <1>4, Zenon DEF IInv, OwnerInv
<1>6. SlotInv'
  BY <1>1, <1>2, Zenon DEF IInv, TypeInv, SlotInv
<1>7. arg[t] \in Handles => bound[arg[t]] = None
  BY <1>2, Zenon DEF IInv, OwnerInv, Busy
<1>8. BoundInv'
  BY <1>1, <1>2, <1>7, PositionFacts, Zenon DEF IInv, TypeInv, BoundInv
<1>9. WalkInv'
  BY <1>2, Zenon DEF IInv, TypeInv, WalkInv
<1>10. QED BY <1>3, <1>5, <1>6, <1>8, <1>9, Zenon DEF IInv

\* free_handle releases the handle of this remove, and nobody else's.
LEMMA RemoveFreeIInv ==
  ASSUME IInv, NEW t \in Threads, RemoveFree(t)
  PROVE  IInv'
<1>1. /\ UNCHANGED <<tables, slot, mine, bound, dropped>>
      /\ pc[t] = "rem_free" /\ ~dropped
      /\ pc' = [pc EXCEPT ![t] = "idle"]
      /\ arg' = [arg EXCEPT ![t] = 0]
      /\ level' = [level EXCEPT ![t] = 0]
      /\ allocated' = allocated \ {arg[t]}
  <2>1. arg[t] \notin allocated => allocated = allocated \ {arg[t]}
    BY Zenon
  <2>2. QED BY <2>1, Zenon DEF RemoveFree, At, Return, Goto, Alloc!Release, IInv, WalkInv
<1>2. TypeInv'
  <2>1. 0 \in 0 .. Depth - 1 /\ 0 \in Positions
    BY DepthFits DEF Positions
  <2>2. QED BY <1>1, <2>1, Zenon DEF IInv, TypeInv
<1>3. \A u \in Threads, h \in Handles : Busy(u, h)' <=> u # t /\ Busy(u, h)
  BY <1>1, Zenon DEF IInv, TypeInv, Busy
<1>4. \A h \in Handles : Busy(t, h) <=> h = arg[t]
  BY <1>1, Zenon DEF Busy
<1>5. OwnerInv'
  <2>1. \A h \in Handles : bound[h] # None => h # arg[t]
    BY <1>4, Zenon DEF IInv, OwnerInv
  <2>2. \A u \in Threads, h \in Handles : Busy(u, h) /\ u # t => h # arg[t]
    BY <1>4, Zenon DEF IInv, OwnerInv
  <2>3. QED BY <1>1, <1>3, <1>4, <2>1, <2>2 DEF IInv, OwnerInv
<1>6. SlotInv' /\ BoundInv' /\ WalkInv'
  BY <1>1, Zenon DEF IInv, TypeInv, SlotInv, BoundInv, WalkInv
<1>7. QED BY <1>2, <1>5, <1>6, Zenon DEF IInv

\* Drop for HandleMap finds no call in progress and leaves nothing bound.
LEMMA DropMapIInv ==
  ASSUME IInv, DropMap
  PROVE  IInv'
<1>1. /\ UNCHANGED <<allocated, pc, arg, level>>
      /\ \A t \in Threads : pc[t] = "idle"
      /\ dropped' = TRUE
      /\ slot' = [p \in Positions |-> None]
      /\ bound' = [h \in Handles |-> None]
      /\ mine' = [t \in Threads |-> {}]
  BY Zenon DEF DropMap, At
<1>2. TypeInv'
  BY <1>1, Zenon DEF IInv, TypeInv
<1>3. OwnerInv'
  BY <1>1, Zenon DEF OwnerInv, Busy
<1>4. SlotInv' /\ BoundInv' /\ WalkInv'
  BY <1>1, Zenon DEF SlotInv, BoundInv, WalkInv
<1>5. QED BY <1>2, <1>3, <1>4, Zenon DEF IInv

\* Every step keeps the invariant.
LEMMA NextIInv ==
  ASSUME ~RemoveOthers, IInv, [Next]_vars
  PROVE  IInv'
<1>1. ASSUME UNCHANGED <<allocated, tables, slot, mine, bound, dropped, pc, arg, level>>
      PROVE  IInv'
  <2>1. TypeInv' /\ OwnerInv'
    BY <1>1 DEF IInv, TypeInv, OwnerInv, Busy
  <2>2. SlotInv' /\ BoundInv' /\ WalkInv'
    BY <1>1, Zenon DEF IInv, SlotInv, BoundInv, WalkInv
  <2>3. QED BY <2>1, <2>2, Zenon DEF IInv
<1>2. CASE DropMap
  BY <1>2, DropMapIInv, Zenon
<1>3. CASE UNCHANGED vars
  BY <1>1, <1>3, Zenon DEF vars, data
<1>4. ASSUME NEW t \in Threads,
             \/ Insert(t) \/ InsertWalk(t) \/ InsertTable(t) \/ \E v \in Values : InsertPut(t, v)
             \/ \E h \in Positions : Get(t, h) \/ Remove(t, h)
             \/ Walk(t) \/ GetLoad(t) \/ GetIncrement(t) \/ RemoveTake(t) \/ RemoveFree(t)
             \/ \E v \in Values : DropArc(t, v)
      PROVE  IInv'
  <2>1. CASE Insert(t)
    BY <2>1, InsertIInv, Zenon
  <2>2. CASE InsertWalk(t) \/ InsertTable(t)
    BY <2>2, InsertWalkIInv, Zenon
  <2>3. CASE \E v \in Values : InsertPut(t, v)
    BY <2>3, InsertPutIInv, Zenon
  <2>4. CASE (\E h \in Positions : Get(t, h)) \/ Walk(t) \/ GetLoad(t) \/ GetIncrement(t)
    BY <2>4, GetIInv, Zenon
  <2>5. CASE \E h \in Positions : Remove(t, h)
    BY <2>5, RemoveIInv, Zenon
  <2>6. CASE RemoveTake(t)
    BY <2>6, RemoveTakeIInv, Zenon
  <2>7. CASE RemoveFree(t)
    BY <2>7, RemoveFreeIInv, Zenon
  <2>8. CASE \E v \in Values : DropArc(t, v)
    BY <1>1, <2>8, Zenon DEF DropArc
  <2>9. QED BY <1>4, <2>1, <2>2, <2>3, <2>4, <2>5, <2>6, <2>7, <2>8, Zenon
<1>5. QED BY <1>2, <1>3, <1>4, Zenon DEF Next

\* The invariant holds as long as a thread removes only handles that it
\* inserted, whatever the number of threads and of digits of a handle, and
\* whether or not the threads get each other's handles.
LEMMA Invariance ==
  ASSUME ~RemoveOthers
  PROVE  Spec => []IInv
<1>1. Init => IInv
  BY InitIInv, Zenon
<1>2. IInv /\ [Next]_vars => IInv'
  BY NextIInv, Zenon
<1>3. QED BY <1>1, <1>2, PTL DEF Spec

\* The assertion after put_value in insert_self_referential holds: there is
\* nothing at the position of a handle that next_handle has just returned.
THEOREM FreshPositionIsEmpty ==
  ASSUME ~RemoveOthers
  PROVE  Spec => []NothingAtFreshHandle
<1>1. IInv => NothingAtFreshHandle
  BY IInvImplies, Zenon
<1>2. QED BY Invariance, <1>1, PTL

\* What insert has put under a handle is reachable from the root, through
\* tables that racing inserts create, until remove is called for the handle.
THEOREM InsertedStaysFound ==
  ASSUME ~RemoveOthers
  PROVE  Spec => []InsertedIsFound
<1>1. IInv => InsertedIsFound
  BY IInvImplies, Zenon
<1>2. QED BY Invariance, <1>1, PTL

\* Every handle that insert takes is given back by the remove for it: the
\* early returns of remove do not leak one.
THEOREM NoHandleLeaks ==
  ASSUME ~RemoveOthers
  PROVE  Spec => []HandlesAccounted
<1>1. IInv => HandlesAccounted
  BY IInvImplies, Zenon
<1>2. QED BY Invariance, <1>1, PTL
-----------------------------------------------------------------------------
(* A get of one's own handle.                                              *)

\* A handle has one owner, who is the only one to get it, and the entry of a
\* handle does not change between the load of it and the increment.
GetInv ==
  /\ \A t, u \in Threads : \A h \in Handles : h \in mine[t] /\ h \in mine[u] => t = u
  /\ \A t \in Threads :
       /\ pc[t] \in {"get_walk", "get_inc"} /\ arg[t] \in Handles => arg[t] \in mine[t]
       /\ pc[t] = "get_inc" => arg[t] \in Handles /\ slot[arg[t]] = val[t]
  /\ ~dangling

SafeInv == IInv /\ CountInv /\ GetInv

\* The value of a get in progress has an Arc in the table.
LEMMA LoadedIsAlive ==
  ASSUME CardinalityFacts, SafeInv, NEW t \in Threads, pc[t] = "get_inc"
  PROVE  strong[val[t]] > 0
<1> DEFINE v == val[t]
           S == ArcsStored(slot, v)
<1>1. v \in Values /\ arg[t] \in Positions /\ slot[arg[t]] = v
  BY PositionFacts DEF SafeInv, CountInv, CallInv, TypeOK, GetInv
<1>2. arg[t] \in S /\ IsFiniteSet(S)
  BY <1>1, ArcsStoredFinite, Zenon DEF ArcsStored
<1>3. /\ Cardinality(ArcsHeld(holds, v)) \in Nat /\ Cardinality(S) \in Nat
      /\ strong[v] = Cardinality(ArcsHeld(holds, v)) + Cardinality(S)
  BY <1>1, ArcNumbers, Zenon DEF SafeInv, CountInv
<1> HIDE DEF S, v
<1>4. Cardinality(S) # 0
  <2>1. Cardinality(S \ {arg[t]}) \in Nat /\ Cardinality(S \ {arg[t]}) = Cardinality(S) - 1
    <3>1. IsFiniteSet(S \ {arg[t]})
      BY Zenon, <1>2 DEF CardinalityFacts
    <3>2. QED BY Zenon, <1>2, <3>1 DEF CardinalityFacts
  <2>2. QED BY <1>3, <2>1
<1>5. strong[v] > 0
  BY <1>3, <1>4
<1>6. QED BY <1>5, Zenon DEF v

\* Every step keeps the entry of a handle that its owner is getting.
LEMMA NextGet ==
  ASSUME CardinalityFacts, ~RemoveOthers, ~GetOthers, SafeInv, [Next]_vars
  PROVE  GetInv'
<1>0. LocalTypes /\ DataTypes
  BY TypeHalves, Zenon DEF SafeInv, CountInv
<1>1. ASSUME NEW t \in Threads, NEW u \in Threads, NEW h \in Handles, Busy(t, h)
      PROVE  h \notin mine[u]
  BY <1>1, Zenon DEF SafeInv, IInv, OwnerInv
<1>2. Handles \subseteq Positions /\ \A p \in Positions : Position(p) = p
  BY PositionFacts, Zenon
<1>3. \A h \in Positions : h >= MaxHandle <=> h \notin Handles
  <2>1. MaxHandle \in Nat /\ \A h \in Positions : h \in Nat
    BY MapAssumption, DepthFits DEF Positions
  <2>2. QED BY <2>1 DEF Handles
<1>4. CASE UNCHANGED vars
  BY <1>4, Zenon DEF SafeInv, GetInv, vars, data
<1>5. CASE DropMap
  BY <1>5, Zenon DEF DropMap, At, SafeInv, GetInv
<1>6. ASSUME NEW t \in Threads, Insert(t) \/ InsertWalk(t) \/ InsertTable(t)
      PROVE  GetInv'
  <2>1. /\ UNCHANGED <<slot, mine, dangling>> /\ pc'[t] \in {"ins_walk", "ins_table"}
        /\ \A u \in Threads : u # t => pc'[u] = pc[u] /\ arg'[u] = arg[u] /\ val'[u] = val[u]
    <3>1. CASE Insert(t)
      BY <1>0, <3>1, Zenon DEF Insert, Start, Goto, LocalTypes
    <3>2. CASE InsertWalk(t) \/ InsertTable(t)
      BY <1>0, <3>2, Zenon DEF InsertWalk, InsertTable, At, Goto, data, LocalTypes
    <3>3. QED BY <1>6, <3>1, <3>2, Zenon
  <2>2. QED BY <2>1 DEF SafeInv, GetInv
<1>7. ASSUME NEW t \in Threads, NEW v \in Values, InsertPut(t, v)
      PROVE  GetInv'
  <2> DEFINE h == arg[t]
  <2>1. h \in Handles /\ h \in Positions /\ Position(h) = h /\ Busy(t, h)
    BY <1>2, <1>7, Zenon DEF InsertPut, PutValue, At, SafeInv, IInv, WalkInv, Busy
  <2>2. \A u \in Threads : h \notin mine[u]
    BY <1>1, <2>1, Zenon
  <2>3. /\ slot' = [slot EXCEPT ![h] = v] /\ UNCHANGED dangling
        /\ mine' = [mine EXCEPT ![t] = @ \cup {h}] \/ mine' = mine
        /\ pc'[t] \in {"idle", "panic"}
        /\ \A u \in Threads : u # t => pc'[u] = pc[u] /\ arg'[u] = arg[u] /\ val'[u] = val[u]
    BY <1>0, <1>7, <2>1, Zenon DEF InsertPut, PutValue, Return, Goto, LocalTypes
  <2> HIDE DEF h
  <2>4. \A u \in Threads : pc[u] = "get_inc" => arg[u] # h
    BY <2>1, <2>2 DEF SafeInv, GetInv
  <2>5. \A u \in Threads : \A g \in Handles : g \in mine'[u] <=> g \in mine[u] \/ (u = t /\ g = h /\ mine' # mine)
    BY <1>0, <2>1, <2>2, <2>3 DEF LocalTypes, DataTypes
  <2>6. \A g \in Positions : g # h => slot'[g] = slot[g]
    BY <1>0, <2>1, <2>3 DEF LocalTypes, DataTypes
  <2>7. QED BY <1>2, <2>1, <2>2, <2>3, <2>4, <2>5, <2>6 DEF SafeInv, GetInv
<1>8. ASSUME NEW t \in Threads, NEW h \in Positions, Get(t, h)
      PROVE  GetInv'
  <2>1. /\ UNCHANGED <<slot, mine, dangling>> /\ pc'[t] = "get_walk" /\ arg'[t] = h
        /\ \A u \in Threads : u # t => pc'[u] = pc[u] /\ arg'[u] = arg[u] /\ val'[u] = val[u]
    BY <1>0, <1>8, Zenon DEF Get, Start, Goto, data, LocalTypes
  <2>2. h \in Handles => h \in mine[t]
    BY <1>3, <1>8, Zenon DEF Get, MayAsk
  <2>3. QED BY <2>1, <2>2, Zenon DEF SafeInv, GetInv
<1>9. ASSUME NEW t \in Threads, NEW h \in Positions, Remove(t, h)
      PROVE  GetInv'
  <2>1. /\ UNCHANGED <<slot, dangling>> /\ pc'[t] = "rem_walk" /\ pc[t] = "idle"
        /\ mine' = [u \in Threads |-> mine[u] \ {h}]
        /\ \A u \in Threads : u # t => pc'[u] = pc[u] /\ arg'[u] = arg[u] /\ val'[u] = val[u]
    BY <1>0, <1>9, Zenon DEF Remove, Start, At, Goto, LocalTypes
  <2>2. h \in Handles => h \in mine[t]
    BY <1>3, <1>9, Zenon DEF Remove, MayAsk
  <2>3. \A u \in Threads : u # t /\ h \in Handles => h \notin mine[u]
    BY <2>2, Zenon DEF SafeInv, GetInv
  <2>4. QED BY <2>1, <2>3 DEF SafeInv, GetInv
<1>10. ASSUME NEW t \in Threads, Walk(t)
       PROVE  GetInv'
  <2>1. /\ UNCHANGED <<slot, mine, dangling>>
        /\ \/ pc'[t] = "idle"
           \/ pc'[t] = pc[t] /\ pc[t] \in {"get_walk", "rem_walk"} /\ arg'[t] = arg[t]
        /\ \A u \in Threads : u # t => pc'[u] = pc[u] /\ arg'[u] = arg[u] /\ val'[u] = val[u]
    <3>1. UNCHANGED <<slot, mine, dangling>> /\ pc[t] \in {"get_walk", "rem_walk"}
      BY Zenon, <1>10 DEF Walk, data
    <3>2. CASE Return(t)
      BY <3>1, <3>2, ReturnLocal, Zenon DEF SafeInv
    <3>3. CASE UNCHANGED <<pc, arg, val>>
      BY <3>1, <3>3, Zenon
    <3>4. QED BY Zenon, <1>10, <3>2, <3>3 DEF Walk
  <2>2. QED BY <2>1 DEF SafeInv, GetInv
<1>11. ASSUME NEW t \in Threads, GetLoad(t)
       PROVE  GetInv'
  <2>1. arg[t] \in Positions /\ Position(arg[t]) = arg[t]
    BY <1>0, <1>2 DEF LocalTypes, DataTypes
  <2>2. /\ UNCHANGED <<slot, mine, dangling>> /\ pc[t] = "get_walk"
        /\ \/ pc'[t] = "idle"
           \/ slot[arg[t]] # None /\ pc'[t] = "get_inc" /\ arg'[t] = arg[t] /\ val'[t] = slot[arg[t]]
        /\ \A u \in Threads : u # t => pc'[u] = pc[u] /\ arg'[u] = arg[u] /\ val'[u] = val[u]
    BY <1>0, <1>11, <2>1, Zenon DEF GetLoad, At, Return, Goto, data, LocalTypes
  <2>3. slot[arg[t]] # None => arg[t] \in Handles
    BY <2>1, Zenon DEF SafeInv, IInv, SlotInv
  <2>4. QED BY <2>2, <2>3 DEF SafeInv, GetInv
<1>12. ASSUME NEW t \in Threads, GetIncrement(t)
       PROVE  GetInv'
  <2>1. /\ UNCHANGED <<slot, mine>> /\ pc[t] = "get_inc" /\ pc'[t] = "idle"
        /\ dangling' = (dangling \/ strong[val[t]] = 0)
        /\ \A u \in Threads : u # t => pc'[u] = pc[u] /\ arg'[u] = arg[u] /\ val'[u] = val[u]
    BY <1>0, <1>12, Zenon DEF GetIncrement, At, Return, Goto, LocalTypes
  <2>2. strong[val[t]] # 0
    <3>1. val[t] \in Values /\ strong[val[t]] \in Nat
      BY <2>1 DEF SafeInv, CountInv, CallInv, TypeOK
    <3>2. QED BY <2>1, <3>1, LoadedIsAlive
  <2>3. ~dangling'
    BY Zenon, <2>1, <2>2 DEF SafeInv, GetInv
  <2>4. QED BY <2>1, <2>3 DEF SafeInv, GetInv
<1>13. ASSUME NEW t \in Threads, RemoveTake(t)
       PROVE  GetInv'
  <2> DEFINE h == arg[t]
  <2>1. h \in Positions /\ Position(h) = h
    BY <1>0, <1>2 DEF LocalTypes, DataTypes
  <2>2. /\ slot' = [slot EXCEPT ![h] = None] /\ UNCHANGED <<mine, arg, dangling>>
        /\ pc[t] = "rem_walk" /\ pc'[t] = "rem_free"
        /\ \A u \in Threads : u # t => pc'[u] = pc[u] /\ val'[u] = val[u]
    BY <1>0, <1>13, <2>1, Zenon DEF RemoveTake, At, Goto, LocalTypes
  <2>3. \A u \in Threads : pc[u] = "get_inc" => arg[u] # h
    <3>1. h \in Handles => Busy(t, h)
      BY <2>2, Zenon DEF Busy
    <3>2. QED BY <1>1, <3>1, Zenon DEF SafeInv, GetInv
  <2> HIDE DEF h
  <2>4. \A g \in Positions : g # h => slot'[g] = slot[g]
    BY <1>0, <2>1, <2>2 DEF LocalTypes, DataTypes
  <2>5. QED BY <1>2, <2>2, <2>3, <2>4 DEF SafeInv, GetInv
<1>14. ASSUME NEW t \in Threads, RemoveFree(t) \/ \E v \in Values : DropArc(t, v)
       PROVE  GetInv'
  <2>1. /\ UNCHANGED <<slot, mine, dangling>> /\ pc'[t] = "idle"
        /\ \A u \in Threads : u # t => pc'[u] = pc[u] /\ arg'[u] = arg[u] /\ val'[u] = val[u]
    BY <1>0, <1>14, Zenon DEF RemoveFree, DropArc, At, Return, Goto, LocalTypes
  <2>2. QED BY <2>1 DEF SafeInv, GetInv
<1>15. QED BY <1>4, <1>5, <1>6, <1>7, <1>8, <1>9, <1>10, <1>11, <1>12, <1>13, <1>14, Zenon DEF Next

-----------------------------------------------------------------------------
(* The counts and the gets, with what the library says of finite sets.     *)

INSTANCE FiniteSetTheorems

\* The facts that the proofs about the counts take as a hypothesis.
LEMMA Cardinalities == CardinalityFacts
<1>1. IsFiniteSet({}) /\ Cardinality({}) = 0
  BY FS_EmptySet, Zenon
<1>2. ASSUME NEW S, IsFiniteSet(S)
      PROVE  Cardinality(S) \in Nat /\ \A T \in SUBSET S : IsFiniteSet(T)
  BY <1>2, FS_CardinalityType, FS_Subset, Zenon
<1>3. ASSUME NEW S, NEW x, IsFiniteSet(S), x \notin S
      PROVE  IsFiniteSet(S \cup {x}) /\ Cardinality(S \cup {x}) = Cardinality(S) + 1
  BY <1>3, FS_AddElement, Zenon
<1>4. ASSUME NEW S, NEW x, IsFiniteSet(S), x \in S
      PROVE  Cardinality(S \ {x}) = Cardinality(S) - 1
  BY <1>4, FS_RemoveElement, Zenon
<1>5. ASSUME NEW m \in Nat, NEW n \in Nat
      PROVE  IsFiniteSet(m .. n - 1)
  BY FS_Interval
<1>6. QED BY <1>1, <1>2, <1>3, <1>4, <1>5, Zenon DEF CardinalityFacts

\* The invariant holds whoever gets and removes which handle.
LEMMA CountInvariance == Spec => []CountInv
<1>1. CountInv /\ [Next]_vars => CountInv'
  BY Cardinalities, NextCount, Zenon
<1>2. Init => CountInv
  BY Cardinalities, InitCount, Zenon
<1>3. QED BY <1>1, <1>2, PTL DEF Spec

\* The type invariant of the map: a walk stays within the levels of the tree
\* and no count goes below 0.
THEOREM MapTypes == Spec => []TypeOK
<1>1. CountInv => TypeOK
  BY Zenon DEF CountInv
<1>2. QED BY CountInvariance, <1>1, PTL

\* insert, get, remove, the drop of an Arc and the drop of the map keep every
\* strong count equal to the number of Arcs in threads and tables, for any
\* number of threads, whichever handles they ask for, and also in the state
\* that a failed assertion of insert leaves behind.
THEOREM CountsStayExact == Spec => []CountsAreExact
<1>1. CountInv => CountsAreExact
  BY Zenon DEF CountInv, ArcInv
<1>2. QED BY CountInvariance, <1>1, PTL

\* When a thread gets only what it inserted and has not yet called remove for,
\* the load of the entry and the increment of the count are as good as one
\* step: what get_value increments is alive.
THEOREM OwnersNeverDangle ==
  ASSUME ~RemoveOthers, ~GetOthers
  PROVE  Spec => []NoUseAfterFree
<1>1. Init => SafeInv
  <2>1. Init => GetInv
    BY Zenon DEF Init, GetInv
  <2>2. QED BY <2>1, InitIInv, Cardinalities, InitCount, Zenon DEF SafeInv
<1>2. SafeInv /\ [Next]_vars => SafeInv'
  <2> SUFFICES ASSUME SafeInv, [Next]_vars PROVE SafeInv'
    BY Zenon
  <2>1. IInv' /\ CountInv'
    BY Cardinalities, NextIInv, NextCount, Zenon DEF SafeInv
  <2>2. QED BY <2>1, Cardinalities, NextGet, Zenon DEF SafeInv
<1>3. SafeInv => NoUseAfterFree
  BY Zenon DEF SafeInv, GetInv, NoUseAfterFree
<1>4. QED BY <1>1, <1>2, <1>3, PTL DEF Spec
=============================================================================
