------------------------- MODULE MemorySetupProofs -------------------------
(***************************************************************************)
(* Safety of module MemorySetup for every size of a page and every         *)
(* placement of the kernel image and the device tree in order.             *)
(*                                                                         *)
(* Two facts carry the proof.  The iterator has dealt with every reserved  *)
(* range that it is not about to (IteratorInv), so that a range it yields  *)
(* has no reserved byte (FreeRange).      And one end of a range that it   *)
(* yields is a page border, so that the pages that add_memory_region       *)
(* counts lie inside it (PagesInside).                                     *)
(***************************************************************************)
EXTENDS MemorySetup, TLAPS

\* Division with rest, for a divisor that is not a number in the text.
LEMMA DivMod ==
  ASSUME NEW a \in Int, NEW n \in Nat \ {0}
  PROVE  a \div n \in Int /\ a % n \in 0 .. n - 1 /\ a = (a \div n) * n + (a % n)
  OBVIOUS

\* Quotient and rest are the only ones.
LEMMA DivModUnique ==
  ASSUME NEW n \in Nat \ {0}, NEW q \in Int, NEW r \in 0 .. n - 1, NEW a \in Int, a = q * n + r
  PROVE  a \div n = q /\ a % n = r
  OBVIOUS

\* The smaller and the larger of two numbers.
LEMMA MinMaxOfTwo ==
  ASSUME NEW a \in Int, NEW b \in Int
  PROVE  /\ Min({a, b}) = IF a <= b THEN a ELSE b
         /\ Max({a, b}) = IF a >= b THEN a ELSE b
  BY DEF Min, Max

\* The padding of add_memory_region reaches to the next page border.
LEMMA Padding ==
  ASSUME NEW s \in Nat
  PROVE  (PageLen - (s % PageLen)) % PageLen = IF s % PageLen = 0 THEN 0 ELSE PageLen - (s % PageLen)
<1>1. PageLen \in Nat \ {0}
  BY MemorySetupAssumption
<1>2. s % PageLen \in 0 .. PageLen - 1
  BY <1>1, DivMod
<1>3. CASE s % PageLen = 0
  <2>1. PageLen % PageLen = 0
    BY <1>1, DivModUnique
  <2>2. QED BY <1>1, <1>3, <2>1
<1>4. CASE s % PageLen # 0
  <2> DEFINE r == PageLen - (s % PageLen)
  <2>1. r \in 0 .. PageLen - 1 /\ r = 0 * PageLen + r
    BY <1>1, <1>2, <1>4
  <2>2. r % PageLen = r
    <3> HIDE DEF r
    <3>1. QED BY <1>1, <2>1, DivModUnique
  <2>3. QED BY <1>4, <2>2
<1>5. QED BY <1>3, <1>4

\* The pages that add_memory_region takes from a range lie inside it, if the
\* range starts or ends at a page border.
LEMMA PagesInside ==
  ASSUME NEW s \in Nat, NEW e \in Nat, s <= e,
         s % PageLen = 0 \/ e % PageLen = 0
  PROVE  /\ PagesOf(s, e).start \in Nat /\ PagesOf(s, e).end \in Nat
         /\ s <= PagesOf(s, e).start
         /\ PagesOf(s, e).end <= e
<1> DEFINE L == PageLen
           q == (e - s) \div L
           m == s % L
<1>1. L \in Nat \ {0}
  BY MemorySetupAssumption
<1>2. q \in Int /\ e - s = q * L + ((e - s) % L) /\ (e - s) % L \in 0 .. L - 1
  <2>1. e - s \in Int
    OBVIOUS
  <2>2. QED BY <1>1, <2>1, DivMod
<1>3. q * L <= e - s /\ q * L \in Nat
  <2>1. q >= 0
    BY <1>1, <1>2
  <2>2. QED BY <1>1, <1>2, <2>1
<1>4. CASE m = 0
  <2>1. PagesOf(s, e) = [start |-> s + 0, end |-> s + 0 + q * L]
    BY <1>4, Padding DEF PagesOf
  <2> HIDE DEF q, L, m
  <2>2. QED BY <2>1, <1>3
<1>5. CASE m # 0 /\ e % L = 0
  <2> DEFINE a == s \div L
             b == e \div L
  <2>1. a \in Int /\ b \in Int /\ m \in 0 .. L - 1 /\ s = a * L + m /\ e = b * L
    <3>1. s \in Int /\ e \in Int
      OBVIOUS
    <3>2. e = (e \div L) * L + (e % L) /\ e \div L \in Int
      BY <1>1, <3>1, DivMod
    <3>3. QED BY <1>1, <1>5, <3>1, <3>2, DivMod
  <2>2. PagesOf(s, e) = [start |-> s + (L - m), end |-> s + (L - m) + q * L]
    BY <1>5, Padding DEF PagesOf
  <2>3. e - s = (b - a - 1) * L + (L - m)
    <3> HIDE DEF L, a, b, m
    <3>1. QED BY <1>1, <2>1
  <2>4. q = b - a - 1
    <3> DEFINE k == b - a - 1
               r == L - m
               d == e - s
    <3>1. r \in 0 .. L - 1 /\ k \in Int /\ d \in Int /\ d = k * L + r
      BY <1>1, <1>5, <2>1, <2>3
    <3>2. d \div L = k
      <4> HIDE DEF k, r, d, L
      <4>1. QED BY <1>1, <3>1, DivModUnique
    <3>3. QED BY <3>2
  <2>5. s + (L - m) + q * L = e
    <3> HIDE DEF L, a, b, m, q
    <3>1. QED BY <1>1, <1>2, <2>1, <2>3, <2>4
  <2> HIDE DEF q, L, m, a, b
  <2>6. QED BY <1>1, <2>1, <2>2, <2>5
<1>6. QED BY <1>4, <1>5
-----------------------------------------------------------------------------
\* What a range of the RAM that init may add looks like.
FreeRange(s, e) ==
  /\ Ram.start <= s /\ e <= Ram.end
  /\ \A i \in 1 .. NumReserved :
       \/ Cut(Reserved(i)).start >= Cut(Reserved(i)).end
       \/ Cut(Reserved(i)).end <= s \/ e <= Cut(Reserved(i)).start

TypeInv ==
  /\ placement \in Placements
  /\ current_pos \in Nat /\ Ram.start <= current_pos
  /\ taken \in 0 .. NumReserved

\* The iterator is at the start of the last range it took, if it is not yet past
\* it, and every other range that it took is behind it.  It stands at a page
\* border while there is another range to take.
IteratorInv ==
  /\ \/ current = NoRange /\ \A i \in 1 .. taken : ~Matters(Reserved(i))
     \/ /\ taken > 0 /\ current = Cut(Reserved(taken)) /\ current.start < current.end
        /\ current_pos = current.start
        /\ \A i \in 1 .. taken - 1 : ~Matters(Reserved(i))
  /\ current = NoRange => taken = NumReserved \/ current_pos % PageLen = 0

IInv == TypeInv /\ IteratorInv /\ ReservedKept

\* The ranges of a placement.
LEMMA PlacementFacts ==
  ASSUME placement \in Placements, InOrder(placement)
  PROVE  /\ Ram.start \in Nat /\ Ram.end \in Nat /\ Ram.start < Ram.end
         /\ Ram.start % PageLen = 0 /\ Ram.end % PageLen = 0
         /\ \A i \in 1 .. NumReserved :
              /\ Reserved(i).start \in Nat /\ Reserved(i).end \in Nat
              /\ Reserved(i).start < Reserved(i).end
         /\ Reserved(1).end <= Reserved(2).start /\ Reserved(1).end % PageLen = 0
  BY MemorySetupAssumption DEF Ram, Reserved, NumReserved, InOrder

\* A reserved range that is cut to the RAM.
LEMMA CutFacts ==
  ASSUME placement \in Placements, InOrder(placement), NEW i \in 1 .. NumReserved
  PROVE  /\ Cut(Reserved(i)).start = IF Reserved(i).start >= Ram.start THEN Reserved(i).start ELSE Ram.start
         /\ Cut(Reserved(i)).end = IF Reserved(i).end <= Ram.end THEN Reserved(i).end ELSE Ram.end
         /\ Cut(Reserved(i)).start \in Nat /\ Cut(Reserved(i)).end \in Nat
<1>1. /\ Reserved(i).start \in Int /\ Ram.start \in Int
      /\ Reserved(i).end \in Int /\ Ram.end \in Int
  BY PlacementFacts
<1>2. Max({Reserved(i).start, Ram.start}) = IF Reserved(i).start >= Ram.start THEN Reserved(i).start ELSE Ram.start
  BY <1>1, MinMaxOfTwo
<1>3. Min({Reserved(i).end, Ram.end}) = IF Reserved(i).end <= Ram.end THEN Reserved(i).end ELSE Ram.end
  BY <1>1, MinMaxOfTwo
<1>4. Cut(Reserved(i)) = [start |-> Max({Reserved(i).start, Ram.start}), end |-> Min({Reserved(i).end, Ram.end})]
  BY DEF Cut
<1>5. QED BY <1>2, <1>3, <1>4, PlacementFacts

\* The pages of a free range hold no reserved byte and lie in the RAM.
LEMMA FreeRangeKept ==
  ASSUME placement \in Placements, InOrder(placement),
         NEW s \in Nat, NEW e \in Nat, s <= e, FreeRange(s, e),
         s % PageLen = 0 \/ e % PageLen = 0
  PROVE  LET g == PagesOf(s, e) IN
         /\ Bytes(g) \subseteq Bytes(Ram)
         /\ Bytes(g) \cap (Bytes(placement.kernel) \cup Bytes(placement.tree)) = {}
<1> DEFINE g == PagesOf(s, e)
<1>1. g.start \in Nat /\ g.end \in Nat /\ s <= g.start /\ g.end <= e
  BY PagesInside
<1> HIDE DEF g
<1>2. \A x \in Bytes(g) : x \in Int /\ s <= x /\ x < e
  BY <1>1 DEF Bytes
<1>3. Bytes(g) \subseteq Bytes(Ram)
  BY <1>2, PlacementFacts DEF FreeRange, Bytes
<1>4. ASSUME NEW i \in 1 .. NumReserved, NEW x \in Bytes(g)
      PROVE  x \notin Bytes(Reserved(i))
  <2>1. SUFFICES ASSUME x \in Bytes(Reserved(i))
                 PROVE  FALSE
    OBVIOUS
  <2>2. x \in Int /\ Reserved(i).start <= x /\ x < Reserved(i).end /\ s <= x /\ x < e
    BY <1>2, <2>1, PlacementFacts DEF Bytes
  <2>3. Ram.start <= x /\ x < Ram.end
    BY <2>2, PlacementFacts DEF FreeRange
  <2>4. Cut(Reserved(i)).start <= x /\ x < Cut(Reserved(i)).end
    BY <2>2, <2>3, CutFacts, PlacementFacts
  <2>5. QED BY <2>2, <2>4, CutFacts DEF FreeRange
<1>5. Reserved(1) = placement.kernel /\ Reserved(2) = placement.tree /\ 1 \in 1 .. NumReserved /\ 2 \in 1 .. NumReserved
  BY DEF Reserved, NumReserved
<1>6. QED BY <1>3, <1>4, <1>5 DEF g

\* A yield of a free range keeps the reserved regions.
LEMMA YieldKept ==
  ASSUME IInv, InOrder(placement), UNCHANGED placement, NEW e \in Nat, Yield(e),
         current_pos < e, FreeRange(current_pos, e),
         current_pos % PageLen = 0 \/ e % PageLen = 0
  PROVE  ReservedKept'
<1>1. given' \subseteq given \cup {PagesOf(current_pos, e)}
  BY DEF Yield
<1>2. placement \in Placements /\ current_pos \in Nat /\ current_pos <= e
  BY DEF IInv, TypeInv
<1>3. LET g == PagesOf(current_pos, e) IN
      /\ Bytes(g) \subseteq Bytes(Ram)
      /\ Bytes(g) \cap (Bytes(placement.kernel) \cup Bytes(placement.tree)) = {}
  BY <1>2, FreeRangeKept
<1>4. QED BY <1>1, <1>3, Zenon DEF IInv, ReservedKept, Ram, Bytes

\* One turn of the iterator's loop preserves the inductive invariant.
LEMMA IterateIInv ==
  ASSUME IInv, InOrder(placement), Iterate
  PROVE  IInv'
<1> DEFINE C(i) == Cut(Reserved(i))
           found == {i \in taken + 1 .. NumReserved : Matters(Reserved(i))}
<1>1. /\ placement \in Placements /\ UNCHANGED placement
      /\ current_pos \in Nat /\ Ram.start <= current_pos /\ current_pos < Ram.end
      /\ taken \in 0 .. NumReserved /\ NumReserved = 2
      /\ Ram.start \in Nat /\ Ram.end \in Nat /\ Ram' = Ram
  BY PlacementFacts DEF IInv, TypeInv, Iterate, NumReserved, Ram
<1>2. \A i \in 1 .. NumReserved :
        /\ C(i).start \in Nat /\ C(i).end \in Nat /\ C(i).end <= Ram.end
        /\ Ram.start <= C(i).start
        /\ C(i)' = C(i)
        /\ Matters(Reserved(i)) <=> C(i).start < C(i).end /\ C(i).end > current_pos
        /\ Matters(Reserved(i))' <=> C(i).start < C(i).end /\ C(i).end > current_pos'
  <2> SUFFICES ASSUME NEW i \in 1 .. NumReserved
               PROVE  /\ C(i).start \in Nat /\ C(i).end \in Nat /\ C(i).end <= Ram.end
                      /\ Ram.start <= C(i).start
                      /\ C(i)' = C(i)
                      /\ Matters(Reserved(i)) <=> C(i).start < C(i).end /\ C(i).end > current_pos
                      /\ Matters(Reserved(i))' <=> C(i).start < C(i).end /\ C(i).end > current_pos'
    OBVIOUS
  <2>1. C(i).start \in Nat /\ C(i).end \in Nat /\ C(i).end <= Ram.end /\ Ram.start <= C(i).start
    BY <1>1, CutFacts, PlacementFacts
  <2>2. C(i)' = C(i)
    BY <1>1 DEF Cut, Reserved, Ram
  <2>3. QED BY <2>1, <2>2 DEF Matters
<1>3. C(1).end % PageLen = 0 /\ C(1).start <= C(2).start /\ Ram.end % PageLen = 0
  <2>1. 1 \in 1 .. NumReserved /\ 2 \in 1 .. NumReserved
    BY <1>1
  <2>2. QED BY <1>1, <2>1, CutFacts, PlacementFacts
<1> HIDE DEF C
<1>4. CASE current # NoRange
  <2>1. /\ taken \in 1 .. NumReserved /\ current = C(taken)
        /\ current.start < current.end /\ current_pos = current.start
        /\ \A i \in 1 .. taken - 1 : ~Matters(Reserved(i))
    BY <1>1, <1>4 DEF IInv, IteratorInv, C
  <2>2. Loaded = [at |-> current, taken |-> taken]
    BY <1>4 DEF Loaded
  <2>3. /\ taken' = taken /\ current_pos' = C(taken).end /\ current' = NoRange
        /\ UNCHANGED given
    BY <1>2, <1>4, <2>1, <2>2 DEF Iterate
  <2>4. \A i \in 1 .. taken' : ~Matters(Reserved(i))'
    BY <1>1, <1>2, <2>1, <2>3
  <2>5. IteratorInv'
    BY <1>1, <1>3, <2>1, <2>3, <2>4 DEF IteratorInv, NumReserved
  <2>6. TypeInv'
    BY <1>1, <1>2, <2>1, <2>3 DEF TypeInv
  <2>7. ReservedKept'
    BY <1>1, <2>3 DEF IInv, ReservedKept, Ram
  <2>8. QED BY <2>5, <2>6, <2>7 DEF IInv
<1>5. CASE current = NoRange /\ found = {}
  <2>1. Loaded = [at |-> NoRange, taken |-> NumReserved]
    BY <1>5 DEF Loaded
  <2>2. /\ taken' = NumReserved /\ current_pos' = Ram.end /\ current' = NoRange
        /\ Yield(Ram.end)
    BY <2>1 DEF Iterate
  <2>3. \A i \in 1 .. NumReserved : ~Matters(Reserved(i))
    BY <1>1, <1>2, <1>5 DEF IInv, IteratorInv, NoRange
  <2>4. FreeRange(current_pos, Ram.end)
    BY <1>1, <1>2, <2>3 DEF FreeRange, C
  <2>5. ReservedKept'
    BY <1>1, <1>3, <2>2, <2>4, YieldKept
  <2>6. TypeInv'
    BY <1>1, <2>2 DEF TypeInv
  <2>7. IteratorInv'
    BY <1>1, <1>2, <2>2 DEF IteratorInv
  <2>8. QED BY <2>5, <2>6, <2>7 DEF IInv
<1>6. CASE current = NoRange /\ found # {}
  <2> DEFINE j == Min(found)
  <2>1. j \in found /\ \A i \in found : j <= i
    <3>1. \E x \in found : \A y \in found : x =< y
      BY <1>1, <1>6
    <3>2. QED BY <3>1 DEF Min
  <2> HIDE DEF j
  <2>2. /\ j \in taken + 1 .. NumReserved /\ Matters(Reserved(j))
        /\ \A i \in 1 .. j - 1 : ~Matters(Reserved(i))
    BY <1>1, <1>2, <1>6, <2>1 DEF IInv, IteratorInv, NoRange
  <2>3. current_pos % PageLen = 0
    BY <1>1, <1>6, <2>2 DEF IInv, IteratorInv
  <2>4. Loaded = [at |-> C(j), taken |-> j]
    BY <1>6 DEF Loaded, j, C
  <2>5. j \in 1 .. NumReserved /\ C(j).start < C(j).end /\ C(j).end > current_pos /\ C(j) # NoRange
    BY <1>1, <1>2, <2>2 DEF NoRange
  <2>6. CASE current_pos < C(j).start
    <3>1. /\ taken' = j /\ current_pos' = C(j).start /\ current' = C(j)
          /\ Yield(C(j).start)
      BY <2>4, <2>5, <2>6 DEF Iterate
    <3>2. FreeRange(current_pos, C(j).start)
      <4> SUFFICES ASSUME NEW i \in 1 .. NumReserved
                   PROVE  C(i).start >= C(i).end \/ C(i).end <= current_pos \/ C(j).start <= C(i).start
        BY <1>1, <1>2, <2>5 DEF FreeRange, C
      <4>1. CASE i < j
        BY <1>1, <1>2, <2>2, <2>5, <4>1
      <4>2. CASE i >= j
        BY <1>1, <1>2, <1>3, <2>5, <4>2
      <4>3. QED BY <1>1, <2>5, <4>1, <4>2
    <3>3. ReservedKept'
      BY <1>1, <1>2, <2>3, <2>5, <2>6, <3>1, <3>2, YieldKept
    <3>4. TypeInv'
      BY <1>1, <1>2, <2>5, <2>6, <3>1 DEF TypeInv
    <3>5. \A i \in 1 .. j - 1 : ~Matters(Reserved(i))'
      BY <1>1, <1>2, <2>2, <2>5, <2>6, <3>1
    <3>6. IteratorInv'
      BY <1>1, <1>2, <2>5, <3>1, <3>5 DEF IteratorInv, C
    <3>7. QED BY <3>3, <3>4, <3>6 DEF IInv
  <2>7. CASE ~(current_pos < C(j).start)
    <3>1. /\ taken' = j /\ current_pos' = C(j).end /\ current' = NoRange
          /\ UNCHANGED given
      BY <2>4, <2>5, <2>7 DEF Iterate
    <3>2. \A i \in 1 .. j : ~Matters(Reserved(i))'
      BY <1>1, <1>2, <2>2, <2>5, <3>1
    <3>3. TypeInv'
      BY <1>1, <1>2, <2>5, <3>1 DEF TypeInv
    <3>4. j = NumReserved \/ C(j).end % PageLen = 0
      BY <1>1, <1>3, <2>5
    <3>5. IteratorInv'
      BY <1>1, <3>1, <3>2, <3>4 DEF IteratorInv
    <3>6. ReservedKept'
      BY <1>1, <3>1 DEF IInv, ReservedKept, Ram
    <3>7. QED BY <3>3, <3>5, <3>6 DEF IInv
  <2>8. QED BY <2>6, <2>7
<1>7. QED BY <1>4, <1>5, <1>6
-----------------------------------------------------------------------------
\* init starts with nothing given to the page allocator.
LEMMA InitIInv ==
  ASSUME \A p \in Placements : InOrder(p), Init
  PROVE  IInv
  BY PlacementFacts DEF Init, IInv, TypeInv, IteratorInv, ReservedKept, NumReserved, Ram

\* Every step of init preserves the inductive invariant.
LEMMA NextIInv ==
  ASSUME \A p \in Placements : InOrder(p), IInv, [Next]_vars
  PROVE  IInv'
<1>1. InOrder(placement)
  BY DEF IInv, TypeInv
<1>2. CASE Iterate
  BY <1>1, <1>2, IterateIInv
<1>3. CASE UNCHANGED <<placement, current_pos, current, taken, given>>
  BY <1>3 DEF IInv, TypeInv, IteratorInv, ReservedKept, Matters, Cut, Reserved, Ram
<1>4. QED BY <1>2, <1>3 DEF Next, SetUpTables, Finish, Stopped, vars

\* The page allocator never gets a byte of the kernel image or the device tree,
\* for every placement in order: SubtractRanges::next yields only free ranges
\* and add_memory_region stays inside them.
THEOREM ReservedNeverGiven ==
  ASSUME \A p \in Placements : InOrder(p)
  PROVE  Spec => []ReservedKept
<1>1. Init => IInv
  BY InitIInv
<1>2. IInv /\ [Next]_vars => IInv'
  BY NextIInv
<1>3. IInv => ReservedKept
  BY DEF IInv
<1>4. QED BY <1>1, <1>2, <1>3, PTL DEF Spec
=============================================================================
