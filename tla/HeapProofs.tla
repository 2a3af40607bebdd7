----------------------------- MODULE HeapProofs -----------------------------
(***************************************************************************)
(* Proofs about Heap.tla, for every page size, every set of layouts and    *)
(* any number of live allocations.                                         *)
(*                                                                         *)
(* A free block of the list is a number of bytes that need not be a        *)
(* multiple of HeaderAlign, and what follows it up to the next boundary    *)
(* belongs to nobody.  The invariant is about the blocks with that slack:  *)
(* they are apart, and each of them has room for a header.                 *)
(***************************************************************************)
EXTENDS Heap, TLAPS

\* n is a multiple of a.
Aligned(n, a) == \E q \in Nat : n = q * a

\* Multiples of a are ordered as their factors are.
LEMMA Order ==
  ASSUME NEW a \in Nat \ {0}, NEW p \in Nat, NEW q \in Nat, p * a < q * a
  PROVE  p * a + a <= q * a
<1>1. p < q
  <2>1. ASSUME q <= p PROVE FALSE
    <3>1. PICK d \in Nat : p = q + d
      <4>1. p - q \in Nat /\ p = q + (p - q)
        BY <2>1
      <4>2. QED BY <4>1
    <3>2. p * a = q * a + d * a /\ d * a >= 0
      BY <3>1
    <3>3. QED BY <3>2
  <2>2. QED BY <2>1
<1>2. PICK d \in Nat : q = p + 1 + d
  <2>1. q - p - 1 \in Nat /\ q = p + 1 + (q - p - 1)
    BY <1>1
  <2>2. QED BY <2>1
<1>3. q * a = p * a + a + d * a /\ d * a >= 0
  BY <1>2
<1>4. QED BY <1>3

\* Multiples of a differ by a at least.
LEMMA Gap ==
  ASSUME NEW a \in Nat \ {0}, NEW m \in Nat, NEW n \in Nat, Aligned(m, a), Aligned(n, a), m < n
  PROVE  m + a <= n
<1>1. PICK p \in Nat : m = p * a
  BY DEF Aligned
<1>2. PICK q \in Nat : n = q * a
  BY DEF Aligned
<1>3. QED BY <1>1, <1>2, Order

\* Sums and differences of multiples of a, as for a block and an offset in it.
LEMMA AlignedSum ==
  ASSUME NEW a \in Nat \ {0}, NEW m \in Nat, NEW n \in Nat, Aligned(m, a), Aligned(n, a)
  PROVE  /\ Aligned(m + n, a)
         /\ n <= m => Aligned(m - n, a)
<1>1. PICK p \in Nat : m = p * a
  BY DEF Aligned
<1>2. PICK q \in Nat : n = q * a
  BY DEF Aligned
<1>3. Aligned(m + n, a)
  <2>1. p + q \in Nat /\ m + n = (p + q) * a
    BY <1>1, <1>2
  <2>2. QED BY <2>1 DEF Aligned
<1>4. ASSUME n <= m PROVE Aligned(m - n, a)
  <2>1. q <= p
    <3>1. ASSUME p < q PROVE FALSE
      <4>1. p * a + a <= q * a
        <5>1. PICK d \in Nat : q = p + 1 + d
          <6>1. q - p - 1 \in Nat /\ q = p + 1 + (q - p - 1)
            BY <3>1
          <6>2. QED BY <6>1
        <5>2. q * a = p * a + a + d * a /\ d * a >= 0
          BY <5>1
        <5>3. p * a \in Nat
          OBVIOUS
        <5>4. QED BY <5>2, <5>3
      <4>2. QED BY <1>1, <1>2, <1>4, <4>1
    <3>2. QED BY <3>1
  <2>2. p - q \in Nat /\ m - n = (p - q) * a
    BY <1>1, <1>2, <2>1
  <2>3. QED BY <2>2 DEF Aligned
<1>5. QED BY <1>3, <1>4

\* The remainder tells the multiples.
LEMMA DividesAligned ==
  ASSUME NEW a \in Nat \ {0}, NEW n \in Nat, n % a = 0
  PROVE  Aligned(n, a)
<1>1. n \div a \in Nat /\ n = (n \div a) * a + (n % a)
  OBVIOUS
<1>2. QED BY <1>1 DEF Aligned

\* A multiple of a is a at least.
LEMMA AlignedLeast ==
  ASSUME NEW a \in Nat \ {0}, NEW n \in Nat \ {0}, Aligned(n, a)
  PROVE  a <= n
<1>1. Aligned(0, a)
  BY DEF Aligned
<1>2. 0 + a <= n
  BY <1>1, Gap
<1>3. QED BY <1>2

\* A multiple of a multiple.
LEMMA AlignedTrans ==
  ASSUME NEW a \in Nat \ {0}, NEW b \in Nat, NEW n \in Nat, Aligned(b, a), Aligned(n, b)
  PROVE  Aligned(n, a)
<1>1. PICK p \in Nat : b = p * a
  BY DEF Aligned
<1>2. PICK q \in Nat : n = q * b
  BY DEF Aligned
<1>3. n = (q * p) * a /\ q * p \in Nat
  BY <1>1, <1>2
<1>4. QED BY <1>3 DEF Aligned

\* AlignUp is the least multiple from n on.
LEMMA AlignUpFacts ==
  ASSUME NEW n \in Nat, NEW a \in Nat \ {0}
  PROVE  /\ AlignUp(n, a) \in Nat
         /\ n <= AlignUp(n, a) /\ AlignUp(n, a) < n + a
         /\ Aligned(AlignUp(n, a), a)
<1> DEFINE q == (n + a - 1) \div a
<1>1. q \in Nat /\ n + a - 1 = q * a + ((n + a - 1) % a) /\ (n + a - 1) % a \in 0 .. a - 1
  OBVIOUS
<1> HIDE DEF q
<1>2. q * a \in Nat
  BY <1>1
<1>3. AlignUp(n, a) = q * a
  BY DEF AlignUp, q
<1>4. Aligned(AlignUp(n, a), a)
  BY <1>1, <1>3 DEF Aligned
<1> DEFINE b == q * a
<1>5. b \in Nat /\ n + a - 1 - b \in 0 .. a - 1
  BY <1>1, <1>2
<1> HIDE DEF b
<1>6. n <= b /\ b < n + a
  BY <1>5
<1>7. QED BY <1>2, <1>3, <1>4, <1>6 DEF b

\* align_up has no other result.
LEMMA AlignUpUnique ==
  ASSUME NEW n \in Nat, NEW a \in Nat \ {0}, NEW m \in Nat, Aligned(m, a), n <= m, m < n + a
  PROVE  AlignUp(n, a) = m
<1> DEFINE u == AlignUp(n, a)
<1>1. u \in Nat /\ n <= u /\ u < n + a /\ Aligned(u, a)
  BY AlignUpFacts
<1> HIDE DEF u
<1>2. ~(m < u) /\ ~(u < m)
  BY <1>1, Gap
<1>3. u = m
  BY <1>1, <1>2
<1>4. QED BY <1>3 DEF u

-----------------------------------------------------------------------------
\* The larger of two numbers, as page_count takes it.
LEMMA MaxFacts ==
  ASSUME NEW m \in Nat, NEW n \in Nat
  PROVE  Max({m, n}) = IF m >= n THEN m ELSE n
<1>1. \E x \in {m, n} : \A y \in {m, n} : x >= y
  <2>1. CASE m >= n
    BY <2>1
  <2>2. CASE n >= m
    BY <2>2
  <2>3. QED BY <2>1, <2>2
<1>2. Max({m, n}) \in {m, n} /\ \A y \in {m, n} : Max({m, n}) >= y
  BY <1>1 DEF Max
<1>3. QED BY <1>2

\* push_free_block puts a block in front.
LEMMA PushFacts ==
  ASSUME NEW S, NEW s \in Seq(S), NEW x \in S, NEW r, r = <<x>> \o s
  PROVE  /\ r \in Seq(S) /\ Len(r) = Len(s) + 1
         /\ r[1] = x
         /\ \A i \in 2 .. Len(s) + 1 : r[i] = s[i - 1]
  OBVIOUS

\* try_remove_fit takes a block out of the list.
LEMMA UnlinkFacts ==
  ASSUME NEW S, NEW s \in Seq(S), NEW k \in 1 .. Len(s),
         NEW r, r = Unlinked(s, k)
  PROVE  /\ r \in Seq(S) /\ Len(r) = Len(s) - 1
         /\ \A i \in 1 .. Len(s) - 1 : r[i] = s[IF i < k THEN i ELSE i + 1]
<1> DEFINE p == SubSeq(s, 1, k - 1)
           q == SubSeq(s, k + 1, Len(s))
<1>1. p \in Seq(S) /\ Len(p) = k - 1 /\ \A i \in 1 .. k - 1 : p[i] = s[i]
  OBVIOUS
<1>2. q \in Seq(S) /\ Len(q) = Len(s) - k /\ \A i \in 1 .. Len(s) - k : q[i] = s[k + i]
  OBVIOUS
<1>3. r = p \o q
  BY DEF Unlinked
<1> HIDE DEF p, q
<1>4. r \in Seq(S) /\ Len(r) = Len(s) - 1
  <2>1. r \in Seq(S) /\ Len(r) = Len(p) + Len(q)
    <3>1. p \in Seq(S) /\ q \in Seq(S)
      BY <1>1, <1>2
    <3>2. p \o q \in Seq(S) /\ Len(p \o q) = Len(p) + Len(q)
      BY <3>1
    <3>3. QED BY <1>3, <3>2
  <2>2. QED BY <1>1, <1>2, <2>1
<1>5. ASSUME NEW i \in 1 .. Len(s) - 1
      PROVE  r[i] = s[IF i < k THEN i ELSE i + 1]
  <2>1. CASE i < k
    BY <1>1, <1>2, <1>3, <2>1
  <2>2. CASE i >= k
    <3>1. r[i] = q[i - (k - 1)]
      BY <1>1, <1>2, <1>3, <2>2
    <3>2. q[i - (k - 1)] = s[k + (i - (k - 1))] /\ k + (i - (k - 1)) = i + 1
      BY <1>2, <2>2
    <3>3. QED BY <2>2, <3>1, <3>2
  <2>3. QED BY <2>1, <2>2
<1>6. QED BY <1>4, <1>5
-----------------------------------------------------------------------------
\* The bytes that a size stands for: to the next boundary of a header.
Up(n) == AlignUp(n, HeaderAlign)

Blocks == [addr : Nat, size : Nat]
End(b) == b.addr + Up(b.size)

\* The block that an allocation was put in.
BlockOf(a) == [addr |-> a.block, size |-> a.size]

Apart(b, c) == End(b) <= c.addr \/ End(c) <= b.addr

\* A block starts on a boundary and has room for a header, below the limit.
Sound(b, limit) ==
  /\ b \in Blocks
  /\ Aligned(b.addr, HeaderAlign)
  /\ HeaderSize <= Up(b.size)
  /\ End(b) <= limit

\* The same for a list, whose blocks are apart.
ListInv(list, limit) ==
  /\ list \in Seq(Blocks)
  /\ \A i \in 1 .. Len(list) : Sound(list[i], limit)
  /\ \A i, j \in 1 .. Len(list) : i # j => Apart(list[i], list[j])

\* An allocation fills its block from the end of the padding to the end, and
\* the padding is not more than the layout allows for.
AllocationInv(a) ==
  /\ a \in [ptr : Nat, block : Nat, size : Nat, layout : Layouts]
  /\ a.ptr + a.layout.size = a.block + a.size
  /\ HeaderSize + a.layout.size <= a.size /\ a.size <= Required(a.layout)

HeldInv(h, limit) ==
  /\ \A a \in h : AllocationInv(a) /\ Sound(BlockOf(a), limit)
  /\ \A a, b \in h : a # b => Apart(BlockOf(a), BlockOf(b))

\* Free blocks are apart from allocations.
CrossInv(list, h) == \A i \in 1 .. Len(list) : \A a \in h : Apart(list[i], BlockOf(a))

IInv ==
  /\ taken \in Nat
  /\ ListInv(free, taken * PageSize)
  /\ HeldInv(held, taken * PageSize)
  /\ CrossInv(free, held)

\* What HeapAssumption says, with multiples for remainders.
LEMMA Constants ==
  /\ HeaderAlign \in Nat \ {0} /\ HeaderSize \in Nat \ {0} /\ HeaderSize = 2 * HeaderAlign
  /\ Aligned(HeaderSize, HeaderAlign)
  /\ PageSize \in Nat \ {0} /\ Aligned(PageSize, HeaderSize)
  /\ \A l \in Layouts : /\ l.size \in Nat \ {0} /\ l.align \in Nat \ {0}
                        /\ Aligned(HeaderAlign, l.align) \/ Aligned(l.align, HeaderSize)
                        /\ HeaderPaddingMax(l) \in Nat
<1>1. HeaderAlign \in Nat \ {0} /\ HeaderSize \in Nat \ {0} /\ HeaderSize = 2 * HeaderAlign
  BY HeapAssumption
<1>2. Aligned(HeaderSize, HeaderAlign)
  BY <1>1 DEF Aligned
<1>3. PageSize \in Nat \ {0} /\ Aligned(PageSize, HeaderSize)
  <2>1. PageSize \in Nat \ {0} /\ PageSize % HeaderSize = 0
    BY HeapAssumption
  <2>2. QED BY <1>1, <2>1, DividesAligned
<1>4. ASSUME NEW l \in Layouts
      PROVE  /\ l.size \in Nat \ {0} /\ l.align \in Nat \ {0}
             /\ Aligned(HeaderAlign, l.align) \/ Aligned(l.align, HeaderSize)
             /\ HeaderPaddingMax(l) \in Nat
  <2>1. l.size \in Nat \ {0} /\ l.align \in Nat \ {0}
        /\ (HeaderAlign % l.align = 0 \/ l.align % HeaderSize = 0)
    BY HeapAssumption
  <2>2. Aligned(HeaderAlign, l.align) \/ Aligned(l.align, HeaderSize)
    BY <1>1, <2>1, DividesAligned
  <2>3. CASE Aligned(HeaderAlign, l.align)
    <3>1. l.align <= HeaderAlign
      BY <1>1, <2>1, <2>3, AlignedLeast
    <3>2. QED BY <2>1, <2>2, <3>1 DEF HeaderPaddingMax
  <2>4. CASE Aligned(l.align, HeaderSize)
    <3>1. HeaderSize <= l.align
      BY <1>1, <2>1, <2>4, AlignedLeast
    <3>2. QED BY <1>1, <2>1, <2>2, <3>1 DEF HeaderPaddingMax
  <2>5. QED BY <2>2, <2>3, <2>4
<1>5. QED BY <1>1, <1>2, <1>3, <1>4

\* Up rounds up to a boundary of a header.
LEMMA UpFacts ==
  ASSUME NEW n \in Nat
  PROVE  Up(n) \in Nat /\ n <= Up(n) /\ Up(n) < n + HeaderAlign /\ Aligned(Up(n), HeaderAlign)
  BY Constants, AlignUpFacts DEF Up

\* What is larger has a larger boundary.
LEMMA UpMonotone ==
  ASSUME NEW m \in Nat, NEW n \in Nat, m <= n
  PROVE  Up(m) <= Up(n)
<1>1. ~(Up(n) < Up(m))
  BY Constants, UpFacts, Gap
<1>2. QED BY <1>1, UpFacts

\* The rest of a split, which may be smaller than a header, ends where its block
\* ends, and up to there a header does fit.
LEMMA SplitFacts ==
  ASSUME NEW m \in Nat, NEW n \in Nat, n - m > HeaderSize
  PROVE  /\ n - Up(m) \in Nat
         /\ Up(n - Up(m)) = Up(n) - Up(m)
         /\ HeaderSize <= Up(n) - Up(m)
<1> DEFINE a == HeaderAlign
           u == Up(m)
           v == Up(n)
<1>1. a \in Nat \ {0} /\ HeaderSize = 2 * a
  BY Constants
<1>2. u \in Nat /\ m <= u /\ u < m + a /\ Aligned(u, a)
  BY UpFacts
<1>3. v \in Nat /\ n <= v /\ v < n + a /\ Aligned(v, a)
  BY UpFacts
<1> HIDE DEF a, u, v
<1>4. n - u \in Nat /\ u <= v /\ v - u \in Nat
  BY <1>1, <1>2, <1>3
<1>5. Aligned(v - u, a)
  BY <1>1, <1>2, <1>3, <1>4, AlignedSum
<1>6. Up(n - u) = v - u
  <2>1. n - u <= v - u /\ v - u < (n - u) + a
    BY <1>1, <1>2, <1>3, <1>4
  <2>2. AlignUp(n - u, a) = v - u
    BY <1>1, <1>4, <1>5, <2>1, AlignUpUnique
  <2>3. QED BY <2>2 DEF Up, a
<1>7. a < v - u
  BY <1>1, <1>2, <1>3
<1>8. a \in Nat /\ Aligned(a, a)
  BY <1>1 DEF Aligned
<1>9. a + a <= v - u
  BY <1>1, <1>4, <1>5, <1>7, <1>8, Gap
<1>10. QED BY <1>1, <1>4, <1>6, <1>9 DEF u, v

\* A block that lies within another one is apart from what that one is apart from.
LEMMA ApartWithin ==
  ASSUME NEW b \in Blocks, NEW c \in Blocks, NEW d \in Blocks,
         b.addr <= c.addr, End(c) <= End(b), Apart(b, d)
  PROVE  Apart(c, d) /\ Apart(d, c)
<1>1. /\ b.addr \in Nat /\ c.addr \in Nat /\ d.addr \in Nat
      /\ End(b) \in Nat /\ End(c) \in Nat /\ End(d) \in Nat
  <2>1. \A x \in Blocks : x.addr \in Nat /\ x.size \in Nat
    BY DEF Blocks
  <2>2. QED BY <2>1, UpFacts DEF End
<1>2. QED BY <1>1 DEF Apart

\* A block in front of a list from which it is apart.
LEMMA PushInv ==
  ASSUME NEW limit, NEW list, NEW h, ListInv(list, limit), CrossInv(list, h),
         NEW b, Sound(b, limit), \A i \in 1 .. Len(list) : Apart(b, list[i]) /\ Apart(list[i], b),
         \A a \in h : Apart(b, BlockOf(a)), NEW r, r = <<b>> \o list
  PROVE  ListInv(r, limit) /\ CrossInv(r, h)
<1>1. b \in Blocks /\ list \in Seq(Blocks) /\ Len(list) \in Nat
  BY DEF Sound, ListInv
<1>2. /\ r \in Seq(Blocks) /\ Len(r) = Len(list) + 1
      /\ r[1] = b
      /\ \A i \in 2 .. Len(list) + 1 : r[i] = list[i - 1]
  BY <1>1, PushFacts
<1>3. \A i \in 1 .. Len(r) : \/ i = 1 /\ r[i] = b
                             \/ i # 1 /\ i - 1 \in 1 .. Len(list) /\ r[i] = list[i - 1]
  BY <1>1, <1>2
<1>4. \A i \in 1 .. Len(r) : Sound(r[i], limit)
  BY <1>3 DEF ListInv
<1>5. ASSUME NEW i \in 1 .. Len(r), NEW j \in 1 .. Len(r), i # j
      PROVE  Apart(r[i], r[j])
  <2>1. CASE i = 1
    BY <1>3, <1>5, <2>1
  <2>2. CASE j = 1
    BY <1>3, <1>5, <2>2
  <2>3. CASE i # 1 /\ j # 1
    <3>1. i - 1 \in 1 .. Len(list) /\ j - 1 \in 1 .. Len(list) /\ i - 1 # j - 1
          /\ r[i] = list[i - 1] /\ r[j] = list[j - 1]
      BY <1>2, <1>3, <1>5, <2>3
    <3>2. QED BY <3>1 DEF ListInv
  <2>4. QED BY <2>1, <2>2, <2>3
<1>6. CrossInv(r, h)
  BY <1>3 DEF CrossInv
<1>7. QED BY <1>2, <1>4, <1>5, <1>6 DEF ListInv

\* The end of alloc puts the allocation at the start of the block and the rest,
\* if any, in the list, and both stay within the block.
LEMMA PlaceInv ==
  ASSUME NEW l \in Layouts, NEW block \in Nat, NEW total \in Nat, NEW list, NEW limit \in Nat,
         Sound([addr |-> block, size |-> total], limit), Required(l) <= total,
         ListInv(list, limit), HeldInv(held, limit), CrossInv(list, held),
         \A i \in 1 .. Len(list) : Apart([addr |-> block, size |-> total], list[i]),
         \A a \in held : Apart([addr |-> block, size |-> total], BlockOf(a)),
         Place(l, block, total, list), reply' # "panic"
  PROVE  ListInv(free', limit) /\ HeldInv(held', limit) /\ CrossInv(free', held')
<1> DEFINE data == AlignUp(block + HeaderSize, l.align)
           padding == data - (block + HeaderSize)
           actual == HeaderSize + padding + l.size
           new == [ptr |-> data, block |-> block, size |-> actual, layout |-> l]
           whole == [addr |-> block, size |-> total]
           rest == [addr |-> block + Up(actual), size |-> total - Up(actual)]
<1>1. /\ l.size \in Nat \ {0} /\ l.align \in Nat \ {0} /\ HeaderPaddingMax(l) \in Nat
      /\ HeaderAlign \in Nat \ {0} /\ HeaderSize = 2 * HeaderAlign /\ HeaderSize \in Nat \ {0}
  BY Constants
<1>2. data \in Nat /\ padding \in Nat
  <2>1. block + HeaderSize \in Nat
    BY <1>1
  <2>2. data \in Nat /\ block + HeaderSize <= data
    BY <1>1, <2>1, AlignUpFacts
  <2>3. QED BY <2>1, <2>2
<1>3. /\ ~(padding > HeaderPaddingMax(l))
      /\ free' = IF Splits(total, actual) THEN <<rest>> \o list ELSE list
      /\ held' = held \cup {new}
  BY DEF Place, RestOffset, Up
<1>4. /\ actual \in Nat /\ actual <= total
      /\ HeaderSize + l.size <= actual /\ actual <= Required(l)
      /\ data + l.size = block + actual
  <2>1. padding <= HeaderPaddingMax(l) /\ data = block + HeaderSize + padding
    BY <1>1, <1>2, <1>3
  <2> HIDE DEF data, padding
  <2>2. QED BY <1>1, <1>2, <2>1 DEF Required
<1>5. AllocationInv(new)
  BY <1>2, <1>4 DEF AllocationInv
<1> HIDE DEF data, padding, actual
<1>6. BlockOf(new) = [addr |-> block, size |-> actual] /\ BlockOf(new) \in Blocks /\ whole \in Blocks
  BY <1>4 DEF BlockOf, Blocks
<1>7. Up(actual) \in Nat /\ Up(total) \in Nat /\ Up(actual) <= Up(total) /\ actual <= Up(actual)
  BY <1>4, UpFacts, UpMonotone
<1>8. /\ BlockOf(new).addr = block /\ End(BlockOf(new)) = block + Up(actual)
      /\ whole.addr = block /\ End(whole) = block + Up(total)
      /\ Aligned(block, HeaderAlign) /\ block + Up(total) <= limit
  BY <1>6 DEF End, Sound
<1>9. Sound(BlockOf(new), limit)
  <2>1. HeaderSize <= Up(actual) /\ block + Up(actual) <= limit
    BY <1>1, <1>4, <1>7, <1>8
  <2>2. BlockOf(new).size = actual
    BY <1>6
  <2> HIDE DEF new
  <2>3. QED BY <1>6, <1>8, <2>1, <2>2 DEF Sound
<1>10. whole.addr <= BlockOf(new).addr /\ End(BlockOf(new)) <= End(whole)
  BY <1>7, <1>8
<1>11. \A i \in 1 .. Len(list) : Apart(BlockOf(new), list[i]) /\ Apart(list[i], BlockOf(new))
  BY <1>6, <1>10, ApartWithin DEF ListInv, Sound
<1>12. \A a \in held : Apart(BlockOf(new), BlockOf(a)) /\ Apart(BlockOf(a), BlockOf(new))
  BY <1>6, <1>10, ApartWithin DEF HeldInv, Sound
<1> HIDE DEF new, whole, rest
<1>13. HeldInv(held', limit)
  BY <1>3, <1>5, <1>9, <1>12 DEF HeldInv
<1>14. CrossInv(list, held')
  BY <1>3, <1>11 DEF CrossInv
<1>15. CASE ~Splits(total, actual)
  BY <1>3, <1>13, <1>14, <1>15
<1>16. CASE Splits(total, actual)
  <2>1. /\ total - Up(actual) \in Nat
        /\ Up(total - Up(actual)) = Up(total) - Up(actual)
        /\ HeaderSize <= Up(total) - Up(actual)
    BY <1>4, <1>16, SplitFacts DEF Splits
  <2>2. /\ rest \in Blocks /\ rest.addr = block + Up(actual) /\ End(rest) = End(whole)
        /\ rest.size = total - Up(actual)
    BY <1>7, <1>8, <2>1 DEF Blocks, End, rest
  <2>3. Sound(rest, limit)
    <3>1. Aligned(block + Up(actual), HeaderAlign)
      BY <1>1, <1>4, <1>7, <1>8, UpFacts, AlignedSum
    <3>2. QED BY <1>8, <2>1, <2>2, <3>1 DEF Sound
  <2>4. whole.addr <= rest.addr /\ End(rest) <= End(whole) /\ whole \in Blocks
    BY <1>6, <1>7, <1>8, <2>2
  <2>5. \A i \in 1 .. Len(list) : Apart(rest, list[i]) /\ Apart(list[i], rest)
    <3>1. \A i \in 1 .. Len(list) : list[i] \in Blocks /\ Apart(whole, list[i])
      BY DEF ListInv, Sound, whole
    <3>2. QED BY <2>2, <2>4, <3>1, ApartWithin
  <2>6. \A a \in held' : Apart(rest, BlockOf(a))
    <3>1. \A a \in held : BlockOf(a) \in Blocks /\ Apart(whole, BlockOf(a))
      BY DEF HeldInv, Sound, whole
    <3>2. \A a \in held : Apart(rest, BlockOf(a))
      BY <2>2, <2>4, <3>1, ApartWithin
    <3>3. Apart(rest, BlockOf(new))
      BY <1>7, <1>8, <2>2 DEF Apart
    <3>4. QED BY <1>3, <3>2, <3>3
  <2>7. ListInv(free', limit) /\ CrossInv(free', held')
    BY <1>3, <1>14, <1>16, <2>3, <2>5, <2>6, PushInv
  <2>8. QED BY <1>13, <2>7
<1>17. QED BY <1>15, <1>16

\* More pages leave what there is where it is.
LEMMA LimitGrows ==
  ASSUME NEW m \in Nat, NEW n \in Nat, m <= n, ListInv(free, m), HeldInv(held, m)
  PROVE  ListInv(free, n) /\ HeldInv(held, n)
<1>1. \A b : Sound(b, m) => Sound(b, n)
  <2> SUFFICES ASSUME NEW b, Sound(b, m) PROVE Sound(b, n)
    OBVIOUS
  <2>1. End(b) \in Nat
    BY UpFacts DEF Sound, Blocks, End
  <2>2. QED BY <2>1 DEF Sound
<1>2. QED BY <1>1 DEF ListInv, HeldInv

\* A block of the list is given to the allocation.
LEMMA AllocFromListInv ==
  ASSUME IInv, NEW l \in Layouts, AllocFromList(l), reply' # "panic"
  PROVE  IInv'
<1> DEFINE limit == taken * PageSize
<1>1. PICK k \in DOMAIN free : /\ free[k].size >= Required(l)
                               /\ Place(l, free[k].addr, free[k].size, Unlinked(free, k))
  BY DEF AllocFromList
<1>2. free \in Seq(Blocks) /\ DOMAIN free = 1 .. Len(free) /\ Len(free) \in Nat
  BY DEF IInv, ListInv
<1>3. k \in 1 .. Len(free) /\ taken' = taken
  BY <1>2 DEF AllocFromList
<1> DEFINE list == Unlinked(free, k)
<1>4. limit \in Nat
  BY Constants DEF IInv
<1>5. /\ list \in Seq(Blocks) /\ Len(list) = Len(free) - 1
      /\ \A i \in 1 .. Len(free) - 1 : list[i] = free[IF i < k THEN i ELSE i + 1]
  BY <1>2, <1>3, UnlinkFacts
<1> HIDE DEF list
<1> DEFINE s(i) == IF i < k THEN i ELSE i + 1
<1>6. \A i \in 1 .. Len(list) : s(i) \in 1 .. Len(free) /\ s(i) # k /\ list[i] = free[s(i)]
  BY <1>2, <1>3, <1>5
<1>7. \A i, j \in 1 .. Len(list) : i # j => s(i) # s(j)
  BY <1>2, <1>3, <1>5
<1> HIDE DEF s
<1>8. ListInv(list, limit)
  BY <1>5, <1>6, <1>7 DEF IInv, ListInv
<1>9. CrossInv(list, held)
  BY <1>6 DEF IInv, CrossInv
<1>10. /\ Sound(free[k], limit) /\ free[k] \in Blocks
       /\ \A i \in 1 .. Len(list) : Apart(free[k], list[i])
       /\ \A a \in held : Apart(free[k], BlockOf(a))
  BY <1>3, <1>6 DEF IInv, ListInv, CrossInv, Sound
<1>11. /\ free[k] = [addr |-> free[k].addr, size |-> free[k].size]
       /\ free[k].addr \in Nat /\ free[k].size \in Nat
  BY <1>10 DEF Blocks
<1>12. Required(l) <= free[k].size
  BY <1>1, <1>11, Constants DEF Required
<1> DEFINE block == free[k].addr
           total == free[k].size
<1> HIDE DEF block, total
<1>13. /\ Sound([addr |-> block, size |-> total], limit)
       /\ \A i \in 1 .. Len(list) : Apart([addr |-> block, size |-> total], list[i])
       /\ \A a \in held : Apart([addr |-> block, size |-> total], BlockOf(a))
       /\ block \in Nat /\ total \in Nat /\ Required(l) <= total /\ Place(l, block, total, list)
  BY <1>1, <1>10, <1>11, <1>12 DEF block, total, list
<1>14. HeldInv(held, limit)
  BY DEF IInv
<1> HIDE DEF limit
<1>15. ListInv(free', limit) /\ HeldInv(held', limit) /\ CrossInv(free', held')
  BY <1>4, <1>8, <1>9, <1>13, <1>14, PlaceInv
<1>16. limit = taken' * PageSize
  BY <1>3 DEF limit
<1>17. QED BY <1>3, <1>15, <1>16 DEF IInv

\* The pages that alloc asks for hold the request.
LEMMA PageCount ==
  ASSUME NEW n \in Nat, NEW c, c = Max({(n + PageSize - 1) \div PageSize, MinPageAllocation})
  PROVE  c \in Nat \ {0} /\ n <= c * PageSize
<1> DEFINE q == (n + PageSize - 1) \div PageSize
           m == MinPageAllocation
<1>1. PageSize \in Nat \ {0} /\ m \in Nat \ {0}
  BY HeapAssumption
<1>2. q \in Nat
  BY <1>1
<1>3. n <= q * PageSize
  BY <1>1, AlignUpFacts DEF AlignUp
<1> HIDE DEF q, m
<1>4. c = IF q >= m THEN q ELSE m
  BY <1>1, <1>2, MaxFacts DEF q, m
<1>5. c \in Nat \ {0} /\ q <= c
  BY <1>1, <1>2, <1>4
<1>6. PICK d \in Nat : c = q + d
  <2>1. c - q \in Nat /\ c = q + (c - q)
    BY <1>2, <1>5
  <2>2. QED BY <2>1
<1>7. c * PageSize = q * PageSize + d * PageSize /\ d * PageSize >= 0
  BY <1>1, <1>2, <1>6
<1>8. QED BY <1>1, <1>2, <1>3, <1>5, <1>7

\* A whole number of pages ends on a boundary.
LEMMA PagesAligned ==
  ASSUME NEW n \in Nat
  PROVE  n * PageSize \in Nat /\ Aligned(n * PageSize, HeaderAlign) /\ Up(n * PageSize) = n * PageSize
<1>1. PageSize \in Nat /\ HeaderAlign \in Nat \ {0} /\ Aligned(PageSize, HeaderAlign)
  BY Constants, AlignedTrans
<1>2. n * PageSize \in Nat
  BY <1>1
<1>3. Aligned(n * PageSize, PageSize)
  BY DEF Aligned
<1>4. Aligned(n * PageSize, HeaderAlign)
  BY <1>1, <1>2, <1>3, AlignedTrans
<1>5. Up(n * PageSize) = n * PageSize
  BY <1>1, <1>2, <1>4, AlignUpUnique DEF Up
<1>6. QED BY <1>2, <1>4, <1>5

\* A failed assertion leaves blocks and allocations alone.
LEMMA QuietInv ==
  ASSUME IInv, UNCHANGED <<free, held>>, taken' \in Nat, taken <= taken'
  PROVE  IInv'
<1> DEFINE t == taken'
<1>1. PageSize \in Nat /\ taken \in Nat /\ t \in Nat /\ taken <= t
  BY Constants DEF IInv
<1> HIDE DEF t
<1>2. /\ taken * PageSize \in Nat /\ t * PageSize \in Nat
      /\ taken * PageSize <= t * PageSize
  <2>1. PICK d \in Nat : t = taken + d
    <3>1. t - taken \in Nat /\ t = taken + (t - taken)
      BY <1>1
    <3>2. QED BY <3>1
  <2>2. t * PageSize = taken * PageSize + d * PageSize /\ d * PageSize \in Nat /\ taken * PageSize \in Nat
    BY <1>1, <2>1
  <2>3. QED BY <2>2
<1>3. ListInv(free, t * PageSize) /\ HeldInv(held, t * PageSize)
  BY <1>2, LimitGrows DEF IInv
<1>4. QED BY <1>3 DEF IInv, t

\* The new pages are apart from all that there was.
LEMMA AllocFromPagesInv ==
  ASSUME IInv, NEW l \in Layouts, AllocFromPages(l), reply' # "panic"
  PROVE  IInv'
<1> DEFINE count == Max({(Required(l) + PageSize - 1) \div PageSize, MinPageAllocation})
           block == taken * PageSize
           total == count * PageSize
           limit == (taken + count) * PageSize
           whole == [addr |-> block, size |-> total]
<1>1. \/ UNCHANGED <<free, held, taken>>
      \/ Place(l, block, total, free) /\ taken' = taken + count
  BY DEF AllocFromPages
<1>2. CASE UNCHANGED <<free, held, taken>>
  BY <1>2, QuietInv DEF IInv
<1>3. CASE Place(l, block, total, free) /\ taken' = taken + count
  <2>1. Required(l) \in Nat
    BY Constants DEF Required
  <2>2. count \in Nat \ {0} /\ Required(l) <= total
    BY <2>1, PageCount
  <2> HIDE DEF count
  <2>3. taken \in Nat /\ taken + count \in Nat
    BY <2>2 DEF IInv
  <2>4. /\ block \in Nat /\ Aligned(block, HeaderAlign)
        /\ total \in Nat /\ Up(total) = total
        /\ limit \in Nat
    BY <2>2, <2>3, PagesAligned
  <2>5. limit = block + total
    BY <2>2, <2>3, Constants
  <2> HIDE DEF block, total, limit
  <2>6. whole \in Blocks /\ whole.addr = block /\ End(whole) = limit
    BY <2>4, <2>5 DEF Blocks, End
  <2>7. HeaderSize <= total
    BY <2>1, <2>2, <2>4, Constants DEF Required
  <2>8. Sound(whole, limit)
    BY <2>4, <2>6, <2>7 DEF Sound
  <2> HIDE DEF whole
  <2>9. ListInv(free, block) /\ HeldInv(held, block) /\ CrossInv(free, held)
    BY DEF IInv, block
  <2>10. \A b : Sound(b, block) => Apart(whole, b)
    BY <2>6 DEF Apart, Sound
  <2>11. /\ \A i \in 1 .. Len(free) : Apart(whole, free[i])
         /\ \A a \in held : Apart(whole, BlockOf(a))
    BY <2>9, <2>10 DEF ListInv, HeldInv
  <2>12. ListInv(free, limit) /\ HeldInv(held, limit)
    <3>1. block <= limit
      BY <2>4, <2>5
    <3>2. QED BY <2>4, <2>9, <3>1, LimitGrows
  <2>13. ListInv(free', limit) /\ HeldInv(held', limit) /\ CrossInv(free', held')
    BY <1>3, <2>2, <2>4, <2>8, <2>9, <2>11, <2>12, PlaceInv DEF whole
  <2>14. limit = taken' * PageSize
    BY <1>3 DEF limit
  <2>15. QED BY <1>3, <2>3, <2>13, <2>14 DEF IInv
<1>4. QED BY <1>1, <1>2, <1>3

\* dealloc puts the block back that alloc has cut off.
LEMMA DeallocInv ==
  ASSUME IInv, NEW a \in held, Dealloc(a), reply' # "panic"
  PROVE  IInv'
<1> DEFINE b == [addr |-> a.block, size |-> a.size]
           limit == taken * PageSize
<1>1. free' = <<b>> \o free /\ held' = held \ {a} /\ taken' = taken
  BY DEF Dealloc, Panic
<1>2. b = BlockOf(a)
  BY DEF BlockOf
<1> HIDE DEF b, limit
<1>3. ListInv(free, limit) /\ HeldInv(held, limit) /\ CrossInv(free, held)
  BY DEF IInv, limit
<1>4. HeldInv(held', limit) /\ CrossInv(free, held') /\ Sound(b, limit)
  BY <1>1, <1>2, <1>3 DEF HeldInv, CrossInv
<1>5. \A c \in held' : Apart(b, BlockOf(c))
  BY <1>1, <1>2, <1>3 DEF HeldInv
<1>6. \A i \in 1 .. Len(free) : Apart(b, free[i]) /\ Apart(free[i], b)
  BY <1>2, <1>3 DEF CrossInv, Apart
<1>7. ListInv(free', limit) /\ CrossInv(free', held')
  BY <1>1, <1>3, <1>4, <1>5, <1>6, PushInv
<1>8. limit = taken' * PageSize /\ taken' \in Nat
  BY <1>1 DEF limit, IInv
<1>9. QED BY <1>4, <1>7, <1>8 DEF IInv

\* Every step keeps the invariant.
LEMMA NextIInv == IInv /\ [Next]_vars => IInv'
<1> SUFFICES ASSUME IInv, [Next]_vars PROVE IInv'
  OBVIOUS
<1>1. ASSUME UNCHANGED <<free, held, taken>> PROVE IInv'
  BY <1>1, QuietInv DEF IInv
<1>2. CASE UNCHANGED vars \/ SetPageAllocator
  BY <1>1, <1>2 DEF vars, SetPageAllocator
<1>3. CASE \E l \in Layouts : AllocFromList(l) \/ AllocFromPages(l)
  <2>1. CASE reply' # "panic"
    BY <1>3, <2>1, AllocFromListInv, AllocFromPagesInv
  <2>2. CASE reply' = "panic"
    <3>1. PICK l \in Layouts : AllocFromList(l) \/ AllocFromPages(l)
      BY <1>3
    <3> DEFINE count == Max({(Required(l) + PageSize - 1) \div PageSize, MinPageAllocation})
    <3>2. UNCHANGED <<free, held>> /\ (taken' = taken \/ taken' = taken + count)
      BY <2>2, <3>1 DEF AllocFromList, AllocFromPages, Place
    <3>3. Required(l) \in Nat
      BY Constants DEF Required
    <3>4. count \in Nat
      BY <3>3, PageCount
    <3> HIDE DEF count
    <3>5. taken' \in Nat /\ taken <= taken'
      BY <3>2, <3>4 DEF IInv
    <3>6. QED BY <3>2, <3>5, QuietInv
  <2>3. QED BY <2>1, <2>2
<1>4. CASE \E a \in held : Dealloc(a)
  <2>1. CASE reply' # "panic"
    BY <1>4, <2>1, DeallocInv
  <2>2. CASE reply' = "panic"
    BY <1>1, <1>4, <2>2 DEF Dealloc, Panic
  <2>3. QED BY <2>1, <2>2
<1>5. QED BY <1>2, <1>3, <1>4 DEF Next

\* The invariant holds after any calls of alloc, dealloc and init.
LEMMA Invariance == Spec => []IInv
<1>1. Init => IInv
  <2> SUFFICES ASSUME Init PROVE IInv
    OBVIOUS
  <2>1. free = <<>> /\ held = {} /\ taken = 0
    BY DEF Init
  <2>2. free \in Seq(Blocks) /\ Len(free) = 0
    BY <2>1
  <2>3. \A i \in 1 .. Len(free) : FALSE
    BY <2>2
  <2>4. QED BY <2>1, <2>2, <2>3 DEF IInv, ListInv, HeldInv, CrossInv
<1>2. QED BY <1>1, NextIInv, PTL DEF Spec

\* The extents lie in the blocks.
LEMMA IInvExtents == IInv => ExtentsDisjoint
<1> SUFFICES ASSUME IInv PROVE ExtentsDisjoint
  OBVIOUS
<1> DEFINE limit == taken * PageSize
<1>1. limit \in Nat /\ DOMAIN free = 1 .. Len(free)
  BY Constants DEF IInv, ListInv
<1>2. ASSUME NEW b, Sound(b, limit)
      PROVE  /\ b.addr \in Nat /\ End(b) \in Nat /\ End(b) <= limit
             /\ FreeExtent(b) \subseteq b.addr .. End(b) - 1
  <2>1. b.addr \in Nat /\ b.size \in Nat
    BY <1>2 DEF Sound, Blocks
  <2>2. Up(b.size) \in Nat /\ b.size <= Up(b.size) /\ HeaderSize <= Up(b.size)
        /\ End(b) = b.addr + Up(b.size) /\ End(b) <= limit
    BY <1>2, <2>1, UpFacts DEF Sound, End
  <2> DEFINE n == Max({b.size, HeaderSize})
  <2>3. n \in Nat /\ n <= Up(b.size)
    BY <2>1, <2>2, MaxFacts, Constants
  <2> HIDE DEF n
  <2>4. b.addr .. b.addr + n - 1 \subseteq b.addr .. End(b) - 1
    BY <2>1, <2>2, <2>3
  <2>5. QED BY <2>1, <2>2, <2>4 DEF FreeExtent, n
<1>3. ASSUME NEW a \in held
      PROVE  /\ Sound(BlockOf(a), limit)
             /\ HeldExtent(a) \subseteq BlockOf(a).addr .. End(BlockOf(a)) - 1
  <2>1. AllocationInv(a) /\ Sound(BlockOf(a), limit)
    BY DEF IInv, HeldInv
  <2> DEFINE lo == a.block
             hi == a.ptr + a.layout.size
             end == End(BlockOf(a))
  <2>2. hi = a.block + a.size /\ a.block \in Nat /\ a.size \in Nat
    BY <2>1 DEF AllocationInv
  <2>3. BlockOf(a).addr = lo /\ end = a.block + Up(a.size)
    BY DEF BlockOf, End
  <2>4. a.size <= Up(a.size) /\ Up(a.size) \in Nat
    BY <2>2, UpFacts
  <2>5. HeldExtent(a) = lo .. hi - 1
    <3>1. a.ptr \in Nat /\ a.layout.size \in Nat
      BY <2>1, Constants DEF AllocationInv
    <3>2. a.ptr + (a.layout.size - 1) = hi - 1
      BY <3>1
    <3>3. QED BY <3>2 DEF HeldExtent
  <2> HIDE DEF lo, hi, end
  <2>6. lo \in Nat /\ hi \in Nat /\ end \in Nat /\ hi <= end
    BY <2>2, <2>3, <2>4 DEF lo
  <2>7. lo .. hi - 1 \subseteq lo .. end - 1
    BY <2>6
  <2>8. QED BY <2>1, <2>3, <2>5, <2>7 DEF end
<1>4. ASSUME NEW b, NEW c, Sound(b, limit), Sound(c, limit), Apart(b, c)
      PROVE  (b.addr .. End(b) - 1) \cap (c.addr .. End(c) - 1) = {}
  <2>1. b.addr \in Nat /\ End(b) \in Nat /\ c.addr \in Nat /\ End(c) \in Nat
    BY <1>2, <1>4
  <2>2. QED BY <1>4, <2>1 DEF Apart
<1>5. ASSUME NEW b, Sound(b, limit)
      PROVE  b.addr .. End(b) - 1 \subseteq 0 .. limit - 1
  BY <1>1, <1>2, <1>5
<1>6. \A i \in DOMAIN free : Sound(free[i], limit)
  BY <1>1 DEF IInv, ListInv
<1> HIDE DEF limit
<1>7. ASSUME NEW i \in DOMAIN free, NEW j \in DOMAIN free, i # j
      PROVE  FreeExtent(free[i]) \cap FreeExtent(free[j]) = {}
  <2>1. Apart(free[i], free[j])
    BY <1>1, <1>7 DEF IInv, ListInv
  <2>2. QED BY <1>2, <1>4, <1>6, <2>1
<1>8. ASSUME NEW a \in held, NEW b \in held, a # b
      PROVE  HeldExtent(a) \cap HeldExtent(b) = {}
  <2>1. Apart(BlockOf(a), BlockOf(b))
    BY <1>8 DEF IInv, HeldInv
  <2>2. QED BY <1>3, <1>4, <2>1
<1>9. ASSUME NEW i \in DOMAIN free, NEW a \in held
      PROVE  FreeExtent(free[i]) \cap HeldExtent(a) = {}
  <2>1. Apart(free[i], BlockOf(a))
    BY <1>1 DEF IInv, CrossInv
  <2>2. QED BY <1>2, <1>3, <1>4, <1>6, <2>1
<1>10. ASSUME NEW i \in DOMAIN free
       PROVE  FreeExtent(free[i]) \subseteq 0 .. limit - 1
  BY <1>2, <1>5, <1>6
<1>11. ASSUME NEW a \in held
       PROVE  HeldExtent(a) \subseteq 0 .. limit - 1
  BY <1>3, <1>5
<1>12. QED BY <1>7, <1>8, <1>9, <1>10, <1>11 DEF ExtentsDisjoint, limit

\* Headers, data and free blocks never overlap and never leave the pages of the
\* heap, for every page size, every set of layouts and any number of calls of
\* alloc and dealloc; the rest of a split that is smaller than its header is
\* followed by the bytes that rounding up its block left unused.
THEOREM HeapExtentsDisjoint == Spec => []ExtentsDisjoint
<1>1. IInv => ExtentsDisjoint
  BY IInvExtents
<1>2. QED BY Invariance, <1>1, PTL
-----------------------------------------------------------------------------
\* For an alignment up to the size of a header the padding is what
\* header_padding_max allows for, wherever the block starts.
LEMMA PaddingFits ==
  ASSUME NEW l \in Layouts, l.align <= HeaderSize, NEW n \in Nat, Aligned(n, HeaderAlign)
  PROVE  AlignUp(n, l.align) - n <= HeaderPaddingMax(l)
<1> DEFINE d == AlignUp(n, l.align)
           A == HeaderAlign
<1>1. l.align \in Nat \ {0} /\ A \in Nat \ {0} /\ HeaderSize = 2 * A /\ Aligned(HeaderSize, A)
      /\ (Aligned(A, l.align) \/ Aligned(l.align, HeaderSize)) /\ HeaderPaddingMax(l) \in Nat
  BY Constants
<1>2. d \in Nat /\ n <= d /\ d < n + l.align /\ Aligned(d, l.align)
  BY <1>1, AlignUpFacts
<1>3. CASE Aligned(A, l.align)
  <2>1. Aligned(n, l.align)
    BY <1>1, <1>3, AlignedTrans
  <2>2. d = n
    BY <1>1, <2>1, AlignUpUnique
  <2>3. QED BY <1>1, <2>2
<1>4. CASE Aligned(l.align, HeaderSize)
  <2>1. l.align = HeaderSize
    BY <1>1, <1>4, AlignedLeast
  <2>2. HeaderPaddingMax(l) = A
    BY <1>1, <2>1 DEF HeaderPaddingMax
  <2>3. Aligned(d, A)
    BY <1>1, <1>2, <2>1, AlignedTrans
  <2> HIDE DEF d, A
  <2>4. Aligned(n + A, A) /\ n + A \in Nat
    <3>1. Aligned(A, A) /\ A \in Nat
      BY <1>1 DEF Aligned
    <3>2. QED BY <1>1, <3>1, AlignedSum DEF A
  <2>5. ~(n + A < d)
    BY <1>1, <1>2, <2>1, <2>3, <2>4, Gap
  <2>6. d - n <= A
    BY <1>1, <1>2, <2>4, <2>5
  <2>7. QED BY <2>2, <2>6 DEF d
<1>5. QED BY <1>1, <1>3, <1>4

\* Then the assertion on the padding holds.
LEMMA PlaceReplies ==
  ASSUME NEW l \in Layouts, l.align <= HeaderSize, NEW block \in Nat, Aligned(block, HeaderAlign),
         NEW total, NEW list, Place(l, block, total, list)
  PROVE  reply' = "ok"
<1> DEFINE n == block + HeaderSize
           data == AlignUp(n, l.align)
<1>1. n \in Nat /\ Aligned(n, HeaderAlign) /\ l.align \in Nat \ {0} /\ HeaderPaddingMax(l) \in Nat
  BY Constants, AlignedSum
<1>2. data - n <= HeaderPaddingMax(l) /\ data \in Nat
  BY <1>1, PaddingFits, AlignUpFacts
<1>3. ~(data - n > HeaderPaddingMax(l))
  <2> HIDE DEF n, data
  <2>1. QED BY <1>1, <1>2
<1>4. QED BY <1>3 DEF Place

\* The allocations of Rust types, with alignments up to the size of a header,
\* panic neither in alloc nor in dealloc: the padding fits, the size in a header
\* is one that its layout admits, and no live block looks free to is_free.
THEOREM HeapNeverPanics ==
  ASSUME \A l \in Layouts : l.align <= HeaderSize
  PROVE  Spec => []NoPanic
<1>1. Init => NoPanic
  BY DEF Init, NoPanic
<1>2. IInv /\ NoPanic /\ [Next]_vars => NoPanic'
  <2> SUFFICES ASSUME IInv, NoPanic, [Next]_vars PROVE reply' # "panic"
    BY DEF NoPanic
  <2>1. CASE UNCHANGED vars \/ SetPageAllocator
    BY <2>1 DEF vars, SetPageAllocator, NoPanic
  <2>2. ASSUME NEW l \in Layouts, AllocFromList(l) PROVE reply' # "panic"
    <3>1. PICK k \in DOMAIN free : Place(l, free[k].addr, free[k].size, Unlinked(free, k))
      BY <2>2 DEF AllocFromList
    <3>2. DOMAIN free = 1 .. Len(free)
      BY DEF IInv, ListInv
    <3>3. k \in 1 .. Len(free)
      BY <3>2
    <3>4. free[k].addr \in Nat /\ Aligned(free[k].addr, HeaderAlign)
      BY <3>3 DEF IInv, ListInv, Sound, Blocks
    <3>5. QED BY <3>1, <3>4, PlaceReplies
  <2>3. ASSUME NEW l \in Layouts, AllocFromPages(l) PROVE reply' # "panic"
    <3>1. ~(l.align > PageSize)
      <4>1. HeaderSize <= PageSize
        BY Constants, AlignedLeast
      <4>2. QED BY <4>1, Constants
    <3>2. PICK total : Place(l, taken * PageSize, total, free) \/ reply' = "null"
      BY <2>3, <3>1 DEF AllocFromPages
    <3>3. taken * PageSize \in Nat /\ Aligned(taken * PageSize, HeaderAlign)
      BY PagesAligned DEF IInv
    <3>4. QED BY <3>2, <3>3, PlaceReplies
  <2>4. ASSUME NEW a \in held, Dealloc(a) PROVE reply' # "panic"
    <3> DEFINE least == HeaderSize + a.layout.size
    <3>1. AllocationInv(a) /\ a.layout \in Layouts
      BY DEF IInv, HeldInv, AllocationInv
    <3>2. a.size \in least .. least + HeaderPaddingMax(a.layout)
      BY <3>1, Constants DEF AllocationInv, Required
    <3>3. ~IsFree(a.block)
      <4>1. ASSUME NEW i \in DOMAIN free, a.block \in free[i].addr .. free[i].addr + free[i].size - 1
            PROVE  FALSE
        <5>1. free[i].addr \in Nat /\ free[i].size \in Nat /\ Apart(free[i], BlockOf(a))
          <6>1. i \in 1 .. Len(free)
            BY DEF IInv, ListInv
          <6>2. QED BY <6>1 DEF IInv, ListInv, CrossInv, Sound, Blocks
        <5>2. a.block \in Nat /\ a.size \in Nat /\ a.size > 0
          BY <3>1, Constants DEF AllocationInv
        <5>3. /\ End(free[i]) = free[i].addr + Up(free[i].size) /\ free[i].size <= Up(free[i].size)
              /\ Up(free[i].size) \in Nat
              /\ End(BlockOf(a)) = a.block + Up(a.size) /\ a.size <= Up(a.size) /\ Up(a.size) \in Nat
              /\ BlockOf(a).addr = a.block
          BY <5>1, <5>2, UpFacts DEF End, BlockOf
        <5>4. a.block < free[i].addr + free[i].size /\ free[i].addr <= a.block
          BY <4>1, <5>1, <5>2
        <5>5. QED BY <5>1, <5>2, <5>3, <5>4 DEF Apart
      <4>2. QED BY <4>1 DEF IsFree
    <3>4. QED BY <2>4, <3>2, <3>3 DEF Dealloc
  <2>5. QED BY <2>1, <2>2, <2>3, <2>4 DEF Next
<1>3. QED BY <1>1, <1>2, Invariance, PTL DEF Spec
=============================================================================
