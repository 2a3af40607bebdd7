----------------------------- MODULE BuddySteps -----------------------------
(***************************************************************************)
(* The invariant of Buddy.tla and the steps of a call that preserve it,    *)
(* for every number of threads, pages and orders: the lists as chains of   *)
(* headers, the blocks as a partition of the memory, and what each thread  *)
(* in the middle of a call knows.  BuddyProofs.tla has the theorems.       *)
(***************************************************************************)
EXTENDS Buddy, TLAPS

\* The memory is given as the safety section of add_memory_region asks: no
\* region shares memory with another, and it starts on a page.
WellGiven ==
  /\ \A r \in Regions : r[1] % PageLen = 0
  /\ \A r, s \in Regions : r # s => r[1] + r[2] <= s[1] \/ s[1] + s[2] <= r[1]

\* The threads only allocate, or there is one thread and it gives back a block
\* only if it is below its buddy or the buddy is not free.
SafeUse ==
  \A u \in Usages : u.frees = "none" \/ (u.frees = "safe" /\ \E t \in Threads : u.threads = {t})

-----------------------------------------------------------------------------
\* The list that starts at h: a header leads to the next block or is the last,
\* and no block is the next of two or of the head.
WellLinked(h, nx) ==
  LET C == Chain(h, nx) IN
  /\ h \in Pages \cup {Null}
  /\ \A p \in C : nx[p] \in Pages \cup {Null} /\ (nx[p] # Null => nx[p] # h)
  /\ \A p, q \in C : nx[p] = nx[q] /\ nx[p] # Null => p = q

\* The headers or heads that a step leaves alone, and a block in no list.
SameBut(ny, nx, b) == \A p \in Pages : p # b => ny[p] = nx[p]
HeadSet(g, hd, o, h) == g[o] = h /\ \A k \in Orders : k # o => g[k] = hd[k]
TookHead(g, hd, nx, o, h) == hd[o] = h /\ HeadSet(g, hd, o, nx[h])
TookNext(ny, nx, a, c) == nx[a] = c /\ ny[a] = nx[c] /\ SameBut(ny, nx, a)
NoList(b, hd, nx) == \A k \in Orders : b \notin Chain(hd[k], nx)

-----------------------------------------------------------------------------
(* Lists as chains.                                                        *)

\* A chain is the least set with its first block and all their successors.
LEMMA ChainFacts ==
  ASSUME NEW h, NEW nx
  PROVE  /\ Chain(h, nx) \subseteq Pages
         /\ h \in Pages => h \in Chain(h, nx)
         /\ \A p \in Chain(h, nx) : nx[p] \in Pages => nx[p] \in Chain(h, nx)
<1> DEFINE Closed(S) == ({h} \cup {nx[p] : p \in S}) \cap Pages \subseteq S
<1>1. \A S \in SUBSET Pages :
        Closed(S) <=> (h \in Pages => h \in S) /\ (\A p \in S : nx[p] \in Pages => nx[p] \in S)
  BY Zenon
<1>2. Chain(h, nx) = {p \in Pages : \A S \in SUBSET Pages : Closed(S) => p \in S}
  BY Zenon DEF Chain
<1> HIDE DEF Closed
<1>3. Chain(h, nx) \subseteq Pages
  BY <1>2, Zenon
<1>4. h \in Pages => h \in Chain(h, nx)
  BY <1>1, <1>2, Zenon
<1>5. ASSUME NEW p \in Chain(h, nx), nx[p] \in Pages
      PROVE  nx[p] \in Chain(h, nx)
  <2>1. \A S \in SUBSET Pages : Closed(S) => nx[p] \in S
    BY <1>1, <1>2, <1>5, Zenon
  <2>2. QED BY <1>2, <1>5, <2>1, Zenon
<1>6. QED BY <1>3, <1>4, <1>5, Zenon

LEMMA ChainLeast ==
  ASSUME NEW h, NEW nx, NEW S \in SUBSET Pages, h \in Pages => h \in S,
         \A p \in S : nx[p] \in Pages => nx[p] \in S
  PROVE  Chain(h, nx) \subseteq S
<1>1. ({h} \cup {nx[p] : p \in S}) \cap Pages \subseteq S
  BY Zenon
<1>2. QED BY <1>1, Zenon DEF Chain

\* The list that starts at a null pointer is empty.
LEMMA ChainNull ==
  ASSUME NEW nx
  PROVE  Chain(Null, nx) = {}
<1>1. Null \notin Pages
  BY BuddyAssumption, Zenon DEF Pages
<1>2. Chain(Null, nx) \subseteq {}
  <2>1. {} \in SUBSET Pages
    BY Zenon
  <2>2. QED BY Zenon, <1>1, <2>1, ChainLeast
<1>3. QED BY <1>2, Zenon

\* Headers outside a list do not matter to it.
LEMMA ChainSame ==
  ASSUME NEW h, NEW nx, NEW ny, \A p \in Chain(h, nx) : ny[p] = nx[p]
  PROVE  Chain(h, ny) = Chain(h, nx) /\ (WellLinked(h, nx) => WellLinked(h, ny))
<1> DEFINE C == Chain(h, nx)
           D == Chain(h, ny)
<1>1. D \subseteq C
  <2>1. C \in SUBSET Pages /\ (h \in Pages => h \in C) /\ \A p \in C : ny[p] \in Pages => ny[p] \in C
    BY ChainFacts, Zenon
  <2> HIDE DEF C
  <2>2. QED BY Zenon, <2>1, ChainLeast
<1>2. C \subseteq D
  <2>1. D \in SUBSET Pages /\ (h \in Pages => h \in D) /\ \A p \in D : nx[p] \in Pages => nx[p] \in D
    BY <1>1, ChainFacts, Zenon
  <2> HIDE DEF D
  <2>2. QED BY Zenon, <2>1, ChainLeast
<1>3. C = D
  BY <1>1, <1>2, Zenon
<1>4. QED BY <1>3, Zenon DEF WellLinked

\* push_free: b becomes the head, in front of the block its header names.
LEMMA ChainPush ==
  ASSUME NEW nx, NEW b \in Pages, WellLinked(nx[b], nx), b \notin Chain(nx[b], nx)
  PROVE  Chain(b, nx) = Chain(nx[b], nx) \cup {b} /\ WellLinked(b, nx)
<1> DEFINE C == Chain(nx[b], nx)
           D == Chain(b, nx)
<1>1. /\ C \in SUBSET Pages /\ (nx[b] \in Pages => nx[b] \in C)
      /\ \A p \in C : nx[p] \in Pages => nx[p] \in C
  BY ChainFacts, Zenon
<1>2. /\ D \in SUBSET Pages /\ b \in D
      /\ \A p \in D : nx[p] \in Pages => nx[p] \in D
  BY ChainFacts, Zenon
<1>3. D \subseteq C \cup {b}
  <2>1. C \cup {b} \in SUBSET Pages /\ \A p \in C \cup {b} : nx[p] \in Pages => nx[p] \in C \cup {b}
    BY <1>1, Zenon
  <2> HIDE DEF C
  <2>2. QED BY Zenon, <2>1, ChainLeast
<1>4. C \subseteq D
  BY Zenon, <1>2, ChainLeast
<1>5. D = C \cup {b}
  BY <1>2, <1>3, <1>4, Zenon
<1>6. Null \notin Pages
  BY BuddyAssumption, Zenon DEF Pages
<1>7. /\ nx[b] \in Pages \cup {Null}
      /\ \A p \in C : nx[p] \in Pages \cup {Null} /\ (nx[p] # Null => nx[p] # nx[b])
      /\ \A p, q \in C : nx[p] = nx[q] /\ nx[p] # Null => p = q
  BY Zenon DEF WellLinked
<1>8. \A p \in D : nx[p] \in Pages \cup {Null} /\ (nx[p] # Null => nx[p] # b)
  BY <1>1, <1>5, <1>7, Zenon
<1>9. \A p, q \in D : nx[p] = nx[q] /\ nx[p] # Null => p = q
  BY <1>5, <1>7, Zenon
<1>10. QED BY <1>5, <1>8, <1>9, Zenon DEF WellLinked

\* pop_free: the second block becomes the head.
LEMMA ChainPop ==
  ASSUME NEW nx, NEW h \in Pages, WellLinked(h, nx)
  PROVE  Chain(nx[h], nx) = Chain(h, nx) \ {h} /\ WellLinked(nx[h], nx)
<1> DEFINE C == Chain(h, nx)
           D == Chain(nx[h], nx)
<1>1. /\ C \in SUBSET Pages /\ h \in C
      /\ \A p \in C : nx[p] \in Pages => nx[p] \in C
  BY ChainFacts, Zenon
<1>2. /\ D \in SUBSET Pages /\ (nx[h] \in Pages => nx[h] \in D)
      /\ \A p \in D : nx[p] \in Pages => nx[p] \in D
  BY ChainFacts, Zenon
<1>3. /\ \A p \in C : nx[p] \in Pages \cup {Null} /\ (nx[p] # Null => nx[p] # h)
      /\ \A p, q \in C : nx[p] = nx[q] /\ nx[p] # Null => p = q
  BY Zenon DEF WellLinked
<1>4. Null \notin Pages
  BY BuddyAssumption, Zenon DEF Pages
<1>5. D \subseteq C \ {h}
  <2>1. /\ C \ {h} \in SUBSET Pages /\ (nx[h] \in Pages => nx[h] \in C \ {h})
        /\ \A p \in C \ {h} : nx[p] \in Pages => nx[p] \in C \ {h}
    BY <1>1, <1>3, <1>4, Zenon
  <2> HIDE DEF C
  <2>2. QED BY Zenon, <2>1, ChainLeast
<1>6. C \subseteq D \cup {h}
  <2>1. D \cup {h} \in SUBSET Pages /\ \A p \in D \cup {h} : nx[p] \in Pages => nx[p] \in D \cup {h}
    BY <1>2, Zenon
  <2> HIDE DEF D
  <2>2. QED BY Zenon, <2>1, ChainLeast
<1>7. D = C \ {h}
  BY <1>5, <1>6, Zenon
<1>8. QED BY <1>1, <1>3, <1>7, Zenon DEF WellLinked

\* try_remove_buddy: the block before c is linked to the one after it.
LEMMA ChainRemove ==
  ASSUME NEW h, NEW nx, NEW ny, WellLinked(h, nx), NEW a \in Chain(h, nx), NEW c \in Pages,
         TookNext(ny, nx, a, c)
  PROVE  Chain(h, ny) = Chain(h, nx) \ {c} /\ WellLinked(h, ny)
<1> DEFINE C == Chain(h, nx)
           D == Chain(h, ny)
<1>1. nx[a] = c
  BY Zenon DEF TookNext
<1>2. /\ C \in SUBSET Pages /\ (h \in Pages => h \in C) /\ c \in C /\ a \in C
      /\ \A p \in C : nx[p] \in Pages => nx[p] \in C
  BY <1>1, ChainFacts, Zenon
<1>3. /\ h \in Pages \cup {Null}
      /\ \A p \in C : nx[p] \in Pages \cup {Null} /\ (nx[p] # Null => nx[p] # h)
      /\ \A p, q \in C : nx[p] = nx[q] /\ nx[p] # Null => p = q
  BY Zenon DEF WellLinked
<1>4. Null \notin Pages
  BY BuddyAssumption, Zenon DEF Pages
<1>5. h # c /\ a # c
  <2>1. h # c
    BY <1>1, <1>2, <1>3, <1>4, Zenon
  <2>2. ASSUME a = c PROVE FALSE
    <3> DEFINE S == C \ {c}
    <3>1. S \in SUBSET Pages /\ (h \in Pages => h \in S) /\ c \notin S
      BY <1>2, <2>1, Zenon
    <3>2. \A p \in S : nx[p] \in Pages => nx[p] \in S
      BY <1>1, <1>2, <1>3, <1>4, <2>2, Zenon
    <3> HIDE DEF S
    <3>3. C \subseteq S
      BY Zenon, <3>1, <3>2, ChainLeast
    <3>4. QED BY <1>2, <3>1, <3>3, Zenon
  <2>3. QED BY <2>1, <2>2, Zenon
<1>6. ny[a] = nx[c] /\ \A p \in Pages : p # a => ny[p] = nx[p]
  BY Zenon DEF SameBut, TookNext
<1>7. /\ D \in SUBSET Pages /\ (h \in Pages => h \in D)
      /\ \A p \in D : ny[p] \in Pages => ny[p] \in D
  BY ChainFacts, Zenon
<1>8. D \subseteq C \ {c}
  <2>1. C \ {c} \in SUBSET Pages /\ (h \in Pages => h \in C \ {c})
    BY <1>2, <1>5, Zenon
  <2>2. \A p \in C \ {c} : ny[p] \in Pages => ny[p] \in C \ {c}
    BY <1>1, <1>2, <1>3, <1>4, <1>5, <1>6
  <2> HIDE DEF C
  <2>3. QED BY Zenon, <2>1, <2>2, ChainLeast
<1>9. a \in D
  <2>1. ASSUME a \notin D PROVE FALSE
    <3>1. \A p \in D : nx[p] \in Pages => nx[p] \in D
      BY <1>6, <1>7, <2>1, Zenon
    <3>2. C \subseteq D
      <4> HIDE DEF D
      <4>1. QED BY Zenon, <1>7, <3>1, ChainLeast
    <3>3. QED BY <1>2, <2>1, <3>2, Zenon
  <2>2. QED BY <2>1, Zenon
<1>10. C \subseteq D \cup {c}
  <2>1. D \cup {c} \in SUBSET Pages /\ (h \in Pages => h \in D \cup {c})
    BY <1>7, Zenon
  <2>2. \A p \in D \cup {c} : nx[p] \in Pages => nx[p] \in D \cup {c}
    BY <1>1, <1>6, <1>7, <1>9, Zenon
  <2> HIDE DEF D
  <2>3. QED BY Zenon, <2>1, <2>2, ChainLeast
<1>11. D = C \ {c}
  BY <1>8, <1>10, Zenon
<1>12. \A p \in D : ny[p] \in Pages \cup {Null} /\ (ny[p] # Null => ny[p] # h)
  BY <1>2, <1>3, <1>6, <1>11, Zenon
<1>13. \A p, q \in D : ny[p] = ny[q] /\ ny[p] # Null => p = q
  BY <1>2, <1>3, <1>5, <1>6, <1>11, Zenon
<1>14. WellLinked(h, ny)
  BY <1>3, <1>12, <1>13, Zenon DEF WellLinked
<1>15. QED BY Zenon, <1>11, <1>14
-----------------------------------------------------------------------------
Linked(hd, nx) == \A o \in Orders : WellLinked(hd[o], nx)

Heads == [Orders -> Pages \cup {Null}]
Headers == [Pages -> Pages \cup {Null, Garbage}]

\* The list of order o has lost its first block h.
LosesHead(g, hd, nx, o, h) ==
  /\ nx[h] \in Pages \cup {Null}
  /\ Chain(g[o], nx) = Chain(hd[o], nx) \ {h}
  /\ \A k \in Orders : k # o => Chain(g[k], nx) = Chain(hd[k], nx)

\* A head is replaced by the block after it.
LEMMA PopLists ==
  ASSUME NEW nx, NEW hd, NEW g, NEW o \in Orders, Linked(hd, nx), NEW h \in Pages,
         TookHead(g, hd, nx, o, h)
  PROVE  Linked(g, nx) /\ LosesHead(g, hd, nx, o, h)
<1>1. WellLinked(h, nx) /\ hd[o] = h
  BY Zenon DEF Linked, TookHead
<1>2. g[o] = nx[h] /\ \A k \in Orders : k # o => g[k] = hd[k]
  BY Zenon DEF HeadSet, TookHead
<1>3. Chain(g[o], nx) = Chain(hd[o], nx) \ {h} /\ WellLinked(g[o], nx)
  BY <1>1, <1>2, ChainPop, Zenon
<1>4. nx[h] \in Pages \cup {Null}
  BY <1>2, <1>3, Zenon DEF WellLinked
<1>5. Linked(g, nx)
  BY Zenon, <1>2, <1>3 DEF Linked
<1>6. \A k \in Orders : k # o => Chain(g[k], nx) = Chain(hd[k], nx)
  BY Zenon, <1>2
<1>7. QED BY Zenon, <1>3, <1>4, <1>5, <1>6 DEF LosesHead

\* A block that is in no list becomes a head; its header names the old head.
LEMMA PushLists ==
  ASSUME NEW nx, NEW hd, NEW g, NEW o \in Orders, NEW b \in Pages, Linked(hd, nx),
         nx[b] = hd[o], NoList(b, hd, nx), HeadSet(g, hd, o, b)
  PROVE  /\ Linked(g, nx) /\ Chain(g[o], nx) = Chain(hd[o], nx) \cup {b}
         /\ \A k \in Orders : k # o => Chain(g[k], nx) = Chain(hd[k], nx)
<1>1. WellLinked(nx[b], nx) /\ b \notin Chain(nx[b], nx)
  BY Zenon DEF Linked, NoList
<1>2. g[o] = b /\ \A k \in Orders : k # o => g[k] = hd[k]
  BY Zenon DEF HeadSet
<1>3. Chain(g[o], nx) = Chain(hd[o], nx) \cup {b} /\ WellLinked(g[o], nx)
  BY <1>1, <1>2, ChainPush, Zenon
<1>4. Linked(g, nx)
  BY Zenon, <1>2, <1>3 DEF Linked
<1>5. \A k \in Orders : k # o => Chain(g[k], nx) = Chain(hd[k], nx)
  BY Zenon, <1>2
<1>6. QED BY Zenon, <1>3, <1>4, <1>5

\* A write to a block that is in no list.
LEMMA WriteLists ==
  ASSUME NEW nx, NEW ny, NEW hd, NEW b \in Pages, Linked(hd, nx), NoList(b, hd, nx),
         SameBut(ny, nx, b)
  PROVE  Linked(hd, ny) /\ \A k \in Orders : Chain(hd[k], ny) = Chain(hd[k], nx)
<1>1. \A k \in Orders : \A p \in Chain(hd[k], nx) : p \in Pages /\ p # b
  BY ChainFacts, Zenon DEF NoList
<1>2. \A k \in Orders : \A p \in Chain(hd[k], nx) : ny[p] = nx[p]
  BY Zenon, <1>1 DEF SameBut
<1>3. \A k \in Orders : Chain(hd[k], ny) = Chain(hd[k], nx) /\ WellLinked(hd[k], ny)
  BY Zenon, <1>2, ChainSame DEF Linked
<1>4. QED BY Zenon, <1>3 DEF Linked

\* The list of order o, the only one that a is in, has lost the block c after a.
OnlyList(a, hd, nx, o) ==
  a \in Chain(hd[o], nx) /\ \A k \in Orders : k # o => a \notin Chain(hd[k], nx)
LosesNext(hd, ny, nx, o, c) ==
  /\ Chain(hd[o], ny) = Chain(hd[o], nx) \ {c}
  /\ \A k \in Orders : k # o => Chain(hd[k], ny) = Chain(hd[k], nx)

\* A block inside a list is taken out of it.
LEMMA RemoveLists ==
  ASSUME NEW nx, NEW ny, NEW hd, NEW o \in Orders, Linked(hd, nx),
         NEW a, OnlyList(a, hd, nx, o), NEW c \in Pages, TookNext(ny, nx, a, c)
  PROVE  Linked(hd, ny) /\ LosesNext(hd, ny, nx, o, c)
<1>1. WellLinked(hd[o], nx) /\ a \in Chain(hd[o], nx)
  BY Zenon DEF Linked, OnlyList
<1>2. Chain(hd[o], ny) = Chain(hd[o], nx) \ {c} /\ WellLinked(hd[o], ny)
  BY <1>1, ChainRemove, Zenon
<1>3. \A k \in Orders : k # o => \A p \in Chain(hd[k], nx) : p \in Pages /\ p # a
  BY ChainFacts, Zenon DEF OnlyList
<1>4. \A k \in Orders : k # o => \A p \in Chain(hd[k], nx) : ny[p] = nx[p]
  BY Zenon, <1>3 DEF SameBut, TookNext
<1>5. \A k \in Orders : k # o => Chain(hd[k], ny) = Chain(hd[k], nx) /\ WellLinked(hd[k], ny)
  BY Zenon, <1>4, ChainSame DEF Linked
<1>6. Linked(hd, ny)
  BY Zenon, <1>2, <1>5 DEF Linked
<1>7. QED BY Zenon, <1>2, <1>5, <1>6 DEF LosesNext
-----------------------------------------------------------------------------
(* Who has which block.                                                    *)


Apart(B) == \A x, y \in B : x # y => PagesOf(x[3]) \cap PagesOf(y[3]) = {}
Cover(B) == UNION {PagesOf(x[3]) : x \in B}

\* What the proofs use of the sizes of blocks; proved at the end.
SizeLaws ==
  /\ Size[0] = 1
  /\ \A o \in Nat : Size[o] \in Nat \ {0} /\ Size[o + 1] = 2 * Size[o]
  /\ \A n \in Nat \ {0} : OrderOf(n) \in Nat

LEMMA OrderFacts ==
  /\ \A o \in Orders : o \in Nat /\ o < MaxOrder
  /\ \A o \in Nat : o < MaxOrder => o \in Orders
  /\ MaxOrder - 1 \in Orders
BY BuddyAssumption DEF Orders

LEMMA PageFacts ==
  /\ \A p \in Pages : p \in Nat
  /\ Null \notin Pages /\ Garbage \notin Pages /\ Null # Garbage
BY BuddyAssumption DEF Pages

\* A block is made of two halves.
LEMMA Halves ==
  ASSUME SizeLaws, NEW p \in Nat, NEW o \in Nat
  PROVE  /\ PagesOf(<<p, o + 1>>) = PagesOf(<<p, o>>) \cup PagesOf(<<p + Size[o], o>>)
         /\ PagesOf(<<p, o>>) \cap PagesOf(<<p + Size[o], o>>) = {}
         /\ p \in PagesOf(<<p, o>>)
<1>1. Size[o] \in Nat \ {0} /\ Size[o + 1] = 2 * Size[o]
  BY Zenon DEF SizeLaws
<1>2. QED BY <1>1 DEF PagesOf

LEMMA CoverFacts ==
  /\ \A B, n : n \in Cover(B) <=> \E x \in B : n \in PagesOf(x[3])
  /\ \A x : Cover({x}) = PagesOf(x[3])
  /\ \A x, y : Cover({x, y}) = PagesOf(x[3]) \cup PagesOf(y[3])
  /\ \A x, y, z : Cover({x, y, z}) = PagesOf(x[3]) \cup PagesOf(y[3]) \cup PagesOf(z[3])
BY Zenon DEF Cover

\* Blocks R are exchanged for blocks N on the same pages.
LEMMA Exchange ==
  ASSUME NEW B, NEW R \in SUBSET B, NEW N, Apart(B), Apart(N), Cover(N) = Cover(R)
  PROVE  Apart((B \ R) \cup N) /\ Cover((B \ R) \cup N) = Cover(B)
<1>1. \A x \in B \ R, y \in N : PagesOf(x[3]) \cap PagesOf(y[3]) = {}
  <2> SUFFICES ASSUME NEW x \in B \ R, NEW y \in N, NEW n \in PagesOf(x[3]), n \in PagesOf(y[3])
               PROVE  FALSE
    BY Zenon
  <2>1. n \in Cover(R)
    BY CoverFacts, Zenon
  <2>2. PICK z \in R : n \in PagesOf(z[3])
    BY <2>1, CoverFacts, Zenon
  <2>3. QED BY <2>2, Zenon DEF Apart
<1>2. Apart((B \ R) \cup N)
  BY <1>1, Zenon DEF Apart
<1>3. \A n : n \in Cover((B \ R) \cup N) <=> n \in Cover(B)
  <2> SUFFICES ASSUME NEW n
               PROVE  n \in Cover((B \ R) \cup N) <=> n \in Cover(B)
    BY Zenon
  <2>1. n \in Cover((B \ R) \cup N) <=> \E x \in (B \ R) \cup N : n \in PagesOf(x[3])
    BY CoverFacts, Zenon
  <2>2. n \in Cover(B) <=> \E x \in B : n \in PagesOf(x[3])
    BY CoverFacts, Zenon
  <2>3. n \in Cover(R) <=> \E x \in R : n \in PagesOf(x[3])
    BY CoverFacts, Zenon
  <2>4. n \in Cover(N) <=> \E x \in N : n \in PagesOf(x[3])
    BY CoverFacts, Zenon
  <2>5. n \in Cover(N) <=> n \in Cover(R)
    BY Zenon
  <2>6. QED BY Zenon, <2>1, <2>2, <2>3, <2>4, <2>5
<1>4. QED BY <1>2, <1>3, Zenon

\* A block is forgotten.
LEMMA Forget ==
  ASSUME NEW B, NEW R, Apart(B)
  PROVE  Apart(B \ R) /\ Cover(B \ R) \subseteq Cover(B)
<1>1. Apart(B \ R)
  BY Zenon DEF Apart
<1>2. ASSUME NEW n \in Cover(B \ R) PROVE n \in Cover(B)
  <2>1. PICK x \in B \ R : n \in PagesOf(x[3])
    BY CoverFacts, Zenon
  <2>2. QED BY <2>1, CoverFacts, Zenon
<1>3. QED BY <1>1, <1>2, Zenon

LEMMA OwnedIff ==
  \A x : x \in Owned <=>
    \/ \E o \in Orders : \E p \in Members(o) : x = <<"free", o, <<p, o>>>>
    \/ \E t \in Threads : \E b \in held[t] : x = <<"held", t, b>>
    \/ \E t \in Threads : \E b \in InHand(loc[t]) : x = <<"hand", t, b>>
<1> DEFINE F(o) == {<<"free", o, <<p, o>>>> : p \in Members(o)}
           H(t) == {<<"held", t, b>> : b \in held[t]}
           I(t) == {<<"hand", t, b>> : b \in InHand(loc[t])}
<1>1. \A x, o : x \in F(o) <=> \E p \in Members(o) : x = <<"free", o, <<p, o>>>>
  BY Zenon
<1>2. \A x, t : x \in H(t) <=> \E b \in held[t] : x = <<"held", t, b>>
  BY Zenon
<1>3. \A x, t : x \in I(t) <=> \E b \in InHand(loc[t]) : x = <<"hand", t, b>>
  BY Zenon
<1>4. Owned = (UNION {F(o) : o \in Orders}) \cup (UNION {H(t) : t \in Threads})
                 \cup (UNION {I(t) : t \in Threads})
  BY Zenon DEF Owned
<1> HIDE DEF F, H, I
<1>5. \A x : x \in Owned <=>
        \/ \E o \in Orders : x \in F(o)
        \/ \E t \in Threads : x \in H(t)
        \/ \E t \in Threads : x \in I(t)
  <2>1. \A x : x \in UNION {F(o) : o \in Orders} <=> \E o \in Orders : x \in F(o)
    BY Zenon
  <2>2. \A x : x \in UNION {H(t) : t \in Threads} <=> \E t \in Threads : x \in H(t)
    BY Zenon
  <2>3. \A x : x \in UNION {I(t) : t \in Threads} <=> \E t \in Threads : x \in I(t)
    BY Zenon
  <2>4. \A x : x \in Owned <=>
          \/ x \in UNION {F(o) : o \in Orders} \/ x \in UNION {H(t) : t \in Threads}
          \/ x \in UNION {I(t) : t \in Threads}
    BY <1>4, Zenon
  <2>5. QED BY <2>1, <2>2, <2>3, <2>4, Zenon
<1>6. QED BY <1>1, <1>2, <1>3, <1>5

LEMMA OwnedIffNext ==
  \A x : x \in Owned' <=>
    \/ \E o \in Orders : \E p \in Members(o)' : x = <<"free", o, <<p, o>>>>
    \/ \E t \in Threads : \E b \in held'[t] : x = <<"held", t, b>>
    \/ \E t \in Threads : \E b \in InHand(loc'[t]) : x = <<"hand", t, b>>
<1> DEFINE F(o) == {<<"free", o, <<p, o>>>> : p \in Members(o)'}
           H(t) == {<<"held", t, b>> : b \in held'[t]}
           I(t) == {<<"hand", t, b>> : b \in InHand(loc'[t])}
<1>1. \A x, o : x \in F(o) <=> \E p \in Members(o)' : x = <<"free", o, <<p, o>>>>
  BY Zenon
<1>2. \A x, t : x \in H(t) <=> \E b \in held'[t] : x = <<"held", t, b>>
  BY Zenon
<1>3. \A x, t : x \in I(t) <=> \E b \in InHand(loc'[t]) : x = <<"hand", t, b>>
  BY Zenon
<1>4. Owned' = (UNION {F(o) : o \in Orders}) \cup (UNION {H(t) : t \in Threads})
                 \cup (UNION {I(t) : t \in Threads})
  BY Zenon DEF Owned
<1> HIDE DEF F, H, I
<1>5. \A x : x \in Owned' <=>
        \/ \E o \in Orders : x \in F(o)
        \/ \E t \in Threads : x \in H(t)
        \/ \E t \in Threads : x \in I(t)
  <2>1. \A x : x \in UNION {F(o) : o \in Orders} <=> \E o \in Orders : x \in F(o)
    BY Zenon
  <2>2. \A x : x \in UNION {H(t) : t \in Threads} <=> \E t \in Threads : x \in H(t)
    BY Zenon
  <2>3. \A x : x \in UNION {I(t) : t \in Threads} <=> \E t \in Threads : x \in I(t)
    BY Zenon
  <2>4. \A x : x \in Owned' <=>
          \/ x \in UNION {F(o) : o \in Orders} \/ x \in UNION {H(t) : t \in Threads}
          \/ x \in UNION {I(t) : t \in Threads}
    BY <1>4, Zenon
  <2>5. QED BY <2>1, <2>2, <2>3, <2>4, Zenon
<1>6. QED BY <1>1, <1>2, <1>3, <1>5

\* The blocks change hands as the lists, the callers and the calls change.
LEMMA OwnedChange ==
  ASSUME NEW R, NEW N,
         \A o \in Orders : \A p : p \in Members(o)' <=>
           (p \in Members(o) /\ <<"free", o, <<p, o>>>> \notin R) \/ <<"free", o, <<p, o>>>> \in N,
         \A t \in Threads : \A b : b \in held'[t] <=>
           (b \in held[t] /\ <<"held", t, b>> \notin R) \/ <<"held", t, b>> \in N,
         \A t \in Threads : \A b : b \in InHand(loc'[t]) <=>
           (b \in InHand(loc[t]) /\ <<"hand", t, b>> \notin R) \/ <<"hand", t, b>> \in N,
         \A x \in N : \/ \E o \in Orders : \E p : x = <<"free", o, <<p, o>>>>
                      \/ \E t \in Threads : \E b : x = <<"held", t, b>>
                      \/ \E t \in Threads : \E b : x = <<"hand", t, b>>
  PROVE  Owned' = (Owned \ R) \cup N
<1>1. ASSUME NEW x \in Owned' PROVE x \in (Owned \ R) \cup N
  <2>1. CASE \E o \in Orders : \E p \in Members(o)' : x = <<"free", o, <<p, o>>>>
    BY <2>1, OwnedIff
  <2>2. CASE \E t \in Threads : \E b \in held'[t] : x = <<"held", t, b>>
    BY <2>2, OwnedIff
  <2>3. CASE \E t \in Threads : \E b \in InHand(loc'[t]) : x = <<"hand", t, b>>
    BY <2>3, OwnedIff
  <2>4. QED BY <2>1, <2>2, <2>3, OwnedIffNext, Zenon
<1>2. ASSUME NEW x \in (Owned \ R) \cup N PROVE x \in Owned'
  <2>1. CASE \E o \in Orders : \E p : x = <<"free", o, <<p, o>>>>
    BY <2>1, OwnedIff, OwnedIffNext
  <2>2. CASE \E t \in Threads : \E b : x = <<"held", t, b>>
    BY <2>2, OwnedIff, OwnedIffNext
  <2>3. CASE \E t \in Threads : \E b : x = <<"hand", t, b>>
    BY <2>3, OwnedIff, OwnedIffNext
  <2>4. QED BY <2>1, <2>2, <2>3, OwnedIff
<1>3. QED BY <1>1, <1>2, Zenon

LEMMA OwnedSame ==
  ASSUME \A o \in Orders : Members(o)' = Members(o),
         \A t \in Threads : held'[t] = held[t] /\ InHand(loc'[t]) = InHand(loc[t])
  PROVE  Owned' = Owned
<1>1. \A x : x \in Owned' <=> x \in Owned
  BY OwnedIff, OwnedIffNext
<1>2. QED BY <1>1, Zenon

PartInv ==
  /\ Apart(Owned)
  /\ Cover(Owned) \cap Uncut = {}
  /\ Cover(Owned) \cup Uncut \subseteq Given

\* The block at s left the list of order o for good: it was split or given away.
Gone(s, o) ==
  \/ \E k \in Orders : k < o /\ s \in Members(k)
  \/ \E t \in Threads : \E k \in Orders : k <= o /\ <<s, k>> \in held[t]
  \/ \E t \in Threads : \E k \in Orders : k < o /\ <<s, k>> \in InHand(loc[t])

PopAt == {"pop_load", "pop_next", "pop_cas"}
PushAt == {"push_load", "push_store", "push_cas"}
RemoveAt == {"rem_load", "rem_next", "rem_cas"}
WalkAt == {"walk_load", "walk_next"}

\* Where a thread is in its call, and what it can rely on there; l are its local
\* variables.
CallOK(l) ==
  /\ l.pc # "panic"
  /\ l.pc = "idle" => l = Idle
  /\ l.pc \in PopAt => l.op = "alloc" /\ l.want <= l.order
  /\ l.pc \in PushAt => \/ l.op = "alloc" /\ l.want <= l.order /\ l.push = l.block + Size[l.order]
                        \/ l.op = "free" /\ l.push = l.block
  /\ l.pc \in RemoveAt \cup WalkAt => l.op = "free" /\ l.order + 1 < MaxOrder

PopOK(l) ==
  l.pc \in {"pop_next", "pop_cas"} =>
    /\ l.seen \in Pages
    /\ \/ l.seen \in Members(l.order) /\ (l.pc = "pop_cas" => l.nxt = next[l.seen])
       \/ Gone(l.seen, l.order)

PushOK(l) ==
  /\ l.pc \in {"push_store", "push_cas"} => l.seen \in Pages \cup {Null}
  /\ l.pc = "push_cas" => next[l.push] = l.seen

RemoveOK(l) ==
  /\ l.pc \in RemoveAt /\ BuddyOf(l.block, l.order) \in Members(l.order) =>
       BuddyOf(l.block, l.order) > l.block
  /\ l.pc \in {"rem_next", "rem_cas"} =>
       /\ l.seen \in Members(l.order)
       /\ IF l.prev = Null THEN head[l.order] = l.seen
          ELSE l.prev \in Members(l.order) /\ next[l.prev] = l.seen
  /\ l.pc = "rem_cas" => l.seen = BuddyOf(l.block, l.order) /\ l.nxt = next[l.seen]
  /\ l.pc \in WalkAt => l.check \in 1 .. 3
  /\ l.pc = "walk_next" => l.seen \in Members(CheckOrder(l))

LocInv == \A t \in Threads : CallOK(loc[t]) /\ PopOK(loc[t]) /\ PushOK(loc[t]) /\ RemoveOK(loc[t])

\* Who uses the allocator, and when.
UseInv ==
  /\ \A t \in Threads : t \notin usage.threads => loc[t] = Idle /\ held[t] = {}
  /\ \A t \in Threads : loc[t].op = "free" => usage.threads = {t}
  /\ added # Regions \/ region.left > 0 => \A t \in Threads : loc[t] = Idle /\ held[t] = {}

IInv == TypeOK /\ Linked(head, next) /\ PartInv /\ LocInv /\ UseInv
-----------------------------------------------------------------------------
(* Consequences of the invariant.                                          *)

LEMMA HandTyped ==
  ASSUME NEW l \in Local
  PROVE  InHand(l) \subseteq Pages \X Orders
BY DEF Local, InHand

LEMMA OwnedTyped ==
  ASSUME TypeOK, NEW x \in Owned
  PROVE  x[3] \in Pages \X Orders
<1>1. CASE \E o \in Orders : \E p \in Members(o) : x = <<"free", o, <<p, o>>>>
  BY <1>1, ChainFacts DEF Members
<1>2. CASE \E t \in Threads : \E b \in held[t] : x = <<"held", t, b>>
  BY <1>2 DEF TypeOK
<1>3. CASE \E t \in Threads : \E b \in InHand(loc[t]) : x = <<"hand", t, b>>
  <2>1. PICK t \in Threads : \E b \in InHand(loc[t]) : x = <<"hand", t, b>>
    BY <1>3, Zenon
  <2>2. PICK b \in InHand(loc[t]) : x = <<"hand", t, b>>
    BY <2>1, Zenon
  <2>3. loc[t] \in Local
    BY Zenon DEF TypeOK
  <2>4. b \in Pages \X Orders
    BY <2>3, HandTyped, Zenon
  <2>5. QED BY <2>2, <2>4, Zenon
<1>4. QED BY <1>1, <1>2, <1>3, OwnedIff, Zenon

\* Two blocks that start at the same page are one.
LEMMA OneBlock ==
  ASSUME SizeLaws, TypeOK, Apart(Owned), NEW x \in Owned, NEW y \in Owned, x[3][1] = y[3][1]
  PROVE  x = y
<1>1. ASSUME NEW z \in Owned PROVE z[3][1] \in PagesOf(z[3])
  <2>1. z[3][1] \in Nat /\ z[3][2] \in Nat
    BY OwnedTyped, PageFacts, OrderFacts, Zenon
  <2>2. Size[z[3][2]] \in Nat \ {0}
    BY <2>1, Zenon DEF SizeLaws
  <2>3. QED BY <2>1, <2>2 DEF PagesOf
<1>2. x[3][1] \in PagesOf(x[3]) /\ x[3][1] \in PagesOf(y[3])
  BY <1>1, Zenon
<1>3. QED BY <1>2, Zenon DEF Apart

\* A free block is in one list, and in nobody's hand.
LEMMA NotFree ==
  ASSUME SizeLaws, TypeOK, Apart(Owned), NEW s
  PROVE  /\ \A o, k \in Orders : s \in Members(o) /\ s \in Members(k) => o = k
         /\ \A t \in Threads : \A k : <<s, k>> \in held[t] \cup InHand(loc[t]) =>
              \A o \in Orders : s \notin Members(o)
<1>1. ASSUME NEW o \in Orders, s \in Members(o) PROVE <<"free", o, <<s, o>>>> \in Owned
  BY <1>1, OwnedIff, Zenon
<1>2. ASSUME NEW o \in Orders, NEW k \in Orders, s \in Members(o), s \in Members(k) PROVE o = k
  <2>1. <<"free", o, <<s, o>>>> = <<"free", k, <<s, k>>>>
    BY Zenon, <1>1, <1>2, OneBlock
  <2>2. QED BY <2>1, Zenon
<1>3. ASSUME NEW t \in Threads, NEW k, <<s, k>> \in held[t] \cup InHand(loc[t]),
             NEW o \in Orders, s \in Members(o)
      PROVE  FALSE
  <2>1. CASE <<s, k>> \in held[t]
    <3>1. <<"held", t, <<s, k>>>> \in Owned
      BY <2>1, OwnedIff, Zenon
    <3>2. <<"held", t, <<s, k>>>> = <<"free", o, <<s, o>>>>
      BY Zenon, <1>1, <1>3, <3>1, OneBlock
    <3>3. QED BY <3>2, Zenon
  <2>2. CASE <<s, k>> \in InHand(loc[t])
    <3>1. <<"hand", t, <<s, k>>>> \in Owned
      BY <2>2, OwnedIff, Zenon
    <3>2. <<"hand", t, <<s, k>>>> = <<"free", o, <<s, o>>>>
      BY Zenon, <1>1, <1>3, <3>1, OneBlock
    <3>3. QED BY <3>2, Zenon
  <2>3. QED BY <1>3, <2>1, <2>2, Zenon
<1>4. QED BY <1>2, <1>3, Zenon

LEMMA GoneNotFree ==
  ASSUME SizeLaws, TypeOK, Apart(Owned), NEW s, NEW o \in Orders, Gone(s, o)
  PROVE  s \notin Members(o)
<1>1. ASSUME NEW k \in Orders, k < o, s \in Members(k), s \in Members(o) PROVE FALSE
  <2>1. k = o
    BY <1>1, NotFree, Zenon
  <2>2. QED BY <1>1, <2>1, OrderFacts
<1>2. QED BY Zenon, <1>1, NotFree DEF Gone

-----------------------------------------------------------------------------
(* Steps.                                                                  *)

\* The replies of a call.
Replies == {"none", "ok", "out_of_memory", "unknown_ptr"}

LEMMA IdleOK ==
  Idle \in Local /\ CallOK(Idle) /\ PopOK(Idle) /\ PushOK(Idle) /\ RemoveOK(Idle) /\ InHand(Idle) = {}
<1>1. 0 \in Pages /\ 0 \in Orders
  BY BuddyAssumption DEF Pages, Orders
<1>2. QED BY <1>1 DEF Idle, Local, Labels, CallOK, PopOK, PushOK, RemoveOK, InHand,
                      PopAt, PushAt, RemoveAt, WalkAt

LEMMA IdleNext ==
  ASSUME NEW u, loc'[u] = Idle
  PROVE  CallOK(loc[u])' /\ PopOK(loc[u])' /\ PushOK(loc[u])' /\ RemoveOK(loc[u])'
<1>1. Idle.pc = "idle"
  BY Zenon DEF Idle
<1>2. QED BY <1>1, Zenon DEF CallOK, PopOK, PushOK, RemoveOK, PopAt, PushAt, RemoveAt, WalkAt

\* What thread t relies on in its call, when a step of another thread leaves
\* the blocks it has seen where they were, or moves them on for good.
LEMMA OthersOK ==
  ASSUME IInv, NEW u \in Threads, loc'[u] = loc[u],
         loc[u].op # "free",
         \A o \in Orders : \A s \in Members(o) : (s \in Members(o)' /\ next'[s] = next[s]) \/ Gone(s, o)',
         \A o \in Orders : \A s \in Pages : Gone(s, o) => Gone(s, o)',
         loc[u].pc = "push_cas" => next'[loc[u].push] = next[loc[u].push]
  PROVE  CallOK(loc[u])' /\ PopOK(loc[u])' /\ PushOK(loc[u])' /\ RemoveOK(loc[u])'
<1> DEFINE l == loc[u]
<1>1. l \in Local /\ CallOK(l) /\ PopOK(l) /\ PushOK(l) /\ loc'[u] = l /\ l.order \in Orders
  BY Zenon DEF IInv, TypeOK, LocInv, Local
<1> HIDE DEF l
<1>2. CallOK(loc[u])'
  BY <1>1, Zenon DEF CallOK
<1>3. l.pc \notin RemoveAt \cup WalkAt
  BY <1>1, Zenon DEF CallOK, l
<1>4. RemoveOK(loc[u])'
  BY <1>1, <1>3, Zenon DEF RemoveOK, RemoveAt, WalkAt
<1>5. PushOK(loc[u])'
  BY <1>1, Zenon DEF PushOK, l
<1>6. PopOK(loc[u])'
  BY <1>1, Zenon DEF PopOK
<1>7. QED BY Zenon, <1>2, <1>4, <1>5, <1>6

\* A thread that is in a call, or starts one, finds the memory added.
Sharing(t) == t \in usage.threads /\ added = Regions /\ region.left = 0

LEMMA CallerShares ==
  ASSUME IInv, NEW t \in Threads, loc[t].pc # "idle"
  PROVE  Sharing(t)
<1>1. loc[t] # Idle
  BY DEF Idle
<1>2. region.left \in Nat
  BY DEF IInv, TypeOK
<1>3. QED BY <1>1, <1>2 DEF IInv, UseInv, Sharing

\* The parts of the invariant that a step of one thread has to restore.
LEMMA ThreadStep ==
  ASSUME IInv, NEW t \in Threads, Sharing(t), UNCHANGED <<region, added, usage>>,
         \A u \in Threads : u # t => loc'[u] = loc[u] /\ held'[u] = held[u],
         TypeOK', Linked(head, next)', Apart(Owned)', Cover(Owned)' \subseteq Cover(Owned),
         CallOK(loc[t])', PopOK(loc[t])', PushOK(loc[t])', RemoveOK(loc[t])',
         loc'[t].op = "free" => usage.threads = {t},
         usage.threads # {t} =>
           /\ \A o \in Orders : \A s \in Members(o) :
                (s \in Members(o)' /\ next'[s] = next[s]) \/ Gone(s, o)'
           /\ \A o \in Orders : \A s \in Pages : Gone(s, o) => Gone(s, o)'
           /\ \A u \in Threads : u # t /\ loc[u].pc = "push_cas" =>
                next'[loc[u].push] = next[loc[u].push]
  PROVE  IInv'
<1>1. PartInv'
  <2>1. Uncut' = Uncut /\ Given' = Given
    BY Zenon DEF Uncut, Given
  <2>2. QED BY <2>1, Zenon DEF IInv, PartInv
<1>2. ASSUME NEW u \in Threads, u # t
      PROVE  CallOK(loc[u])' /\ PopOK(loc[u])' /\ PushOK(loc[u])' /\ RemoveOK(loc[u])'
  <2>1. loc'[u] = loc[u]
    BY Zenon, <1>2
  <2>2. CASE loc[u] = Idle
    BY Zenon, <2>1, <2>2, IdleNext
  <2>3. CASE loc[u] # Idle
    <3>1. usage.threads # {t} /\ usage.threads # {u}
      BY <1>2, <2>3 DEF IInv, UseInv, Sharing
    <3>2. loc[u].op # "free"
      BY <3>1, Zenon DEF IInv, UseInv
    <3>3. QED BY Zenon, <1>2, <2>1, <3>1, <3>2, OthersOK
  <2>4. QED BY <2>2, <2>3, Zenon
<1>3. LocInv'
  BY Zenon, <1>2 DEF LocInv
<1>4. UseInv'
  <2>1. \A u \in Threads : u \notin usage.threads => loc'[u] = Idle /\ held'[u] = {}
    BY Zenon DEF IInv, UseInv, Sharing
  <2>2. \A u \in Threads : loc'[u].op = "free" => usage.threads = {u}
    BY Zenon DEF IInv, UseInv
  <2>3. ~(added' # Regions \/ region'.left > 0)
    BY DEF Sharing
  <2>4. QED BY Zenon, <2>1, <2>2, <2>3 DEF UseInv
<1>5. QED BY Zenon, <1>1, <1>3, <1>4 DEF IInv

\* A step that only moves thread t on in its call.
LEMMA LocalStep ==
  ASSUME IInv, NEW t \in Threads, Sharing(t), NEW l \in Local,
         UNCHANGED <<head, next, held, region, added, usage>>,
         loc' = [loc EXCEPT ![t] = l], reply' \in [Threads -> Replies],
         CallOK(l), PopOK(l), PushOK(l), RemoveOK(l), InHand(l) = InHand(loc[t]),
         l.op = "free" => loc[t].op = "free"
  PROVE  IInv' /\ Owned' = Owned
<1>1. loc'[t] = l /\ \A u \in Threads : u # t => loc'[u] = loc[u]
  BY Zenon DEF IInv, TypeOK
<1>2. TypeOK'
  <2>1. loc' \in [Threads -> Local]
    BY Zenon DEF IInv, TypeOK
  <2>2. QED BY Zenon, <2>1 DEF IInv, TypeOK, Replies
<1>3. \A o : Members(o)' = Members(o)
  BY Zenon DEF Members
<1>4. \A u \in Threads : InHand(loc'[u]) = InHand(loc[u])
  BY Zenon, <1>1
<1>5. Owned' = Owned
  BY Zenon, <1>3, <1>4, OwnedSame
<1>6. \A s, o : Gone(s, o)' <=> Gone(s, o)
  BY Zenon, <1>3, <1>4 DEF Gone
<1>7. CallOK(loc[t])' /\ PopOK(loc[t])' /\ PushOK(loc[t])' /\ RemoveOK(loc[t])'
  <2>1. CallOK(loc[t])'
    BY <1>1 DEF CallOK
  <2>2. PopOK(loc[t])'
    BY Zenon, <1>1, <1>3, <1>6 DEF PopOK
  <2>3. PushOK(loc[t])'
    BY Zenon, <1>1 DEF PushOK
  <2>4. RemoveOK(loc[t])'
    BY Zenon, <1>1, <1>3 DEF RemoveOK
  <2>5. QED BY <2>1, <2>2, <2>3, <2>4, Zenon
<1>8. Linked(head, next)'
  BY Zenon DEF IInv, Linked
<1>9. Apart(Owned)' /\ Cover(Owned)' \subseteq Cover(Owned)
  BY <1>5, Zenon DEF IInv, PartInv, Apart, Cover
<1>10. loc'[t].op = "free" => usage.threads = {t}
  BY <1>1, Zenon DEF IInv, UseInv
<1>11. IInv'
  BY Zenon, <1>1, <1>2, <1>3, <1>6, <1>7, <1>8, <1>9, <1>10, ThreadStep
<1>12. QED BY <1>5, <1>11, Zenon

Quiet == UNCHANGED <<head, next, held, region, added, usage>>

LEMMA LocFacts ==
  ASSUME IInv, NEW t \in Threads
  PROVE  /\ loc[t] \in Local /\ CallOK(loc[t]) /\ PopOK(loc[t]) /\ PushOK(loc[t]) /\ RemoveOK(loc[t])
         /\ head[loc[t].order] \in Pages \cup {Null}
         /\ head[loc[t].order] \in Pages => head[loc[t].order] \in Members(loc[t].order)
         /\ reply \in [Threads -> Replies]
<1>1. loc[t] \in Local /\ reply \in [Threads -> Replies] /\ head \in [Orders -> Pages \cup {Null}]
  BY Zenon DEF IInv, TypeOK, Replies
<1>2. loc[t].order \in Orders
  BY <1>1, Zenon DEF Local
<1>3. head[loc[t].order] \in Pages \cup {Null}
  BY <1>1, <1>2, Zenon
<1>4. head[loc[t].order] \in Pages => head[loc[t].order] \in Members(loc[t].order)
  BY Zenon, ChainFacts DEF Members
<1>5. QED BY Zenon, <1>1, <1>3, <1>4 DEF IInv, LocInv

\* A call that has no block in hand returns.
LEMMA ReturnStep ==
  ASSUME IInv, NEW t \in Threads, Sharing(t), InHand(loc[t]) = {},
         NEW r \in Replies, Return(t, r), Quiet
  PROVE  IInv' /\ Owned' = Owned
<1>1. reply' \in [Threads -> Replies]
  BY LocFacts, Zenon DEF Return
<1>2. loc' = [loc EXCEPT ![t] = Idle] /\ Idle.op # "free"
  BY Zenon DEF Return, Idle
<1>3. QED BY Zenon, <1>1, <1>2, IdleOK, LocalStep DEF Quiet

LEMMA PopHand ==
  ASSUME NEW l, CallOK(l), l.pc \in PopAt
  PROVE  InHand(l) = {} /\ l.op = "alloc" /\ l.want <= l.order
BY Zenon DEF CallOK, PopAt, InHand

\* pop_free after it has loaded a head.
LEMMA PoppingStep ==
  ASSUME IInv, NEW t \in Threads, loc[t].pc \in {"pop_load", "pop_cas"},
         Popping(t, head[loc[t].order]), Quiet
  PROVE  IInv' /\ Owned' = Owned
<1> DEFINE k == loc[t]
           o == k.order + 1
<1>1. k \in Local /\ CallOK(k) /\ k.pc \in PopAt /\ Sharing(t) /\ reply \in [Threads -> Replies]
  BY LocFacts, CallerShares, Zenon DEF PopAt
<1>2. InHand(k) = {} /\ k.op = "alloc" /\ k.want <= k.order
  BY Zenon, <1>1, PopHand
<1>3. k.want \in Nat /\ k.order \in Nat
  BY <1>1, OrderFacts, Zenon DEF Local
<1>4. CASE head[k.order] = Null /\ o < MaxOrder
  <2> DEFINE l == [k EXCEPT !.pc = "pop_load", !.order = o, !.seen = Null]
  <2>1. loc' = [loc EXCEPT ![t] = l] /\ UNCHANGED reply
    BY <1>4, Zenon DEF Popping, NextOrder
  <2>2. o \in Orders
    BY <1>3, <1>4, OrderFacts
  <2>3. l \in Local /\ l.pc = "pop_load" /\ l.op = "alloc" /\ l.want = k.want /\ l.order = o
    BY Zenon, <1>1, <1>2, <2>2 DEF Local, Labels
  <2> HIDE DEF l
  <2>4. CallOK(l) /\ PopOK(l) /\ PushOK(l) /\ RemoveOK(l) /\ InHand(l) = {}
    BY <1>2, <1>3, <2>3 DEF CallOK, PopOK, PushOK, RemoveOK, InHand, PopAt, PushAt, RemoveAt, WalkAt
  <2>5. QED BY Zenon, <1>1, <1>2, <2>1, <2>3, <2>4, LocalStep DEF Quiet
<1>5. CASE head[k.order] = Null /\ ~(o < MaxOrder)
  <2>1. Return(t, "out_of_memory")
    BY <1>5, Zenon DEF Popping, NextOrder
  <2>2. QED BY <1>1, <1>2, <2>1, ReturnStep, Zenon DEF Replies
<1>6. CASE head[k.order] # Null
  <2> DEFINE l == [k EXCEPT !.pc = "pop_next", !.seen = head[k.order], !.nxt = Null]
  <2>1. loc' = [loc EXCEPT ![t] = l] /\ UNCHANGED reply
    BY <1>6, Zenon DEF Popping
  <2>2. head[k.order] \in Pages /\ head[k.order] \in Members(k.order)
    BY <1>6, LocFacts, Zenon
  <2>3. l \in Local /\ l.pc = "pop_next" /\ l.op = "alloc" /\ l.want = k.want /\ l.order = k.order
        /\ l.seen = head[k.order]
    BY Zenon, <1>1, <1>2, <2>2 DEF Local, Labels
  <2> HIDE DEF l
  <2>4. CallOK(l) /\ PopOK(l) /\ PushOK(l) /\ RemoveOK(l) /\ InHand(l) = {}
    BY <1>2, <2>2, <2>3, Zenon DEF CallOK, PopOK, PushOK, RemoveOK, InHand, PopAt, PushAt, RemoveAt, WalkAt
  <2>5. QED BY Zenon, <1>1, <1>2, <2>1, <2>3, <2>4, LocalStep DEF Quiet
<1>7. QED BY <1>4, <1>5, <1>6, Zenon

LEMMA PopNextStep ==
  ASSUME IInv, NEW t \in Threads, PopNext(t), UNCHANGED usage
  PROVE  IInv' /\ Owned' = Owned
<1> DEFINE k == loc[t]
           l == [k EXCEPT !.pc = "pop_cas", !.nxt = next[k.seen]]
<1>1. k.pc = "pop_next" /\ loc' = [loc EXCEPT ![t] = l] /\ Quiet /\ UNCHANGED reply
  BY Zenon DEF PopNext, At, Quiet
<1>2. k \in Local /\ CallOK(k) /\ PopOK(k) /\ k.pc \in PopAt /\ Sharing(t) /\ reply \in [Threads -> Replies]
  BY <1>1, LocFacts, CallerShares, Zenon DEF PopAt
<1>3. InHand(k) = {} /\ k.op = "alloc" /\ k.want <= k.order
  BY Zenon, <1>2, PopHand
<1>4. k.seen \in Pages /\ (k.seen \in Members(k.order) \/ Gone(k.seen, k.order))
  BY <1>1, <1>2, Zenon DEF PopOK
<1>5. next[k.seen] \in Pages \cup {Null, Garbage}
  BY <1>4, Zenon DEF IInv, TypeOK
<1>6. l \in Local /\ l.pc = "pop_cas" /\ l.op = "alloc" /\ l.want = k.want /\ l.order = k.order
      /\ l.seen = k.seen /\ l.nxt = next[k.seen]
  BY Zenon, <1>2, <1>3, <1>5 DEF Local, Labels
<1> HIDE DEF l, k
<1>7. CallOK(l) /\ PopOK(l) /\ PushOK(l) /\ RemoveOK(l) /\ InHand(l) = {}
  BY <1>3, <1>4, <1>6, Zenon DEF CallOK, PopOK, PushOK, RemoveOK, InHand, PopAt, PushAt, RemoveAt, WalkAt
<1>8. QED BY Zenon, <1>1, <1>2, <1>3, <1>6, <1>7, LocalStep DEF Quiet, k

\* push_free loads the head, or finds out that it has changed.
LEMMA PushLoadStep ==
  ASSUME IInv, NEW t \in Threads, PushLoad(t) \/ PushCasFail(t), UNCHANGED usage
  PROVE  IInv' /\ Owned' = Owned
<1> DEFINE k == loc[t]
           l == [k EXCEPT !.pc = "push_store", !.seen = head[k.order]]
<1>1. k.pc \in {"push_load", "push_cas"} /\ loc' = [loc EXCEPT ![t] = l] /\ Quiet /\ UNCHANGED reply
  BY Zenon DEF PushLoad, PushCasFail, At, Quiet
<1>2. k \in Local /\ CallOK(k) /\ k.pc \in PushAt /\ Sharing(t) /\ reply \in [Threads -> Replies]
      /\ head[k.order] \in Pages \cup {Null}
  BY <1>1, LocFacts, CallerShares, Zenon DEF PushAt
<1>3. l \in Local /\ l.pc = "push_store" /\ l.op = k.op /\ l.want = k.want /\ l.order = k.order
      /\ l.seen = head[k.order] /\ l.block = k.block /\ l.push = k.push
  BY Zenon, <1>2 DEF Local, Labels
<1> HIDE DEF l, k
<1>4. CallOK(l) /\ PopOK(l) /\ PushOK(l) /\ RemoveOK(l)
  BY <1>2, <1>3, Zenon DEF CallOK, PopOK, PushOK, RemoveOK, PopAt, PushAt, RemoveAt, WalkAt
<1>5. InHand(l) = InHand(k)
  BY <1>2, <1>3, Zenon DEF InHand, PushAt
<1>6. QED BY Zenon, <1>1, <1>2, <1>3, <1>4, <1>5, LocalStep DEF Quiet, k

LEMMA AllocateStep ==
  ASSUME SizeLaws, IInv, NEW t \in Threads, t \in usage.threads, NEW n \in 1 .. MaxRequest,
         Allocate(t, n), UNCHANGED usage
  PROVE  IInv' /\ Owned' = Owned
<1> DEFINE o == OrderOf(n)
           l == [Idle EXCEPT !.pc = "pop_load", !.op = "alloc", !.want = o, !.order = o]
<1>1. Quiet /\ Sharing(t) /\ loc[t].pc = "idle"
  BY Zenon DEF Allocate, At, Quiet, Sharing
<1>2. InHand(loc[t]) = {} /\ reply \in [Threads -> Replies]
  <2>1. loc[t] = Idle
    BY <1>1, LocFacts, Zenon DEF CallOK
  <2>2. QED BY <2>1, IdleOK, LocFacts, Zenon
<1>3. o \in Nat
  <2>1. n \in Nat \ {0}
    BY BuddyAssumption
  <2>2. QED BY Zenon, <2>1 DEF SizeLaws
<1>4. CASE o < MaxOrder
  <2>1. loc' = [loc EXCEPT ![t] = l] /\ UNCHANGED reply
    BY <1>4, Zenon DEF Allocate
  <2>2. o \in Orders
    BY <1>3, <1>4, OrderFacts, Zenon
  <2> HIDE DEF o
  <2>3. l \in Local /\ l.pc = "pop_load" /\ l.op = "alloc" /\ l.want = o /\ l.order = o
    BY <2>2, IdleOK, Zenon DEF Local, Labels, Idle
  <2> HIDE DEF l
  <2>4. CallOK(l) /\ PopOK(l) /\ PushOK(l) /\ RemoveOK(l) /\ InHand(l) = {}
    BY <1>3, <2>3 DEF CallOK, PopOK, PushOK, RemoveOK, InHand, PopAt, PushAt, RemoveAt, WalkAt
  <2>5. QED BY Zenon, <1>1, <1>2, <2>1, <2>3, <2>4, LocalStep DEF Quiet
<1>5. CASE ~(o < MaxOrder)
  <2>1. Return(t, "out_of_memory")
    BY <1>5, Zenon DEF Allocate
  <2>2. QED BY <1>1, <1>2, <2>1, ReturnStep, Zenon DEF Replies
<1>6. QED BY <1>4, <1>5, Zenon

\* What a thread finds in the headers of a list that it walks.
LEMMA WalkFacts ==
  ASSUME IInv, NEW o \in Orders, NEW p \in Members(o)
  PROVE  /\ p \in Pages /\ next[p] \in Pages \cup {Null}
         /\ next[p] \in Pages => next[p] \in Members(o)
<1>1. p \in Chain(head[o], next) /\ WellLinked(head[o], next)
  BY Zenon DEF IInv, Linked, Members
<1>2. p \in Pages /\ (next[p] \in Pages => next[p] \in Chain(head[o], next))
  BY <1>1, ChainFacts, Zenon
<1>3. next[p] \in Pages \cup {Null}
  BY Zenon, <1>1 DEF WellLinked
<1>4. QED BY Zenon, <1>2, <1>3 DEF Members

\* A call of free goes on to its next check, or to the push.
LEMMA StartCheckStep ==
  ASSUME IInv, NEW t \in Threads, loc[t].pc \in RemoveAt \cup WalkAt,
         NEW c \in 1 .. 4, StartCheck(t, c), Quiet
  PROVE  IInv' /\ Owned' = Owned
<1> DEFINE k == loc[t]
<1>1. k \in Local /\ CallOK(k) /\ Sharing(t) /\ reply \in [Threads -> Replies]
  BY LocFacts, CallerShares, Zenon DEF RemoveAt, WalkAt
<1>2. k.op = "free" /\ k.order + 1 < MaxOrder
  BY <1>1, Zenon DEF CallOK
<1>3. InHand(k) = {<<k.block, k.order>>}
  BY <1>2, Zenon DEF InHand
<1>4. k.order \in Nat
  BY <1>1, OrderFacts, Zenon DEF Local
<1>5. CASE c = 4
  <2> DEFINE l == [k EXCEPT !.check = 0, !.seen = Null, !.prev = Null, !.pc = "push_load", !.push = k.block]
  <2>1. loc' = [loc EXCEPT ![t] = l] /\ UNCHANGED reply
    <3> DEFINE m == [k EXCEPT !.check = c, !.seen = Null, !.prev = Null]
    <3>1. loc' = [loc EXCEPT ![t] = [m EXCEPT !.pc = "push_load", !.push = m.block, !.check = 0]]
          /\ UNCHANGED reply
      BY <1>5 DEF StartCheck
    <3>2. [m EXCEPT !.pc = "push_load", !.push = m.block, !.check = 0] = l
      BY <1>1, Zenon DEF Local
    <3>3. QED BY <3>1, <3>2, Zenon
  <2>2. l \in Local /\ l.pc = "push_load" /\ l.op = "free" /\ l.order = k.order
        /\ l.block = k.block /\ l.push = k.block
    <3>1. 0 \in 0 .. 3
      OBVIOUS
    <3>2. QED BY Zenon, <1>1, <1>2, <3>1 DEF Local, Labels
  <2> HIDE DEF l
  <2>3. CallOK(l) /\ PopOK(l) /\ PushOK(l) /\ RemoveOK(l) /\ InHand(l) = InHand(k)
    BY <1>3, <2>2, Zenon DEF CallOK, PopOK, PushOK, RemoveOK, InHand, PopAt, PushAt, RemoveAt, WalkAt
  <2>4. QED BY Zenon, <1>1, <1>2, <2>1, <2>2, <2>3, LocalStep DEF Quiet
<1>6. CASE c # 4
  <2> DEFINE l == [k EXCEPT !.check = c, !.seen = Null, !.prev = Null, !.pc = "walk_load"]
  <2>1. loc' = [loc EXCEPT ![t] = l] /\ UNCHANGED reply
    <3> DEFINE m == [k EXCEPT !.check = c, !.seen = Null, !.prev = Null]
    <3>1. m.order = k.order /\ [m EXCEPT !.pc = "walk_load"] = l
      BY <1>1, Zenon DEF Local
    <3>2. CheckOrder(m) # MaxOrder
      BY <1>2, <1>4, <3>1, BuddyAssumption DEF CheckOrder
    <3>3. loc' = [loc EXCEPT ![t] = [m EXCEPT !.pc = "walk_load"]] /\ UNCHANGED reply
      BY <1>6, <3>2 DEF StartCheck
    <3>4. QED BY <3>1, <3>3, Zenon
  <2>2. c \in 1 .. 3 /\ c \in 0 .. 3
    BY <1>6
  <2>3. l \in Local /\ l.pc = "walk_load" /\ l.op = "free" /\ l.order = k.order
        /\ l.block = k.block /\ l.check = c
    BY Zenon, <1>1, <1>2, <2>2 DEF Local, Labels
  <2> HIDE DEF l
  <2>4. CallOK(l) /\ PopOK(l) /\ PushOK(l) /\ RemoveOK(l) /\ InHand(l) = InHand(k)
    BY <1>2, <1>3, <2>2, <2>3, Zenon
    DEF CallOK, PopOK, PushOK, RemoveOK, InHand, PopAt, PushAt, RemoveAt, WalkAt
  <2>5. QED BY Zenon, <1>1, <1>2, <2>1, <2>3, <2>4, LocalStep DEF Quiet
<1>7. QED BY <1>5, <1>6, Zenon

\* A call of free moves on in a list, with the same block in hand.
LEMMA WalkStep ==
  ASSUME IInv, NEW t \in Threads, loc[t].pc \in RemoveAt \cup WalkAt, NEW l \in Local,
         l.op = "free", l.pc \in RemoveAt \cup WalkAt, l.order = loc[t].order, l.block = loc[t].block,
         RemoveOK(l), loc' = [loc EXCEPT ![t] = l], UNCHANGED reply, Quiet
  PROVE  IInv' /\ Owned' = Owned
<1> DEFINE k == loc[t]
<1>1. k \in Local /\ CallOK(k) /\ Sharing(t) /\ reply \in [Threads -> Replies]
  BY LocFacts, CallerShares, Zenon DEF RemoveAt, WalkAt
<1>2. k.op = "free" /\ k.order + 1 < MaxOrder
  BY <1>1, Zenon DEF CallOK
<1>3. CallOK(l) /\ PopOK(l) /\ PushOK(l) /\ InHand(l) = InHand(k)
  BY <1>2, Zenon DEF CallOK, PopOK, PushOK, InHand, PopAt, PushAt, RemoveAt, WalkAt
<1>4. QED BY Zenon, <1>1, <1>2, <1>3, LocalStep DEF Quiet

LEMMA RemoveLoadStep ==
  ASSUME IInv, NEW t \in Threads, RemoveLoad(t), UNCHANGED usage
  PROVE  IInv' /\ Owned' = Owned
<1> DEFINE k == loc[t]
           l == [k EXCEPT !.pc = "rem_next", !.seen = head[k.order], !.prev = Null]
<1>1. k.pc = "rem_load" /\ Quiet
  BY Zenon DEF RemoveLoad, At, Quiet
<1>2. k \in Local /\ CallOK(k) /\ RemoveOK(k)
  BY LocFacts, Zenon
<1>3. CASE head[k.order] = Null
  <2>1. StartCheck(t, 1)
    BY <1>3, Zenon DEF RemoveLoad
  <2>2. QED BY <1>1, <2>1, StartCheckStep DEF RemoveAt
<1>4. CASE head[k.order] # Null
  <2>1. loc' = [loc EXCEPT ![t] = l] /\ UNCHANGED reply
    BY <1>4, Zenon DEF RemoveLoad
  <2>2. head[k.order] \in Pages /\ head[k.order] \in Members(k.order)
    BY <1>4, LocFacts, Zenon
  <2>3. k.op = "free"
    BY <1>1, <1>2, Zenon DEF CallOK, RemoveAt
  <2>4. l \in Local /\ l.pc = "rem_next" /\ l.op = "free" /\ l.order = k.order
        /\ l.block = k.block /\ l.seen = head[k.order] /\ l.prev = Null
    BY Zenon, <1>2, <2>2, <2>3 DEF Local, Labels
  <2> HIDE DEF l
  <2>5. RemoveOK(l)
    BY <1>1, <1>2, <2>2, <2>4, Zenon DEF RemoveOK, RemoveAt, WalkAt
  <2>6. QED BY <1>1, <2>1, <2>4, <2>5, WalkStep, Zenon DEF RemoveAt
<1>5. QED BY <1>3, <1>4, Zenon

LEMMA RemoveNextStep ==
  ASSUME IInv, NEW t \in Threads, RemoveNext(t), UNCHANGED usage
  PROVE  IInv' /\ Owned' = Owned
<1> DEFINE k == loc[t]
           n == next[k.seen]
<1>1. k.pc = "rem_next" /\ Quiet
  BY Zenon DEF RemoveNext, At, Quiet
<1>2. k \in Local /\ CallOK(k) /\ RemoveOK(k) /\ k.order \in Orders
  BY LocFacts, Zenon DEF Local
<1>3. k.op = "free" /\ k.seen \in Members(k.order)
  BY <1>1, <1>2, Zenon DEF CallOK, RemoveOK, RemoveAt
<1>4. k.seen \in Pages /\ n \in Pages \cup {Null} /\ (n \in Pages => n \in Members(k.order))
  BY Zenon, <1>2, <1>3, WalkFacts
<1>5. CASE k.seen = BuddyOf(k.block, k.order)
  <2> DEFINE l == [k EXCEPT !.pc = "rem_cas", !.nxt = n]
  <2>1. loc' = [loc EXCEPT ![t] = l] /\ UNCHANGED reply
    BY <1>5, Zenon DEF RemoveNext
  <2>2. l \in Local /\ l.pc = "rem_cas" /\ l.op = "free" /\ l.order = k.order
        /\ l.block = k.block /\ l.seen = k.seen /\ l.prev = k.prev /\ l.nxt = n
    BY Zenon, <1>2, <1>3, <1>4 DEF Local, Labels
  <2> HIDE DEF l
  <2>3. RemoveOK(l)
    BY <1>1, <1>2, <1>5, <2>2, Zenon DEF RemoveOK, RemoveAt, WalkAt
  <2>4. QED BY <1>1, <2>1, <2>2, <2>3, WalkStep, Zenon DEF RemoveAt
<1>6. CASE k.seen # BuddyOf(k.block, k.order) /\ n = Null
  <2>1. StartCheck(t, 1)
    BY <1>6, Zenon DEF RemoveNext
  <2>2. QED BY <1>1, <2>1, StartCheckStep DEF RemoveAt
<1>7. CASE k.seen # BuddyOf(k.block, k.order) /\ n # Null
  <2> DEFINE l == [k EXCEPT !.prev = k.seen, !.seen = n]
  <2>1. loc' = [loc EXCEPT ![t] = l] /\ UNCHANGED reply
    BY <1>7, Zenon DEF RemoveNext
  <2>2. l \in Local /\ l.pc = "rem_next" /\ l.op = "free" /\ l.order = k.order
        /\ l.block = k.block /\ l.seen = n /\ l.prev = k.seen
    BY Zenon, <1>1, <1>2, <1>3, <1>4 DEF Local, Labels
  <2>3. k.seen # Null
    BY <1>4, PageFacts, Zenon
  <2> HIDE DEF l
  <2>4. RemoveOK(l)
    BY <1>1, <1>2, <1>3, <1>4, <1>7, <2>2, <2>3, Zenon DEF RemoveOK, RemoveAt, WalkAt
  <2>5. QED BY <1>1, <2>1, <2>2, <2>4, WalkStep, Zenon DEF RemoveAt
<1>8. QED BY <1>5, <1>6, <1>7, Zenon

\* The list that a check looks at.
LEMMA CheckFacts ==
  ASSUME IInv, NEW t \in Threads, loc[t].pc \in WalkAt
  PROVE  /\ loc[t] \in Local /\ CallOK(loc[t]) /\ RemoveOK(loc[t]) /\ loc[t].op = "free"
         /\ loc[t].check \in 1 .. 3 /\ CheckOrder(loc[t]) \in Orders
<1>1. loc[t] \in Local /\ CallOK(loc[t]) /\ RemoveOK(loc[t])
  BY LocFacts, Zenon
<1>2. loc[t].op = "free" /\ loc[t].order + 1 < MaxOrder /\ loc[t].check \in 1 .. 3
  BY <1>1, Zenon DEF CallOK, RemoveOK
<1>3. loc[t].order \in Nat
  BY <1>1, OrderFacts, Zenon DEF Local
<1>4. loc[t].order \in Orders /\ loc[t].order + 1 \in Orders
  BY <1>2, <1>3, OrderFacts, BuddyAssumption
<1>5. QED BY <1>1, <1>2, <1>4, Zenon DEF CheckOrder

\* CheckOrder and CheckFor look at order, check and block only.
LEMMA CheckSame ==
  ASSUME NEW k, NEW l, l.order = k.order, l.check = k.check, l.block = k.block
  PROVE  CheckOrder(l) = CheckOrder(k) /\ CheckFor(l) = CheckFor(k)
BY Zenon DEF CheckOrder, CheckFor

LEMMA WalkLoadStep ==
  ASSUME IInv, NEW t \in Threads, WalkLoad(t), UNCHANGED usage
  PROVE  IInv' /\ Owned' = Owned
<1> DEFINE k == loc[t]
           o == CheckOrder(k)
           l == [k EXCEPT !.pc = "walk_next", !.seen = head[o]]
<1>1. k.pc = "walk_load" /\ Quiet
  BY Zenon DEF WalkLoad, At, Quiet
<1>2. k \in Local /\ k.op = "free" /\ k.check \in 1 .. 3 /\ o \in Orders
  BY <1>1, CheckFacts, Zenon DEF WalkAt
<1>3. head[o] \in Pages \cup {Null}
  BY <1>2, Zenon DEF IInv, TypeOK
<1>4. CASE head[o] = Null
  <2>1. StartCheck(t, k.check + 1) /\ k.check + 1 \in 1 .. 4
    BY <1>2, <1>4 DEF WalkLoad
  <2>2. QED BY <1>1, <2>1, StartCheckStep, Zenon DEF WalkAt
<1>5. CASE head[o] # Null
  <2>1. loc' = [loc EXCEPT ![t] = l] /\ UNCHANGED reply
    BY <1>5, Zenon DEF WalkLoad
  <2>2. head[o] \in Pages /\ head[o] \in Members(o)
    BY <1>3, <1>5, ChainFacts, Zenon DEF Members
  <2>3. l \in Local /\ l.pc = "walk_next" /\ l.op = "free" /\ l.order = k.order
        /\ l.block = k.block /\ l.check = k.check /\ l.seen = head[o]
    BY Zenon, <1>2, <2>2 DEF Local, Labels
  <2>4. CheckOrder(l) = o
    BY <2>3, CheckSame, Zenon
  <2> HIDE DEF l
  <2>5. RemoveOK(l)
    BY <1>2, <2>2, <2>3, <2>4, Zenon DEF RemoveOK, RemoveAt, WalkAt
  <2>6. QED BY <1>1, <2>1, <2>3, <2>5, WalkStep, Zenon DEF WalkAt
<1>6. QED BY <1>4, <1>5, Zenon

\* A walk of block_in_free_list that does not find the block.
LEMMA WalkNextStep ==
  ASSUME IInv, NEW t \in Threads, WalkNext(t), loc[t].seen # CheckFor(loc[t]), UNCHANGED usage
  PROVE  IInv' /\ Owned' = Owned
<1> DEFINE k == loc[t]
           o == CheckOrder(k)
           n == next[k.seen]
           l == [k EXCEPT !.seen = n]
<1>1. k.pc = "walk_next" /\ Quiet
  BY Zenon DEF WalkNext, At, Quiet
<1>2. k \in Local /\ k.op = "free" /\ k.check \in 1 .. 3 /\ o \in Orders /\ RemoveOK(k)
  BY <1>1, CheckFacts, Zenon DEF WalkAt
<1>3. k.seen \in Members(o)
  BY <1>1, <1>2, Zenon DEF RemoveOK
<1>4. n \in Pages \cup {Null} /\ (n \in Pages => n \in Members(o))
  BY Zenon, <1>2, <1>3, WalkFacts
<1>5. CASE n = Null
  <2>1. StartCheck(t, k.check + 1) /\ k.check + 1 \in 1 .. 4
    BY <1>2, <1>5 DEF WalkNext
  <2>2. QED BY <1>1, <2>1, StartCheckStep, Zenon DEF WalkAt
<1>6. CASE n # Null
  <2>1. loc' = [loc EXCEPT ![t] = l] /\ UNCHANGED reply
    BY <1>6, Zenon DEF WalkNext
  <2>2. l \in Local /\ l.pc = "walk_next" /\ l.op = "free" /\ l.order = k.order
        /\ l.block = k.block /\ l.check = k.check /\ l.seen = n
    BY Zenon, <1>1, <1>2, <1>4 DEF Local, Labels
  <2>3. CheckOrder(l) = o
    BY <2>2, CheckSame, Zenon
  <2> HIDE DEF l
  <2>4. RemoveOK(l)
    BY <1>2, <1>4, <1>6, <2>2, <2>3, Zenon DEF RemoveOK, RemoveAt, WalkAt
  <2>5. QED BY <1>1, <2>1, <2>2, <2>4, WalkStep, Zenon DEF WalkAt
<1>7. QED BY <1>5, <1>6, Zenon

-----------------------------------------------------------------------------
(* Where blocks start.                                                     *)

Aligned(p, o) == \E k \in 0 .. p : p = k * Size[o]

\* The regions start where a block of the largest order may start.
Coarse == \A r \in Regions : (r[1] \div PageLen) % Size[MaxOrder - 1] = 0

BlocksAligned == \A x \in Owned : Aligned(x[3][1], x[3][2])

AlignInv ==
  /\ BlocksAligned
  /\ region.left > 0 => Aligned(region.block, region.order)

LEMMA Multiples ==
  ASSUME NEW S \in Nat \ {0}, NEW k \in Nat
  PROVE  k * S \in Nat /\ k <= k * S /\ (k * S) \div S = k
<1>1. k * S \in Nat
  OBVIOUS
<1>2. k <= k * S
  OBVIOUS
<1>3. (k * S) \div S = k
  OBVIOUS
<1>4. QED BY <1>1, <1>2, <1>3, Zenon

LEMMA AlignedFacts ==
  ASSUME SizeLaws, NEW p \in Nat, NEW o \in Nat
  PROVE  /\ \A k \in Nat : p = k * Size[o] => Aligned(p, o)
         /\ Aligned(p, o) => \E k \in Nat : p = k * Size[o] /\ p \div Size[o] = k
<1>1. Size[o] \in Nat \ {0}
  BY Zenon DEF SizeLaws
<1>2. ASSUME NEW k \in Nat, p = k * Size[o] PROVE Aligned(p, o)
  <2>1. k <= p
    BY <1>1, <1>2, Multiples, Zenon
  <2>2. k \in 0 .. p
    BY <2>1
  <2>3. QED BY <1>2, <2>2, Zenon DEF Aligned
<1>3. ASSUME Aligned(p, o) PROVE \E k \in Nat : p = k * Size[o] /\ p \div Size[o] = k
  <2>1. PICK k \in 0 .. p : p = k * Size[o]
    BY <1>3, Zenon DEF Aligned
  <2>2. k \in Nat
    BY <2>1
  <2>3. p \div Size[o] = k
    BY <1>1, <2>1, <2>2, Multiples, Zenon
  <2>4. QED BY <2>1, <2>2, <2>3, Zenon
<1>4. QED BY <1>2, <1>3, Zenon

\* The halves of a block start where blocks of their order may start.
LEMMA AlignedHalves ==
  ASSUME SizeLaws, NEW p \in Nat, NEW o \in Nat, Aligned(p, o + 1)
  PROVE  Aligned(p, o) /\ Aligned(p + Size[o], o)
<1>1. Size[o] \in Nat \ {0} /\ Size[o + 1] = 2 * Size[o]
  BY Zenon DEF SizeLaws
<1>2. PICK k \in Nat : p = k * Size[o + 1]
  BY AlignedFacts
<1>3. PICK S \in Nat : S = Size[o]
  BY <1>1, Zenon
<1>4. p = k * (2 * S)
  BY <1>1, <1>2, <1>3, Zenon
<1>5. p = (2 * k) * S /\ p + S = (2 * k + 1) * S
  BY <1>4
<1>6. 2 * k \in Nat /\ 2 * k + 1 \in Nat /\ p + S \in Nat
  OBVIOUS
<1>7. QED BY <1>3, <1>5, <1>6, AlignedFacts

\* A block below its buddy starts where a block of twice its size may start.
LEMMA AlignedMerge ==
  ASSUME SizeLaws, NEW p \in Nat, NEW o \in Nat, Aligned(p, o), BuddyOf(p, o) > p
  PROVE  Aligned(p, o + 1)
<1>1. PICK S \in Nat \ {0} : S = Size[o]
  BY Zenon DEF SizeLaws
<1>2. PICK k \in Nat : p = k * S /\ p \div S = k
  BY <1>1, AlignedFacts, Zenon
<1>3. k % 2 = 0
  <2>1. BuddyOf(p, o) = IF k % 2 = 0 THEN p + S ELSE p - S
    BY <1>1, <1>2, Zenon DEF BuddyOf
  <2>2. ~(p - S > p)
    BY <1>1
  <2>3. QED BY <2>1, <2>2, Zenon
<1>4. PICK j \in Nat : k = 2 * j
  <2>1. k \div 2 \in Nat /\ k = 2 * (k \div 2)
    BY <1>3
  <2>2. QED BY <2>1, Zenon
<1>5. p = j * (2 * S)
  BY <1>2, <1>4
<1>6. Size[o + 1] = 2 * S /\ o + 1 \in Nat
  BY <1>1 DEF SizeLaws
<1>7. QED BY <1>5, <1>6, AlignedFacts, Zenon

-----------------------------------------------------------------------------
(* Steps that move blocks.                                                 *)

\* Blocks lie in the memory of the allocator.
LEMMA BlockInPages ==
  ASSUME IInv, NEW x \in Owned
  PROVE  PagesOf(x[3]) \subseteq Pages
<1>1. \A n \in PagesOf(x[3]) : n \in Cover(Owned)
  BY CoverFacts, Zenon
<1>2. Cover(Owned) \subseteq Given /\ Given \subseteq Pages
  BY Zenon DEF IInv, PartInv, Given
<1>3. QED BY <1>1, <1>2, Zenon

\* What is gone from a list stays gone.
LEMMA GoneKept ==
  ASSUME \A k \in Orders : \A q \in Members(k) : q \in Members(k)' \/ Gone(q, k)',
         \A u \in Threads : held[u] \subseteq held'[u],
         \A u \in Threads : \A q : \A j \in Orders : <<q, j>> \in InHand(loc[u]) =>
           \/ <<q, j>> \in InHand(loc'[u]) \/ q \in Members(j)' \/ <<q, j>> \in held'[u] \/ Gone(q, j)'
  PROVE  \A o \in Orders : \A q \in Pages : Gone(q, o) => Gone(q, o)'
<1> SUFFICES ASSUME NEW o \in Orders, NEW q \in Pages, Gone(q, o)
             PROVE  Gone(q, o)'
  BY Zenon
<1>1. ASSUME NEW k \in Orders, k < o, Gone(q, k)' PROVE Gone(q, o)'
  <2>1. \A j \in Orders : (j < k => j < o) /\ (j <= k => j <= o)
    BY <1>1, OrderFacts
  <2>2. QED BY <1>1, <2>1, Zenon DEF Gone
<1>2. ASSUME NEW k \in Orders, k < o, q \in Members(k) PROVE Gone(q, o)'
  <2>1. CASE q \in Members(k)'
    BY <1>2, <2>1, Zenon DEF Gone
  <2>2. CASE Gone(q, k)'
    BY Zenon, <1>1, <1>2, <2>2
  <2>3. QED BY Zenon, <1>2, <2>1, <2>2
<1>3. ASSUME NEW u \in Threads, NEW k \in Orders, k <= o, <<q, k>> \in held[u] PROVE Gone(q, o)'
  <2>1. <<q, k>> \in held'[u]
    BY <1>3, Zenon
  <2>2. QED BY Zenon, <1>3, <2>1 DEF Gone
<1>4. ASSUME NEW u \in Threads, NEW k \in Orders, k < o, <<q, k>> \in InHand(loc[u]) PROVE Gone(q, o)'
  <2>1. CASE <<q, k>> \in InHand(loc'[u]) \/ q \in Members(k)'
    BY Zenon, <1>4, <2>1 DEF Gone
  <2>2. CASE <<q, k>> \in held'[u]
    <3>1. k <= o
      BY <1>4, OrderFacts
    <3>2. QED BY Zenon, <2>2, <3>1 DEF Gone
  <2>3. CASE Gone(q, k)'
    BY Zenon, <1>1, <1>4, <2>3
  <2>4. QED BY Zenon, <1>4, <2>1, <2>2, <2>3
<1>5. QED BY Zenon, <1>2, <1>3, <1>4 DEF Gone

\* The calls of split_block_to_size: the halves of the block are in hand, or the
\* block is with the caller.
LEMMA SplitFacts ==
  ASSUME SizeLaws, IInv, NEW t \in Threads, loc[t].op = "alloc", NEW o \in Orders, NEW b \in Pages,
         loc[t].want <= o, PagesOf(<<b, o>>) \subseteq Pages, Split(t, b, o)
  PROVE  \/ /\ o > loc[t].want /\ o - 1 \in Orders /\ b + Size[o - 1] \in Pages
            /\ \E l \in Local :
                 /\ loc' = [loc EXCEPT ![t] = l] /\ l.op = "alloc"
                 /\ CallOK(l) /\ PopOK(l)' /\ PushOK(l)' /\ RemoveOK(l)'
                 /\ InHand(l) = {<<b, o - 1>>, <<b + Size[o - 1], o - 1>>}
            /\ UNCHANGED <<next, reply, held>>
         \/ /\ o = loc[t].want /\ loc' = [loc EXCEPT ![t] = Idle]
            /\ reply' = [reply EXCEPT ![t] = "ok"]
            /\ held' = [held EXCEPT ![t] = @ \cup {<<b, o>>}]
            /\ next' = [next EXCEPT ![b] = Garbage]
<1> DEFINE k == loc[t]
           m == [k EXCEPT !.pc = "push_load", !.order = o - 1, !.block = b,
                          !.push = b + Size[o - 1], !.seen = Null, !.nxt = Null]
<1>1. k \in Local
  BY LocFacts, Zenon
<1>2. k.want \in Nat /\ o \in Nat /\ b \in Nat
  BY <1>1, OrderFacts, PageFacts, Zenon DEF Local
<1>3. CASE o > k.want
  <2>1. o - 1 \in Orders /\ o - 1 \in Nat /\ k.want <= o - 1
    BY <1>2, <1>3, OrderFacts, BuddyAssumption
  <2>2. b + Size[o - 1] \in Pages
    <3>1. /\ PagesOf(<<b, o - 1 + 1>>) = PagesOf(<<b, o - 1>>) \cup PagesOf(<<b + Size[o - 1], o - 1>>)
          /\ Size[o - 1] \in Nat
      BY <1>2, <2>1, Halves, Zenon DEF SizeLaws
    <3>2. b + Size[o - 1] \in PagesOf(<<b + Size[o - 1], o - 1>>)
      <4>1. b + Size[o - 1] \in Nat
        BY <1>2, <3>1
      <4>2. QED BY <2>1, <4>1, Halves, Zenon
    <3>3. o - 1 + 1 = o
      BY <1>2
    <3>4. QED BY <3>1, <3>2, <3>3, Zenon
  <2>3. loc' = [loc EXCEPT ![t] = m] /\ UNCHANGED <<next, reply, held>>
    BY <1>3, Zenon DEF Split
  <2>4. m \in Local /\ m.pc = "push_load" /\ m.op = "alloc" /\ m.want = k.want /\ m.order = o - 1
        /\ m.block = b /\ m.push = b + Size[o - 1]
    BY Zenon, <1>1, <2>1, <2>2 DEF Local, Labels
  <2>5. PICK l \in Local : l = m
    BY <2>4, Zenon
  <2>6. PICK w : w = k.want
    BY Zenon
  <2>7. l.pc = "push_load" /\ l.op = "alloc" /\ l.want = w /\ l.order = o - 1
        /\ l.block = b /\ l.push = b + Size[o - 1] /\ loc' = [loc EXCEPT ![t] = l] /\ w <= o - 1
    BY Zenon, <2>1, <2>3, <2>4, <2>5, <2>6
  <2> HIDE DEF m
  <2>8. CallOK(l) /\ PopOK(l)' /\ PushOK(l)' /\ RemoveOK(l)'
    BY <2>7, Zenon DEF CallOK, PopOK, PushOK, RemoveOK, PopAt, PushAt, RemoveAt, WalkAt
  <2>9. InHand(l) = {<<b, o - 1>>, <<b + Size[o - 1], o - 1>>}
    BY <2>7, Zenon DEF InHand
  <2>10. QED BY Zenon, <1>3, <2>1, <2>2, <2>3, <2>7, <2>8, <2>9
<1>4. CASE ~(o > k.want)
  <2>1. o = k.want
    BY <1>2, <1>4
  <2>2. QED BY <1>4, <2>1, Zenon DEF Split, Return
<1>5. QED BY <1>3, <1>4, Zenon
\* A step of thread t to the local variables l and the blocks H of its caller, ...
Goes(t, l, H) ==
  /\ UNCHANGED <<region, added, usage>>
  /\ loc' = [loc EXCEPT ![t] = l] /\ held' = [held EXCEPT ![t] = H]
  /\ reply' \in [Threads -> Replies]
  /\ CallOK(l) /\ PopOK(l)' /\ PushOK(l)' /\ RemoveOK(l)'
  /\ l.op = "free" => usage.threads = {t}

\* ... that keeps the lists, ...
ListsOK == head' \in Heads /\ next' \in Headers /\ Linked(head', next')

\* ... exchanges blocks R for blocks N on the same pages, ...
Exchanges(t, l, H, R, N) ==
  /\ R \subseteq Owned /\ Apart(N) /\ Cover(N) = Cover(R)
  /\ \A x \in R : x[1] = "free" \/ x[2] = t
  /\ \A x \in N : \/ \E o \in Orders : \E p : x = <<"free", o, <<p, o>>>>
                  \/ \E b : x = <<"held", t, b>> \/ x = <<"hand", t, b>>
  /\ \A o \in Orders : \A p : p \in Members(o)' <=>
       (p \in Members(o) /\ <<"free", o, <<p, o>>>> \notin R) \/ <<"free", o, <<p, o>>>> \in N
  /\ \A b : b \in H <=> (b \in held[t] /\ <<"held", t, b>> \notin R) \/ <<"held", t, b>> \in N
  /\ \A b : b \in InHand(l) <=>
       (b \in InHand(loc[t]) /\ <<"hand", t, b>> \notin R) \/ <<"hand", t, b>> \in N

\* ... and leaves what other threads have seen where it was, or moves it on for good.
Undisturbed(t) ==
  usage.threads # {t} =>
    /\ \A o \in Orders : \A s \in Members(o) : (s \in Members(o)' /\ next'[s] = next[s]) \/ Gone(s, o)'
    /\ \A o \in Orders : \A s \in Pages : Gone(s, o) => Gone(s, o)'
    /\ \A u \in Threads : u # t /\ loc[u].pc = "push_cas" => next'[loc[u].push] = next[loc[u].push]

LEMMA MoveStep ==
  ASSUME IInv, NEW t \in Threads, Sharing(t), NEW l \in Local, NEW H \in SUBSET (Pages \X Orders),
         NEW R, NEW N, Goes(t, l, H), ListsOK, Exchanges(t, l, H, R, N), Undisturbed(t)
  PROVE  IInv' /\ Owned' = (Owned \ R) \cup N /\ Cover(Owned)' = Cover(Owned)
<1>1. /\ R \subseteq Owned /\ Apart(N) /\ Cover(N) = Cover(R)
      /\ \A x \in R : x[1] = "free" \/ x[2] = t
      /\ \A x \in N : \/ \E o \in Orders : \E p : x = <<"free", o, <<p, o>>>>
                      \/ \E b : x = <<"held", t, b>> \/ x = <<"hand", t, b>>
      /\ \A o \in Orders : \A p : p \in Members(o)' <=>
           (p \in Members(o) /\ <<"free", o, <<p, o>>>> \notin R) \/ <<"free", o, <<p, o>>>> \in N
      /\ \A b : b \in H <=> (b \in held[t] /\ <<"held", t, b>> \notin R) \/ <<"held", t, b>> \in N
      /\ \A b : b \in InHand(l) <=>
           (b \in InHand(loc[t]) /\ <<"hand", t, b>> \notin R) \/ <<"hand", t, b>> \in N
  BY Zenon DEF Exchanges
<1>2. /\ UNCHANGED <<region, added, usage>>
      /\ loc' = [loc EXCEPT ![t] = l] /\ held' = [held EXCEPT ![t] = H]
      /\ reply' \in [Threads -> Replies]
      /\ CallOK(l) /\ PopOK(l)' /\ PushOK(l)' /\ RemoveOK(l)'
      /\ l.op = "free" => usage.threads = {t}
  BY Zenon DEF Goes
<1>3. head' \in Heads /\ next' \in Headers /\ Linked(head', next')
  BY Zenon DEF ListsOK
<1>4. /\ loc'[t] = l /\ held'[t] = H
      /\ \A u \in Threads : u # t => loc'[u] = loc[u] /\ held'[u] = held[u]
  BY <1>2, Zenon DEF IInv, TypeOK
<1>5. TypeOK'
  <2>1. loc' \in [Threads -> Local] /\ held' \in [Threads -> SUBSET (Pages \X Orders)]
    BY <1>2, Zenon DEF IInv, TypeOK
  <2>2. QED BY Zenon, <1>2, <1>3, <2>1 DEF IInv, TypeOK, Replies, Heads, Headers
<1>6. Linked(head, next)'
  BY <1>3, Zenon DEF Linked
<1>7. ASSUME NEW u \in Threads, u # t, NEW b
      PROVE  <<"held", u, b>> \notin R /\ <<"held", u, b>> \notin N
             /\ <<"hand", u, b>> \notin R /\ <<"hand", u, b>> \notin N
  <2>1. <<"held", u, b>> \notin R /\ <<"hand", u, b>> \notin R
    BY <1>7, <1>1, Zenon
  <2>2. <<"held", u, b>> \notin N /\ <<"hand", u, b>> \notin N
    BY <1>7, <1>1, Zenon
  <2>3. QED BY <2>1, <2>2, Zenon
<1>8. \A u \in Threads : \A b : b \in held'[u] <=>
        (b \in held[u] /\ <<"held", u, b>> \notin R) \/ <<"held", u, b>> \in N
  BY Zenon, <1>4, <1>7, <1>1
<1>9. \A u \in Threads : \A b : b \in InHand(loc'[u]) <=>
        (b \in InHand(loc[u]) /\ <<"hand", u, b>> \notin R) \/ <<"hand", u, b>> \in N
  BY Zenon, <1>4, <1>7, <1>1
<1>10. \A x \in N : \/ \E o \in Orders : \E p : x = <<"free", o, <<p, o>>>>
                    \/ \E u \in Threads : \E b : x = <<"held", u, b>>
                    \/ \E u \in Threads : \E b : x = <<"hand", u, b>>
  BY Zenon, <1>1
<1>11. Owned' = (Owned \ R) \cup N
  BY Zenon, <1>8, <1>9, <1>10, <1>1, OwnedChange
<1>12. Apart((Owned \ R) \cup N) /\ Cover((Owned \ R) \cup N) = Cover(Owned)
  BY Zenon, <1>1, Exchange DEF IInv, PartInv
<1>13. Apart(Owned)' /\ Cover(Owned)' = Cover(Owned)
  BY Zenon, <1>11, <1>12 DEF Apart, Cover
<1>14. CallOK(loc[t])' /\ PopOK(loc[t])' /\ PushOK(loc[t])' /\ RemoveOK(loc[t])'
  <2>1. CallOK(loc[t])'
    BY <1>4, <1>2, Zenon DEF CallOK
  <2>2. PopOK(loc[t])'
    BY Zenon, <1>4, <1>2 DEF PopOK
  <2>3. PushOK(loc[t])'
    BY Zenon, <1>4, <1>2 DEF PushOK
  <2>4. RemoveOK(loc[t])'
    BY Zenon, <1>4, <1>2 DEF RemoveOK
  <2>5. QED BY <2>1, <2>2, <2>3, <2>4, Zenon
<1>15. IInv'
  BY Zenon, <1>4, <1>5, <1>6, <1>13, <1>14, <1>2, ThreadStep DEF Undisturbed
<1>16. QED BY Zenon, <1>11, <1>13, <1>15

\* Every page of a block stays in a block, and blocks start where they may.
Kept == Cover(Owned)' = Cover(Owned) /\ (BlocksAligned => BlocksAligned')

LEMMA KeptSame ==
  ASSUME Owned' = Owned
  PROVE  Kept
BY Zenon DEF Kept, Cover, BlocksAligned, Aligned

LEMMA AlignedChange ==
  ASSUME NEW R, NEW N, Owned' = (Owned \ R) \cup N, Cover(Owned)' = Cover(Owned),
         BlocksAligned => \A x \in N : Aligned(x[3][1], x[3][2])
  PROVE  Kept
<1>1. ASSUME BlocksAligned PROVE BlocksAligned'
  <2>1. \A x \in (Owned \ R) \cup N : Aligned(x[3][1], x[3][2])
    BY Zenon, <1>1 DEF BlocksAligned
  <2>2. QED BY Zenon, <2>1 DEF BlocksAligned, Aligned
<1>2. QED BY Zenon, <1>1 DEF Kept

\* free takes the block from its caller.
LEMMA FreeStep ==
  ASSUME SafeUse, IInv, NEW t \in usage.threads, NEW p, NEW o, Free(t, p, o), UNCHANGED usage
  PROVE  IInv' /\ Kept
<1> DEFINE b == <<p, o>>
           m == [Idle EXCEPT !.pc = "rem_load", !.op = "free", !.order = o, !.block = p]
<1>1. loc[t].pc = "idle" /\ b \in held[t] /\ MayFree(p, o)
      /\ UNCHANGED <<head, next, reply, region, added, usage>>
  BY Zenon DEF Free, At
<1>2. usage.frees = "safe" /\ usage.threads = {t} /\ t \in Threads
  <2>1. usage \in Usages /\ t \in usage.threads
    BY Zenon DEF IInv, TypeOK
  <2>2. usage \in [threads : SUBSET Threads, frees : {"none", "safe", "all"}]
    BY <2>1, BuddyAssumption, Zenon
  <2>3. usage.frees = "safe" /\ \E u \in Threads : usage.threads = {u}
    BY <1>1, <2>1, Zenon DEF SafeUse, MayFree
  <2>4. QED BY <2>1, <2>3, Zenon
<1>3. p \in Pages /\ o \in Orders /\ o < MaxOrder - 1 /\ o \in Nat
  BY <1>1, <1>2, OrderFacts DEF IInv, TypeOK, MayFree
<1>4. BuddyOf(p, o) \in Members(o) => BuddyOf(p, o) > p
  BY <1>1, <1>2, Zenon DEF MayFree
<1>5. Sharing(t) /\ loc[t] = Idle
  BY <1>1, <1>2, LocFacts DEF IInv, TypeOK, UseInv, Sharing, CallOK
<1>6. m \in Local /\ m.pc = "rem_load" /\ m.op = "free" /\ m.order = o /\ m.block = p
  BY Zenon, <1>3, IdleOK DEF Local, Labels, Idle
<1>7. PICK l \in Local : l = m
  BY <1>6, Zenon
<1>8. /\ l.pc = "rem_load" /\ l.op = "free" /\ l.order = o /\ l.block = p
      /\ loc' = [loc EXCEPT ![t] = l]
  BY Zenon, <1>6, <1>7 DEF Free
<1> HIDE DEF m
<1>9. \A k : Members(k)' = Members(k)
  BY <1>1, Zenon DEF Members
<1>10. CallOK(l) /\ PopOK(l)' /\ PushOK(l)'
  BY <1>3, <1>8, BuddyAssumption DEF CallOK, PopOK, PushOK, PopAt, PushAt, RemoveAt, WalkAt
<1>11. RemoveOK(l)'
  BY <1>4, <1>8, <1>9, Zenon DEF RemoveOK, RemoveAt, WalkAt
<1>12. InHand(l) = {b} /\ InHand(loc[t]) = {}
  BY <1>5, <1>8, IdleOK, Zenon DEF InHand
<1> DEFINE R == {<<"held", t, b>>}
           N == {<<"hand", t, b>>}
           H == held[t] \ {b}
<1>13. R \subseteq Owned
  BY <1>1, <1>2, OwnedIff, Zenon
<1>14. Apart(N) /\ Cover(N) = Cover(R)
  <2>1. Cover(N) = PagesOf(b) /\ Cover(R) = PagesOf(b)
    <3>1. <<"hand", t, b>>[3] = b /\ <<"held", t, b>>[3] = b
      BY Zenon
    <3>2. QED BY Zenon, <3>1, CoverFacts
  <2>2. QED BY <2>1, Zenon DEF Apart
<1>15. H \in SUBSET (Pages \X Orders) /\ held' = [held EXCEPT ![t] = H]
  BY <1>2, Zenon DEF IInv, TypeOK, Free
<1>16. reply' \in [Threads -> Replies] /\ head' \in Heads /\ next' \in Headers /\ Linked(head', next')
  BY Zenon, <1>1 DEF IInv, TypeOK, Replies, Heads, Headers
<1>17. \A x \in R : x[1] = "free" \/ x[2] = t
  OBVIOUS
<1>18. \A x \in N : \/ \E k \in Orders : \E q : x = <<"free", k, <<q, k>>>>
                    \/ \E c : x = <<"held", t, c>> \/ x = <<"hand", t, c>>
  BY Zenon
<1>19. \A k \in Orders : \A q : q \in Members(k)' <=>
         (q \in Members(k) /\ <<"free", k, <<q, k>>>> \notin R) \/ <<"free", k, <<q, k>>>> \in N
  <2>1. \A k, q : <<"free", k, <<q, k>>>> \notin R /\ <<"free", k, <<q, k>>>> \notin N
    BY Zenon
  <2>2. QED BY Zenon, <1>9, <2>1
<1>20. \A c : c \in H <=> (c \in held[t] /\ <<"held", t, c>> \notin R) \/ <<"held", t, c>> \in N
  BY Zenon
<1>21. \A c : c \in InHand(l) <=>
         (c \in InHand(loc[t]) /\ <<"hand", t, c>> \notin R) \/ <<"hand", t, c>> \in N
  BY <1>12, Zenon
<1> HIDE DEF R, N, H, b
<1>22. Goes(t, l, H)
  BY Zenon, <1>1, <1>2, <1>8, <1>10, <1>11, <1>15, <1>16 DEF Goes
<1>23. ListsOK
  BY Zenon, <1>16 DEF ListsOK
<1>24. Exchanges(t, l, H, R, N)
  BY Zenon, <1>13, <1>14, <1>17, <1>18, <1>19, <1>20, <1>21 DEF Exchanges
<1>25. Undisturbed(t)
  BY Zenon, <1>2 DEF Undisturbed
<1>26. IInv' /\ Owned' = (Owned \ R) \cup N /\ Cover(Owned)' = Cover(Owned)
  BY Zenon, <1>2, <1>5, <1>15, <1>22, <1>23, <1>24, <1>25, MoveStep
<1>27. BlocksAligned => \A x \in N : Aligned(x[3][1], x[3][2])
  BY <1>13 DEF BlocksAligned, R, N, b
<1>28. QED BY Zenon, <1>26, <1>27, AlignedChange

\* free refuses the block: nobody has it any more.
LEMMA UnknownStep ==
  ASSUME IInv, NEW t \in Threads, WalkNext(t), loc[t].seen = CheckFor(loc[t]), UNCHANGED usage
  PROVE  IInv'
<1> DEFINE b == <<loc[t].block, loc[t].order>>
           R == {<<"hand", t, b>>}
<1>1. loc[t].pc = "walk_next" /\ Return(t, "unknown_ptr") /\ Quiet
  BY Zenon DEF WalkNext, At, Quiet
<1>2. loc[t].op = "free" /\ Sharing(t) /\ usage.threads = {t}
  BY <1>1, CheckFacts, CallerShares, Zenon DEF WalkAt, IInv, UseInv
<1>3. loc'[t] = Idle /\ \A u \in Threads : u # t => loc'[u] = loc[u]
  BY <1>1, Zenon DEF Return, IInv, TypeOK
<1>4. InHand(loc[t]) = {b} /\ InHand(loc'[t]) = {}
  BY <1>1, <1>2, <1>3, IdleOK, Zenon DEF InHand
<1>5. \A o : Members(o)' = Members(o)
  BY <1>1, Zenon DEF Members, Quiet
<1>6. held' = held
  BY <1>1, Zenon DEF Quiet
<1>7. \A o \in Orders : \A p : p \in Members(o)' <=>
        (p \in Members(o) /\ <<"free", o, <<p, o>>>> \notin R) \/ <<"free", o, <<p, o>>>> \in {}
  BY <1>5, Zenon
<1>8. \A u \in Threads : \A c : c \in held'[u] <=>
        (c \in held[u] /\ <<"held", u, c>> \notin R) \/ <<"held", u, c>> \in {}
  BY <1>6, Zenon
<1>9. \A u \in Threads : \A c : c \in InHand(loc'[u]) <=>
        (c \in InHand(loc[u]) /\ <<"hand", u, c>> \notin R) \/ <<"hand", u, c>> \in {}
  BY <1>3, <1>4, Zenon
<1> HIDE DEF R, b
<1>10. Owned' = (Owned \ R) \cup {}
  BY Zenon, <1>7, <1>8, <1>9, OwnedChange
<1>11. Apart(Owned)' /\ Cover(Owned)' \subseteq Cover(Owned)
  <2>1. Owned' = Owned \ R
    BY <1>10, Zenon
  <2>2. Apart(Owned \ R) /\ Cover(Owned \ R) \subseteq Cover(Owned)
    BY Zenon, Forget DEF IInv, PartInv
  <2>3. QED BY Zenon, <2>1, <2>2 DEF Apart, Cover
<1>12. TypeOK'
  <2>1. loc' \in [Threads -> Local] /\ reply' \in [Threads -> Replies]
    BY <1>1, IdleOK, LocFacts, Zenon DEF Return, IInv, TypeOK, Replies
  <2>2. QED BY Zenon, <1>1, <2>1 DEF IInv, TypeOK, Replies, Quiet
<1>13. Linked(head, next)'
  BY <1>1, Zenon DEF IInv, Linked, Quiet
<1>14. CallOK(loc[t])' /\ PopOK(loc[t])' /\ PushOK(loc[t])' /\ RemoveOK(loc[t])'
  BY <1>3, IdleNext, Zenon
<1>15. loc'[t].op # "free" /\ UNCHANGED <<region, added, usage>>
  BY <1>1, <1>3 DEF Idle, Quiet
<1>16. QED BY Zenon, <1>2, <1>3, <1>6, <1>11, <1>12, <1>13, <1>14, <1>15, ThreadStep

\* push_free writes the header of a block that only this thread has.
LEMMA PushStoreStep ==
  ASSUME SizeLaws, IInv, NEW t \in Threads, PushStore(t), UNCHANGED usage
  PROVE  IInv' /\ Owned' = Owned
<1> DEFINE k == loc[t]
           m == [k EXCEPT !.pc = "push_cas"]
<1>1. k.pc = "push_store" /\ next' = [next EXCEPT ![k.push] = k.seen]
      /\ loc' = [loc EXCEPT ![t] = m] /\ UNCHANGED <<head, reply, held, region, added, usage>>
  BY LocFacts, Zenon DEF PushStore, At, IInv, TypeOK
<1>2. k \in Local /\ CallOK(k) /\ PushOK(k) /\ Sharing(t)
  BY <1>1, LocFacts, CallerShares, Zenon
<1>3. k.push \in Pages /\ k.seen \in Pages \cup {Null} /\ k.order \in Orders
  BY <1>1, <1>2, Zenon DEF PushOK, Local
<1>4. m \in Local /\ m.pc = "push_cas" /\ m.op = k.op /\ m.order = k.order /\ m.block = k.block
      /\ m.push = k.push /\ m.seen = k.seen /\ m.want = k.want
  BY Zenon, <1>2 DEF Local, Labels
<1>5. \A u \in Threads : u # t => loc'[u] = loc[u]
  BY <1>1, Zenon DEF IInv, TypeOK
<1>6. loc'[t] = m
  BY <1>1, Zenon DEF IInv, TypeOK
<1>7. <<k.push, k.order>> \in InHand(k) /\ InHand(m) = InHand(k)
  BY <1>1, <1>2, <1>4, Zenon DEF InHand, CallOK, PushAt
<1> HIDE DEF m
<1>8. \A o \in Orders : k.push \notin Members(o)
  BY Zenon, <1>7, NotFree DEF IInv, PartInv
<1>9. /\ next \in Headers /\ head \in Heads /\ head' = head
      /\ \A q \in Pages : q # k.push => next'[q] = next[q]
      /\ next' \in Headers /\ next'[k.push] = k.seen
  BY <1>1, <1>3, Zenon DEF IInv, TypeOK, Headers, Heads
<1>10. Linked(head, next') /\ \A o \in Orders : Chain(head[o], next') = Chain(head[o], next)
  <2>1. NoList(k.push, head, next) /\ SameBut(next', next, k.push)
    BY Zenon, <1>8, <1>9 DEF Members, NoList, SameBut
  <2>2. Linked(head, next)
    BY Zenon DEF IInv
  <2>3. QED BY <1>3, <2>1, <2>2, WriteLists
<1>11. \A o \in Orders : Members(o)' = Members(o)
  BY Zenon, <1>9, <1>10 DEF Members
<1>12. Linked(head, next)'
  BY Zenon, <1>9, <1>10 DEF Linked
<1>13. \A u \in Threads : held'[u] = held[u] /\ InHand(loc'[u]) = InHand(loc[u])
  BY Zenon, <1>1, <1>5, <1>6, <1>7
<1>14. Owned' = Owned
  BY Zenon, <1>11, <1>13, OwnedSame
<1>15. Apart(Owned)' /\ Cover(Owned)' \subseteq Cover(Owned)
  BY <1>14, Zenon DEF IInv, PartInv, Apart, Cover
<1>16. TypeOK'
  <2>1. loc' \in [Threads -> Local]
    BY <1>1, <1>4, Zenon DEF IInv, TypeOK
  <2>2. QED BY Zenon, <1>1, <1>9, <2>1 DEF IInv, TypeOK, Headers
<1>17. CallOK(loc[t])'
  BY <1>1, <1>2, <1>4, <1>6, Zenon DEF CallOK, PopAt, PushAt, RemoveAt, WalkAt
<1>18. PopOK(loc[t])' /\ RemoveOK(loc[t])'
  BY <1>4, <1>6, Zenon DEF PopOK, RemoveOK, RemoveAt, WalkAt
<1>19. PushOK(loc[t])'
  BY <1>3, <1>4, <1>6, <1>9, Zenon DEF PushOK
<1>20. loc'[t].op = "free" => usage.threads = {t}
  BY <1>4, <1>6, Zenon DEF IInv, UseInv
<1>21. \A o \in Orders : \A s \in Members(o) : s \in Members(o)' /\ next'[s] = next[s]
  BY Zenon, <1>8, <1>9, <1>11, ChainFacts DEF Members
<1>22. \A o \in Orders : \A s \in Pages : Gone(s, o) => Gone(s, o)'
  BY Zenon, <1>11, <1>13 DEF Gone
<1>23. ASSUME NEW u \in Threads, u # t, loc[u].pc = "push_cas"
       PROVE  next'[loc[u].push] = next[loc[u].push]
  <2>1. loc[u] \in Local /\ CallOK(loc[u])
    BY LocFacts, Zenon
  <2>2. <<loc[u].push, loc[u].order>> \in InHand(loc[u]) /\ loc[u].push \in Pages
    BY <1>23, <2>1, Zenon DEF InHand, CallOK, PushAt, Local
  <2>3. <<"hand", u, <<loc[u].push, loc[u].order>>>> \in Owned
    BY <2>2, OwnedIff, Zenon
  <2>4. <<"hand", t, <<k.push, k.order>>>> \in Owned
    BY <1>7, OwnedIff, Zenon
  <2>5. loc[u].push # k.push
    <3>1. ASSUME loc[u].push = k.push PROVE FALSE
      <4>1. <<"hand", u, <<loc[u].push, loc[u].order>>>> = <<"hand", t, <<k.push, k.order>>>>
        BY <2>3, <2>4, <3>1, OneBlock, Zenon DEF IInv, PartInv
      <4>2. QED BY <1>23, <4>1, Zenon
    <3>2. QED BY <3>1, Zenon
  <2>6. QED BY <1>9, <2>2, <2>5, Zenon
<1>24. IInv'
  BY Zenon, <1>1, <1>2, <1>5, <1>12, <1>13, <1>15, <1>16, <1>17, <1>18, <1>19, <1>20, <1>21, <1>22,
     <1>23, ThreadStep
<1>25. QED BY <1>14, <1>24, Zenon

\* The first block of a list is taken, and written to or not.
LEMMA PopMembers ==
  ASSUME SizeLaws, IInv, NEW o \in Orders, NEW s \in Pages,
         TookHead(head', head, next, o, s), SameBut(next', next, s)
  PROVE  /\ Linked(head', next') /\ s \in Members(o) /\ Members(o)' = Members(o) \ {s}
         /\ \A k \in Orders : k # o => Members(k)' = Members(k) /\ s \notin Members(k)
<1>1. Linked(head, next)
  BY Zenon DEF IInv
<1>2. /\ Linked(head', next)
      /\ Chain(head'[o], next) = Chain(head[o], next) \ {s}
      /\ \A k \in Orders : k # o => Chain(head'[k], next) = Chain(head[k], next)
  <2>1. Linked(head', next) /\ LosesHead(head', head, next, o, s)
    BY Zenon, <1>1, PopLists
  <2>2. QED BY Zenon, <2>1 DEF LosesHead
<1>3. s \in Members(o)
  BY Zenon, ChainFacts DEF Members, TookHead
<1>4. \A k \in Orders : k # o => s \notin Members(k)
  BY Zenon, <1>3, NotFree DEF IInv, PartInv
<1>5. NoList(s, head', next)
  <2>1. s \notin Chain(head'[o], next)
    BY <1>2, Zenon
  <2>2. QED BY Zenon, <1>2, <1>4, <2>1 DEF Members, NoList
<1>6. Linked(head', next') /\ \A k \in Orders : Chain(head'[k], next') = Chain(head'[k], next)
  BY <1>2, <1>5, WriteLists
<1>7. Members(o)' = Members(o) \ {s}
  BY Zenon, <1>2, <1>6 DEF Members
<1>8. \A k \in Orders : k # o => Members(k)' = Members(k)
  BY Zenon, <1>2, <1>6 DEF Members
<1>9. QED BY Zenon, <1>3, <1>4, <1>6, <1>7, <1>8

\* A block that is in no list becomes the first of one; the caller's block b,
\* which is in no list either, is written to or not.
LEMMA PushMembers ==
  ASSUME IInv, NEW o \in Orders, NEW p \in Pages, NEW b \in Pages, b # p, next[p] = head[o],
         NoList(p, head, next), NoList(b, head, next),
         HeadSet(head', head, o, p), SameBut(next', next, b)
  PROVE  /\ Linked(head', next') /\ Members(o)' = Members(o) \cup {p}
         /\ \A k \in Orders : k # o => Members(k)' = Members(k)
<1>1. Linked(head, next)
  BY Zenon DEF IInv
<1>2. /\ Linked(head', next)
      /\ Chain(head'[o], next) = Chain(head[o], next) \cup {p}
      /\ \A k \in Orders : k # o => Chain(head'[k], next) = Chain(head[k], next)
  BY <1>1, PushLists
<1>3. NoList(b, head', next)
  <2>1. b \notin Chain(head'[o], next)
    BY Zenon, <1>2 DEF NoList
  <2>2. QED BY Zenon, <1>2, <2>1 DEF NoList
<1>4. Linked(head', next') /\ \A k \in Orders : Chain(head'[k], next') = Chain(head'[k], next)
  BY <1>2, <1>3, WriteLists
<1>5. Members(o)' = Members(o) \cup {p}
  BY Zenon, <1>2, <1>4 DEF Members
<1>6. \A k \in Orders : k # o => Members(k)' = Members(k)
  BY Zenon, <1>2, <1>4 DEF Members
<1>7. QED BY Zenon, <1>4, <1>5, <1>6

\* Where other threads push, they have the block.
LEMMA PushesOwn ==
  ASSUME SizeLaws, IInv, NEW u \in Threads, loc[u].pc = "push_cas"
  PROVE  /\ loc[u].push \in Pages /\ \A o \in Orders : loc[u].push \notin Members(o)
         /\ <<loc[u].push, loc[u].order>> \in InHand(loc[u])
<1>1. loc[u] \in Local /\ CallOK(loc[u])
  BY LocFacts, Zenon
<1>2. <<loc[u].push, loc[u].order>> \in InHand(loc[u]) /\ loc[u].push \in Pages
  BY <1>1, Zenon DEF InHand, CallOK, PushAt, Local
<1>3. QED BY <1>2, NotFree, Zenon DEF IInv, PartInv

\* A thread with nothing in hand takes the first block of a list.
LEMMA TakeStep ==
  ASSUME SizeLaws, IInv, NEW t \in Threads, Sharing(t),
         NEW o \in Orders, NEW s \in Pages, TookHead(head', head, next, o, s), SameBut(next', next, s),
         head' \in Heads, next' \in Headers,
         NEW l \in Local, NEW H \in SUBSET (Pages \X Orders), Goes(t, l, H), held[t] \subseteq H,
         InHand(loc[t]) = {}, NEW N, Apart(N), Cover(N) = PagesOf(<<s, o>>),
         \A x \in N : \E b : x = <<"held", t, b>> \/ x = <<"hand", t, b>>,
         \A b : b \in H <=> b \in held[t] \/ <<"held", t, b>> \in N,
         \A b : b \in InHand(l) <=> <<"hand", t, b>> \in N,
         Gone(s, o)'
  PROVE  IInv' /\ Owned' = (Owned \ {<<"free", o, <<s, o>>>>}) \cup N /\ Cover(Owned)' = Cover(Owned)
<1> DEFINE x == <<"free", o, <<s, o>>>>
           R == {x}
<1>1. /\ Linked(head', next') /\ s \in Members(o) /\ Members(o)' = Members(o) \ {s}
      /\ \A k \in Orders : k # o => Members(k)' = Members(k) /\ s \notin Members(k)
  BY Zenon, PopMembers
<1>2. \A k \in Orders : \A q \in Members(k) : q # s => q \in Members(k)'
  BY Zenon, <1>1
<1>3. \A k \in Orders : \A q \in Members(k) : q \in Pages
  BY ChainFacts, Zenon DEF Members
<1>4. \A k \in Orders : s \in Members(k) => k = o
  BY Zenon, <1>1
<1>5. \A k \in Orders : \A q \in Members(k) : (q \in Members(k)' /\ next'[q] = next[q]) \/ Gone(q, k)'
  BY Zenon, <1>2, <1>3, <1>4 DEF SameBut
<1>6. /\ loc'[t] = l /\ held'[t] = H
      /\ \A u \in Threads : u # t => loc'[u] = loc[u] /\ held'[u] = held[u]
  BY Zenon DEF IInv, TypeOK, Goes
<1>7. \A k \in Orders : \A q \in Pages : Gone(q, k) => Gone(q, k)'
  <2>1. \A k \in Orders : \A q \in Members(k) : q \in Members(k)' \/ Gone(q, k)'
    BY Zenon, <1>5
  <2>2. \A u \in Threads : held[u] \subseteq held'[u]
    BY <1>6, Zenon
  <2>3. \A u \in Threads : \A q : \A j \in Orders : <<q, j>> \in InHand(loc[u]) =>
           \/ <<q, j>> \in InHand(loc'[u]) \/ q \in Members(j)' \/ <<q, j>> \in held'[u] \/ Gone(q, j)'
    BY <1>6, Zenon
  <2>4. QED BY Zenon, <2>1, <2>2, <2>3, GoneKept
<1>8. \A u \in Threads : u # t /\ loc[u].pc = "push_cas" => next'[loc[u].push] = next[loc[u].push]
  BY Zenon, <1>1, PushesOwn DEF SameBut
<1>9. R \subseteq Owned /\ Cover(R) = PagesOf(<<s, o>>)
  <2>1. x \in Owned
    BY <1>1, OwnedIff, Zenon
  <2>2. x[3] = <<s, o>>
    BY Zenon
  <2>3. Cover(R) = PagesOf(x[3])
    BY Zenon, CoverFacts
  <2>4. QED BY Zenon, <2>1, <2>2, <2>3
<1>10. \A y \in R : y[1] = "free" \/ y[2] = t
  OBVIOUS
<1>11. \A y \in N : \/ \E k \in Orders : \E q : y = <<"free", k, <<q, k>>>>
                    \/ \E b : y = <<"held", t, b>> \/ y = <<"hand", t, b>>
  BY Zenon
<1>12. \A k, q : <<"free", k, <<q, k>>>> \notin N
  BY SMT
<1>13. \A k \in Orders : \A q : q \in Members(k)' <=>
         (q \in Members(k) /\ <<"free", k, <<q, k>>>> \notin R) \/ <<"free", k, <<q, k>>>> \in N
  <2>1. \A k \in Orders : \A q : <<"free", k, <<q, k>>>> \in R <=> k = o /\ q = s
    BY Zenon
  <2> HIDE DEF R
  <2>2. QED BY Zenon, <1>1, <1>12, <2>1
<1>14. \A b : <<"held", t, b>> \notin R /\ <<"hand", t, b>> \notin R
  BY Zenon
<1> HIDE DEF R, x
<1>15. \A b : b \in H <=> (b \in held[t] /\ <<"held", t, b>> \notin R) \/ <<"held", t, b>> \in N
  BY Zenon, <1>14
<1>16. \A b : b \in InHand(l) <=>
         (b \in InHand(loc[t]) /\ <<"hand", t, b>> \notin R) \/ <<"hand", t, b>> \in N
  BY <1>14, Zenon
<1>17. ListsOK
  BY Zenon, <1>1 DEF ListsOK
<1>18. Exchanges(t, l, H, R, N)
  BY Zenon, <1>9, <1>10, <1>11, <1>13, <1>15, <1>16 DEF Exchanges
<1>19. Undisturbed(t)
  BY Zenon, <1>5, <1>7, <1>8 DEF Undisturbed
<1>20. IInv' /\ Owned' = (Owned \ R) \cup N /\ Cover(Owned)' = Cover(Owned)
  BY Zenon, <1>17, <1>18, <1>19, MoveStep
<1>21. QED BY Zenon, <1>20 DEF R, x

\* The two halves of a block, in the hand of a thread.
\* The two halves of a block, in the hand of a thread.
InTwo(t, b, o) == {<<"hand", t, <<b, o - 1>>>>, <<"hand", t, <<b + Size[o - 1], o - 1>>>>}

LEMMA HalvesInHand ==
  ASSUME SizeLaws, NEW t, NEW b \in Pages, NEW o \in Orders, o - 1 \in Orders
  PROVE  /\ Apart(InTwo(t, b, o)) /\ Cover(InTwo(t, b, o)) = PagesOf(<<b, o>>)
         /\ Aligned(b, o) => \A x \in InTwo(t, b, o) : Aligned(x[3][1], x[3][2])
<1> DEFINE lo == <<"hand", t, <<b, o - 1>>>>
           N == InTwo(t, b, o)
           up == <<"hand", t, <<b + Size[o - 1], o - 1>>>>
<1>1. b \in Nat /\ o - 1 \in Nat /\ o - 1 + 1 = o
  BY OrderFacts, PageFacts
<1>2. /\ PagesOf(<<b, o - 1 + 1>>) = PagesOf(<<b, o - 1>>) \cup PagesOf(<<b + Size[o - 1], o - 1>>)
      /\ PagesOf(<<b, o - 1>>) \cap PagesOf(<<b + Size[o - 1], o - 1>>) = {}
  <2>1. PICK q \in Nat : q = o - 1
    BY <1>1, Zenon
  <2>2. /\ PagesOf(<<b, q + 1>>) = PagesOf(<<b, q>>) \cup PagesOf(<<b + Size[q], q>>)
        /\ PagesOf(<<b, q>>) \cap PagesOf(<<b + Size[q], q>>) = {}
    BY <1>1, Halves, Zenon
  <2>3. QED BY Zenon, <2>1, <2>2
<1>3. lo[3] = <<b, o - 1>> /\ up[3] = <<b + Size[o - 1], o - 1>> /\ N = {lo, up}
  BY Zenon DEF InTwo
<1>4. lo[3][1] = b /\ lo[3][2] = o - 1 /\ up[3][1] = b + Size[o - 1] /\ up[3][2] = o - 1
  BY Zenon
<1> HIDE DEF lo, up, N
<1>5. Cover(N) = PagesOf(<<b, o>>)
  <2>1. Cover({lo, up}) = PagesOf(lo[3]) \cup PagesOf(up[3])
    BY Zenon, CoverFacts
  <2>2. QED BY <1>1, <1>2, <1>3, <2>1, Zenon
<1>6. Apart(N)
  BY <1>2, <1>3, Zenon DEF Apart
<1>7. ASSUME Aligned(b, o) PROVE \A x \in N : Aligned(x[3][1], x[3][2])
  <2>1. Aligned(b, o - 1 + 1)
    BY <1>1, <1>7, Zenon
  <2>2. Aligned(b, o - 1) /\ Aligned(b + Size[o - 1], o - 1)
    BY <1>1, <2>1, AlignedHalves, Zenon
  <2>3. QED BY Zenon, <1>3, <1>4, <2>2
<1>8. QED BY <1>5, <1>6, <1>7, Zenon DEF N

\* pop_free succeeds: no other block can have come to the place of the one that
\* was seen, so the head's successor is the one that was read.
LEMMA PopCasOkStep ==
  ASSUME SizeLaws, IInv, NEW t \in Threads, PopCasOk(t), UNCHANGED usage
  PROVE  IInv' /\ Kept
<1> DEFINE k == loc[t]
<1>1. /\ k.pc = "pop_cas" /\ head[k.order] = k.seen /\ head' = [head EXCEPT ![k.order] = k.nxt]
      /\ Split(t, k.seen, k.order) /\ UNCHANGED <<region, added, usage>>
  BY Zenon DEF PopCasOk, At
<1>2. k \in Local /\ CallOK(k) /\ PopOK(k) /\ Sharing(t)
  BY <1>1, LocFacts, CallerShares, Zenon
<1>3. InHand(k) = {} /\ k.op = "alloc" /\ k.want <= k.order
  BY <1>1, <1>2, PopHand, Zenon DEF PopAt
<1>4. PICK o \in Orders : o = k.order
  BY <1>2, Zenon DEF Local
<1>5. PICK s \in Pages : s = k.seen
  BY <1>1, <1>2, Zenon DEF PopOK
<1>6. s \in Members(o)
  BY Zenon, <1>1, <1>4, <1>5, ChainFacts DEF Members
<1>7. k.nxt = next[s]
  <2>1. ~Gone(s, o)
    BY Zenon, <1>6, GoneNotFree DEF IInv, PartInv
  <2>2. QED BY Zenon, <1>1, <1>2, <1>4, <1>5, <2>1 DEF PopOK
<1>8. next[s] \in Pages \cup {Null}
  BY <1>6, WalkFacts, Zenon
<1>9. head' \in Heads /\ TookHead(head', head, next, o, s)
  <2>1. head \in Heads /\ head[o] = s /\ head' = [head EXCEPT ![o] = next[s]]
    BY Zenon, <1>1, <1>4, <1>5, <1>7 DEF IInv, TypeOK, Heads
  <2>2. QED BY <1>8, <2>1, Zenon DEF Heads, TookHead, HeadSet
<1>10. <<"free", o, <<s, o>>>> \in Owned /\ PagesOf(<<s, o>>) \subseteq Pages
  <2>1. <<"free", o, <<s, o>>>> \in Owned
    BY <1>6, OwnedIff, Zenon
  <2>2. <<"free", o, <<s, o>>>>[3] = <<s, o>>
    BY Zenon
  <2>3. QED BY Zenon, <2>1, <2>2, BlockInPages
<1>11. next \in Headers /\ held[t] \in SUBSET (Pages \X Orders) /\ held = [held EXCEPT ![t] = held[t]]
       /\ reply \in [Threads -> Replies]
  BY LocFacts, Zenon DEF IInv, TypeOK, Headers
<1>12. BlocksAligned => Aligned(s, o)
  <2>1. <<"free", o, <<s, o>>>>[3][1] = s /\ <<"free", o, <<s, o>>>>[3][2] = o
    BY Zenon
  <2>2. QED BY Zenon, <1>10, <2>1 DEF BlocksAligned
<1>13. Split(t, s, o) /\ k.want <= o
  BY Zenon, <1>1, <1>3, <1>4, <1>5
<1>14. CASE o > k.want
  <2>1. /\ o - 1 \in Orders /\ s + Size[o - 1] \in Pages /\ UNCHANGED <<next, reply, held>>
        /\ \E l \in Local :
             /\ loc' = [loc EXCEPT ![t] = l] /\ l.op = "alloc"
             /\ CallOK(l) /\ PopOK(l)' /\ PushOK(l)' /\ RemoveOK(l)'
             /\ InHand(l) = {<<s, o - 1>>, <<s + Size[o - 1], o - 1>>}
    <3>1. o # k.want
      BY <1>2, <1>4, <1>14, OrderFacts DEF Local
    <3>2. QED BY Zenon, <1>3, <1>10, <1>13, <3>1, SplitFacts
  <2>2. PICK l \in Local :
             /\ loc' = [loc EXCEPT ![t] = l] /\ l.op = "alloc"
             /\ CallOK(l) /\ PopOK(l)' /\ PushOK(l)' /\ RemoveOK(l)'
             /\ InHand(l) = {<<s, o - 1>>, <<s + Size[o - 1], o - 1>>}
    BY Zenon, <2>1
  <2>3. PICK H \in SUBSET (Pages \X Orders) : H = held[t]
    BY <1>11, Zenon
  <2>4. PICK N : N = InTwo(t, s, o)
    BY Zenon
  <2>5. Apart(N) /\ Cover(N) = PagesOf(<<s, o>>)
        /\ (Aligned(s, o) => \A x \in N : Aligned(x[3][1], x[3][2]))
    BY Zenon, <2>1, <2>4, HalvesInHand
  <2>6. Goes(t, l, H)
    <3>1. held' = [held EXCEPT ![t] = H] /\ reply' \in [Threads -> Replies] /\ l.op # "free"
      BY <1>11, <2>1, <2>2, <2>3, Zenon
    <3>2. QED BY Zenon, <1>1, <2>2, <3>1 DEF Goes
  <2>7. SameBut(next', next, s) /\ next' \in Headers /\ held[t] \subseteq H
    BY <1>11, <2>1, <2>3, Zenon DEF SameBut
  <2>8. \A x \in N : \E b : x = <<"held", t, b>> \/ x = <<"hand", t, b>>
    BY <2>4, Zenon DEF InTwo
  <2>9. \A b : b \in H <=> b \in held[t] \/ <<"held", t, b>> \in N
    BY <2>3, <2>4, Zenon DEF InTwo
  <2>10. \A b : b \in InHand(l) <=> <<"hand", t, b>> \in N
    BY <2>2, <2>4, Zenon DEF InTwo
  <2>11. Gone(s, o)'
    <3>1. loc'[t] = l
      BY <2>2, Zenon DEF IInv, TypeOK
    <3>2. <<s, o - 1>> \in InHand(loc'[t]) /\ o - 1 < o
      BY <2>2, <3>1, OrderFacts
    <3>3. QED BY Zenon, <2>1, <3>2 DEF Gone
  <2>12. IInv' /\ Owned' = (Owned \ {<<"free", o, <<s, o>>>>}) \cup N /\ Cover(Owned)' = Cover(Owned)
    BY Zenon, <1>2, <1>3, <1>9, <2>5, <2>6, <2>7, <2>8, <2>9, <2>10, <2>11, TakeStep
  <2>13. QED BY Zenon, <1>12, <2>5, <2>12, AlignedChange
<1>15. CASE ~(o > k.want)
  <2>1. /\ loc' = [loc EXCEPT ![t] = Idle] /\ reply' = [reply EXCEPT ![t] = "ok"]
        /\ held' = [held EXCEPT ![t] = @ \cup {<<s, o>>}] /\ next' = [next EXCEPT ![s] = Garbage]
    BY <1>13, <1>15, Zenon DEF Split, Return
  <2>2. PICK l \in Local : l = Idle
    BY IdleOK, Zenon
  <2>3. PICK H \in SUBSET (Pages \X Orders) : H = held[t] \cup {<<s, o>>}
    <3>1. held[t] \cup {<<s, o>>} \in SUBSET (Pages \X Orders)
      BY <1>11
    <3>2. QED BY <3>1, Zenon
  <2>4. PICK N : N = {<<"held", t, <<s, o>>>>}
    BY Zenon
  <2>5. Apart(N) /\ Cover(N) = PagesOf(<<s, o>>)
        /\ (Aligned(s, o) => \A x \in N : Aligned(x[3][1], x[3][2]))
    <3>1. <<"held", t, <<s, o>>>>[3] = <<s, o>>
      BY Zenon
    <3>2. Cover(N) = PagesOf(<<s, o>>)
      BY Zenon, <2>4, <3>1, CoverFacts
    <3>3. Apart(N)
      BY <2>4, Zenon DEF Apart
    <3>4. QED BY <2>4, <3>2, <3>3
  <2>6. Goes(t, l, H)
    <3>1. held' = [held EXCEPT ![t] = H] /\ reply' \in [Threads -> Replies] /\ l.op # "free"
      BY <1>11, <2>1, <2>2, <2>3, Zenon DEF Idle, Replies
    <3>2. loc' = [loc EXCEPT ![t] = l] /\ loc'[t] = l /\ loc'[t] = Idle
      BY <2>1, <2>2, Zenon DEF IInv, TypeOK
    <3>3. CallOK(l)
      BY Zenon, <2>2, IdleOK
    <3>4. PopOK(l)' /\ PushOK(l)' /\ RemoveOK(l)'
      BY <2>2, Zenon DEF Idle, PopOK, PushOK, RemoveOK, RemoveAt, WalkAt
    <3>5. QED BY Zenon, <1>1, <3>1, <3>2, <3>3, <3>4 DEF Goes
  <2>7. SameBut(next', next, s) /\ next' \in Headers /\ held[t] \subseteq H
    BY <1>11, <2>1, <2>3, Zenon DEF SameBut, Headers
  <2>8. \A x \in N : \E b : x = <<"held", t, b>> \/ x = <<"hand", t, b>>
    BY <2>4, Zenon
  <2>9. \A b : b \in H <=> b \in held[t] \/ <<"held", t, b>> \in N
    BY <2>3, <2>4, Zenon
  <2>10. \A b : b \in InHand(l) <=> <<"hand", t, b>> \in N
    BY <2>2, <2>4, IdleOK, Zenon
  <2>11. Gone(s, o)'
    <3>1. <<s, o>> \in held'[t] /\ o <= o
      BY <1>11, <2>1, OrderFacts DEF IInv, TypeOK
    <3>2. QED BY Zenon, <3>1 DEF Gone
  <2>12. IInv' /\ Owned' = (Owned \ {<<"free", o, <<s, o>>>>}) \cup N /\ Cover(Owned)' = Cover(Owned)
    BY Zenon, <1>2, <1>3, <1>9, <2>5, <2>6, <2>7, <2>8, <2>9, <2>10, <2>11, TakeStep
  <2>13. QED BY Zenon, <1>12, <2>5, <2>12, AlignedChange
<1>16. QED BY <1>14, <1>15, Zenon

\* A thread with two blocks in hand pushes one, p, and splits or keeps the other.
\* The block b is split or kept: its parts are M.
Parts(t, l, H, M, b, o) ==
  /\ Apart(M) /\ Cover(M) = PagesOf(<<b, o>>)
  /\ \A x \in M : \E c : x = <<"held", t, c>> \/ x = <<"hand", t, c>>
  /\ \A c : c \in H <=> c \in held[t] \/ <<"held", t, c>> \in M
  /\ \A c : c \in InHand(l) <=> <<"hand", t, c>> \in M

\* The block p is pushed, and b not.
Pushes(t, o, b, p) ==
  /\ b # p /\ InHand(loc[t]) = {<<b, o>>, <<p, o>>} /\ next[p] = head[o]
  /\ HeadSet(head', head, o, p) /\ SameBut(next', next, b)

\* A thread with two blocks in hand pushes one and splits or keeps the other.
LEMMA GiveStep ==
  ASSUME SizeLaws, IInv, NEW t \in Threads, Sharing(t),
         NEW o \in Orders, NEW b \in Pages, NEW p \in Pages, Pushes(t, o, b, p),
         head' \in Heads, next' \in Headers,
         NEW l \in Local, NEW H \in SUBSET (Pages \X Orders), Goes(t, l, H), held[t] \subseteq H,
         NEW M, Parts(t, l, H, M, b, o), Gone(b, o)'
  PROVE  /\ IInv' /\ Cover(Owned)' = Cover(Owned)
         /\ Owned' = (Owned \ {<<"hand", t, <<b, o>>>>, <<"hand", t, <<p, o>>>>})
                     \cup (M \cup {<<"free", o, <<p, o>>>>})
<1> USE DEF Pushes, Parts
<1> DEFINE x == <<"hand", t, <<b, o>>>>
           y == <<"hand", t, <<p, o>>>>
           z == <<"free", o, <<p, o>>>>
           R == {x, y}
           N == M \cup {z}
<1>1. x \in Owned /\ y \in Owned
  BY OwnedIff, Zenon
<1>2. x[3] = <<b, o>> /\ y[3] = <<p, o>> /\ z[3] = <<p, o>> /\ x # y
  BY Zenon
<1>3. NoList(p, head, next) /\ NoList(b, head, next)
  <2>1. <<p, o>> \in InHand(loc[t]) /\ <<b, o>> \in InHand(loc[t])
    BY Zenon
  <2>2. \A k \in Orders : p \notin Members(k) /\ b \notin Members(k)
    BY Zenon, <2>1, NotFree DEF IInv, PartInv
  <2>3. QED BY Zenon, <2>2 DEF NoList, Members
<1>4. /\ Linked(head', next') /\ Members(o)' = Members(o) \cup {p}
      /\ \A k \in Orders : k # o => Members(k)' = Members(k)
  BY <1>3, PushMembers, Zenon
<1>5. \A k \in Orders : \A q \in Members(k) : q \in Members(k)' /\ q # b /\ q \in Pages
  BY Zenon, <1>3, <1>4, ChainFacts DEF NoList, Members
<1>6. \A k \in Orders : \A q \in Members(k) : (q \in Members(k)' /\ next'[q] = next[q]) \/ Gone(q, k)'
  BY Zenon, <1>5 DEF SameBut
<1>7. /\ loc'[t] = l /\ held'[t] = H
      /\ \A u \in Threads : u # t => loc'[u] = loc[u] /\ held'[u] = held[u]
  BY Zenon DEF IInv, TypeOK, Goes
<1>8. \A k \in Orders : \A q \in Pages : Gone(q, k) => Gone(q, k)'
  <2>1. \A k \in Orders : \A q \in Members(k) : q \in Members(k)' \/ Gone(q, k)'
    BY Zenon, <1>5
  <2>2. \A u \in Threads : held[u] \subseteq held'[u]
    BY <1>7, Zenon
  <2>3. ASSUME NEW u \in Threads, NEW q, NEW j \in Orders, <<q, j>> \in InHand(loc[u])
        PROVE  \/ <<q, j>> \in InHand(loc'[u]) \/ q \in Members(j)' \/ <<q, j>> \in held'[u] \/ Gone(q, j)'
    <3>1. CASE u # t
      BY Zenon, <1>7, <2>3, <3>1
    <3>2. CASE u = t
      <4>1. (q = b /\ j = o) \/ (q = p /\ j = o)
        BY <2>3, <3>2, Zenon
      <4>2. p \in Members(o)'
        BY <1>4, Zenon
      <4>3. QED BY Zenon, <4>1, <4>2
    <3>3. QED BY <3>1, <3>2, Zenon
  <2>4. QED BY Zenon, <2>1, <2>2, <2>3, GoneKept
<1>9. ASSUME NEW u \in Threads, u # t, loc[u].pc = "push_cas"
      PROVE  next'[loc[u].push] = next[loc[u].push]
  <2>1. loc[u].push \in Pages /\ <<loc[u].push, loc[u].order>> \in InHand(loc[u])
    BY Zenon, <1>9, PushesOwn
  <2>2. <<"hand", u, <<loc[u].push, loc[u].order>>>> \in Owned
    BY <2>1, OwnedIff, Zenon
  <2>3. ASSUME loc[u].push = b PROVE FALSE
    <3>1. <<"hand", u, <<loc[u].push, loc[u].order>>>> = x
      BY <1>1, <2>2, <2>3, OneBlock, Zenon DEF IInv, PartInv
    <3>2. QED BY <1>9, <3>1, Zenon
  <2>4. QED BY Zenon, <2>1, <2>3 DEF SameBut
<1>10. PagesOf(<<b, o>>) \cap PagesOf(<<p, o>>) = {}
  BY <1>1, <1>2, Zenon DEF IInv, PartInv, Apart
<1>11. \A k \in Orders : \A q : <<"free", k, <<q, k>>>> \in N <=> k = o /\ q = p
  BY Zenon
<1>12. \A c : (<<"held", t, c>> \in N <=> <<"held", t, c>> \in M)
              /\ (<<"hand", t, c>> \in N <=> <<"hand", t, c>> \in M)
  BY Zenon
<1>13. /\ \A k, q : <<"free", k, <<q, k>>>> \notin R
       /\ \A c : <<"held", t, c>> \notin R
       /\ \A c \in InHand(loc[t]) : <<"hand", t, c>> \in R
  BY Zenon
<1>14. /\ \A w \in R : w[1] = "free" \/ w[2] = t
       /\ \A w \in N : \/ \E k \in Orders : \E q : w = <<"free", k, <<q, k>>>>
                       \/ \E c : w = <<"held", t, c>> \/ w = <<"hand", t, c>>
  OBVIOUS
<1>15. R \subseteq Owned
  BY <1>1, Zenon
<1>16. Cover(N) = Cover(R)
  <2>1. \A n : n \in Cover(M) <=> n \in PagesOf(<<b, o>>)
    BY Zenon
  <2>2. \A n : n \in Cover(M) <=> \E w \in M : n \in PagesOf(w[3])
    BY Zenon, CoverFacts
  <2>3. \A n : n \in Cover(N) <=> \E w \in N : n \in PagesOf(w[3])
    BY Zenon, CoverFacts
  <2>4. Cover(R) = PagesOf(x[3]) \cup PagesOf(y[3])
    BY Zenon, CoverFacts
  <2>5. \A n : n \in Cover(N) <=> n \in PagesOf(<<b, o>>) \/ n \in PagesOf(<<p, o>>)
    BY <1>2, <2>1, <2>2, <2>3, Zenon
  <2>6. QED BY <1>2, <2>4, <2>5, Zenon
<1>17. Apart(N)
  <2>1. ASSUME NEW w \in M PROVE PagesOf(w[3]) \cap PagesOf(z[3]) = {}
    <3>1. \A n \in PagesOf(w[3]) : n \in Cover(M)
      BY CoverFacts, Zenon
    <3>2. QED BY <1>2, <1>10, <3>1
  <2> HIDE DEF z
  <2>2. QED BY <2>1, Zenon DEF Apart
<1> HIDE DEF x, y, z, R, N
<1>18. \A k \in Orders : \A q : q \in Members(k)' <=>
         (q \in Members(k) /\ <<"free", k, <<q, k>>>> \notin R) \/ <<"free", k, <<q, k>>>> \in N
  BY Zenon, <1>4, <1>11, <1>13
<1>19. \A c : c \in H <=> (c \in held[t] /\ <<"held", t, c>> \notin R) \/ <<"held", t, c>> \in N
  BY Zenon, <1>12, <1>13
<1>20. \A c : c \in InHand(l) <=>
         (c \in InHand(loc[t]) /\ <<"hand", t, c>> \notin R) \/ <<"hand", t, c>> \in N
  BY Zenon, <1>12, <1>13
<1>21. ListsOK
  BY Zenon, <1>4 DEF ListsOK
<1>22. Exchanges(t, l, H, R, N)
  BY Zenon, <1>14, <1>15, <1>16, <1>17, <1>18, <1>19, <1>20 DEF Exchanges
<1>23. Undisturbed(t)
  BY Zenon, <1>6, <1>8, <1>9 DEF Undisturbed
<1>24. IInv' /\ Owned' = (Owned \ R) \cup N /\ Cover(Owned)' = Cover(Owned)
  BY Zenon, <1>21, <1>22, <1>23, MoveStep
<1>25. QED BY Zenon, <1>24 DEF x, y, z, R, N

\* push_free succeeds during a split.
LEMMA PushCasOkAlloc ==
  ASSUME SizeLaws, IInv, NEW t \in Threads, PushCasOk(t), loc[t].op = "alloc", UNCHANGED usage
  PROVE  IInv' /\ Kept
<1> DEFINE k == loc[t]
<1>1. /\ k.pc = "push_cas" /\ head[k.order] = k.seen /\ head' = [head EXCEPT ![k.order] = k.push]
      /\ Split(t, k.block, k.order) /\ UNCHANGED <<region, added, usage>>
  BY Zenon DEF PushCasOk, At
<1>2. k \in Local /\ CallOK(k) /\ PushOK(k) /\ Sharing(t)
  BY <1>1, LocFacts, CallerShares, Zenon
<1>3. k.want <= k.order /\ k.push = k.block + Size[k.order] /\ next[k.push] = k.seen
  BY <1>1, <1>2, Zenon DEF CallOK, PushAt, PushOK
<1>4. PICK o \in Orders : o = k.order
  BY <1>2, Zenon DEF Local
<1>5. PICK b \in Pages : b = k.block
  BY <1>2, Zenon DEF Local
<1>6. PICK p \in Pages : p = k.push
  BY <1>2, Zenon DEF Local
<1>7. b # p
  <2>1. p = b + Size[o] /\ Size[o] \in Nat \ {0} /\ b \in Nat
    BY <1>3, <1>4, <1>5, <1>6, OrderFacts, PageFacts, Zenon DEF SizeLaws
  <2>2. QED BY <2>1
<1>8. InHand(k) = {<<b, o>>, <<p, o>>}
  BY <1>1, <1>4, <1>5, <1>6, Zenon DEF InHand
<1>9. next[p] = head[o] /\ head' \in Heads /\ HeadSet(head', head, o, p)
  <2>1. head \in Heads /\ next[p] = head[o] /\ head' = [head EXCEPT ![o] = p]
    BY Zenon, <1>1, <1>3, <1>4, <1>6 DEF IInv, TypeOK, Heads
  <2>2. QED BY <2>1, Zenon DEF Heads, HeadSet
<1>10. <<"hand", t, <<b, o>>>> \in Owned /\ PagesOf(<<b, o>>) \subseteq Pages
       /\ <<"hand", t, <<p, o>>>> \in Owned
  <2>1. <<"hand", t, <<b, o>>>> \in Owned /\ <<"hand", t, <<p, o>>>> \in Owned
    BY <1>8, OwnedIff, Zenon
  <2>2. <<"hand", t, <<b, o>>>>[3] = <<b, o>>
    BY Zenon
  <2>3. QED BY Zenon, <2>1, <2>2, BlockInPages
<1>11. next \in Headers /\ held[t] \in SUBSET (Pages \X Orders) /\ held = [held EXCEPT ![t] = held[t]]
       /\ reply \in [Threads -> Replies]
  BY LocFacts, Zenon DEF IInv, TypeOK, Headers
<1>12. BlocksAligned => Aligned(b, o) /\ Aligned(p, o)
  <2>1. /\ <<"hand", t, <<b, o>>>>[3][1] = b /\ <<"hand", t, <<b, o>>>>[3][2] = o
        /\ <<"hand", t, <<p, o>>>>[3][1] = p /\ <<"hand", t, <<p, o>>>>[3][2] = o
    BY Zenon
  <2>2. QED BY Zenon, <1>10, <2>1 DEF BlocksAligned
<1>13. Split(t, b, o) /\ k.want <= o
  BY Zenon, <1>1, <1>3, <1>4, <1>5
<1> DEFINE R == {<<"hand", t, <<b, o>>>>, <<"hand", t, <<p, o>>>>}
           z == <<"free", o, <<p, o>>>>
<1>14. ASSUME NEW M, Aligned(b, o) => \A x \in M : Aligned(x[3][1], x[3][2]),
              Cover(Owned)' = Cover(Owned), Owned' = (Owned \ R) \cup (M \cup {z})
       PROVE  Kept
  <2>1. z[3][1] = p /\ z[3][2] = o
    BY Zenon
  <2> HIDE DEF z
  <2>2. BlocksAligned => \A x \in M \cup {z} : Aligned(x[3][1], x[3][2])
    BY Zenon, <1>12, <1>14, <2>1
  <2> HIDE DEF R
  <2>3. QED BY Zenon, <1>14, <2>2, AlignedChange
<1>15. CASE o > k.want
  <2>1. /\ o - 1 \in Orders /\ b + Size[o - 1] \in Pages /\ UNCHANGED <<next, reply, held>>
        /\ \E l \in Local :
             /\ loc' = [loc EXCEPT ![t] = l] /\ l.op = "alloc"
             /\ CallOK(l) /\ PopOK(l)' /\ PushOK(l)' /\ RemoveOK(l)'
             /\ InHand(l) = {<<b, o - 1>>, <<b + Size[o - 1], o - 1>>}
    <3>1. o # k.want
      BY <1>2, <1>4, <1>15, OrderFacts DEF Local
    <3>2. QED BY Zenon, <1>10, <1>13, <3>1, SplitFacts
  <2>2. PICK l \in Local :
             /\ loc' = [loc EXCEPT ![t] = l] /\ l.op = "alloc"
             /\ CallOK(l) /\ PopOK(l)' /\ PushOK(l)' /\ RemoveOK(l)'
             /\ InHand(l) = {<<b, o - 1>>, <<b + Size[o - 1], o - 1>>}
    BY Zenon, <2>1
  <2>3. PICK H \in SUBSET (Pages \X Orders) : H = held[t]
    BY <1>11, Zenon
  <2>4. PICK M : M = InTwo(t, b, o)
    BY Zenon
  <2>5. Apart(M) /\ Cover(M) = PagesOf(<<b, o>>)
        /\ (Aligned(b, o) => \A x \in M : Aligned(x[3][1], x[3][2]))
    BY Zenon, <2>1, <2>4, HalvesInHand
  <2>6. Goes(t, l, H)
    <3>1. held' = [held EXCEPT ![t] = H] /\ reply' \in [Threads -> Replies] /\ l.op # "free"
      BY <1>11, <2>1, <2>2, <2>3, Zenon
    <3>2. QED BY Zenon, <1>1, <2>2, <3>1 DEF Goes
  <2>7. SameBut(next', next, b) /\ next' \in Headers /\ held[t] \subseteq H
    BY <1>11, <2>1, <2>3, Zenon DEF SameBut
  <2>8. \A x \in M : \E c : x = <<"held", t, c>> \/ x = <<"hand", t, c>>
    BY <2>4, Zenon DEF InTwo
  <2>9. \A c : c \in H <=> c \in held[t] \/ <<"held", t, c>> \in M
    BY <2>3, <2>4, Zenon DEF InTwo
  <2>10. \A c : c \in InHand(l) <=> <<"hand", t, c>> \in M
    BY <2>2, <2>4, Zenon DEF InTwo
  <2>11. Gone(b, o)'
    <3>1. loc'[t] = l
      BY <2>2, Zenon DEF IInv, TypeOK
    <3>2. <<b, o - 1>> \in InHand(loc'[t]) /\ o - 1 < o
      BY <2>2, <3>1, OrderFacts
    <3>3. QED BY Zenon, <2>1, <3>2 DEF Gone
  <2>12. IInv' /\ Cover(Owned)' = Cover(Owned) /\ Owned' = (Owned \ R) \cup (M \cup {z})
    <3>1. Pushes(t, o, b, p)
      BY Zenon, <1>7, <1>8, <1>9, <2>7 DEF Pushes
    <3>2. Parts(t, l, H, M, b, o)
      BY Zenon, <2>5, <2>8, <2>9, <2>10 DEF Parts
    <3>3. Sharing(t) /\ head' \in Heads /\ next' \in Headers /\ held[t] \subseteq H
      BY <1>2, <1>9, <2>7, Zenon
    <3>4. QED BY Zenon, <2>6, <2>11, <3>1, <3>2, <3>3, GiveStep
  <2>13. QED BY Zenon, <1>14, <2>5, <2>12
<1>16. CASE ~(o > k.want)
  <2>1. /\ loc' = [loc EXCEPT ![t] = Idle] /\ reply' = [reply EXCEPT ![t] = "ok"]
        /\ held' = [held EXCEPT ![t] = @ \cup {<<b, o>>}] /\ next' = [next EXCEPT ![b] = Garbage]
    BY <1>13, <1>16, Zenon DEF Split, Return
  <2>2. PICK l \in Local : l = Idle
    BY IdleOK, Zenon
  <2>3. PICK H \in SUBSET (Pages \X Orders) : H = held[t] \cup {<<b, o>>}
    <3>1. held[t] \cup {<<b, o>>} \in SUBSET (Pages \X Orders)
      BY <1>11
    <3>2. QED BY <3>1, Zenon
  <2>4. PICK M : M = {<<"held", t, <<b, o>>>>}
    BY Zenon
  <2>5. Apart(M) /\ Cover(M) = PagesOf(<<b, o>>)
        /\ (Aligned(b, o) => \A x \in M : Aligned(x[3][1], x[3][2]))
    <3>1. <<"held", t, <<b, o>>>>[3] = <<b, o>>
      BY Zenon
    <3>2. Cover(M) = PagesOf(<<b, o>>)
      BY Zenon, <2>4, <3>1, CoverFacts
    <3>3. Apart(M)
      BY <2>4, Zenon DEF Apart
    <3>4. QED BY <2>4, <3>2, <3>3
  <2>6. Goes(t, l, H)
    <3>1. held' = [held EXCEPT ![t] = H] /\ reply' \in [Threads -> Replies] /\ l.op # "free"
      BY <1>11, <2>1, <2>2, <2>3, Zenon DEF Idle, Replies
    <3>2. loc' = [loc EXCEPT ![t] = l]
      BY <2>1, <2>2, Zenon
    <3>3. CallOK(l)
      BY Zenon, <2>2, IdleOK
    <3>4. PopOK(l)' /\ PushOK(l)' /\ RemoveOK(l)'
      BY <2>2, Zenon DEF Idle, PopOK, PushOK, RemoveOK, RemoveAt, WalkAt
    <3>5. QED BY Zenon, <1>1, <3>1, <3>2, <3>3, <3>4 DEF Goes
  <2>7. SameBut(next', next, b) /\ next' \in Headers /\ held[t] \subseteq H
    BY <1>11, <2>1, <2>3, Zenon DEF SameBut, Headers
  <2>8. \A x \in M : \E c : x = <<"held", t, c>> \/ x = <<"hand", t, c>>
    BY <2>4, Zenon
  <2>9. \A c : c \in H <=> c \in held[t] \/ <<"held", t, c>> \in M
    BY <2>3, <2>4, Zenon
  <2>10. \A c : c \in InHand(l) <=> <<"hand", t, c>> \in M
    BY <2>2, <2>4, IdleOK, Zenon
  <2>11. Gone(b, o)'
    <3>1. <<b, o>> \in held'[t] /\ o <= o
      BY <1>11, <2>1, OrderFacts DEF IInv, TypeOK
    <3>2. QED BY Zenon, <3>1 DEF Gone
  <2>12. IInv' /\ Cover(Owned)' = Cover(Owned) /\ Owned' = (Owned \ R) \cup (M \cup {z})
    <3>1. Pushes(t, o, b, p)
      BY Zenon, <1>7, <1>8, <1>9, <2>7 DEF Pushes
    <3>2. Parts(t, l, H, M, b, o)
      BY Zenon, <2>5, <2>8, <2>9, <2>10 DEF Parts
    <3>3. Sharing(t) /\ head' \in Heads /\ next' \in Headers /\ held[t] \subseteq H
      BY <1>2, <1>9, <2>7, Zenon
    <3>4. QED BY Zenon, <2>6, <2>11, <3>1, <3>2, <3>3, GiveStep
  <2>13. QED BY Zenon, <1>14, <2>5, <2>12
<1>17. QED BY <1>15, <1>16, Zenon

\* push_free succeeds at the end of free.
LEMMA PushCasOkFree ==
  ASSUME SizeLaws, IInv, NEW t \in Threads, PushCasOk(t), loc[t].op # "alloc", UNCHANGED usage
  PROVE  IInv' /\ Kept
<1> DEFINE k == loc[t]
<1>1. /\ k.pc = "push_cas" /\ head[k.order] = k.seen /\ head' = [head EXCEPT ![k.order] = k.push]
      /\ Return(t, "ok") /\ UNCHANGED <<next, held, region, added, usage>>
  BY Zenon DEF PushCasOk, At
<1>2. k \in Local /\ CallOK(k) /\ PushOK(k) /\ Sharing(t)
  BY <1>1, LocFacts, CallerShares, Zenon
<1>3. k.op = "free" /\ k.push = k.block /\ next[k.push] = k.seen
  BY <1>1, <1>2, Zenon DEF CallOK, PushAt, PushOK
<1>4. PICK o \in Orders : o = k.order
  BY <1>2, Zenon DEF Local
<1>5. PICK p \in Pages : p = k.push
  BY <1>2, Zenon DEF Local
<1>6. InHand(k) = {<<p, o>>} /\ usage.threads = {t}
  BY <1>1, <1>3, <1>4, <1>5, Zenon DEF InHand, IInv, UseInv
<1>7. next[p] = head[o] /\ head' \in Heads /\ HeadSet(head', head, o, p)
  <2>1. head \in Heads /\ next[p] = head[o] /\ head' = [head EXCEPT ![o] = p]
    BY Zenon, <1>1, <1>3, <1>4, <1>5 DEF IInv, TypeOK, Heads
  <2>2. QED BY <2>1, Zenon DEF Heads, HeadSet
<1>8. next \in Headers /\ held[t] \in SUBSET (Pages \X Orders) /\ held = [held EXCEPT ![t] = held[t]]
       /\ reply \in [Threads -> Replies] /\ Linked(head, next)
  BY LocFacts, Zenon DEF IInv, TypeOK, Headers
<1>9. /\ Linked(head', next) /\ Chain(head'[o], next) = Chain(head[o], next) \cup {p}
      /\ \A j \in Orders : j # o => Chain(head'[j], next) = Chain(head[j], next)
  <2>1. <<p, o>> \in InHand(loc[t])
    BY <1>6, Zenon
  <2>2. \A j \in Orders : p \notin Members(j)
    BY Zenon, <2>1, NotFree DEF IInv, PartInv
  <2>3. NoList(p, head, next)
    BY Zenon, <2>2 DEF NoList, Members
  <2>4. QED BY <1>7, <1>8, <2>3, PushLists
<1>10. Linked(head', next') /\ Members(o)' = Members(o) \cup {p}
       /\ \A j \in Orders : j # o => Members(j)' = Members(j)
  BY Zenon, <1>1, <1>9 DEF Members
<1>11. PICK l \in Local : l = Idle
  BY IdleOK, Zenon
<1>12. PICK H \in SUBSET (Pages \X Orders) : H = held[t]
  BY <1>8, Zenon
<1>13. Goes(t, l, H)
  <2>1. held' = [held EXCEPT ![t] = H] /\ reply' \in [Threads -> Replies] /\ l.op # "free"
    BY <1>1, <1>8, <1>11, <1>12, Zenon DEF Idle, Replies, Return
  <2>2. loc' = [loc EXCEPT ![t] = l]
    BY <1>1, <1>11, Zenon DEF Return
  <2>3. CallOK(l)
    BY Zenon, <1>11, IdleOK
  <2>4. PopOK(l)' /\ PushOK(l)' /\ RemoveOK(l)'
    BY <1>11, Zenon DEF Idle, PopOK, PushOK, RemoveOK, RemoveAt, WalkAt
  <2>5. QED BY Zenon, <1>1, <2>1, <2>2, <2>3, <2>4 DEF Goes
<1>14. ListsOK
  BY Zenon, <1>1, <1>7, <1>8, <1>10 DEF ListsOK
<1> DEFINE x == <<"hand", t, <<p, o>>>>
           z == <<"free", o, <<p, o>>>>
           R == {x}
           N == {z}
<1>15. R \subseteq Owned
  BY <1>6, OwnedIff, Zenon
<1>16. Apart(N) /\ Cover(N) = Cover(R)
  <2>1. x[3] = <<p, o>> /\ z[3] = <<p, o>>
    BY Zenon
  <2>2. Cover(N) = PagesOf(z[3]) /\ Cover(R) = PagesOf(x[3])
    BY Zenon, CoverFacts
  <2>3. Apart(N)
    BY Zenon DEF Apart
  <2>4. QED BY Zenon, <2>1, <2>2, <2>3
<1>17. \A j \in Orders : \A q : q \in Members(j)' <=>
         (q \in Members(j) /\ <<"free", j, <<q, j>>>> \notin R) \/ <<"free", j, <<q, j>>>> \in N
  <2>1. \A j, q : <<"free", j, <<q, j>>>> \notin R /\ (<<"free", j, <<q, j>>>> \in N <=> j = o /\ q = p)
    BY Zenon
  <2> HIDE DEF R, N
  <2>2. QED BY Zenon, <1>10, <2>1
<1>18. \A c : c \in H <=> (c \in held[t] /\ <<"held", t, c>> \notin R) \/ <<"held", t, c>> \in N
  BY <1>12, Zenon
<1>19. \A c : c \in InHand(l) <=>
         (c \in InHand(loc[t]) /\ <<"hand", t, c>> \notin R) \/ <<"hand", t, c>> \in N
  BY <1>6, <1>11, IdleOK, Zenon
<1>20. \A w \in R : w[1] = "free" \/ w[2] = t
  OBVIOUS
<1>21. \A w \in N : \/ \E j \in Orders : \E q : w = <<"free", j, <<q, j>>>>
                    \/ \E c : w = <<"held", t, c>> \/ w = <<"hand", t, c>>
  BY Zenon
<1>22. BlocksAligned => \A w \in N : Aligned(w[3][1], w[3][2])
  <2>1. x[3][1] = p /\ x[3][2] = o /\ z[3][1] = p /\ z[3][2] = o /\ x \in Owned
    BY <1>15, Zenon
  <2>2. BlocksAligned => Aligned(p, o)
    BY Zenon, <2>1 DEF BlocksAligned
  <2>3. QED BY <2>1, <2>2, Zenon
<1> HIDE DEF R, N, x, z
<1>23. Exchanges(t, l, H, R, N)
  BY Zenon, <1>15, <1>16, <1>17, <1>18, <1>19, <1>20, <1>21 DEF Exchanges
<1>24. Undisturbed(t)
  BY Zenon, <1>6 DEF Undisturbed
<1>25. IInv' /\ Owned' = (Owned \ R) \cup N /\ Cover(Owned)' = Cover(Owned)
  BY Zenon, <1>2, <1>13, <1>14, <1>23, <1>24, MoveStep
<1>26. QED BY Zenon, <1>22, <1>25, AlignedChange

\* try_remove_buddy has taken the buddy out of its list, which is the upper half.
LEMMA MergeStep ==
  ASSUME SizeLaws, IInv, NEW t \in Threads, loc[t].pc = "rem_cas", Merged(t),
         UNCHANGED <<held, region, added, usage>>, ListsOK,
         NEW o \in Orders, o = loc[t].order, NEW c \in Members(o), c = loc[t].seen,
         Members(o)' = Members(o) \ {c}, \A j \in Orders : j # o => Members(j)' = Members(j)
  PROVE  IInv' /\ Kept
<1> DEFINE k == loc[t]
           m == [k EXCEPT !.pc = "push_load", !.order = k.order + 1, !.push = k.block,
                          !.seen = Null, !.nxt = Null, !.prev = Null]
<1>1. k \in Local /\ CallOK(k) /\ RemoveOK(k) /\ Sharing(t) /\ reply \in [Threads -> Replies]
  BY LocFacts, CallerShares, Zenon
<1>2. k.op = "free" /\ k.order + 1 < MaxOrder
  BY <1>1, Zenon DEF CallOK, RemoveAt
<1>3. PICK b \in Pages : b = k.block
  BY <1>1, Zenon DEF Local
<1>4. c = BuddyOf(b, o) /\ c > b /\ usage.threads = {t}
  BY <1>1, <1>2, <1>3, Zenon DEF RemoveOK, RemoveAt, IInv, UseInv
<1>5. b \in Nat /\ o \in Nat /\ o + 1 \in Orders /\ Size[o] \in Nat \ {0}
  <2>1. b \in Nat /\ o \in Nat /\ o + 1 < MaxOrder
    BY <1>2, OrderFacts, PageFacts, Zenon
  <2>2. o + 1 \in Orders
    BY <2>1, OrderFacts
  <2>3. QED BY <2>1, <2>2, Zenon DEF SizeLaws
<1>6. c = b + Size[o]
  <2>1. c = b + Size[o] \/ c = b - Size[o]
    BY <1>4, Zenon DEF BuddyOf
  <2>2. QED BY <1>4, <1>5, <2>1
<1>7. loc' = [loc EXCEPT ![t] = m] /\ UNCHANGED reply
  BY <1>2, OrderFacts, BuddyAssumption DEF Merged
<1>8. m \in Local /\ m.pc = "push_load" /\ m.op = "free" /\ m.order = o + 1 /\ m.block = b /\ m.push = b
  <2>1. k.order + 1 \in Orders
    BY <1>5, Zenon
  <2>2. QED BY Zenon, <1>1, <1>2, <1>3, <2>1 DEF Local, Labels
<1>9. PICK l \in Local : l = m
  BY <1>8, Zenon
<1>10. loc' = [loc EXCEPT ![t] = l] /\ l.pc = "push_load" /\ l.op = "free" /\ l.order = o + 1
       /\ l.block = b /\ l.push = b
  BY Zenon, <1>7, <1>8, <1>9
<1> HIDE DEF m
<1>11. PICK H \in SUBSET (Pages \X Orders) : H = held[t]
  BY Zenon DEF IInv, TypeOK
<1>12. Goes(t, l, H)
  <2>1. held' = [held EXCEPT ![t] = H] /\ reply' \in [Threads -> Replies]
    BY <1>1, <1>7, <1>11, Zenon DEF IInv, TypeOK
  <2>2. CallOK(l) /\ PopOK(l)' /\ PushOK(l)' /\ RemoveOK(l)'
    BY <1>10, Zenon DEF CallOK, PopOK, PushOK, RemoveOK, PopAt, PushAt, RemoveAt, WalkAt
  <2>3. QED BY Zenon, <1>4, <1>10, <2>1, <2>2 DEF Goes
<1> DEFINE x == <<"hand", t, <<b, o>>>>
           y == <<"free", o, <<c, o>>>>
           z == <<"hand", t, <<b, o + 1>>>>
           R == {x, y}
           N == {z}
<1>13. InHand(k) = {<<b, o>>} /\ InHand(l) = {<<b, o + 1>>}
  BY <1>2, <1>3, <1>10, Zenon DEF InHand
<1>14. R \subseteq Owned
  <2>1. x \in Owned
    BY <1>13, OwnedIff, Zenon
  <2>2. y \in Owned
    BY OwnedIff, Zenon
  <2>3. QED BY <2>1, <2>2, Zenon
<1>15. Apart(N) /\ Cover(N) = Cover(R)
  <2>1. x[3] = <<b, o>> /\ y[3] = <<c, o>> /\ z[3] = <<b, o + 1>>
    BY Zenon
  <2>2. Cover(N) = PagesOf(z[3]) /\ Cover(R) = PagesOf(x[3]) \cup PagesOf(y[3])
    BY Zenon, CoverFacts
  <2>3. Apart(N)
    BY Zenon DEF Apart
  <2>4. PagesOf(<<b, o + 1>>) = PagesOf(<<b, o>>) \cup PagesOf(<<c, o>>)
    BY <1>5, <1>6, Halves, Zenon
  <2>5. QED BY Zenon, <2>1, <2>2, <2>3, <2>4
<1>16. \A j \in Orders : \A q : q \in Members(j)' <=>
         (q \in Members(j) /\ <<"free", j, <<q, j>>>> \notin R) \/ <<"free", j, <<q, j>>>> \in N
  <2>1. \A j, q : <<"free", j, <<q, j>>>> \notin N /\ (<<"free", j, <<q, j>>>> \in R <=> j = o /\ q = c)
    BY Zenon
  <2> HIDE DEF R, N
  <2>2. QED BY Zenon, <2>1
<1>17. \A d : d \in H <=> (d \in held[t] /\ <<"held", t, d>> \notin R) \/ <<"held", t, d>> \in N
  BY <1>11, Zenon
<1>18. \A d : d \in InHand(l) <=>
         (d \in InHand(loc[t]) /\ <<"hand", t, d>> \notin R) \/ <<"hand", t, d>> \in N
  BY <1>13, Zenon
<1>19. \A w \in R : w[1] = "free" \/ w[2] = t
  OBVIOUS
<1>20. \A w \in N : \/ \E j \in Orders : \E q : w = <<"free", j, <<q, j>>>>
                    \/ \E d : w = <<"held", t, d>> \/ w = <<"hand", t, d>>
  BY Zenon
<1>21. BlocksAligned => \A w \in N : Aligned(w[3][1], w[3][2])
  <2>1. x[3][1] = b /\ x[3][2] = o /\ z[3][1] = b /\ z[3][2] = o + 1 /\ x \in Owned
    BY <1>14, Zenon
  <2>2. BlocksAligned => Aligned(b, o)
    BY Zenon, <2>1 DEF BlocksAligned
  <2>3. BuddyOf(b, o) > b
    BY <1>4, Zenon
  <2>4. BlocksAligned => Aligned(b, o + 1)
    BY <1>5, <2>2, <2>3, AlignedMerge, Zenon
  <2>5. QED BY <2>1, <2>4, Zenon
<1> HIDE DEF R, N, x, y, z
<1>22. Exchanges(t, l, H, R, N)
  BY Zenon, <1>14, <1>15, <1>16, <1>17, <1>18, <1>19, <1>20 DEF Exchanges
<1>23. Undisturbed(t)
  BY Zenon, <1>4 DEF Undisturbed
<1>24. IInv' /\ Owned' = (Owned \ R) \cup N /\ Cover(Owned)' = Cover(Owned)
  <2> HIDE DEF k
  <2>1. QED BY Zenon, <1>1, <1>12, <1>22, <1>23, MoveStep
<1>25. QED BY Zenon, <1>21, <1>24, AlignedChange

\* The buddy was the first of its list.
LEMMA RemoveCasHeadStep ==
  ASSUME SizeLaws, IInv, NEW t \in Threads, RemoveCasHead(t), UNCHANGED usage
  PROVE  IInv' /\ Kept
<1> DEFINE k == loc[t]
<1>1. k.pc = "rem_cas" /\ k.prev = Null /\ UNCHANGED <<held, region, added, usage>>
  BY Zenon DEF RemoveCasHead, At
<1>2. k \in Local /\ RemoveOK(k)
  BY LocFacts, Zenon
<1>3. PICK o \in Orders : o = k.order
  BY <1>2, Zenon DEF Local
<1>4. k.seen \in Members(o) /\ head[o] = k.seen /\ k.nxt = next[k.seen]
  BY <1>1, <1>2, <1>3, Zenon DEF RemoveOK
<1>5. PICK c \in Members(o) : c = k.seen
  BY <1>4, Zenon
<1>6. c \in Pages /\ next[c] \in Pages \cup {Null}
  BY WalkFacts, ChainFacts, Zenon DEF Members
<1>7. head' = [head EXCEPT ![o] = next[c]] /\ Merged(t) /\ UNCHANGED next
  BY <1>3, <1>4, <1>5, Zenon DEF RemoveCasHead
<1>8. head' \in Heads /\ next' \in Headers /\ TookHead(head', head, next, o, c) /\ SameBut(next', next, c)
  <2>1. head \in Heads /\ next \in Headers /\ head[o] = c
    BY Zenon, <1>4, <1>5 DEF IInv, TypeOK, Heads, Headers
  <2>2. QED BY <1>6, <1>7, <2>1, Zenon DEF Heads, TookHead, HeadSet, SameBut
<1>9. /\ Linked(head', next') /\ Members(o)' = Members(o) \ {c}
      /\ \A j \in Orders : j # o => Members(j)' = Members(j)
  BY Zenon, <1>6, <1>8, PopMembers
<1>10. ListsOK
  BY Zenon, <1>8, <1>9 DEF ListsOK
<1>11. QED BY Zenon, <1>1, <1>3, <1>5, <1>7, <1>9, <1>10, MergeStep

\* The buddy was further down.
LEMMA RemoveCasInnerStep ==
  ASSUME SizeLaws, IInv, NEW t \in Threads, RemoveCasInner(t), UNCHANGED usage
  PROVE  IInv' /\ Kept
<1> DEFINE k == loc[t]
<1>1. k.pc = "rem_cas" /\ k.prev # Null /\ UNCHANGED <<held, region, added, usage>>
  BY Zenon DEF RemoveCasInner, At
<1>2. k \in Local /\ RemoveOK(k)
  BY LocFacts, Zenon
<1>3. PICK o \in Orders : o = k.order
  BY <1>2, Zenon DEF Local
<1>4. k.seen \in Members(o) /\ k.prev \in Members(o) /\ next[k.prev] = k.seen /\ k.nxt = next[k.seen]
  BY <1>1, <1>2, <1>3, Zenon DEF RemoveOK
<1>5. PICK c \in Members(o) : c = k.seen
  BY <1>4, Zenon
<1>6. PICK a \in Members(o) : a = k.prev
  BY <1>4, Zenon
<1>7. a \in Pages /\ c \in Pages /\ next[c] \in Pages \cup {Null} /\ next[a] = c
  BY <1>4, <1>5, <1>6, WalkFacts, ChainFacts, Zenon DEF Members
<1>8. next' = [next EXCEPT ![a] = next[c]] /\ Merged(t) /\ UNCHANGED head
  BY <1>4, <1>5, <1>6, Zenon DEF RemoveCasInner
<1>9. head' \in Heads /\ next' \in Headers /\ TookNext(next', next, a, c)
  <2>1. head \in Heads /\ next \in Headers
    BY Zenon DEF IInv, TypeOK, Heads, Headers
  <2>2. QED BY <1>7, <1>8, <2>1, Zenon DEF Headers, TookNext, SameBut
<1>10. OnlyList(a, head, next, o)
  BY Zenon, NotFree DEF IInv, PartInv, Members, OnlyList
<1>11. Linked(head, next)
  BY Zenon DEF IInv
<1>12. Linked(head, next') /\ LosesNext(head, next', next, o, c)
  <2>1. c \in Pages /\ TookNext(next', next, a, c)
    BY <1>7, <1>9, Zenon
  <2>2. QED BY Zenon, <1>10, <1>11, <2>1, RemoveLists
<1>13. /\ Linked(head', next') /\ Members(o)' = Members(o) \ {c}
       /\ \A j \in Orders : j # o => Members(j)' = Members(j)
  BY Zenon, <1>8, <1>12 DEF Members, LosesNext
<1>14. ListsOK
  BY Zenon, <1>9, <1>13 DEF ListsOK
<1>15. QED BY Zenon, <1>1, <1>3, <1>5, <1>8, <1>13, <1>14, MergeStep
=============================================================================
