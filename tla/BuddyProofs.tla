---------------------------- MODULE BuddyProofs ----------------------------
(***************************************************************************)
(* Safety of Buddy.tla, from the invariant and the steps of BuddySteps:    *)
(* add_memory_region and the calls as a whole, then the theorems.          *)
(***************************************************************************)
EXTENDS BuddySteps

-----------------------------------------------------------------------------
(* add_memory_region.                                                      *)

LEMMA BootStep ==
  ASSUME IInv, \A t \in Threads : loc[t] = Idle /\ held[t] = {}, UNCHANGED <<loc, reply, held, usage>>,
         TypeOK', Linked(head, next)', PartInv'
  PROVE  IInv'
<1>1. \A u \in Threads : loc'[u] = Idle /\ held'[u] = {}
  BY Zenon
<1>2. LocInv'
  BY Zenon, <1>1, IdleNext DEF LocInv
<1>3. Idle.op # "free"
  BY Zenon DEF Idle
<1>4. UseInv'
  BY Zenon, <1>1, <1>3 DEF UseInv
<1>5. QED BY Zenon, <1>2, <1>4 DEF IInv

\* During boot nobody has a block.
LEMMA BootIdle ==
  ASSUME IInv, added # Regions \/ region.left > 0
  PROVE  \A t \in Threads : loc[t] = Idle /\ held[t] = {}
BY Zenon DEF IInv, UseInv

LEMMA TimesFacts ==
  ASSUME NEW P \in Nat \ {0}, NEW x \in Nat, NEW y \in Nat, NEW m \in Nat, m < P
  PROVE  /\ x <= y <=> x * P <= y * P + m
         /\ x + 1 <= y <=> (x + 1) * P <= y * P + m
<1>1. ASSUME NEW z \in Nat, z <= y PROVE z * P <= y * P + m
  <2>1. PICK d \in Nat : y = z + d
    BY <1>1
  <2>2. y * P = z * P + d * P /\ d * P \in Nat /\ z * P \in Nat
    BY <2>1
  <2>3. QED BY <2>2
<1>2. ASSUME NEW z \in Nat, ~(z <= y) PROVE ~(z * P <= y * P + m)
  <2>1. PICK d \in Nat : z = y + 1 + d
    BY <1>2
  <2>2. z * P = y * P + P + d * P /\ d * P \in Nat /\ y * P \in Nat
    BY <2>1
  <2>3. QED BY <2>2
<1>3. x + 1 \in Nat
  OBVIOUS
<1>4. QED BY <1>1, <1>2, <1>3, Zenon

\* The whole pages of a region that starts on a page.
LEMMA RegionPages ==
  ASSUME WellGiven, NEW r \in Regions
  PROVE  LET b == r[1] \div PageLen
             n == r[2] \div PageLen IN
         /\ b \in Nat /\ n \in Nat /\ b + n <= NumPages
         /\ (r[2] < PageLen <=> n = 0)
         /\ \A p \in Pages : p \in b .. b + n - 1 <=> r[1] <= p * PageLen /\ (p + 1) * PageLen <= r[1] + r[2]
<1>1. PICK P \in Nat \ {0} : P = PageLen
  BY BuddyAssumption, Zenon
<1>2. PICK s \in Nat : s = r[1]
  BY BuddyAssumption, Zenon
<1>3. PICK e \in Nat : e = r[2]
  BY BuddyAssumption, Zenon
<1>4. NumPages \in Nat /\ s + e <= NumPages * P /\ s % P = 0
  BY <1>1, <1>2, <1>3, BuddyAssumption, Zenon DEF WellGiven
<1>5. PICK b \in Nat : b = s \div P /\ s = b * P
  <2>1. s \div P \in Nat /\ s = (s \div P) * P
    BY <1>4
  <2>2. QED BY <2>1, Zenon
<1>6. PICK n \in Nat, m \in Nat : n = e \div P /\ e = n * P + m /\ m < P
  <2>1. e \div P \in Nat /\ e % P \in Nat /\ e = (e \div P) * P + (e % P) /\ e % P < P
    OBVIOUS
  <2>2. QED BY <2>1, Zenon
<1>7. s + e = (b + n) * P + m
  BY <1>5, <1>6
<1>8. b + n <= NumPages
  <2>1. (b + n) * P <= NumPages * P + 0
    BY <1>4, <1>7
  <2>2. QED BY <1>4, <2>1, TimesFacts
<1>9. e < P <=> n = 0
  <2>1. n = 0 => e < P
    BY <1>6
  <2>2. n > 0 => n * P >= P
    OBVIOUS
  <2>3. QED BY <1>6, <2>1, <2>2
<1>10. ASSUME NEW p \in Pages
       PROVE  p \in b .. b + n - 1 <=> s <= p * P /\ (p + 1) * P <= s + e
  <2>1. p \in Nat
    BY PageFacts, Zenon
  <2>2. b <= p <=> b * P <= p * P + 0
    BY <2>1, TimesFacts
  <2>3. p + 1 <= b + n <=> (p + 1) * P <= (b + n) * P + m
    BY <1>6, <2>1, TimesFacts
  <2>4. p \in b .. b + n - 1 <=> b <= p /\ p + 1 <= b + n
    BY <2>1
  <2>5. b * P <= p * P + 0 <=> s <= p * P
    BY <1>5, <2>1
  <2>6. QED BY <1>7, <2>2, <2>3, <2>4, <2>5, Zenon
<1>11. QED BY <1>1, <1>2, <1>3, <1>5, <1>6, <1>8, <1>9, <1>10, Zenon

\* A region is added: its whole pages are to be cut.
LEMMA AddRegionStep ==
  ASSUME SizeLaws, WellGiven, IInv, NEW r \in Regions, AddRegion(r[1], r[2]), UNCHANGED usage
  PROVE  /\ IInv' /\ Owned' = Owned /\ (NoPageLost => NoPageLost')
         /\ region'.left > 0 =>
              region'.block = r[1] \div PageLen /\ region'.order = MaxOrder - 1
<1>1. PICK b \in Nat : b = r[1] \div PageLen
  BY RegionPages, Zenon
<1>2. PICK n \in Nat : n = r[2] \div PageLen
  BY RegionPages, Zenon
<1>3. /\ b + n <= NumPages /\ (r[2] < PageLen <=> n = 0)
      /\ \A p \in Pages : p \in b .. b + n - 1 <=> r[1] <= p * PageLen /\ (p + 1) * PageLen <= r[1] + r[2]
  BY <1>1, <1>2, RegionPages, Zenon
<1>4. <<r[1], r[2]>> = r /\ r[1] \in Nat /\ r[2] \in Nat
  BY BuddyAssumption
<1>5. /\ region.left = 0 /\ r \notin added /\ added' = added \cup {r}
      /\ UNCHANGED <<head, next, loc, reply, held, usage>>
  BY <1>4, Zenon DEF AddRegion
<1>6. region' = IF n = 0 THEN region ELSE [block |-> b, left |-> n, order |-> MaxOrder - 1]
  <2>1. r[1] % PageLen = 0 /\ PageLen \in Nat \ {0}
    BY BuddyAssumption, Zenon DEF WellGiven
  <2>2. (PageLen - (r[1] % PageLen)) % PageLen = 0
    BY <2>1
  <2>3. region' = IF r[2] < PageLen \/ r[2] - 0 < PageLen THEN region
                  ELSE [block |-> (r[1] + 0) \div PageLen, left |-> r[2] \div PageLen,
                        order |-> MaxOrder - 1]
    BY Zenon, <2>2 DEF AddRegion
  <2>4. r[2] - 0 = r[2] /\ r[1] + 0 = r[1]
    BY <1>4
  <2>5. QED BY <1>1, <1>2, <1>3, <2>3, <2>4, Zenon
<1>7. Uncut = {} /\ Uncut' = b .. b + n - 1
  <2>1. region.block \in Nat
    BY DEF IInv, TypeOK
  <2>2. Uncut = {}
    BY <1>5, <2>1 DEF Uncut
  <2>3. CASE n = 0
    <3>1. region' = region /\ b .. b + n - 1 = {}
      BY <1>6, <2>3
    <3>2. Uncut' = Uncut
      BY Zenon, <3>1 DEF Uncut
    <3>3. QED BY <2>2, <3>1, <3>2, Zenon
  <2>4. CASE n # 0
    <3>1. region'.block = b /\ region'.left = n
      BY <1>6, <2>4, Zenon
    <3>2. Uncut' = region'.block .. region'.block + region'.left - 1
      BY Zenon DEF Uncut
    <3>3. QED BY Zenon, <2>2, <3>1, <3>2
  <2>5. QED BY <2>2, <2>3, <2>4, Zenon
<1>8. \A o : Members(o)' = Members(o)
  BY <1>5, Zenon DEF Members
<1>9. Owned' = Owned
  BY Zenon, <1>5, <1>8, OwnedSame
<1>10. \A p \in b .. b + n - 1 : p \in Pages
  BY <1>3, BuddyAssumption DEF Pages
<1>11. Given' = Given \cup Uncut'
  <2>1. \A p \in Pages : p \in Given' <=>
          \E s \in added \cup {r} : s[1] <= p * PageLen /\ (p + 1) * PageLen <= s[1] + s[2]
    BY <1>5, Zenon DEF Given
  <2>2. \A p \in Pages : p \in Given <=>
          \E s \in added : s[1] <= p * PageLen /\ (p + 1) * PageLen <= s[1] + s[2]
    BY Zenon DEF Given
  <2>3. Given' \subseteq Pages /\ Given \subseteq Pages
    BY Zenon DEF Given
  <2>4. \A p \in Pages : p \in Given' <=> p \in Given \/ p \in b .. b + n - 1
    BY Zenon, <1>3, <2>1, <2>2
  <2>5. QED BY <1>7, <1>10, <2>3, <2>4, Zenon
<1>12. Given \cap Uncut' = {}
  <2> SUFFICES ASSUME NEW p \in Given, p \in Uncut'
               PROVE  FALSE
    BY Zenon
  <2>1. PICK s \in added : s[1] <= p * PageLen /\ (p + 1) * PageLen <= s[1] + s[2]
    BY Zenon DEF Given
  <2>2. p \in Pages /\ r[1] <= p * PageLen /\ (p + 1) * PageLen <= r[1] + r[2]
    BY <1>3, <1>7, <1>10, Zenon
  <2>3. s \in Regions /\ s # r
    BY <1>5, Zenon DEF IInv, TypeOK
  <2>4. s[1] + s[2] <= r[1] \/ r[1] + r[2] <= s[1]
    BY <2>3, Zenon DEF WellGiven
  <2>5. p \in Nat /\ PageLen \in Nat \ {0} /\ s[1] \in Nat /\ s[2] \in Nat
    BY <2>2, <2>3, PageFacts, BuddyAssumption, Zenon
  <2>6. (p + 1) * PageLen = p * PageLen + PageLen /\ p * PageLen \in Nat
    BY <2>5
  <2>7. QED BY <1>4, <2>1, <2>2, <2>4, <2>5, <2>6
<1>13. PartInv'
  <2>1. Apart(Owned)' /\ Cover(Owned)' = Cover(Owned)
    BY Zenon, <1>9 DEF IInv, PartInv, Apart, Cover
  <2>2. Cover(Owned) \subseteq Given
    BY Zenon DEF IInv, PartInv
  <2>3. QED BY <1>11, <1>12, <2>1, <2>2, Zenon DEF PartInv
<1>14. TypeOK'
  <2>1. region' \in [block : 0 .. NumPages, left : 0 .. NumPages, order : Orders]
    <3>1. CASE n = 0
      BY <1>6, <3>1, Zenon DEF IInv, TypeOK
    <3>2. CASE n # 0
      <4>1. b \in 0 .. NumPages /\ n \in 0 .. NumPages /\ MaxOrder - 1 \in Orders
        BY <1>3, OrderFacts, BuddyAssumption
      <4>2. QED BY <1>6, <3>2, <4>1, Zenon
    <3>3. QED BY <3>1, <3>2, Zenon
  <2>2. added' \subseteq Regions
    BY <1>5, Zenon DEF IInv, TypeOK
  <2>3. QED BY Zenon, <1>5, <2>1, <2>2 DEF IInv, TypeOK
<1>15. Linked(head, next)'
  BY <1>5, Zenon DEF IInv, Linked
<1>16. IInv'
  <2>1. added # Regions
    BY <1>5, Zenon
  <2>2. \A t \in Threads : loc[t] = Idle /\ held[t] = {}
    BY Zenon, <2>1, BootIdle
  <2>3. QED BY Zenon, <1>5, <1>13, <1>14, <1>15, <2>2, BootStep
<1>17. ASSUME NoPageLost PROVE NoPageLost'
  <2>1. Given = Cover(Owned) \cup Uncut
    BY <1>17, Zenon DEF NoPageLost, Cover
  <2>2. Given' = Cover(Owned)' \cup Uncut'
    BY <1>7, <1>9, <1>11, <2>1, Zenon DEF Cover
  <2>3. QED BY <2>2, Zenon DEF NoPageLost, Cover
<1>18. region'.left > 0 => region'.block = b /\ region'.order = MaxOrder - 1
  <2>1. CASE n = 0
    BY <1>5, <1>6, <2>1
  <2>2. CASE n # 0
    BY <1>6, <2>2, Zenon
  <2>3. QED BY <2>1, <2>2, Zenon
<1>19. QED BY <1>1, <1>9, <1>16, <1>17, <1>18, Zenon

\* A block is cut from what remains of a region, or the order is too high for it.
LEMMA AddBlockStep ==
  ASSUME SizeLaws, IInv, AddBlock, UNCHANGED usage
  PROVE  IInv' /\ (NoPageLost => NoPageLost') /\ (AlignInv => AlignInv')
<1>1. region \in [block : 0 .. NumPages, left : 0 .. NumPages, order : Orders]
      /\ head \in Heads /\ next \in Headers /\ Linked(head, next)
  BY Zenon DEF IInv, TypeOK, Heads, Headers
<1>2. PICK o \in Orders : o = region.order
  BY <1>1, Zenon
<1>3. PICK b \in Nat : b = region.block
  BY <1>1
<1>4. PICK n \in Nat \ {0} : n = region.left
  BY <1>1 DEF AddBlock
<1>5. Uncut = b .. b + n - 1 /\ UNCHANGED <<loc, reply, held, added, usage>>
  BY <1>3, <1>4, Zenon DEF Uncut, AddBlock
<1>6. Uncut \subseteq Pages /\ Cover(Owned) \cap Uncut = {} /\ Uncut \subseteq Given
  BY Zenon DEF IInv, PartInv, Given
<1>7. b \in Pages /\ b + n <= NumPages
  <2>1. b \in Uncut /\ b + n - 1 \in Uncut
    BY <1>5
  <2>2. QED BY <1>6, <2>1, BuddyAssumption DEF Pages
<1>8. o \in Nat /\ Size[o] \in Nat \ {0}
  BY OrderFacts, Zenon DEF SizeLaws
<1>9. \A t \in Threads : loc[t] = Idle /\ held[t] = {}
  <2>1. region.left > 0
    BY <1>4
  <2>2. QED BY Zenon, <2>1, BootIdle
<1>10. CASE n >= Size[o]
  <2>1. /\ next' = [next EXCEPT ![b] = head[o]] /\ head' = [head EXCEPT ![o] = b]
        /\ region' = [region EXCEPT !.block = b + Size[o], !.left = n - Size[o]]
    BY <1>2, <1>3, <1>4, <1>10, Zenon DEF AddBlock
  <2>2. region'.block = b + Size[o] /\ region'.left = n - Size[o] /\ region'.order = o
    BY <1>1, <1>2, <2>1, Zenon
  <2>3. Uncut' = b + Size[o] .. b + n - 1
    <3>1. Uncut' = region'.block .. region'.block + region'.left - 1
      BY Zenon DEF Uncut
    <3>2. b + Size[o] + (n - Size[o]) - 1 = b + n - 1
      BY <1>8
    <3>3. QED BY Zenon, <2>2, <3>1, <3>2
  <2>4. PagesOf(<<b, o>>) = b .. b + Size[o] - 1
    BY Zenon DEF PagesOf
  <2>5. /\ Uncut = PagesOf(<<b, o>>) \cup Uncut' /\ PagesOf(<<b, o>>) \cap Uncut' = {}
        /\ b \in PagesOf(<<b, o>>)
    BY <1>5, <1>8, <1>10, <2>3, <2>4
  <2>6. \A k \in Orders : b \notin Members(k)
    <3> SUFFICES ASSUME NEW k \in Orders, b \in Members(k)
                 PROVE  FALSE
      BY Zenon
    <3>1. <<"free", k, <<b, k>>>> \in Owned /\ <<"free", k, <<b, k>>>>[3] = <<b, k>>
      BY OwnedIff, Zenon
    <3>2. b \in PagesOf(<<b, k>>)
      BY <1>3, OrderFacts, Halves, Zenon
    <3>3. b \in Cover(Owned)
      BY Zenon, <3>1, <3>2, CoverFacts
    <3>4. QED BY <1>6, <2>5, <3>3, Zenon
  <2>7. /\ next' \in Headers /\ head' \in Heads /\ next'[b] = head[o]
        /\ SameBut(next', next, b) /\ HeadSet(head', head, o, b)
    BY <1>1, <1>7, <2>1, Zenon DEF Heads, Headers, SameBut, HeadSet
  <2>8. NoList(b, head, next)
    BY Zenon, <2>6 DEF NoList, Members
  <2>9. Linked(head, next') /\ \A k \in Orders : Chain(head[k], next') = Chain(head[k], next)
    <3>1. PICK ny : ny = next'
      BY Zenon
    <3>2. SameBut(ny, next, b) /\ Linked(head, next)
      BY Zenon, <1>1, <2>7, <3>1
    <3>3. Linked(head, ny) /\ \A k \in Orders : Chain(head[k], ny) = Chain(head[k], next)
      BY <1>7, <2>8, <3>2, WriteLists
    <3>4. QED BY Zenon, <3>1, <3>3
  <2>10. NoList(b, head, next')
    BY Zenon, <2>8, <2>9 DEF NoList
  <2>11. /\ Linked(head', next') /\ Chain(head'[o], next') = Chain(head[o], next') \cup {b}
         /\ \A k \in Orders : k # o => Chain(head'[k], next') = Chain(head[k], next')
    <3>1. PICK ny, g : ny = next' /\ g = head'
      BY Zenon
    <3>2. Linked(head, ny) /\ NoList(b, head, ny) /\ ny[b] = head[o] /\ HeadSet(g, head, o, b)
          /\ b \in Pages
      BY Zenon, <1>7, <2>7, <2>9, <2>10, <3>1
    <3>3. /\ Linked(g, ny) /\ Chain(g[o], ny) = Chain(head[o], ny) \cup {b}
          /\ \A k \in Orders : k # o => Chain(g[k], ny) = Chain(head[k], ny)
      <4>1. Linked(g, ny)
        BY <3>2, PushLists, Zenon
      <4>2. Chain(g[o], ny) = Chain(head[o], ny) \cup {b}
        <5>1. WellLinked(ny[b], ny) /\ b \notin Chain(ny[b], ny)
          BY Zenon, <3>2 DEF Linked, NoList
        <5>2. Chain(b, ny) = Chain(ny[b], ny) \cup {b}
          BY <3>2, <5>1, ChainPush, Zenon
        <5>3. QED BY Zenon, <3>2, <5>2 DEF HeadSet
      <4>3. \A k \in Orders : k # o => Chain(g[k], ny) = Chain(head[k], ny)
        BY Zenon, <3>2 DEF HeadSet
      <4>4. QED BY Zenon, <4>1, <4>2, <4>3
    <3>4. QED BY Zenon, <3>1, <3>3
  <2>12. Members(o)' = Members(o) \cup {b} /\ \A k \in Orders : k # o => Members(k)' = Members(k)
    BY Zenon, <2>9, <2>11 DEF Members
  <2> DEFINE z == <<"free", o, <<b, o>>>>
             N == {z}
  <2>13. Owned' = Owned \cup N
    <3>1. \A k, q : <<"free", k, <<q, k>>>> \in N <=> k = o /\ q = b
      BY Zenon
    <3>2. \A t, c : <<"held", t, c>> \notin N /\ <<"hand", t, c>> \notin N
      BY Zenon
    <3>3. \A x \in N : \/ \E k \in Orders : \E p : x = <<"free", k, <<p, k>>>>
                       \/ \E t \in Threads : \E c : x = <<"held", t, c>>
                       \/ \E t \in Threads : \E c : x = <<"hand", t, c>>
      BY Zenon
    <3> HIDE DEF N
    <3>4. \A k \in Orders : \A p : p \in Members(k)' <=>
            (p \in Members(k) /\ <<"free", k, <<p, k>>>> \notin {}) \/ <<"free", k, <<p, k>>>> \in N
      BY Zenon, <2>12, <3>1
    <3>5. \A t \in Threads : \A c : c \in held'[t] <=>
            (c \in held[t] /\ <<"held", t, c>> \notin {}) \/ <<"held", t, c>> \in N
      BY Zenon, <1>5, <3>2
    <3>6. \A t \in Threads : \A c : c \in InHand(loc'[t]) <=>
            (c \in InHand(loc[t]) /\ <<"hand", t, c>> \notin {}) \/ <<"hand", t, c>> \in N
      BY Zenon, <1>5, <3>2
    <3>7. Owned' = (Owned \ {}) \cup N
      BY Zenon, <3>3, <3>4, <3>5, <3>6, OwnedChange
    <3>8. QED BY <3>7, Zenon
  <2>14. z[3] = <<b, o>> /\ z[3][1] = b /\ z[3][2] = o
    BY Zenon
  <2> HIDE DEF z
  <2>15. Cover(Owned)' = Cover(Owned) \cup PagesOf(<<b, o>>)
    <3>1. \A m : m \in Cover(Owned \cup N) <=> \E x \in Owned \cup N : m \in PagesOf(x[3])
      BY Zenon, CoverFacts
    <3>2. \A m : m \in Cover(Owned) <=> \E x \in Owned : m \in PagesOf(x[3])
      BY Zenon, CoverFacts
    <3>3. \A m : m \in Cover(Owned \cup N) <=> m \in Cover(Owned) \/ m \in PagesOf(<<b, o>>)
      BY Zenon, <2>14, <3>1, <3>2
    <3>4. Cover(Owned)' = Cover(Owned \cup N)
      BY Zenon, <2>13 DEF Cover
    <3>5. QED BY <3>3, <3>4, Zenon
  <2>16. Apart(Owned)'
    <3>1. Apart(Owned)
      BY Zenon DEF IInv, PartInv
    <3>2. ASSUME NEW x \in Owned PROVE PagesOf(x[3]) \cap PagesOf(z[3]) = {}
      <4>1. \A m \in PagesOf(x[3]) : m \in Cover(Owned)
        BY Zenon, CoverFacts
      <4>2. QED BY <1>6, <2>5, <2>14, <4>1, Zenon
    <3>3. Apart(Owned \cup N)
      BY <3>1, <3>2, Zenon DEF Apart
    <3>4. QED BY Zenon, <2>13, <3>3 DEF Apart
  <2>17. Given' = Given
    BY Zenon, <1>5 DEF Given
  <2>18. PartInv'
    BY <1>6, <2>5, <2>15, <2>16, <2>17, Zenon DEF IInv, PartInv
  <2>19. TypeOK'
    <3>1. region' \in [block : 0 .. NumPages, left : 0 .. NumPages, order : Orders]
      <4>1. b + Size[o] \in 0 .. NumPages /\ n - Size[o] \in 0 .. NumPages
        BY <1>7, <1>8, <1>10, BuddyAssumption
      <4>2. QED BY <1>1, <2>1, <4>1, Zenon
    <3>2. QED BY Zenon, <1>5, <2>7, <3>1 DEF IInv, TypeOK, Heads, Headers
  <2>20. Linked(head, next)'
    BY Zenon, <2>11 DEF Linked
  <2>21. IInv'
    BY Zenon, <1>5, <1>9, <2>18, <2>19, <2>20, BootStep
  <2>22. ASSUME NoPageLost PROVE NoPageLost'
    <3>1. Given = Cover(Owned) \cup Uncut
      BY <2>22, Zenon DEF NoPageLost, Cover
    <3>2. Given' = Cover(Owned)' \cup Uncut'
      BY <2>5, <2>15, <2>17, <3>1, Zenon
    <3>3. QED BY <3>2, Zenon DEF NoPageLost, Cover
  <2>23. ASSUME AlignInv PROVE AlignInv'
    <3>1. Aligned(b, o)
      BY <1>2, <1>3, <1>4, <2>23 DEF AlignInv
    <3>2. Aligned(b + Size[o], o)
      <4>1. PICK k \in Nat : b = k * Size[o]
        BY <1>8, <3>1, AlignedFacts, Zenon
      <4>2. b + Size[o] = (k + 1) * Size[o] /\ k + 1 \in Nat /\ b + Size[o] \in Nat
        BY <1>8, <4>1
      <4>3. QED BY <1>8, <4>2, AlignedFacts, Zenon
    <3>3. \A x \in Owned \cup N : Aligned(x[3][1], x[3][2])
      BY Zenon, <2>14, <2>23, <3>1 DEF AlignInv, BlocksAligned
    <3>4. BlocksAligned'
      BY Zenon, <2>13, <3>3 DEF BlocksAligned, Aligned
    <3>5. Aligned(region.block, region.order)'
      BY Zenon, <2>2, <3>2 DEF Aligned
    <3>6. QED BY Zenon, <3>4, <3>5 DEF AlignInv
  <2>24. QED BY <2>21, <2>22, <2>23, Zenon
<1>11. CASE ~(n >= Size[o])
  <2>1. region' = [region EXCEPT !.order = o - 1] /\ UNCHANGED <<head, next>>
    BY <1>2, <1>4, <1>11, Zenon DEF AddBlock
  <2>2. o - 1 \in Orders /\ o - 1 \in Nat
    <3>1. o # 0
      BY <1>8, <1>11 DEF SizeLaws
    <3>2. QED BY <1>8, <3>1, BuddyAssumption DEF Orders
  <2>3. region'.block = b /\ region'.left = n /\ region'.order = o - 1
    BY <1>1, <1>3, <1>4, <2>1, Zenon
  <2>4. Uncut' = Uncut /\ Given' = Given
    <3>1. Uncut' = region'.block .. region'.block + region'.left - 1
      BY Zenon DEF Uncut
    <3>2. QED BY Zenon, <1>5, <2>3, <3>1 DEF Given
  <2>5. \A k : Members(k)' = Members(k)
    BY <2>1, Zenon DEF Members
  <2>6. Owned' = Owned
    BY Zenon, <1>5, <2>5, OwnedSame
  <2>7. PartInv'
    BY Zenon, <2>4, <2>6 DEF IInv, PartInv, Apart, Cover
  <2>8. TypeOK'
    <3>1. region' \in [block : 0 .. NumPages, left : 0 .. NumPages, order : Orders]
      BY <1>1, <2>1, <2>2, Zenon
    <3>2. QED BY Zenon, <1>5, <2>1, <3>1 DEF IInv, TypeOK
  <2>9. Linked(head, next)'
    BY Zenon, <2>1 DEF IInv, Linked
  <2>10. IInv'
    BY Zenon, <1>5, <1>9, <2>7, <2>8, <2>9, BootStep
  <2>11. NoPageLost => NoPageLost'
    BY Zenon, <2>4, <2>6 DEF NoPageLost
  <2>12. ASSUME AlignInv PROVE AlignInv'
    <3>1. Aligned(b, o - 1 + 1)
      BY <1>2, <1>3, <1>4, <1>8, <2>12 DEF AlignInv
    <3>2. Aligned(b, o - 1)
      BY <2>2, <3>1, AlignedHalves, Zenon
    <3>3. BlocksAligned'
      BY Zenon, <2>6, <2>12 DEF AlignInv, BlocksAligned, Aligned
    <3>4. Aligned(region.block, region.order)'
      BY Zenon, <2>3, <3>2 DEF Aligned
    <3>5. QED BY Zenon, <3>3, <3>4 DEF AlignInv
  <2>13. QED BY <2>10, <2>11, <2>12, Zenon
<1>12. QED BY <1>10, <1>11, Zenon

\* free finds the block, or its buddy, where it must not be and refuses the block.
Refused(t) == WalkNext(t) /\ loc[t].seen = CheckFor(loc[t])

\* The steps of a call in progress keep the invariant, and the blocks cover the
\* same pages unless a block is refused.
LEMMA CallStep ==
  ASSUME SizeLaws, IInv, NEW t \in Threads, Step(t), UNCHANGED usage
  PROVE  IInv' /\ (Kept \/ Refused(t))
<1>1. CASE PopLoad(t) \/ PopCasFail(t)
  <2>1. loc[t].pc \in {"pop_load", "pop_cas"} /\ Popping(t, head[loc[t].order]) /\ Quiet
    BY <1>1, Zenon DEF PopLoad, PopCasFail, At, Quiet
  <2>2. QED BY Zenon, <2>1, PoppingStep, KeptSame
<1>2. CASE PopNext(t)
  BY Zenon, <1>2, PopNextStep, KeptSame
<1>3. CASE PopCasOk(t)
  BY Zenon, <1>3, PopCasOkStep
<1>4. CASE PushLoad(t) \/ PushCasFail(t)
  BY Zenon, <1>4, PushLoadStep, KeptSame
<1>5. CASE PushStore(t)
  BY Zenon, <1>5, PushStoreStep, KeptSame
<1>6. CASE PushCasOk(t)
  BY Zenon, <1>6, PushCasOkAlloc, PushCasOkFree
<1>7. CASE RemoveLoad(t)
  BY Zenon, <1>7, RemoveLoadStep, KeptSame
<1>8. CASE RemoveNext(t)
  BY Zenon, <1>8, RemoveNextStep, KeptSame
<1>9. CASE RemoveCasHead(t)
  BY Zenon, <1>9, RemoveCasHeadStep
<1>10. CASE RemoveCasInner(t)
  BY Zenon, <1>10, RemoveCasInnerStep
<1>11. CASE WalkLoad(t)
  BY Zenon, <1>11, WalkLoadStep, KeptSame
<1>12. CASE WalkNext(t)
  BY Zenon, <1>12, WalkNextStep, UnknownStep, KeptSame DEF Refused
<1>13. QED BY Zenon, <1>1, <1>2, <1>3, <1>4, <1>5, <1>6, <1>7, <1>8, <1>9, <1>10, <1>11, <1>12
           DEF Step

LEMMA StutterStep ==
  ASSUME IInv, UNCHANGED vars
  PROVE  IInv' /\ Owned' = Owned
<1>1. UNCHANGED <<head, next, loc, reply, held, region, added, usage>>
  BY Zenon DEF vars
<1>2. \A k : Members(k)' = Members(k)
  BY Zenon, <1>1 DEF Members
<1>3. Owned' = Owned
  BY Zenon, <1>1, <1>2, OwnedSame
<1>4. TypeOK' /\ Linked(head, next)' /\ UseInv'
  BY Zenon, <1>1 DEF IInv, TypeOK, Linked, UseInv
<1>5. PartInv'
  BY Zenon, <1>1, <1>3 DEF IInv, PartInv, Apart, Cover, Uncut, Given
<1>6. LocInv'
  <2>1. ASSUME NEW t \in Threads
        PROVE  CallOK(loc[t])' /\ PopOK(loc[t])' /\ PushOK(loc[t])' /\ RemoveOK(loc[t])'
    <3>1. CallOK(loc[t]) /\ PopOK(loc[t]) /\ PushOK(loc[t]) /\ RemoveOK(loc[t]) /\ loc'[t] = loc[t]
      BY <1>1, Zenon DEF IInv, LocInv
    <3>2. \A s, o : Gone(s, o)' <=> Gone(s, o)
      BY Zenon, <1>1, <1>2 DEF Gone
    <3>3. CallOK(loc[t])' /\ PushOK(loc[t])'
      BY <1>1, <3>1, Zenon DEF CallOK, PushOK
    <3>4. PopOK(loc[t])'
      BY <1>1, <1>2, <3>1, <3>2, Zenon DEF PopOK
    <3>5. RemoveOK(loc[t])'
      BY <1>1, <1>2, <3>1, Zenon DEF RemoveOK, CheckOrder
    <3>6. QED BY <3>3, <3>4, <3>5, Zenon
  <2>2. QED BY Zenon, <2>1 DEF LocInv
<1>7. QED BY Zenon, <1>3, <1>4, <1>5, <1>6 DEF IInv

LEMMA InitStep ==
  ASSUME Init
  PROVE  IInv /\ Owned = {} /\ Given = {} /\ Uncut = {}
<1>1. /\ head = [o \in Orders |-> Null] /\ next = [p \in Pages |-> Null]
      /\ loc = [t \in Threads |-> Idle] /\ reply = [t \in Threads |-> "none"]
      /\ held = [t \in Threads |-> {}] /\ added = {} /\ usage \in Usages
      /\ region = [block |-> 0, left |-> 0, order |-> 0]
  BY Zenon DEF Init
<1>2. \A t \in Threads : loc[t] = Idle /\ held[t] = {} /\ InHand(loc[t]) = {}
  BY <1>1, IdleOK, Zenon
<1>3. \A o \in Orders : head[o] = Null /\ Members(o) = {}
  BY <1>1, ChainNull, Zenon DEF Members
<1>4. Owned = {}
  <2>1. \A x : x \notin Owned
    BY Zenon, <1>2, <1>3, OwnedIff
  <2>2. QED BY <2>1, Zenon
<1>5. Uncut = {} /\ Given = {}
  BY <1>1 DEF Uncut, Given
<1>6. TypeOK
  <2>1. 0 \in 0 .. NumPages /\ 0 \in Orders
    BY BuddyAssumption DEF Orders
  <2>2. head \in [Orders -> Pages \cup {Null}] /\ next \in [Pages -> Pages \cup {Null, Garbage}]
    BY <1>1, Zenon
  <2>3. loc \in [Threads -> Local]
    BY <1>1, IdleOK, Zenon
  <2>4. held \in [Threads -> SUBSET (Pages \X Orders)] /\ reply \in [Threads -> Replies]
    BY <1>1, Zenon DEF Replies
  <2>5. region \in [block : 0 .. NumPages, left : 0 .. NumPages, order : Orders]
    BY <1>1, <2>1, Zenon
  <2>6. QED BY <1>1, <2>2, <2>3, <2>4, <2>5, Zenon DEF TypeOK, Replies
<1>7. Linked(head, next)
  <2>1. \A o \in Orders : WellLinked(head[o], next)
    BY <1>3, ChainNull, Zenon DEF WellLinked
  <2>2. QED BY <2>1, Zenon DEF Linked
<1>8. PartInv
  BY <1>4, <1>5, Zenon DEF PartInv, Apart, Cover
<1>9. LocInv
  BY Zenon, <1>2, IdleOK DEF LocInv
<1>10. UseInv
  <2>1. Idle.op = "none"
    BY Zenon DEF Idle
  <2>2. QED BY <1>2, <2>1, Zenon DEF UseInv
<1>11. QED BY <1>4, <1>5, <1>6, <1>7, <1>8, <1>9, <1>10, Zenon DEF IInv

LEMMA UserIsThread ==
  ASSUME IInv
  PROVE  \A t \in usage.threads : t \in Threads
<1>1. usage \in [threads : SUBSET Threads, frees : {"none", "safe", "all"}]
  BY BuddyAssumption, Zenon DEF IInv, TypeOK
<1>2. QED BY <1>1, Zenon

\* The invariant is inductive.
LEMMA NextStep ==
  ASSUME SizeLaws, WellGiven, SafeUse, IInv, [Next]_vars
  PROVE  IInv'
<1>1. CASE UNCHANGED vars
  BY Zenon, <1>1, StutterStep
<1>2. CASE Next
  <2>1. UNCHANGED usage
    BY Zenon, <1>2 DEF Next
  <2>2. ASSUME NEW r \in Regions, AddRegion(r[1], r[2]) PROVE IInv'
    BY Zenon, <2>1, <2>2, AddRegionStep
  <2>3. ASSUME AddBlock PROVE IInv'
    BY Zenon, <2>1, <2>3, AddBlockStep
  <2>4. ASSUME NEW t \in usage.threads, NEW n \in 1 .. MaxRequest, Allocate(t, n) PROVE IInv'
    BY Zenon, <2>1, <2>4, UserIsThread, AllocateStep
  <2>5. ASSUME NEW t \in usage.threads, NEW b \in held[t], Free(t, b[1], b[2]) PROVE IInv'
    BY Zenon, <2>1, <2>5, FreeStep
  <2>6. ASSUME NEW t \in usage.threads, Step(t) PROVE IInv'
    BY Zenon, <2>1, <2>6, UserIsThread, CallStep
  <2>7. QED BY Zenon, <1>2, <2>2, <2>3, <2>4, <2>5, <2>6 DEF Next
<1>3. QED BY Zenon, <1>1, <1>2

-----------------------------------------------------------------------------
(* What a call sees and answers.                                           *)

LoadAt == {"idle", "pop_load", "push_load", "rem_load", "walk_load"}

\* The last list that a call to allocate looks at is empty.
Exhausted(t) ==
  loc[t].pc \in PopAt /\ head[loc[t].order] = Null /\ ~(loc[t].order + 1 < MaxOrder)

\* allocate looks at a list, and goes on to the next only if it is empty.
Searches(t, m) ==
  \/ m.order = m.want
  \/ /\ loc[t].pc \in PopAt /\ m.want = loc[t].want
     /\ m.order = loc[t].order \/ (m.order = loc[t].order + 1 /\ head[loc[t].order] = Null)

\* Thread t goes on to m in its call, or answers r.
Progress(t, m, r) ==
  /\ m.pc \in LoadAt => m.seen = Null
  /\ m.pc \in PopAt => Searches(t, m) /\ UNCHANGED head
  /\ r = "unknown_ptr" => r = reply[t] \/ Refused(t)
  /\ r = "out_of_memory" /\ m.pc = "idle" /\ loc[t].op = "alloc" => Exhausted(t)

Moves(t) ==
  /\ \A u \in Threads : u # t => loc'[u] = loc[u] /\ reply'[u] = reply[u]
  /\ Progress(t, loc'[t], reply'[t])

LEMMA ReturnMoves ==
  ASSUME TypeOK, NEW t \in Threads, NEW r, Return(t, r), r = "unknown_ptr" => Refused(t),
         r = "out_of_memory" => loc[t].op # "alloc" \/ Exhausted(t)
  PROVE  Moves(t)
<1>1. loc'[t] = Idle /\ reply'[t] = r /\ \A u \in Threads : u # t => loc'[u] = loc[u] /\ reply'[u] = reply[u]
  BY Zenon DEF Return, TypeOK
<1>2. Idle.pc = "idle" /\ Idle.seen = Null /\ "idle" \notin PopAt
  BY Zenon DEF Idle, PopAt
<1>3. QED BY Zenon, <1>1, <1>2 DEF Moves, Progress

LEMMA GoMoves ==
  ASSUME TypeOK, NEW t \in Threads, NEW m, loc' = [loc EXCEPT ![t] = m], UNCHANGED reply, m.pc # "idle",
         m.pc \in LoadAt => m.seen = Null, m.pc \in PopAt => Searches(t, m) /\ UNCHANGED head
  PROVE  Moves(t)
<1>1. loc'[t] = m /\ reply'[t] = reply[t]
      /\ \A u \in Threads : u # t => loc'[u] = loc[u] /\ reply'[u] = reply[u]
  BY Zenon DEF TypeOK
<1>2. QED BY Zenon, <1>1 DEF Moves, Progress

LEMMA PoppingMoves ==
  ASSUME TypeOK, NEW t \in Threads, loc[t].pc \in PopAt, Popping(t, head[loc[t].order]), UNCHANGED head
  PROVE  Moves(t)
<1> DEFINE k == loc[t]
           o == k.order + 1
<1>1. k \in Local
  BY Zenon DEF TypeOK
<1>2. CASE head[k.order] = Null /\ o < MaxOrder
  <2> DEFINE m == [k EXCEPT !.pc = "pop_load", !.order = o, !.seen = Null]
  <2>1. loc' = [loc EXCEPT ![t] = m] /\ UNCHANGED reply
    BY <1>2, Zenon DEF Popping, NextOrder
  <2>2. m.pc = "pop_load" /\ m.order = o /\ m.seen = Null /\ m.want = k.want
    BY <1>1, Zenon DEF Local
  <2> HIDE DEF m
  <2>3. Searches(t, m)
    BY <1>2, <2>2, Zenon DEF Searches
  <2>4. QED BY Zenon, <2>1, <2>2, <2>3, GoMoves
<1>3. CASE head[k.order] = Null /\ ~(o < MaxOrder)
  <2>1. Return(t, "out_of_memory")
    BY <1>3, Zenon DEF Popping, NextOrder
  <2>2. Exhausted(t)
    BY <1>3, Zenon DEF Exhausted
  <2>3. QED BY <2>1, <2>2, ReturnMoves, Zenon
<1>4. CASE head[k.order] # Null
  <2> DEFINE m == [k EXCEPT !.pc = "pop_next", !.seen = head[k.order], !.nxt = Null]
  <2>1. loc' = [loc EXCEPT ![t] = m] /\ UNCHANGED reply
    BY <1>4, Zenon DEF Popping
  <2>2. m.pc = "pop_next" /\ m.order = k.order /\ m.want = k.want
    BY <1>1, Zenon DEF Local
  <2> HIDE DEF m
  <2>3. Searches(t, m) /\ m.pc \notin LoadAt /\ m.pc # "idle"
    BY <2>2, Zenon DEF Searches, LoadAt
  <2>4. QED BY Zenon, <2>1, <2>3, GoMoves
<1>5. QED BY <1>2, <1>3, <1>4, Zenon

LEMMA SplitMoves ==
  ASSUME TypeOK, NEW t \in Threads, NEW b, NEW o, Split(t, b, o)
  PROVE  Moves(t)
<1>1. CASE o > loc[t].want
  <2> DEFINE m == [loc[t] EXCEPT !.pc = "push_load", !.order = o - 1, !.block = b,
                     !.push = b + Size[o - 1], !.seen = Null, !.nxt = Null]
  <2>1. loc' = [loc EXCEPT ![t] = m] /\ UNCHANGED reply
    BY <1>1, Zenon DEF Split
  <2>2. loc[t] \in Local
    BY Zenon DEF TypeOK
  <2>3. m.pc = "push_load" /\ m.seen = Null
    BY <2>2, Zenon DEF Local
  <2> HIDE DEF m
  <2>4. m.pc # "idle" /\ m.pc \notin PopAt
    BY <2>3, Zenon DEF PopAt
  <2>5. QED BY Zenon, <2>1, <2>3, <2>4, GoMoves
<1>2. CASE ~(o > loc[t].want)
  <2>1. Return(t, "ok")
    BY <1>2, Zenon DEF Split
  <2>2. QED BY <2>1, ReturnMoves, Zenon
<1>3. QED BY <1>1, <1>2, Zenon

\* Thread t goes on to a place where it neither searches nor has loaded nothing.
LEMMA PlainMoves ==
  ASSUME TypeOK, NEW t \in Threads, NEW m, loc' = [loc EXCEPT ![t] = m], UNCHANGED reply,
         m.pc \in {"panic", "push_store", "push_cas", "rem_next", "rem_cas", "walk_next"}
           \/ (m.pc \in {"push_load", "rem_load", "walk_load"} /\ m.seen = Null)
  PROVE  Moves(t)
<1>1. m.pc # "idle" /\ (m.pc \in LoadAt => m.seen = Null) /\ m.pc \notin PopAt
  BY Zenon DEF LoadAt, PopAt
<1>2. QED BY Zenon, <1>1, GoMoves

LEMMA CheckMoves ==
  ASSUME TypeOK, NEW t \in Threads, NEW c, StartCheck(t, c)
  PROVE  Moves(t)
<1> DEFINE l == [loc[t] EXCEPT !.check = c, !.seen = Null, !.prev = Null]
           m == [l EXCEPT !.pc = "push_load", !.push = l.block, !.check = 0]
           n == [l EXCEPT !.pc = "walk_load"]
           p == [loc[t] EXCEPT !.pc = "panic"]
<1>1. loc[t] \in Local
  BY Zenon DEF TypeOK
<1>2. /\ m.pc = "push_load" /\ m.seen = Null /\ n.pc = "walk_load" /\ n.seen = Null
      /\ p.pc = "panic"
  BY <1>1, Zenon DEF Local
<1>3. UNCHANGED reply /\ \/ loc' = [loc EXCEPT ![t] = m]
                         \/ loc' = [loc EXCEPT ![t] = n]
                         \/ loc' = [loc EXCEPT ![t] = p]
  BY Zenon DEF StartCheck, Panic
<1> HIDE DEF l, m, n, p
<1>4. QED BY <1>2, <1>3, PlainMoves, Zenon

LEMMA MergeMoves ==
  ASSUME TypeOK, NEW t \in Threads, (Merged(t) \/ RetryRemove(t))
  PROVE  Moves(t)
<1> DEFINE m == [loc[t] EXCEPT !.pc = "push_load", !.order = loc[t].order + 1, !.push = loc[t].block,
                               !.seen = Null, !.nxt = Null, !.prev = Null]
           n == [loc[t] EXCEPT !.pc = "rem_load", !.seen = Null, !.nxt = Null, !.prev = Null]
           p == [loc[t] EXCEPT !.pc = "panic"]
<1>1. loc[t] \in Local
  BY Zenon DEF TypeOK
<1>2. /\ m.pc = "push_load" /\ m.seen = Null /\ n.pc = "rem_load" /\ n.seen = Null
      /\ p.pc = "panic"
  BY <1>1, Zenon DEF Local
<1>3. UNCHANGED reply /\ \/ loc' = [loc EXCEPT ![t] = m]
                         \/ loc' = [loc EXCEPT ![t] = n]
                         \/ loc' = [loc EXCEPT ![t] = p]
  BY Zenon DEF Merged, RetryRemove, Panic
<1> HIDE DEF m, n, p
<1>4. QED BY <1>2, <1>3, PlainMoves, Zenon

LEMMA AllMove ==
  ASSUME IInv, TypeOK, NEW t \in Threads,
         \/ \E n \in 1 .. MaxRequest : Allocate(t, n)
         \/ \E b \in held[t] : Free(t, b[1], b[2])
         \/ Step(t)
  PROVE  Moves(t)
<1> DEFINE k == loc[t]
<1>1. k \in Local
  BY Zenon DEF TypeOK
<1>2. ASSUME NEW n \in 1 .. MaxRequest, Allocate(t, n) PROVE Moves(t)
  <2> DEFINE o == OrderOf(n)
             m == [Idle EXCEPT !.pc = "pop_load", !.op = "alloc", !.want = o, !.order = o]
  <2>1. UNCHANGED head /\ loc[t].pc = "idle"
        /\ \/ loc' = [loc EXCEPT ![t] = m] /\ UNCHANGED reply
           \/ Return(t, "out_of_memory")
    BY <1>2, Zenon DEF Allocate, At
  <2>2. m.pc = "pop_load" /\ m.seen = Null /\ m.order = m.want
    BY Zenon DEF Idle
  <2> HIDE DEF m
  <2>3. CASE loc' = [loc EXCEPT ![t] = m] /\ UNCHANGED reply
    <3>1. Searches(t, m)
      BY <2>2, Zenon DEF Searches
    <3>2. QED BY Zenon, <2>1, <2>2, <2>3, <3>1, GoMoves
  <2>4. CASE Return(t, "out_of_memory")
    <3>1. loc[t].op # "alloc"
      BY <2>1, LocFacts DEF CallOK, Idle
    <3>2. QED BY <2>4, <3>1, ReturnMoves, Zenon
  <2>5. QED BY Zenon, <2>1, <2>3, <2>4
<1>3. ASSUME NEW b \in held[t], Free(t, b[1], b[2]) PROVE Moves(t)
  <2> DEFINE m == [Idle EXCEPT !.pc = "rem_load", !.op = "free", !.order = b[2], !.block = b[1]]
  <2>1. loc' = [loc EXCEPT ![t] = m] /\ UNCHANGED reply
    BY <1>3, Zenon DEF Free
  <2>2. m.pc = "rem_load" /\ m.seen = Null
    BY Zenon DEF Idle
  <2> HIDE DEF m
  <2>3. QED BY <2>1, <2>2, PlainMoves, Zenon
<1>4. CASE PopLoad(t) \/ PopCasFail(t)
  BY <1>4, PoppingMoves, Zenon DEF PopLoad, PopCasFail, At, PopAt
<1>5. CASE PopNext(t)
  <2> DEFINE m == [k EXCEPT !.pc = "pop_cas", !.nxt = next[k.seen]]
  <2>1. loc' = [loc EXCEPT ![t] = m] /\ UNCHANGED <<reply, head>> /\ k.pc = "pop_next"
    BY <1>5, Zenon DEF PopNext, At
  <2>2. m.pc = "pop_cas" /\ m.order = k.order /\ m.want = k.want
    BY <1>1, Zenon DEF Local
  <2> HIDE DEF m
  <2>3. Searches(t, m) /\ m.pc \notin LoadAt /\ m.pc # "idle"
    BY <2>1, <2>2, Zenon DEF Searches, LoadAt, PopAt
  <2>4. QED BY Zenon, <2>1, <2>3, GoMoves
<1>6. CASE PopCasOk(t)
  BY Zenon, <1>6, SplitMoves DEF PopCasOk
<1>7. CASE PushLoad(t) \/ PushCasFail(t)
  <2> DEFINE m == [k EXCEPT !.pc = "push_store", !.seen = head[k.order]]
  <2>1. loc' = [loc EXCEPT ![t] = m] /\ UNCHANGED reply
    BY <1>7, Zenon DEF PushLoad, PushCasFail
  <2>2. m.pc = "push_store"
    BY <1>1, Zenon DEF Local
  <2> HIDE DEF m
  <2>3. QED BY <2>1, <2>2, PlainMoves, Zenon
<1>8. CASE PushStore(t)
  <2> DEFINE m == [k EXCEPT !.pc = "push_cas"]
  <2>1. loc' = [loc EXCEPT ![t] = m] /\ UNCHANGED reply
    BY <1>8, Zenon DEF PushStore
  <2>2. m.pc = "push_cas"
    BY <1>1, Zenon DEF Local
  <2> HIDE DEF m
  <2>3. QED BY <2>1, <2>2, PlainMoves, Zenon
<1>9. CASE PushCasOk(t)
  <2>1. Split(t, k.block, k.order) \/ Return(t, "ok")
    BY Zenon, <1>9 DEF PushCasOk
  <2>2. QED BY <2>1, SplitMoves, ReturnMoves, Zenon
<1>10. CASE RemoveLoad(t)
  <2> DEFINE m == [k EXCEPT !.pc = "rem_next", !.seen = head[k.order], !.prev = Null]
  <2>1. StartCheck(t, 1) \/ (loc' = [loc EXCEPT ![t] = m] /\ UNCHANGED reply)
    BY Zenon, <1>10 DEF RemoveLoad
  <2>2. m.pc = "rem_next"
    BY <1>1, Zenon DEF Local
  <2> HIDE DEF m
  <2>3. QED BY <2>1, <2>2, PlainMoves, CheckMoves, Zenon
<1>11. CASE RemoveNext(t)
  <2> DEFINE m == [k EXCEPT !.pc = "rem_cas", !.nxt = next[k.seen]]
             n == [k EXCEPT !.prev = k.seen, !.seen = next[k.seen]]
  <2>1. /\ k.pc = "rem_next"
        /\ \/ StartCheck(t, 1)
           \/ loc' = [loc EXCEPT ![t] = m] /\ UNCHANGED reply
           \/ loc' = [loc EXCEPT ![t] = n] /\ UNCHANGED reply
    BY <1>11, Zenon DEF RemoveNext, At
  <2>2. m.pc = "rem_cas" /\ n.pc = "rem_next"
    BY <1>1, <2>1, Zenon DEF Local
  <2> HIDE DEF m, n
  <2>3. QED BY <2>1, <2>2, PlainMoves, CheckMoves, Zenon
<1>12. CASE RemoveCasHead(t) \/ RemoveCasInner(t)
  <2>1. Merged(t) \/ RetryRemove(t)
    BY Zenon, <1>12 DEF RemoveCasHead, RemoveCasInner
  <2>2. QED BY Zenon, <2>1, MergeMoves
<1>13. CASE WalkLoad(t)
  <2> DEFINE m == [k EXCEPT !.pc = "walk_next", !.seen = head[CheckOrder(k)]]
  <2>1. StartCheck(t, k.check + 1) \/ (loc' = [loc EXCEPT ![t] = m] /\ UNCHANGED reply)
    BY Zenon, <1>13 DEF WalkLoad
  <2>2. m.pc = "walk_next"
    BY <1>1, Zenon DEF Local
  <2> HIDE DEF m
  <2>3. QED BY <2>1, <2>2, PlainMoves, CheckMoves, Zenon
<1>14. CASE WalkNext(t)
  <2> DEFINE m == [k EXCEPT !.seen = next[k.seen]]
  <2>1. /\ k.pc = "walk_next"
        /\ \/ Return(t, "unknown_ptr") /\ Refused(t)
           \/ StartCheck(t, k.check + 1)
           \/ loc' = [loc EXCEPT ![t] = m] /\ UNCHANGED reply
    BY <1>14, Zenon DEF WalkNext, At, Refused
  <2>2. m.pc = "walk_next"
    BY <1>1, <2>1, Zenon DEF Local
  <2> HIDE DEF m
  <2>3. ASSUME Return(t, "unknown_ptr"), Refused(t) PROVE Moves(t)
    BY <2>3, ReturnMoves, Zenon
  <2>4. QED BY <2>1, <2>2, <2>3, PlainMoves, CheckMoves, Zenon
<1>15. QED BY Zenon, <1>2, <1>3, <1>4, <1>5, <1>6, <1>7, <1>8, <1>9, <1>10, <1>11, <1>12, <1>13, <1>14
           DEF Step

-----------------------------------------------------------------------------
(* Blocks that start where their order may start.                          *)

\* A number is not both an even and an odd multiple.
LEMMA EvenOrOdd ==
  ASSUME NEW S \in Nat \ {0}, NEW i \in Nat, NEW j \in Nat, i * (2 * S) + S = j * (2 * S)
  PROVE  FALSE
<1>1. PICK T \in Nat \ {0} : T = 2 * S
  OBVIOUS
<1>2. PICK x \in Nat : x = i * T
  BY <1>1
<1>3. PICK y \in Nat : y = j * T
  BY <1>1
<1>4. x + S = y
  BY <1>1, <1>2, <1>3, Zenon
<1>5. CASE j <= i
  <2>1. j * T <= i * T
    BY <1>5
  <2>2. QED BY <1>2, <1>3, <1>4, <2>1
<1>6. CASE j >= i + 1
  <2>1. j * T >= (i + 1) * T
    BY <1>6
  <2>2. (i + 1) * T = x + T
    BY <1>2
  <2>3. QED BY <1>1, <1>3, <1>4, <2>1, <2>2
<1>7. QED BY <1>5, <1>6

\* free never finds the block that it is given, or the buddy of that block as a
\* larger block, in a free list.
LEMMA NotRefused ==
  ASSUME SizeLaws, IInv, AlignInv, NEW t \in Threads, WalkNext(t)
  PROVE  ~Refused(t)
<1>1. SUFFICES ASSUME loc[t].seen = CheckFor(loc[t])
               PROVE  FALSE
  BY Zenon DEF Refused
<1>2. loc[t].pc = "walk_next" /\ loc[t].pc \in WalkAt
  BY Zenon DEF WalkNext, At, WalkAt
<1>3. /\ loc[t] \in Local /\ CallOK(loc[t]) /\ RemoveOK(loc[t]) /\ loc[t].op = "free"
      /\ loc[t].check \in 1 .. 3 /\ CheckOrder(loc[t]) \in Orders
  BY <1>2, CheckFacts, Zenon
<1>4. PICK p \in Pages : p = loc[t].block
  BY <1>3, Zenon DEF Local
<1>5. PICK o \in Orders : o = loc[t].order
  BY <1>3, Zenon DEF Local
<1>6. CheckFor(loc[t]) \in Members(CheckOrder(loc[t]))
  BY <1>1, <1>2, <1>3, Zenon DEF RemoveOK
<1>7. InHand(loc[t]) = {<<p, o>>}
  BY <1>3, <1>4, <1>5, Zenon DEF InHand
<1>8. \A k \in Orders : p \notin Members(k)
  <2>1. <<p, o>> \in held[t] \cup InHand(loc[t])
    BY <1>7, Zenon
  <2>2. QED BY Zenon, <2>1, NotFree DEF IInv, PartInv
<1>9. loc[t].check = 3
  <2>1. loc[t].check # 3 => CheckFor(loc[t]) = p
    BY <1>4, Zenon DEF CheckFor
  <2>2. QED BY Zenon, <1>3, <1>6, <1>8, <2>1
<1>10. PICK q : q = BuddyOf(p, o)
  BY Zenon
<1>11. o + 1 \in Orders /\ q \in Members(o + 1)
  BY <1>3, <1>4, <1>5, <1>6, <1>9, <1>10 DEF CheckOrder, CheckFor
<1>12. q \in Pages /\ q \in Nat /\ p \in Nat /\ o \in Nat
  BY <1>11, ChainFacts, PageFacts, OrderFacts, Zenon DEF Members
<1>13. PICK x \in Owned : x = <<"free", o + 1, <<q, o + 1>>>>
  BY <1>11, OwnedIff, Zenon
<1>14. PICK y \in Owned : y = <<"hand", t, <<p, o>>>>
  BY <1>7, OwnedIff, Zenon
<1>15. x # y /\ x[3] = <<q, o + 1>> /\ y[3] = <<p, o>>
  BY <1>13, <1>14, Zenon
<1>16. PagesOf(<<q, o + 1>>) \cap PagesOf(<<p, o>>) = {}
  <2>1. PagesOf(x[3]) \cap PagesOf(y[3]) = {}
    BY <1>15, Zenon DEF IInv, PartInv, Apart
  <2>2. QED BY Zenon, <1>15, <2>1
<1>17. Aligned(q, o + 1) /\ Aligned(p, o)
  <2>1. Aligned(x[3][1], x[3][2]) /\ Aligned(y[3][1], y[3][2])
    BY Zenon DEF AlignInv, BlocksAligned
  <2>2. x[3][1] = q /\ x[3][2] = o + 1 /\ y[3][1] = p /\ y[3][2] = o
    BY <1>13, <1>14, Zenon
  <2>3. QED BY Zenon, <2>1, <2>2
<1>18. PICK S \in Nat \ {0} : S = Size[o] /\ Size[o + 1] = 2 * S
  BY <1>12, Zenon DEF SizeLaws
<1>19. CASE q > p
  <2>1. Aligned(p, o + 1)
    BY <1>10, <1>12, <1>17, <1>19, AlignedMerge, Zenon
  <2>2. o + 1 \in Nat
    BY <1>12
  <2>3. PICK i \in Nat : p = i * Size[o + 1]
    BY <1>12, <2>1, <2>2, AlignedFacts, Zenon
  <2>4. PICK j \in Nat : q = j * Size[o + 1]
    BY <1>12, <1>17, <2>2, AlignedFacts, Zenon
  <2>5. q = p + S
    <3>1. q = p + S \/ q = p - S
      BY <1>10, <1>18, Zenon DEF BuddyOf
    <3>2. QED BY <1>12, <1>18, <1>19, <3>1
  <2>6. i * (2 * S) + S = j * (2 * S)
    BY Zenon, <1>18, <2>3, <2>4, <2>5
  <2>7. QED BY <2>6, EvenOrOdd, Zenon
<1>20. CASE ~(q > p)
  <2>1. q = p - S
    <3>1. q = p + S \/ q = p - S
      BY <1>10, <1>18, Zenon DEF BuddyOf
    <3>2. QED BY <1>12, <1>18, <1>20, <3>1
  <2>2. q + Size[o] = p
    BY <1>12, <1>18, <2>1
  <2>3. p \in PagesOf(<<p, o>>)
    BY <1>12, Halves, Zenon
  <2>4. PagesOf(<<q, o + 1>>) = PagesOf(<<q, o>>) \cup PagesOf(<<q + Size[o], o>>)
    BY <1>12, Halves, Zenon
  <2>5. p \in PagesOf(<<q, o + 1>>)
    BY Zenon, <2>2, <2>3, <2>4
  <2>6. QED BY <1>16, <2>3, <2>5, Zenon
<1>21. QED BY <1>19, <1>20, Zenon

\* What holds of memory that is added where the largest blocks may start.
SafeInv == AlignInv /\ NoPageLost /\ FreeAccepted

\* The step of a thread that keeps the blocks and does not refuse one.
LEMMA SafeCall ==
  ASSUME IInv, SafeInv, NEW t \in Threads, Kept, Moves(t), ~Refused(t), UNCHANGED <<region, added>>
  PROVE  SafeInv'
<1>1. AlignInv'
  BY Zenon DEF SafeInv, AlignInv, Kept, Aligned
<1>2. NoPageLost'
  <2>1. Uncut' = Uncut /\ Given' = Given
    BY Zenon DEF Uncut, Given
  <2>2. Given = Cover(Owned) \cup Uncut
    BY Zenon DEF SafeInv, NoPageLost, Cover
  <2>3. Given' = Cover(Owned)' \cup Uncut'
    BY Zenon, <2>1, <2>2 DEF Kept
  <2>4. QED BY Zenon, <2>3 DEF NoPageLost, Cover
<1>3. FreeAccepted'
  <2>1. reply'[t] # "unknown_ptr"
    BY Zenon DEF SafeInv, FreeAccepted, Moves, Progress
  <2>2. QED BY Zenon, <2>1 DEF SafeInv, FreeAccepted, Moves
<1>4. QED BY <1>1, <1>2, <1>3, Zenon DEF SafeInv

LEMMA CoarseAligned ==
  ASSUME SizeLaws, Coarse, NEW r \in Regions, r[1] \div PageLen \in Nat, MaxOrder - 1 \in Nat
  PROVE  Aligned(r[1] \div PageLen, MaxOrder - 1)
<1>1. PICK p \in Nat : p = r[1] \div PageLen
  BY Zenon
<1>2. PICK S \in Nat \ {0} : S = Size[MaxOrder - 1]
  BY Zenon DEF SizeLaws
<1>3. p % S = 0
  BY <1>1, <1>2, Zenon DEF Coarse
<1>4. p \div S \in Nat /\ p = (p \div S) * S
  BY <1>3
<1>5. QED BY <1>1, <1>2, <1>4, AlignedFacts, Zenon

LEMMA SafeStep ==
  ASSUME SizeLaws, WellGiven, SafeUse, Coarse, IInv, SafeInv, [Next]_vars
  PROVE  SafeInv'
<1>1. CASE UNCHANGED vars
  <2>1. UNCHANGED <<region, added, reply>> /\ Owned' = Owned
    BY Zenon, <1>1, StutterStep DEF vars
  <2>2. QED BY Zenon, <2>1 DEF SafeInv, AlignInv, BlocksAligned, Aligned, NoPageLost, FreeAccepted,
                              Given, Uncut
<1>2. CASE Next
  <2>1. UNCHANGED usage
    BY Zenon, <1>2 DEF Next
  <2>2. ASSUME NEW r \in Regions, AddRegion(r[1], r[2]) PROVE SafeInv'
    <3>1. Owned' = Owned /\ NoPageLost' /\ UNCHANGED reply
      BY Zenon, <2>1, <2>2, AddRegionStep DEF SafeInv, AddRegion
    <3>2. ASSUME region'.left > 0 PROVE Aligned(region.block, region.order)'
      <4>1. region'.block = r[1] \div PageLen /\ region'.order = MaxOrder - 1
        BY Zenon, <2>1, <2>2, <3>2, AddRegionStep
      <4>2. r[1] \div PageLen \in Nat /\ MaxOrder - 1 \in Nat
        BY RegionPages, OrderFacts, Zenon
      <4>3. Aligned(r[1] \div PageLen, MaxOrder - 1)
        BY <4>2, CoarseAligned, Zenon
      <4>4. QED BY Zenon, <4>1, <4>3 DEF Aligned
    <3>3. AlignInv'
      BY Zenon, <3>1, <3>2 DEF SafeInv, AlignInv, BlocksAligned, Aligned
    <3>4. QED BY Zenon, <3>1, <3>3 DEF SafeInv, FreeAccepted
  <2>3. ASSUME AddBlock PROVE SafeInv'
    <3>1. AlignInv' /\ NoPageLost' /\ UNCHANGED reply
      BY Zenon, <2>1, <2>3, AddBlockStep DEF SafeInv, AddBlock
    <3>2. QED BY Zenon, <3>1 DEF SafeInv, FreeAccepted
  <2>4. ASSUME NEW t \in usage.threads, NEW n \in 1 .. MaxRequest, Allocate(t, n) PROVE SafeInv'
    <3>1. t \in Threads /\ Owned' = Owned /\ UNCHANGED <<region, added>> /\ TypeOK
      BY Zenon, <2>1, <2>4, UserIsThread, AllocateStep DEF Allocate, IInv
    <3>2. Kept /\ Moves(t)
      BY Zenon, <2>4, <3>1, KeptSame, AllMove
    <3>3. ~Refused(t)
      BY <2>4, Zenon DEF Allocate, Refused, WalkNext, At
    <3>4. QED BY Zenon, <3>1, <3>2, <3>3, SafeCall
  <2>5. ASSUME NEW t \in usage.threads, NEW b \in held[t], Free(t, b[1], b[2]) PROVE SafeInv'
    <3>1. t \in Threads /\ Kept /\ UNCHANGED <<region, added>> /\ TypeOK
      BY Zenon, <2>1, <2>5, UserIsThread, FreeStep DEF Free, IInv
    <3>2. Moves(t)
      BY Zenon, <2>5, <3>1, AllMove
    <3>3. ~Refused(t)
      BY <2>5, Zenon DEF Free, Refused, WalkNext, At
    <3>4. QED BY Zenon, <3>1, <3>2, <3>3, SafeCall
  <2>6. ASSUME NEW t \in usage.threads, Step(t) PROVE SafeInv'
    <3>1. t \in Threads /\ TypeOK /\ AlignInv
      BY Zenon, UserIsThread DEF IInv, SafeInv
    <3>2. ~Refused(t)
      BY Zenon, <3>1, NotRefused DEF Refused
    <3>3. Kept /\ Moves(t)
      BY Zenon, <2>1, <2>6, <3>1, <3>2, CallStep, AllMove
    <3>4. UNCHANGED <<region, added>>
      BY Zenon, <2>6 DEF Step, PopLoad, PopNext, PopCasOk, PopCasFail, PushLoad, PushStore, PushCasOk,
           PushCasFail, RemoveLoad, RemoveNext, RemoveCasHead, RemoveCasInner, WalkLoad, WalkNext
    <3>5. QED BY Zenon, <3>1, <3>2, <3>3, <3>4, SafeCall
  <2>7. QED BY Zenon, <1>2, <2>2, <2>3, <2>4, <2>5, <2>6 DEF Next
<1>3. QED BY Zenon, <1>1, <1>2

-----------------------------------------------------------------------------
(* What a call has seen.                                                   *)

\* Boot goes on with no call in progress, or one thread moves on in its call.
LEMMA NextMoves ==
  ASSUME IInv, Next
  PROVE  /\ UNCHANGED usage
         /\ \/ \A t \in Threads : loc[t] = Idle /\ loc'[t] = Idle
            \/ \E t \in Threads : t \in usage.threads /\ Moves(t)
<1>1. UNCHANGED usage
  BY Zenon DEF Next
<1>2. ASSUME NEW r \in Regions, AddRegion(r[1], r[2]) PROVE \A t \in Threads : loc[t] = Idle /\ loc'[t] = Idle
  <2>1. added # Regions /\ UNCHANGED loc
    <3>1. r \in Nat \X Nat
      BY BuddyAssumption, Zenon
    <3>2. r = <<r[1], r[2]>>
      BY <3>1
    <3>3. QED BY Zenon, <1>2, <3>2 DEF AddRegion
  <2>2. QED BY Zenon, <2>1, BootIdle
<1>3. ASSUME AddBlock PROVE \A t \in Threads : loc[t] = Idle /\ loc'[t] = Idle
  <2>1. region.left > 0 /\ UNCHANGED loc
    BY Zenon, <1>3 DEF AddBlock
  <2>2. QED BY Zenon, <2>1, BootIdle
<1>4. ASSUME NEW t \in usage.threads,
             \/ \E n \in 1 .. MaxRequest : Allocate(t, n)
             \/ \E b \in held[t] : Free(t, b[1], b[2])
             \/ Step(t)
      PROVE  t \in Threads /\ Moves(t)
  <2>1. t \in Threads /\ TypeOK
    BY Zenon, UserIsThread DEF IInv
  <2>2. QED BY Zenon, <1>4, <2>1, AllMove
<1>5. QED BY Zenon, <1>1, <1>2, <1>3, <1>4 DEF Next

\* No call has taken what is not a header for one.
LEMMA ValidStep ==
  ASSUME IInv, IInv', HeadersAreValid, [Next]_vars
  PROVE  HeadersAreValid'
<1>1. Idle.seen = Null /\ Null # Garbage /\ Garbage \notin Pages
  BY PageFacts, Zenon DEF Idle
<1>2. CASE UNCHANGED vars
  BY Zenon, <1>2 DEF HeadersAreValid, vars
<1>3. CASE \A t \in Threads : loc[t] = Idle /\ loc'[t] = Idle
  BY Zenon, <1>1, <1>3 DEF HeadersAreValid
<1>4. ASSUME NEW t \in Threads, Moves(t) PROVE HeadersAreValid'
  <2>1. loc'[t].pc \in Labels
    BY Zenon DEF IInv, TypeOK, Local
  <2>2. CallOK(loc[t])' /\ PopOK(loc[t])' /\ PushOK(loc[t])' /\ RemoveOK(loc[t])'
    BY Zenon DEF IInv, LocInv
  <2>3. CASE loc'[t].pc \in LoadAt
    BY Zenon, <1>1, <1>4, <2>3 DEF Moves, Progress, HeadersAreValid
  <2>4. CASE loc'[t].pc \notin LoadAt
    <3>1. loc'[t].pc \in {"pop_next", "pop_cas", "push_store", "push_cas", "rem_next", "rem_cas", "walk_next"}
      BY <2>1, <2>2, <2>4, Zenon DEF Labels, LoadAt, CallOK
    <3>2. \A o : Members(o)' \subseteq Pages
      BY ChainFacts, Zenon DEF Members
    <3>3. loc'[t].seen \in Pages \cup {Null}
      BY <2>2, <3>1, <3>2, Zenon DEF PopOK, PushOK, RemoveOK
    <3>4. QED BY Zenon, <1>1, <1>4, <3>3 DEF Moves, HeadersAreValid
  <2>5. QED BY <2>3, <2>4, Zenon
<1>5. QED BY Zenon, <1>2, <1>3, <1>4, NextMoves

\* While the only thread looks for a block, the lists that it has seen are empty.
SearchInv ==
  \A t \in Threads : usage.threads = {t} /\ loc[t].pc \in PopAt =>
    \A k \in Orders : loc[t].want <= k /\ k < loc[t].order => head[k] = Null

LEMMA SearchStep ==
  ASSUME IInv, IInv', SearchInv, [Next]_vars
  PROVE  SearchInv'
<1>1. Idle.pc \notin PopAt
  BY Zenon DEF Idle, PopAt
<1>2. CASE UNCHANGED vars
  BY Zenon, <1>2 DEF SearchInv, vars
<1>3. CASE \A t \in Threads : loc[t] = Idle /\ loc'[t] = Idle
  BY Zenon, <1>1, <1>3 DEF SearchInv
<1>4. ASSUME NEW t \in Threads, t \in usage.threads, Moves(t), UNCHANGED usage PROVE SearchInv'
  <2>1. SUFFICES ASSUME NEW u \in Threads, usage'.threads = {u}, loc'[u].pc \in PopAt, NEW k \in Orders,
                        loc'[u].want <= k, k < loc'[u].order
                 PROVE  head'[k] = Null
    BY Zenon DEF SearchInv
  <2>2. u = t /\ usage.threads = {t}
    BY <1>4, <2>1, Zenon
  <2>3. Searches(t, loc'[t]) /\ head' = head
    BY Zenon, <1>4, <2>1, <2>2 DEF Moves, Progress
  <2>4. loc'[t].want \in Nat /\ loc'[t].order \in Nat /\ loc[t].order \in Nat /\ k \in Nat
    BY OrderFacts, Zenon DEF IInv, TypeOK, Local
  <2>5. loc'[t].order # loc'[t].want
    BY <2>1, <2>2, <2>4
  <2>6. /\ loc[t].pc \in PopAt /\ loc'[t].want = loc[t].want
        /\ \/ loc'[t].order = loc[t].order
           \/ loc'[t].order = loc[t].order + 1 /\ head[loc[t].order] = Null
    BY Zenon, <2>3, <2>5 DEF Searches
  <2>7. k < loc[t].order \/ (k = loc[t].order /\ head[loc[t].order] = Null)
    BY <2>1, <2>2, <2>4, <2>6
  <2>8. loc[t].want <= k
    BY Zenon, <2>1, <2>2, <2>6
  <2>9. QED BY Zenon, <2>2, <2>3, <2>6, <2>7, <2>8 DEF SearchInv
<1>5. QED BY Zenon, <1>2, <1>3, <1>4, NextMoves

\* A call of the only thread finds no block for one page.
LEMMA FullStep ==
  ASSUME IInv, NoPageLost, SearchInv, Next, NEW t \in Threads, usage.threads = {t},
         loc[t].op = "alloc", loc[t].want = 0, loc'[t].pc = "idle", reply'[t] = "out_of_memory"
  PROVE  Given = UNION {PagesOf(b) : b \in held[t]}
<1>1. Idle.op = "none"
  BY Zenon DEF Idle
<1>2. \E u \in Threads : u \in usage.threads /\ Moves(u)
  BY Zenon, <1>1, NextMoves
<1>3. Exhausted(t)
  <2>1. Moves(t)
    BY <1>2, Zenon
  <2>2. QED BY Zenon, <2>1 DEF Moves, Progress
<1>4. loc[t].pc \in PopAt /\ loc[t].pc # "idle" /\ head[loc[t].order] = Null /\ ~(loc[t].order + 1 < MaxOrder)
  BY <1>3, Zenon DEF Exhausted, PopAt
<1>5. loc[t].order \in Nat /\ loc[t].order < MaxOrder /\ MaxOrder \in Nat
  BY OrderFacts, BuddyAssumption, Zenon DEF IInv, TypeOK, Local
<1>6. \A k \in Orders : head[k] = Null
  <2>1. \A k \in Orders : k \in Nat /\ k < MaxOrder
    BY OrderFacts, Zenon
  <2>2. \A k \in Orders : k = loc[t].order \/ (loc[t].want <= k /\ k < loc[t].order)
    BY <1>4, <1>5, <2>1
  <2>3. QED BY Zenon, <1>4, <2>2 DEF SearchInv
<1>7. \A k \in Orders : Members(k) = {}
  BY <1>6, ChainNull, Zenon DEF Members
<1>8. \A u \in Threads : u # t => loc[u] = Idle /\ held[u] = {}
  BY Zenon DEF IInv, UseInv
<1>9. \A u \in Threads : InHand(loc[u]) = {}
  <2>1. CallOK(loc[t])
    BY LocFacts, Zenon
  <2>2. InHand(loc[t]) = {}
    BY <1>4, <2>1, PopHand, Zenon
  <2>3. QED BY Zenon, <1>8, <2>2, IdleOK
<1>10. \A x : x \in Owned <=> \E b \in held[t] : x = <<"held", t, b>>
  BY Zenon, <1>7, <1>8, <1>9, OwnedIff
<1>11. Cover(Owned) = UNION {PagesOf(b) : b \in held[t]}
  <2>1. \A n : n \in Cover(Owned) <=> \E x \in Owned : n \in PagesOf(x[3])
    BY CoverFacts, Zenon
  <2>2. \A x \in Owned : x[3] \in held[t]
    BY <1>10
  <2>3. ASSUME NEW b \in held[t] PROVE \E x \in Owned : x[3] = b
    <3>1. <<"held", t, b>> \in Owned /\ <<"held", t, b>>[3] = b
      BY <1>10, Zenon
    <3>2. QED BY Zenon, <3>1
  <2>4. \A n : n \in Cover(Owned) <=> \E b \in held[t] : n \in PagesOf(b)
    BY Zenon, <2>1, <2>2, <2>3
  <2>5. QED BY <2>4, Zenon
<1>12. Uncut = {}
  <2>1. Sharing(t)
    BY <1>4, CallerShares, Zenon
  <2>2. region.block \in Nat
    BY DEF IInv, TypeOK
  <2>3. QED BY <2>1, <2>2 DEF Sharing, Uncut
<1>13. QED BY <1>11, <1>12, Zenon DEF NoPageLost, Cover

-----------------------------------------------------------------------------
(* The sizes of blocks.                                                    *)

INSTANCE WellFoundedInduction

LEMMA Least ==
  ASSUME NEW T, T \subseteq Nat, T # {}
  PROVE  \E n \in T : \A m \in T : n <= m
<1> DEFINE R == OpToRel(<, Nat)
<1>1. IsWellFoundedOn(R, Nat)
  BY NatLessThanWellFounded, Zenon
<1>2. R = {s \in Nat \X Nat : s[1] < s[2]}
  BY Zenon DEF OpToRel
<1> HIDE DEF R
<1>3. PICK n \in T : \A m \in T : ~(<<m, n>> \in R)
  BY <1>1, WFMin, Zenon
<1>4. \A m \in T : ~(m < n)
  BY <1>2, <1>3, Zenon
<1>5. QED BY <1>4

\* Induction, for a set rather than a predicate.
LEMMA FromZero ==
  ASSUME NEW T, 0 \in T, \A n \in Nat : n \in T => n + 1 \in T
  PROVE  Nat \subseteq T
<1> SUFFICES ASSUME ~(Nat \subseteq T) PROVE FALSE
  BY Zenon
<1>1. PICK n \in Nat \ T : \A m \in Nat \ T : n <= m
  BY Least, Zenon
<1>2. n # 0
  BY Zenon
<1>3. n - 1 \in Nat /\ n - 1 \in T
  BY <1>1, <1>2
<1>4. QED BY <1>3

\* The first n + 1 sizes.
Sizes(n, f) ==
  f \in [0 .. n -> Nat] /\ f[0] = 1 /\ \A k \in 1 .. n : f[k] = 2 * f[k - 1]

LEMMA SizesExist ==
  \A n \in Nat : \E f : Sizes(n, f)
<1> DEFINE T == {n \in Nat : \E f : Sizes(n, f)}
<1>1. 0 \in T
  <2>1. [k \in 0 .. 0 |-> 1] \in [0 .. 0 -> Nat] /\ [k \in 0 .. 0 |-> 1][0] = 1 /\ 1 .. 0 = {}
    OBVIOUS
  <2>2. Sizes(0, [k \in 0 .. 0 |-> 1])
    BY <2>1, Zenon DEF Sizes
  <2>3. QED BY <2>2, Zenon
<1>2. ASSUME NEW n \in Nat, n \in T PROVE n + 1 \in T
  <2>1. PICK f : Sizes(n, f)
    BY <1>2, Zenon
  <2> DEFINE g == [k \in 0 .. n + 1 |-> IF k <= n THEN f[k] ELSE 2 * f[n]]
  <2>2. f \in [0 .. n -> Nat] /\ f[0] = 1 /\ \A k \in 1 .. n : f[k] = 2 * f[k - 1]
    BY <2>1, Zenon DEF Sizes
  <2>3. g \in [0 .. n + 1 -> Nat]
    BY <2>2
  <2>4. g[0] = 1
    BY <2>2
  <2>5. \A k \in 1 .. n + 1 : g[k] = 2 * g[k - 1]
    <3> TAKE k \in 1 .. n + 1
    <3>1. k \in 0 .. n + 1 /\ k - 1 \in 0 .. n /\ k - 1 \in 0 .. n + 1
      OBVIOUS
    <3>2. g[k - 1] = f[k - 1]
      BY <3>1
    <3>3. CASE k <= n
      BY <2>2, <3>1, <3>2, <3>3
    <3>4. CASE k = n + 1
      BY <2>2, <3>1, <3>2, <3>4
    <3>5. QED BY <3>3, <3>4
  <2>6. Sizes(n + 1, g)
    BY <2>3, <2>4, <2>5, Zenon DEF Sizes
  <2>7. QED BY <2>6
<1> HIDE DEF T
<1>3. Nat \subseteq T
  BY <1>1, <1>2, FromZero, Zenon
<1>4. QED BY <1>3, Zenon DEF T

LEMMA SizesAgree ==
  ASSUME NEW n \in Nat, NEW f, NEW g, Sizes(n, f), Sizes(n + 1, g)
  PROVE  f[n] = g[n]
<1> DEFINE T == {k \in Nat : k <= n => f[k] = g[k]}
<1>1. 0 \in T
  BY Zenon DEF Sizes
<1>2. ASSUME NEW k \in Nat, k \in T PROVE k + 1 \in T
  <2>1. SUFFICES ASSUME k + 1 <= n PROVE f[k + 1] = g[k + 1]
    OBVIOUS
  <2>2. k + 1 \in 1 .. n /\ k + 1 \in 1 .. n + 1 /\ (k + 1) - 1 = k
    BY <2>1
  <2>3. f[k + 1] = 2 * f[k] /\ g[k + 1] = 2 * g[k]
    BY <2>2, Zenon DEF Sizes
  <2>4. QED BY <1>2, <2>1, <2>3
<1> HIDE DEF T
<1>3. Nat \subseteq T
  BY <1>1, <1>2, FromZero, Zenon
<1>4. QED BY <1>3 DEF T

LEMMA SizeDef ==
  Size = [o \in Nat |-> IF o = 0 THEN 1 ELSE 2 * Size[o - 1]]
<1> DEFINE G(n) == CHOOSE f : Sizes(n, f)
           F == [n \in Nat |-> G(n)[n]]
<1>1. \A n \in Nat : Sizes(n, G(n))
  BY Zenon, SizesExist
<1> HIDE DEF G
<1>2. F[0] = 1
  BY <1>1, Zenon DEF Sizes
<1>3. ASSUME NEW n \in Nat PROVE F[n + 1] = 2 * F[n]
  <2>1. Sizes(n, G(n)) /\ Sizes(n + 1, G(n + 1))
    BY <1>1
  <2>2. G(n)[n] = G(n + 1)[n]
    BY <2>1, SizesAgree, Zenon
  <2>3. n + 1 \in 1 .. n + 1 /\ (n + 1) - 1 = n
    OBVIOUS
  <2>4. G(n + 1)[n + 1] = 2 * G(n + 1)[n]
    BY <2>1, <2>3, Zenon DEF Sizes
  <2>5. QED BY <2>2, <2>4
<1>4. \A n \in Nat : F[n] = IF n = 0 THEN 1 ELSE 2 * F[n - 1]
  <2> TAKE n \in Nat
  <2>1. CASE n # 0
    <3>1. n - 1 \in Nat /\ (n - 1) + 1 = n
      BY <2>1
    <3>2. QED BY <1>3, <2>1, <3>1, Zenon
  <2>2. QED BY <1>2, <2>1, Zenon
<1>5. F = [n \in Nat |-> F[n]]
  BY Zenon
<1> HIDE DEF F
<1>6. F = [n \in Nat |-> IF n = 0 THEN 1 ELSE 2 * F[n - 1]]
  BY <1>4, <1>5, Zenon
<1>7. \E S : S = [n \in Nat |-> IF n = 0 THEN 1 ELSE 2 * S[n - 1]]
  BY Zenon, <1>6
<1>8. QED BY Zenon, <1>7 DEF Size

LEMMA SizesGrow ==
  SizeLaws
<1>1. Size[0] = 1 /\ \A o \in Nat : Size[o + 1] = 2 * Size[o]
  BY SizeDef
<1> DEFINE T == {o \in Nat : Size[o] \in Nat /\ Size[o] >= o + 1}
<1>2. 0 \in T
  BY <1>1
<1>3. ASSUME NEW o \in Nat, o \in T PROVE o + 1 \in T
  <2>1. Size[o] \in Nat /\ Size[o] >= o + 1 /\ Size[o + 1] = 2 * Size[o]
    BY <1>1, <1>3, Zenon
  <2>2. QED BY <2>1
<1>4. \A o \in Nat : Size[o] \in Nat /\ Size[o] >= o + 1
  BY <1>2, <1>3, FromZero, Zenon
<1>5. \A o \in Nat : Size[o] \in Nat \ {0}
  BY <1>4
<1>6. ASSUME NEW n \in Nat \ {0} PROVE OrderOf(n) \in Nat
  <2> DEFINE E == {o \in Nat : Size[o] >= n}
             P(o) == Size[o] >= n /\ \A q \in 0 .. o - 1 : Size[q] < n
  <2>1. n \in E
    BY <1>4
  <2>2. PICK o \in E : \A m \in E : o <= m
    BY <2>1, Least, Zenon
  <2>3. o \in 0 .. n /\ Size[o] >= n
    BY <2>1, <2>2
  <2>4. \A q \in 0 .. o - 1 : Size[q] < n
    BY <1>4, <2>2
  <2>5. \E x \in 0 .. n : P(x)
    BY <2>3, <2>4, Zenon
  <2>6. OrderOf(n) = CHOOSE x \in 0 .. n : P(x)
    BY Zenon DEF OrderOf
  <2> HIDE DEF P
  <2>7. OrderOf(n) \in 0 .. n
    BY Zenon, <2>5, <2>6
  <2>8. QED BY <2>7
<1>7. QED BY Zenon, <1>1, <1>5, <1>6 DEF SizeLaws

-----------------------------------------------------------------------------
(* Theorems.                                                               *)

\* The invariant of the lists, the blocks and the calls in progress.
LEMMA Invariance ==
  ASSUME WellGiven, SafeUse
  PROVE  Spec => []IInv
<1>1. SizeLaws
  BY SizesGrow, Zenon
<1>2. Init => IInv
  BY InitStep, Zenon
<1>3. IInv /\ [Next]_vars => IInv'
  BY <1>1, NextStep, Zenon
<1>4. QED BY <1>2, <1>3, PTL DEF Spec

\* Heads, headers and local variables stay in range, whatever the number of
\* threads, pages and orders: in particular no call looks up an order that
\* free_blocks does not have, and none panics.
THEOREM BuddyTypes ==
  ASSUME WellGiven, SafeUse
  PROVE  Spec => []TypeOK
<1>1. IInv => TypeOK
  BY Zenon DEF IInv
<1>2. QED BY <1>1, Invariance, PTL

\* No call panics: free is never left without a list one order up, and the walk
\* of a list never reaches an order that free_blocks does not have.
THEOREM CallsNeverPanic ==
  ASSUME WellGiven, SafeUse
  PROVE  Spec => [](\A t \in Threads : loc[t].pc # "panic")
<1>1. IInv => \A t \in Threads : loc[t].pc # "panic"
  BY Zenon DEF IInv, LocInv, CallOK
<1>2. QED BY <1>1, Invariance, PTL

\* Whatever the threads that allocate, and however their list updates race, no
\* page belongs to two of the blocks that are free, given out or in the hands of
\* a call: allocate_pages never gives out a page twice.
THEOREM BlocksStayDisjoint ==
  ASSUME WellGiven, SafeUse
  PROVE  Spec => []BlocksDisjoint
<1>1. IInv => BlocksDisjoint
  BY Zenon DEF IInv, PartInv, Apart, BlocksDisjoint
<1>2. QED BY <1>1, Invariance, PTL

\* No thread takes for a header what the owner of a block wrote over it: a block
\* that a thread has seen in a list and that has left the list since then makes
\* the thread's compare and exchange fail.
THEOREM HeadersStayValid ==
  ASSUME WellGiven, SafeUse
  PROVE  Spec => []HeadersAreValid
<1>1. Init => HeadersAreValid
  <2>1. Idle.seen # Garbage
    BY PageFacts, Zenon DEF Idle
  <2>2. QED BY <2>1, Zenon DEF Init, HeadersAreValid
<1>2. IInv /\ IInv' /\ HeadersAreValid /\ [Next]_vars => HeadersAreValid'
  BY ValidStep, Zenon
<1>3. QED BY <1>1, <1>2, Invariance, PTL DEF Spec

\* With memory added where the largest blocks may start, blocks start where
\* their order may start, cover the memory that was added, and are taken back.
LEMMA SafeInvariance ==
  ASSUME WellGiven, SafeUse, Coarse
  PROVE  Spec => []SafeInv
<1>1. SizeLaws
  BY SizesGrow, Zenon
<1>2. ASSUME Init PROVE SafeInv
  <2>1. Owned = {} /\ Given = {} /\ Uncut = {}
    BY <1>2, InitStep, Zenon
  <2>2. AlignInv
    BY <1>2, <2>1 DEF Init, AlignInv, BlocksAligned
  <2>3. NoPageLost
    BY <2>1, Zenon DEF NoPageLost
  <2>4. FreeAccepted
    BY <1>2, Zenon DEF Init, FreeAccepted
  <2>5. QED BY <2>2, <2>3, <2>4, Zenon DEF SafeInv
<1>3. IInv /\ SafeInv /\ [Next]_vars => SafeInv'
  BY <1>1, SafeStep, Zenon
<1>4. QED BY <1>2, <1>3, Invariance, PTL DEF Spec

\* Every page that was added stays in exactly one block, and no block reaches
\* outside of the memory that was added, through splits, merges and races.
THEOREM PagesNeverLost ==
  ASSUME WellGiven, SafeUse, Coarse
  PROVE  Spec => []NoPageLost
<1>1. SafeInv => NoPageLost
  BY Zenon DEF SafeInv
<1>2. QED BY <1>1, SafeInvariance, PTL

\* free takes back every block that allocate gave out: its three walks over the
\* free lists never find the block or its buddy.
THEOREM FreesNeverRefused ==
  ASSUME WellGiven, SafeUse, Coarse
  PROVE  Spec => []FreeAccepted
<1>1. SafeInv => FreeAccepted
  BY Zenon DEF SafeInv
<1>2. QED BY <1>1, SafeInvariance, PTL

\* A request for one page by the only thread fails only when every page that
\* was added is with it: allocate looks at the lists of all the orders.
THEOREM OutOfMemoryWhenFull ==
  ASSUME WellGiven, SafeUse, Coarse
  PROVE  Spec => OutOfMemoryMeansFull
<1>1. Init => SearchInv
  <2>1. Idle.pc \notin PopAt
    BY Zenon DEF Idle, PopAt
  <2>2. QED BY <2>1, Zenon DEF Init, SearchInv
<1>2. IInv /\ IInv' /\ SearchInv /\ [Next]_vars => SearchInv'
  BY SearchStep, Zenon
<1>3. SafeInv => NoPageLost
  BY Zenon DEF SafeInv
<1> DEFINE Full == \A t \in Threads :
       usage.threads = {t} /\ loc[t].op = "alloc" /\ loc[t].want = 0
       /\ loc'[t].pc = "idle" /\ reply'[t] = "out_of_memory" =>
         Given = UNION {PagesOf(b) : b \in held[t]}
<1>4. IInv /\ NoPageLost /\ SearchInv /\ [Next]_vars => [Full]_vars
  BY FullStep, Zenon
<1>5. QED BY <1>1, <1>2, <1>3, <1>4, Invariance, SafeInvariance, PTL DEF Spec, OutOfMemoryMeansFull

=============================================================================
