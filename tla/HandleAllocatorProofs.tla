----------------------- MODULE HandleAllocatorProofs -----------------------
(***************************************************************************)
(* Theorems about HandleAllocator for every set of callers, every number   *)
(* of handles and every word size.                                         *)
(***************************************************************************)
EXTENDS HandleAllocator, TLAPS

\* The bits of a word are bits of that word, and the local variables of a
\* call in progress point into the word that the call works on.
WordInv == \A w \in Words : bits[w] \subseteq BitsOf(w)

LocalInv ==
  \A c \in Callers :
    /\ pc[c] \in {"next_load", "next_cas", "free_cas"} => word[c] \in Words
    /\ pc[c] = "free_load" /\ handle[c] < MaxHandle =>
         word[c] \in Words /\ handle[c] \in BitsOf(word[c])
    /\ pc[c] = "free_cas" =>
         handle[c] \in BitsOf(word[c]) /\ handle[c] \in current[c]

IInv == TypeOK /\ WordInv /\ LocalInv /\ Exclusive /\ BitsAreOwned
-----------------------------------------------------------------------------
(* Arithmetic of handles and words.                                        *)

\* Two words have no bit in common.
LEMMA WordsDisjoint ==
  ASSUME NEW v \in Nat, NEW w \in Nat, v # w
  PROVE  BitsOf(v) \cap BitsOf(w) = {}
<1>1. ASSUME NEW x \in Nat, NEW y \in Nat, x < y
      PROVE  x * WordBits + WordBits <= y * WordBits
  <2>1. y * WordBits = x * WordBits + (y - x) * WordBits
    BY ConstantsAssumption, <1>1
  <2>2. (y - x) * WordBits >= WordBits
    BY ConstantsAssumption, <1>1
  <2>3. x * WordBits \in Nat /\ y * WordBits \in Nat /\ (y - x) * WordBits \in Nat
    BY ConstantsAssumption, <1>1
  <2>4. QED BY <2>1, <2>2, <2>3, ConstantsAssumption
<1>2. v * WordBits \in Nat /\ w * WordBits \in Nat
  BY ConstantsAssumption
<1>3. CASE v < w
  BY <1>1, <1>2, <1>3, ConstantsAssumption DEF BitsOf
<1>4. CASE w < v
  BY <1>1, <1>2, <1>4, ConstantsAssumption DEF BitsOf
<1>5. QED BY <1>3, <1>4

\* handle / usize::BITS is the word of the handle, and it is a word of `bits`.
LEMMA WordOfHandle ==
  ASSUME NEW h \in Handles
  PROVE  /\ h \div WordBits \in Words
         /\ h \in BitsOf(h \div WordBits)
<1> DEFINE q == h \div WordBits
<1>1. q \in Nat /\ q * WordBits <= h /\ h < q * WordBits + WordBits
  BY ConstantsAssumption DEF Handles
<1>2. h \in BitsOf(q)
  BY <1>1, ConstantsAssumption DEF BitsOf, Handles
<1>3. q < NumWords
  BY <1>1, ConstantsAssumption DEF NumWords, Handles
<1>4. NumWords \in Nat
  BY ConstantsAssumption DEF NumWords
<1>5. QED BY <1>1, <1>2, <1>3, <1>4 DEF Words
-----------------------------------------------------------------------------
(* Type correctness and exclusive ownership.                               *)

\* A new allocator satisfies the inductive invariant.
LEMMA InitIInv == Init => IInv
<1> SUFFICES ASSUME Init PROVE IInv
  OBVIOUS
<1>1. TypeOK
  BY ConstantsAssumption DEF Init, TypeOK, Handles
<1>2. WordInv /\ LocalInv /\ Exclusive /\ BitsAreOwned
  BY DEF Init, WordInv, LocalInv, Exclusive, BitsAreOwned, Allocated
<1>3. QED BY <1>1, <1>2 DEF IInv

\* A call that starts changes no bit.
LEMMA EnterIInv ==
  ASSUME IInv, NEW c \in Callers,
         NextHandle(c) \/ \E h \in 0 .. MaxHandle : FreeHandle(c, h)
  PROVE  IInv'
<1>0. NumWords \in Nat \ {0}
  BY ConstantsAssumption DEF NumWords
<1>1. CASE NextHandle(c)
  <2>1. TypeOK'
    BY <1>1, ConstantsAssumption DEF IInv, TypeOK, NextHandle, Enter, Goto
  <2>2. LocalInv'
    BY <1>0, <1>1 DEF IInv, TypeOK, LocalInv, NextHandle, Enter, Goto, Words
  <2>3. WordInv' /\ Exclusive' /\ BitsAreOwned'
    BY <1>1 DEF IInv, WordInv, Exclusive, BitsAreOwned, Allocated, NextHandle, Enter
  <2>4. QED BY <2>1, <2>2, <2>3 DEF IInv
<1>2. ASSUME NEW h \in 0 .. MaxHandle, FreeHandle(c, h)
      PROVE  IInv'
  <2>1. TypeOK'
    BY <1>2, ConstantsAssumption DEF IInv, TypeOK, FreeHandle, Enter, Goto
  <2>2. LocalInv'
    <3>1. h < MaxHandle => h \div WordBits \in Words /\ h \in BitsOf(h \div WordBits)
      BY WordOfHandle, ConstantsAssumption DEF Handles
    <3>2. QED
      BY <1>2, <3>1 DEF IInv, TypeOK, LocalInv, FreeHandle, Enter, Goto
  <2>3. WordInv' /\ Exclusive' /\ BitsAreOwned'
    BY <1>2 DEF IInv, WordInv, Exclusive, BitsAreOwned, Allocated, FreeHandle, Enter
  <2>4. QED BY <2>1, <2>2, <2>3 DEF IInv
<1>3. QED BY <1>1, <1>2

\* Reading a word, or failing to exchange it, changes only local variables.
LEMMA ReadIInv ==
  ASSUME IInv, NEW c \in Callers,
         NextLoad(c) \/ NextCasFail(c) \/ FreeOutOfBounds(c) \/ FreeLoad(c) \/ FreeCasFail(c)
  PROVE  IInv'
<1>0. NumWords \in Nat
  BY ConstantsAssumption DEF NumWords
<1>1. CASE NextLoad(c) \/ NextCasFail(c)
  <2>1. word[c] \in Words /\ bits[word[c]] \in SUBSET Handles
    BY <1>1 DEF IInv, TypeOK, LocalInv, NextLoad, NextCasFail
  <2>2. TypeOK'
    <3> DEFINE cur == bits[word[c]]
               found == \E h \in BitsOf(word[c]) : Candidate(word[c], cur, h)
    <3>1. Scan(c, word[c], cur) /\ UNCHANGED <<bits, owned>>
      BY <1>1 DEF NextLoad, NextCasFail
    <3>2. CASE found
      BY <2>1, <3>1, <3>2 DEF IInv, TypeOK, Scan, Goto
    <3>3. CASE ~found
      <4> HIDE DEF found
      <4>1. \/ /\ pc' = [pc EXCEPT ![c] = "next_load"]
               /\ word' = [word EXCEPT ![c] = word[c] + 1]
               /\ current' = [current EXCEPT ![c] = {}]
               /\ UNCHANGED <<handle, reply>>
            \/ Return(c, "none")
        BY <3>1, <3>3 DEF Scan, found, Goto
      <4>2. word[c] + 1 \in Nat /\ 0 \in 0 .. MaxHandle
        BY <2>1, <1>0, ConstantsAssumption DEF Words
      <4>3. QED
        BY <3>1, <4>1, <4>2 DEF IInv, TypeOK, Return, Goto
    <3>4. QED BY <3>2, <3>3
  <2>3. LocalInv'
    BY <1>0, <1>1, <2>1, SMTT(60) DEF IInv, TypeOK, LocalInv, NextLoad, NextCasFail, Scan, Return, Goto, Words
  <2>4. WordInv' /\ Exclusive' /\ BitsAreOwned'
    BY <1>1, SMTT(60) DEF IInv, WordInv, Exclusive, BitsAreOwned, Allocated, NextLoad, NextCasFail
  <2>5. QED BY <2>2, <2>3, <2>4 DEF IInv
<1>2. CASE FreeOutOfBounds(c)
  <2>1. TypeOK' /\ LocalInv'
    BY <1>2, ConstantsAssumption DEF IInv, TypeOK, LocalInv, FreeOutOfBounds, Return, Goto
  <2>2. WordInv' /\ Exclusive' /\ BitsAreOwned'
    BY <1>2 DEF IInv, WordInv, Exclusive, BitsAreOwned, Allocated, FreeOutOfBounds
  <2>3. QED BY <2>1, <2>2 DEF IInv
<1>3. CASE FreeLoad(c) \/ FreeCasFail(c)
  <2>1. /\ word[c] \in Words /\ bits[word[c]] \in SUBSET Handles
        /\ handle[c] \in BitsOf(word[c])
    BY <1>3 DEF IInv, TypeOK, LocalInv, FreeLoad, FreeCasFail
  <2>2. TypeOK'
    BY <1>3, <2>1, ConstantsAssumption DEF IInv, TypeOK, FreeLoad, FreeCasFail, Check, Return, Goto
  <2>3. LocalInv'
    BY <1>3, <2>1 DEF IInv, TypeOK, LocalInv, FreeLoad, FreeCasFail, Check, Return, Goto
  <2>4. WordInv' /\ Exclusive' /\ BitsAreOwned'
    BY <1>3 DEF IInv, WordInv, Exclusive, BitsAreOwned, Allocated, FreeLoad, FreeCasFail
  <2>5. QED BY <2>2, <2>3, <2>4 DEF IInv
<1>4. QED BY <1>1, <1>2, <1>3

\* A bit that is clear in its word belongs to a handle that is not allocated.
LEMMA ClearBitIsFree ==
  ASSUME IInv, NEW w \in Words, NEW h \in BitsOf(w), h \notin bits[w]
  PROVE  h \notin Allocated
<1>0. NumWords \in Nat /\ Words \subseteq Nat
  BY ConstantsAssumption DEF NumWords, Words
<1>1. ASSUME NEW v \in Words, h \in bits[v] PROVE FALSE
  BY <1>0, <1>1, WordsDisjoint DEF IInv, WordInv
<1>2. QED BY <1>1 DEF Allocated

\* A successful exchange in next_handle takes a bit that no caller owns: the
\* word has not changed since it was read, and no other word has this bit.
LEMMA NextCasOkIInv ==
  ASSUME IInv, NEW c \in Callers, NextCasOk(c)
  PROVE  IInv'
<1> DEFINE w == word[c]
<1>1. w \in Words /\ bits[w] = current[c] /\ Return(c, "some")
  BY DEF NextCasOk, IInv, LocalInv
<1>2. PICK h \in BitsOf(w) :
        /\ Candidate(w, current[c], h)
        /\ bits' = [bits EXCEPT ![w] = @ \cup {h}]
        /\ owned' = [owned EXCEPT ![c] = @ \cup {h}]
  BY ZenonT(60) DEF NextCasOk
<1>3. h \in Handles /\ h \in BitsOf(w) /\ h \notin bits[w]
  <2>1. w * WordBits \in Nat
    <3>1. w \in Nat
      BY <1>1, ConstantsAssumption DEF NumWords, Words
    <3> HIDE DEF w
    <3>2. QED BY <3>1, ConstantsAssumption
  <2>2. QED
    BY <1>1, <1>2, <2>1, ConstantsAssumption DEF Candidate, IsFirstZero, BitsOf, Handles
<1>4. h \notin Allocated
  BY <1>1, <1>3, ClearBitIsFree
<1>5. TypeOK'
  BY <1>1, <1>2, <1>3, ConstantsAssumption DEF IInv, TypeOK, Return, Goto
<1>6. WordInv'
  BY <1>1, <1>2, <1>3 DEF IInv, TypeOK, WordInv
<1>7. LocalInv'
  BY <1>1 DEF IInv, TypeOK, LocalInv, Return, Goto
<1>8. \A d \in Callers : h \notin owned[d]
  BY <1>4 DEF IInv, BitsAreOwned
<1>9. Exclusive'
  BY <1>2, <1>8 DEF IInv, TypeOK, Exclusive
<1>10. BitsAreOwned'
  <2>1. Allocated' = Allocated \cup {h}
    BY <1>1, <1>2 DEF IInv, TypeOK, Allocated
  <2>2. (UNION {owned[d] : d \in Callers})' = (UNION {owned[d] : d \in Callers}) \cup {h}
    BY <1>2 DEF IInv, TypeOK
  <2>3. QED BY <2>1, <2>2 DEF IInv, BitsAreOwned
<1>11. QED BY <1>5, <1>6, <1>7, <1>9, <1>10 DEF IInv

\* A successful exchange in free_handle clears the one bit of the handle.
LEMMA FreeCasOkIInv ==
  ASSUME IInv, NEW c \in Callers, FreeCasOk(c)
  PROVE  IInv'
<1> DEFINE w == word[c]
           h == handle[c]
<1>0. NumWords \in Nat /\ Words \subseteq Nat
  BY ConstantsAssumption DEF NumWords, Words
<1>1. /\ w \in Words /\ h \in BitsOf(w) /\ h \in bits[w]
      /\ bits' = [bits EXCEPT ![w] = @ \ {h}]
      /\ owned' = [d \in Callers |-> owned[d] \ {h}]
      /\ Return(c, "ok")
  BY DEF FreeCasOk, IInv, LocalInv
<1> HIDE DEF w, h
<1>2. \A v \in Words : v # w => h \notin bits[v]
  BY <1>0, <1>1, WordsDisjoint, ZenonT(60) DEF IInv, WordInv
<1>3. TypeOK'
  BY <1>1, ConstantsAssumption DEF IInv, TypeOK, Return, Goto
<1>4. WordInv'
  BY <1>1 DEF IInv, TypeOK, WordInv
<1>5. LocalInv'
  BY <1>1 DEF IInv, TypeOK, LocalInv, Return, Goto
<1>6. Exclusive'
  BY <1>1 DEF IInv, TypeOK, Exclusive
<1>7. BitsAreOwned'
  <2>1. Allocated' = Allocated \ {h}
    BY <1>1, <1>2 DEF IInv, TypeOK, Allocated
  <2>2. (UNION {owned[d] : d \in Callers})' = (UNION {owned[d] : d \in Callers}) \ {h}
    BY <1>1 DEF IInv, TypeOK
  <2>3. QED BY <2>1, <2>2 DEF IInv, BitsAreOwned
<1>8. QED BY <1>3, <1>4, <1>5, <1>6, <1>7 DEF IInv

\* The inductive invariant holds in every state of the allocator.
THEOREM Invariance == Spec => []IInv
<1>1. IInv /\ [Next]_vars => IInv'
  <2> SUFFICES ASSUME IInv, [Next]_vars PROVE IInv'
    OBVIOUS
  <2>1. ASSUME NEW c \in Callers,
               NextHandle(c) \/ (\E h \in 0 .. MaxHandle : FreeHandle(c, h)) \/ Step(c)
        PROVE  IInv'
    BY <2>1, EnterIInv, ReadIInv, NextCasOkIInv, FreeCasOkIInv DEF Step
  <2>2. CASE UNCHANGED vars
    BY <2>2 DEF vars, IInv, TypeOK, WordInv, LocalInv, Exclusive, BitsAreOwned, Allocated
  <2>3. QED BY <2>1, <2>2 DEF Next
<1>2. QED BY <1>1, InitIInv, PTL DEF Spec

\* Type correctness.
THEOREM TypeCorrect == Spec => []TypeOK
BY Invariance, PTL DEF IInv

\* next_handle never gives a handle to two callers.
THEOREM ExclusiveOwnership == Spec => []Exclusive
BY Invariance, PTL DEF IInv

\* No handle leaks and none is resurrected: the bits are the owned handles.
THEOREM NoLeak == Spec => []BitsAreOwned
BY Invariance, PTL DEF IInv
-----------------------------------------------------------------------------
(* Callers that free only what they own.                                   *)

\* The handle that a caller is freeing is still its own, so its bit is set.
FreeingOwn ==
  \A c \in Callers :
    pc[c] \in {"free_load", "free_cas"} /\ handle[c] \in Handles => handle[c] \in owned[c]

OwnInv == AnyFree \/ (FreeingOwn /\ \A c \in Callers : reply[c] # "not_allocated")

\* While a caller frees a handle of its own, the bit of that handle is set.
LEMMA OwnBitIsSet ==
  ASSUME IInv, NEW c \in Callers, NEW w \in Words, NEW h \in owned[c], h \in BitsOf(w)
  PROVE  h \in bits[w]
<1>0. NumWords \in Nat /\ Words \subseteq Nat
  BY ConstantsAssumption DEF NumWords, Words
<1>1. PICK v \in Words : h \in bits[v]
  BY DEF IInv, BitsAreOwned, Allocated
<1>2. h \in BitsOf(v)
  BY <1>1 DEF IInv, WordInv
<1>3. v = w
  BY <1>0, <1>2, WordsDisjoint
<1>4. QED BY <1>1, <1>3

\* free_handle accepts every handle that its caller owns, when no caller frees
\* a handle of another.
THEOREM OwnFreeIsAccepted == Spec => []OwnFreeAccepted
<1>1. Init => OwnInv
  BY DEF Init, OwnInv, FreeingOwn
<1>2. IInv /\ OwnInv /\ [Next]_vars => OwnInv'
  <2> SUFFICES ASSUME IInv, OwnInv, [Next]_vars, ~AnyFree PROVE OwnInv'
    BY DEF OwnInv
  <2>0. FreeingOwn /\ \A d \in Callers : reply[d] # "not_allocated"
    BY DEF OwnInv
  <2>1. ASSUME NEW c \in Callers, NextHandle(c) PROVE OwnInv'
    BY <2>0, <2>1 DEF IInv, TypeOK, OwnInv, FreeingOwn, NextHandle, Enter, Goto
  <2>2. ASSUME NEW c \in Callers, NEW h \in 0 .. MaxHandle, FreeHandle(c, h) PROVE OwnInv'
    BY <2>0, <2>2 DEF IInv, TypeOK, OwnInv, FreeingOwn, FreeHandle, Enter, Goto
  <2>3. ASSUME NEW c \in Callers, NextLoad(c) \/ NextCasFail(c) PROVE OwnInv'
    BY <2>0, <2>3 DEF IInv, TypeOK, OwnInv, FreeingOwn, NextLoad, NextCasFail, Scan, Return, Goto
  <2>4. ASSUME NEW c \in Callers, NextCasOk(c) PROVE OwnInv'
    BY <2>0, <2>4 DEF IInv, TypeOK, OwnInv, FreeingOwn, NextCasOk, Return, Goto
  <2>5. ASSUME NEW c \in Callers, FreeOutOfBounds(c) PROVE OwnInv'
    BY <2>0, <2>5 DEF IInv, TypeOK, OwnInv, FreeingOwn, FreeOutOfBounds, Return, Goto
  <2>6. ASSUME NEW c \in Callers, FreeLoad(c) \/ FreeCasFail(c) PROVE OwnInv'
    <3>1. /\ word[c] \in Words /\ handle[c] \in BitsOf(word[c])
          /\ handle[c] \in Handles /\ pc[c] \in {"free_load", "free_cas"}
      BY <2>6, ConstantsAssumption DEF IInv, TypeOK, LocalInv, FreeLoad, FreeCasFail, Handles
    <3>2. handle[c] \in bits[word[c]]
      BY <2>0, <3>1, OwnBitIsSet DEF FreeingOwn
    <3>3. QED
      BY <2>0, <2>6, <3>2 DEF IInv, TypeOK, OwnInv, FreeingOwn, FreeLoad, FreeCasFail, Check, Goto
  <2>7. ASSUME NEW c \in Callers, FreeCasOk(c) PROVE OwnInv'
    <3>1. handle[c] \in owned[c] /\ handle[c] \in Handles
      BY <2>0, <2>7 DEF IInv, TypeOK, LocalInv, FreeingOwn, FreeCasOk
    <3>2. \A d \in Callers : d # c => handle[c] \notin owned[d]
      BY <3>1 DEF IInv, Exclusive
    <3>3. QED
      BY <2>0, <2>7, <3>2 DEF IInv, TypeOK, OwnInv, FreeingOwn, FreeCasOk, Return, Goto
  <2>8. CASE UNCHANGED vars
    BY <2>8 DEF vars, OwnInv, FreeingOwn
  <2>9. QED
    BY <2>1, <2>2, <2>3, <2>4, <2>5, <2>6, <2>7, <2>8 DEF Next, Step
<1>3. OwnInv => OwnFreeAccepted
  BY DEF OwnInv, OwnFreeAccepted
<1>4. QED BY <1>1, <1>2, <1>3, Invariance, PTL DEF Spec
-----------------------------------------------------------------------------
(* Refinement: every step of the allocator is a step of the atomic set of  *)
(* handles, or leaves it alone.                                            *)

\* The call that the abstract object sees in progress for each caller.
Calls == [c \in Callers |-> CallOf(c)]

\* A step of caller c that does not touch the calls of the others.
LEMMA CallsChange ==
  ASSUME TypeOK, NEW c \in Callers, NEW l, NEW h,
         pc' = [pc EXCEPT ![c] = l], handle' = [handle EXCEPT ![c] = h]
  PROVE  Calls' = [Calls EXCEPT ![c] = CallOf(c)']
BY ZenonT(60) DEF TypeOK, Calls, CallOf

\* A call that starts is a call on the atomic object.
LEMMA AbstractEnter ==
  ASSUME IInv, NEW c \in Callers,
         NextHandle(c) \/ \E h \in 0 .. MaxHandle : FreeHandle(c, h)
  PROVE  HS!Next
<1>1. Allocated' = Allocated /\ reply' = reply /\ Calls[c] = [op |-> "idle"]
  BY DEF NextHandle, FreeHandle, Enter, Allocated, Calls, CallOf
<1>2. CASE NextHandle(c)
  <2>1. handle' = [handle EXCEPT ![c] = handle[c]]
    BY <1>2 DEF NextHandle, IInv, TypeOK
  <2>2. CallOf(c)' = [op |-> "next"] /\ pc' = [pc EXCEPT ![c] = "next_load"]
    BY <1>2 DEF NextHandle, Enter, Goto, IInv, TypeOK, CallOf
  <2>3. Calls' = [Calls EXCEPT ![c] = [op |-> "next"]]
    BY <2>1, <2>2, CallsChange, ZenonT(60) DEF IInv
  <2>4. HS!Call(c, HS!NextCall)
    BY <1>1, <2>3 DEF HS!Call, HS!NextCall, HS!Idle, Calls
  <2>5. QED BY <2>4 DEF HS!Next
<1>3. ASSUME NEW h \in 0 .. MaxHandle, FreeHandle(c, h) PROVE HS!Next
  <2>1. /\ CallOf(c)' = [op |-> "free", arg |-> h]
        /\ pc' = [pc EXCEPT ![c] = "free_load"]
        /\ handle' = [handle EXCEPT ![c] = h]
    BY <1>3 DEF FreeHandle, Enter, Goto, IInv, TypeOK, CallOf
  <2>2. Calls' = [Calls EXCEPT ![c] = [op |-> "free", arg |-> h]]
    BY <2>1, CallsChange, ZenonT(60) DEF IInv
  <2>3. HS!Call(c, HS!FreeCall(h))
    BY <1>1, <2>2 DEF HS!Call, HS!FreeCall, HS!Idle, Calls
  <2>4. QED BY <2>3 DEF HS!Next
<1>4. QED BY <1>2, <1>3

\* A return answers the call in progress.
LEMMA AbstractReturn ==
  ASSUME IInv, NEW c \in Callers, NEW r, Return(c, r)
  PROVE  /\ Calls' = [Calls EXCEPT ![c] = [op |-> "idle"]]
         /\ reply' = [reply EXCEPT ![c] = r]
<1>1. CallOf(c)' = [op |-> "idle"]
  BY DEF Return, Goto, CallOf, IInv, TypeOK
<1>2. QED BY <1>1, CallsChange, ZenonT(60) DEF Return, Goto, IInv

\* A step from one point of a call to another is invisible.
LEMMA AbstractStutter ==
  ASSUME IInv, NEW c \in Callers, NEW l, Goto(c, l), UNCHANGED <<bits, handle, reply>>,
         \/ pc[c] \in {"next_load", "next_cas"} /\ l \in {"next_load", "next_cas"}
         \/ pc[c] \in {"free_load", "free_cas"} /\ l \in {"free_load", "free_cas"}
  PROVE  UNCHANGED HS!vars
<1>1. Calls' = Calls
  BY DEF Goto, Calls, CallOf, IInv, TypeOK
<1>2. QED BY <1>1 DEF HS!vars, Calls, Allocated

\* A scan that goes on is invisible; one past the last word is the answer None.
LEMMA AbstractScan ==
  ASSUME IInv, NEW c \in Callers, NextLoad(c) \/ NextCasFail(c)
  PROVE  HS!Next \/ UNCHANGED HS!vars
<1>1. /\ pc[c] \in {"next_load", "next_cas"}
      /\ Scan(c, word[c], bits[word[c]])
      /\ UNCHANGED bits
  BY DEF NextLoad, NextCasFail
<1>2. CASE Return(c, "none")
  <2>1. Calls[c] = [op |-> "next"] /\ Allocated' = Allocated
    BY <1>1, SMTT(60) DEF Calls, CallOf, Allocated
  <2>2. HS!GiveUp(c)
    BY <1>2, <2>1, AbstractReturn DEF HS!GiveUp, HS!Answer, HS!NextCall, HS!Idle, Calls
  <2>3. QED BY <2>2 DEF HS!Next
<1>3. CASE \E l \in {"next_load", "next_cas"} : Goto(c, l) /\ UNCHANGED <<handle, reply>>
  BY <1>1, <1>3, AbstractStutter
<1>4. QED BY <1>1, <1>2, <1>3, SMTT(60) DEF Scan

\* free_handle's look at the bit goes on invisibly or answers NotAllocated, and
\* then the handle is not allocated at the moment of the read.
LEMMA AbstractCheck ==
  ASSUME IInv, NEW c \in Callers, FreeLoad(c) \/ FreeCasFail(c)
  PROVE  HS!Next \/ UNCHANGED HS!vars
<1>1. /\ pc[c] \in {"free_load", "free_cas"}
      /\ Check(c, bits[word[c]])
      /\ UNCHANGED bits
      /\ word[c] \in Words /\ handle[c] \in BitsOf(word[c]) /\ handle[c] \in Handles
  BY ConstantsAssumption DEF FreeLoad, FreeCasFail, IInv, TypeOK, LocalInv, Handles
<1>2. CASE Return(c, "not_allocated") /\ handle[c] \notin bits[word[c]]
  <2>1. Calls[c] = [op |-> "free", arg |-> handle[c]] /\ Allocated' = Allocated
    BY <1>1 DEF Calls, CallOf, Allocated
  <2>2. handle[c] \notin Allocated
    BY <1>1, <1>2, ClearBitIsFree
  <2>3. HS!Refuse(c, handle[c])
    BY <1>1, <1>2, <2>1, <2>2, AbstractReturn, SMTT(60)
    DEF HS!Refuse, HS!Answer, HS!FreeCall, HS!Idle, HS!Handles, Handles, Calls
  <2>4. handle[c] \in 0 .. MaxHandle
    BY <1>1, ConstantsAssumption DEF Handles
  <2>5. QED BY <2>3, <2>4 DEF HS!Next
<1>3. CASE Goto(c, "free_cas") /\ UNCHANGED <<handle, reply>>
  BY <1>1, <1>3, AbstractStutter, SMTT(60)
<1>4. QED BY <1>1, <1>2, <1>3 DEF Check

\* The bounds check of free_handle is the refusal of a handle that is none.
LEMMA AbstractOutOfBounds ==
  ASSUME IInv, NEW c \in Callers, FreeOutOfBounds(c)
  PROVE  HS!Next
<1>1. /\ Calls[c] = [op |-> "free", arg |-> handle[c]] /\ Allocated' = Allocated
      /\ handle[c] \in 0 .. MaxHandle /\ handle[c] \notin Handles
  BY ConstantsAssumption DEF FreeOutOfBounds, Calls, CallOf, Allocated, IInv, TypeOK, Handles
<1>2. handle[c] \notin Allocated
  BY <1>1 DEF Allocated, IInv, TypeOK
<1>3. HS!Refuse(c, handle[c])
  BY <1>1, <1>2, AbstractReturn
  DEF FreeOutOfBounds, HS!Refuse, HS!Answer, HS!FreeCall, HS!Idle, HS!Handles, Handles, Calls
<1>4. QED BY <1>1, <1>3 DEF HS!Next

\* The exchange of next_handle takes a free handle of the atomic object.
LEMMA AbstractNextCasOk ==
  ASSUME IInv, NEW c \in Callers, NextCasOk(c)
  PROVE  HS!Next
<1> DEFINE w == word[c]
<1>1. w \in Words /\ bits[w] = current[c] /\ Return(c, "some") /\ Calls[c] = [op |-> "next"]
  BY DEF NextCasOk, IInv, LocalInv, Calls, CallOf
<1>2. PICK h \in BitsOf(w) :
        Candidate(w, current[c], h) /\ bits' = [bits EXCEPT ![w] = @ \cup {h}]
  BY ZenonT(60) DEF NextCasOk
<1>3. h \in Handles /\ h \in BitsOf(w) /\ h \notin bits[w]
  <2>1. w * WordBits \in Nat
    <3>1. w \in Nat
      BY <1>1, ConstantsAssumption DEF NumWords, Words
    <3> HIDE DEF w
    <3>2. QED BY <3>1, ConstantsAssumption
  <2>2. QED
    BY <1>1, <1>2, <2>1, ConstantsAssumption DEF Candidate, IsFirstZero, BitsOf, Handles
<1>4. h \notin Allocated
  BY <1>1, <1>3, ClearBitIsFree
<1>5. Allocated' = Allocated \cup {h}
  BY <1>1, <1>2 DEF IInv, TypeOK, Allocated
<1>6. HS!Allocate(c, h)
  BY <1>1, <1>4, <1>5, AbstractReturn DEF HS!Allocate, HS!Take, HS!Answer, HS!NextCall, HS!Idle, Calls
<1>7. QED BY <1>3, <1>6 DEF HS!Next, HS!Handles, Handles

\* The exchange of free_handle gives an allocated handle back.
LEMMA AbstractFreeCasOk ==
  ASSUME IInv, NEW c \in Callers, FreeCasOk(c)
  PROVE  HS!Next
<1> DEFINE w == word[c]
           h == handle[c]
<1>0. NumWords \in Nat /\ Words \subseteq Nat
  BY ConstantsAssumption DEF NumWords, Words
<1>1. /\ w \in Words /\ h \in BitsOf(w) /\ h \in bits[w] /\ h \in 0 .. MaxHandle
      /\ bits' = [bits EXCEPT ![w] = @ \ {h}] /\ Return(c, "ok")
      /\ Calls[c] = [op |-> "free", arg |-> h]
  BY DEF FreeCasOk, IInv, LocalInv, TypeOK, Calls, CallOf
<1>2. \A v \in Words : v # w => h \notin bits[v]
  BY <1>0, <1>1, WordsDisjoint, ZenonT(60) DEF IInv, WordInv
<1>3. h \in Allocated /\ Allocated' = Allocated \ {h}
  <2> HIDE DEF w, h
  <2>1. QED BY <1>1, <1>2 DEF IInv, TypeOK, Allocated
<1>4. HS!Free(c, h)
  BY <1>1, <1>3, AbstractReturn, SMTT(60) DEF HS!Free, HS!Release, HS!Answer, HS!FreeCall, HS!Idle, Calls
<1>5. QED BY <1>1, <1>4 DEF HS!Next

\* The lock-free allocator implements the atomic set of handles: every
\* successful exchange is an atomic allocation or free, every error answer is
\* right at the moment of the last read, and every other step is invisible.
THEOREM Refinement == Spec => ImplementsHandleSet
<1>1. Init => HS!Init
  <2> SUFFICES ASSUME Init PROVE HS!Init
    OBVIOUS
  <2>1. Allocated = {}
    BY DEF Init, Allocated
  <2>2. \A c \in Callers : CallOf(c) = HS!Idle
    BY ZenonT(60) DEF Init, CallOf, HS!Idle
  <2>3. QED BY <2>1, <2>2 DEF Init, HS!Init
<1>2. IInv /\ [Next]_vars => [HS!Next]_(HS!vars)
  <2> SUFFICES ASSUME IInv, [Next]_vars PROVE HS!Next \/ UNCHANGED HS!vars
    OBVIOUS
  <2>1. ASSUME NEW c \in Callers,
               NextHandle(c) \/ (\E h \in 0 .. MaxHandle : FreeHandle(c, h)) \/ Step(c)
        PROVE  HS!Next \/ UNCHANGED HS!vars
    BY <2>1, AbstractEnter, AbstractScan, AbstractCheck, AbstractOutOfBounds,
       AbstractNextCasOk, AbstractFreeCasOk DEF Step
  <2>2. CASE UNCHANGED vars
    BY <2>2 DEF vars, HS!vars, Allocated, CallOf
  <2>3. QED BY <2>1, <2>2 DEF Next
<1>3. QED BY <1>1, <1>2, Invariance, PTL DEF Spec, HS!Spec, ImplementsHandleSet
=============================================================================
