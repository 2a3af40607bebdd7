-------------------------- MODULE HandleAllocator --------------------------
(***************************************************************************)
(* kernel_core/src/collections/handle_allocator.rs: the lock-free bit set  *)
(* that gives out handles.                                                 *)
(*                                                                         *)
(* One step is one access to a shared word together with the thread-local  *)
(* code up to the next access.  A word is the set of handles whose bit is  *)
(* set in it.  A spurious failure of compare_exchange_weak re-reads the    *)
(* value the thread already has, so it is a stuttering step.               *)
(***************************************************************************)
EXTENDS Naturals

CONSTANTS
  Callers,      \* threads that call the allocator
  MaxHandle,    \* HandleAllocator::max_handle
  WordBits,     \* usize::BITS
  AnyFree       \* may a caller free a handle that is not its own?

ASSUME ConstantsAssumption ==
  /\ MaxHandle \in Nat \ {0}
  /\ WordBits \in Nat \ {0}
  /\ AnyFree \in BOOLEAN

VARIABLES
  bits,         \* HandleAllocator::bits, one set of handles per word
  pc,           \* where each caller is
  word,         \* next_handle: word_index;  free_handle: handle / usize::BITS
  current,      \* the local variable `current`
  handle,       \* free_handle: the argument
  reply,        \* outcome of each caller's last completed call
  owned         \* history: handles returned to a caller and not freed since

vars == <<bits, pc, word, current, handle, reply, owned>>

Handles == 0 .. MaxHandle - 1
NumWords == (MaxHandle + WordBits - 1) \div WordBits
Words == 0 .. NumWords - 1

\* The bits of word w, named by the handles they stand for (the last word may
\* have bits at and above MaxHandle).
BitsOf(w) == w * WordBits .. w * WordBits + WordBits - 1

\* (!current).trailing_zeros() + word_index * usize::BITS
IsFirstZero(w, cur, h) ==
  /\ h \in BitsOf(w) \ cur
  /\ \A g \in BitsOf(w) \ cur : h <= g

\* Mutant: the last word's spare bits are handed out.
CandidateUnbounded(w, cur, h) == IsFirstZero(w, cur, h)

\* The handle that next_handle will try to take from a word it saw as cur.
Candidate(w, cur, h) == IsFirstZero(w, cur, h) /\ h < MaxHandle

Allocated == UNION {bits[w] : w \in Words}
Busy == {c \in Callers : pc[c] # "idle"}

Init ==
  /\ bits = [w \in Words |-> {}]
  /\ pc = [c \in Callers |-> "idle"]
  /\ word = [c \in Callers |-> 0]
  /\ current = [c \in Callers |-> {}]
  /\ handle = [c \in Callers |-> 0]
  /\ reply = [c \in Callers |-> "nothing"]
  /\ owned = [c \in Callers |-> {}]
-----------------------------------------------------------------------------
Goto(c, label) == pc' = [pc EXCEPT ![c] = label]

\* The call ends and its local variables go out of scope.
Return(c, r) ==
  /\ Goto(c, "idle")
  /\ reply' = [reply EXCEPT ![c] = r]
  /\ word' = [word EXCEPT ![c] = 0]
  /\ current' = [current EXCEPT ![c] = {}]
  /\ handle' = [handle EXCEPT ![c] = 0]

Enter(c, label) ==
  /\ pc[c] = "idle"
  /\ Goto(c, label)
  /\ UNCHANGED <<bits, current, reply, owned>>

\* The body of next_handle's inner loop on the value cur of word w, up to the
\* next access: try a bit of this word, go on to the next, or give up.
Scan(c, w, cur) ==
  \/ /\ \E h \in BitsOf(w) : Candidate(w, cur, h)
     /\ Goto(c, "next_cas")
     /\ current' = [current EXCEPT ![c] = cur]
     /\ UNCHANGED <<word, handle, reply>>
  \/ /\ ~ \E h \in BitsOf(w) : Candidate(w, cur, h)
     /\ w + 1 < NumWords
     /\ Goto(c, "next_load")
     /\ word' = [word EXCEPT ![c] = w + 1]
     /\ current' = [current EXCEPT ![c] = {}]
     /\ UNCHANGED <<handle, reply>>
  \/ /\ ~ \E h \in BitsOf(w) : Candidate(w, cur, h)
     /\ w + 1 >= NumWords
     /\ Return(c, "none")

NextHandle(c) ==
  /\ Enter(c, "next_load")
  /\ word' = [word EXCEPT ![c] = 0]
  /\ UNCHANGED handle

NextLoad(c) ==
  /\ pc[c] = "next_load"
  /\ Scan(c, word[c], bits[word[c]])
  /\ UNCHANGED <<bits, owned>>

\* Mutant: the word is stored without comparing it.
NextCasOkBlind(c) ==
  /\ pc[c] = "next_cas"
  /\ \E h \in BitsOf(word[c]) :
       /\ Candidate(word[c], current[c], h)
       /\ bits' = [bits EXCEPT ![word[c]] = current[c] \cup {h}]
       /\ owned' = [owned EXCEPT ![c] = @ \cup {h}]
  /\ Return(c, "some")

NextCasOk(c) ==
  /\ pc[c] = "next_cas"
  /\ bits[word[c]] = current[c]
  /\ \E h \in BitsOf(word[c]) :
       /\ Candidate(word[c], current[c], h)
       /\ bits' = [bits EXCEPT ![word[c]] = @ \cup {h}]
       /\ owned' = [owned EXCEPT ![c] = @ \cup {h}]
  /\ Return(c, "some")

\* Mutant: a failed exchange is retried with the old value.
NextCasFailStale(c) ==
  /\ pc[c] = "next_cas"
  /\ bits[word[c]] # current[c]
  /\ UNCHANGED vars

NextCasFail(c) ==
  /\ pc[c] = "next_cas"
  /\ bits[word[c]] # current[c]
  /\ Scan(c, word[c], bits[word[c]])
  /\ UNCHANGED <<bits, owned>>
-----------------------------------------------------------------------------
\* A caller passes free_handle a handle it owns, one that is out of bounds, or,
\* with AnyFree, any handle at all.
FreeHandle(c, h) ==
  /\ h \in Handles => AnyFree \/ h \in owned[c]
  /\ Enter(c, "free_load")
  /\ handle' = [handle EXCEPT ![c] = h]
  /\ word' = [word EXCEPT ![c] = h \div WordBits]

\* Mutant: the bit is cleared without looking whether it is set.
CheckNothing(c, cur) ==
  /\ Goto(c, "free_cas")
  /\ current' = [current EXCEPT ![c] = cur]
  /\ UNCHANGED <<word, handle, reply>>

\* The loop body of free_handle on the value cur of the handle's word.
Check(c, cur) ==
  \/ /\ handle[c] \in cur
     /\ Goto(c, "free_cas")
     /\ current' = [current EXCEPT ![c] = cur]
     /\ UNCHANGED <<word, handle, reply>>
  \/ /\ handle[c] \notin cur
     /\ Return(c, "not_allocated")

FreeOutOfBounds(c) ==
  /\ pc[c] = "free_load"
  /\ handle[c] >= MaxHandle
  /\ Return(c, "out_of_bounds")
  /\ UNCHANGED <<bits, owned>>

FreeLoad(c) ==
  /\ pc[c] = "free_load"
  /\ handle[c] < MaxHandle
  /\ Check(c, bits[word[c]])
  /\ UNCHANGED <<bits, owned>>

\* Mutant: the word is stored without comparing it.
FreeCasOkBlind(c) ==
  /\ pc[c] = "free_cas"
  /\ bits' = [bits EXCEPT ![word[c]] = current[c] \ {handle[c]}]
  /\ owned' = [d \in Callers |-> owned[d] \ {handle[c]}]
  /\ Return(c, "ok")

FreeCasOk(c) ==
  /\ pc[c] = "free_cas"
  /\ bits[word[c]] = current[c]
  /\ bits' = [bits EXCEPT ![word[c]] = @ \ {handle[c]}]
  /\ owned' = [d \in Callers |-> owned[d] \ {handle[c]}]
  /\ Return(c, "ok")

FreeCasFail(c) ==
  /\ pc[c] = "free_cas"
  /\ bits[word[c]] # current[c]
  /\ Check(c, bits[word[c]])
  /\ UNCHANGED <<bits, owned>>
-----------------------------------------------------------------------------
\* The steps of a call in progress.
Step(c) ==
  \/ NextLoad(c) \/ NextCasOk(c) \/ NextCasFail(c)
  \/ FreeOutOfBounds(c) \/ FreeLoad(c) \/ FreeCasOk(c) \/ FreeCasFail(c)

Next ==
  \E c \in Callers :
    \/ NextHandle(c)
    \/ \E h \in 0 .. MaxHandle : FreeHandle(c, h)
    \/ Step(c)

Spec == Init /\ [][Next]_vars

\* A thread inside a call keeps running: on every core the scheduler and the
\* interrupt handlers return to it, and compare_exchange_weak does not fail
\* spuriously for ever.
FairSpec == Spec /\ \A c \in Callers : WF_vars(Step(c))
-----------------------------------------------------------------------------
\* Words hold handles below max_handle only, and a call works on one of them.
TypeOK ==
  /\ bits \in [Words -> SUBSET Handles]
  /\ pc \in [Callers -> {"idle", "next_load", "next_cas", "free_load", "free_cas"}]
  /\ word \in [Callers -> Nat]
  /\ current \in [Callers -> SUBSET Handles]
  /\ handle \in [Callers -> 0 .. MaxHandle]
  /\ reply \in [Callers ->
       {"nothing", "some", "none", "ok", "not_allocated", "out_of_bounds"}]
  /\ owned \in [Callers -> SUBSET Handles]

\* No handle is given to two callers: next_handle never returns a handle that
\* an earlier call returned and no free_handle has released since.
Exclusive ==
  \A c, d \in Callers : c # d => owned[c] \cap owned[d] = {}

\* The bit set is exactly the set of handles that callers have: racing
\* compare-exchanges on one word neither leak a handle nor resurrect one.
BitsAreOwned == Allocated = UNION {owned[c] : c \in Callers}

\* When callers only free what they own, free_handle never answers
\* NotAllocated, however the other callers change the word in between.
OwnFreeAccepted == AnyFree \/ \A c \in Callers : reply[c] # "not_allocated"

\* Lock freedom: while no new call starts, one of the calls in progress returns,
\* whichever callers they are of.
SomeCallReturns == \A B \in SUBSET Callers \ {{}} : Busy = B ~> Busy # B

\* The call that caller c has in progress, as HandleSet names it.
CallOf(c) ==
  IF pc[c] = "idle" THEN [op |-> "idle"]
  ELSE IF pc[c] \in {"next_load", "next_cas"} THEN [op |-> "next"]
  ELSE [op |-> "free", arg |-> handle[c]]

HS == INSTANCE HandleSet WITH allocated <- Allocated, call <- [c \in Callers |-> CallOf(c)]

\* The allocator implements the atomic set of handles: next_handle and
\* free_handle take effect in one step each, between call and return.
ImplementsHandleSet == HS!Spec
=============================================================================
