----------------------------- MODULE HandleSet -----------------------------
(***************************************************************************)
(* What a HandleAllocator promises its callers, as one atomic object: a    *)
(* set of allocated handles, an atomic allocation that adds a handle that  *)
(* was free, and an atomic free that removes one that was not.  It says    *)
(* nothing of words, loads or compare-and-exchange; HandleAllocator.tla is *)
(* shown to implement it.                                                  *)
(***************************************************************************)
EXTENDS Naturals

CONSTANTS
  Callers,      \* threads that call the allocator
  MaxHandle     \* HandleAllocator::max_handle: handles are 0 .. MaxHandle-1

VARIABLES
  allocated,    \* the handles that are allocated
  call,         \* the call each caller has in progress
  reply         \* outcome of each caller's last completed call

vars == <<allocated, call, reply>>

Handles == 0 .. MaxHandle - 1

Idle == [op |-> "idle"]
NextCall == [op |-> "next"]
FreeCall(h) == [op |-> "free", arg |-> h]

Init ==
  /\ allocated = {}
  /\ call = [c \in Callers |-> Idle]
  /\ reply = [c \in Callers |-> "nothing"]

\* The two changes of the set, also used by the components built on it.
Take(h) == h \notin allocated /\ allocated' = allocated \cup {h}
Release(h) == h \in allocated /\ allocated' = allocated \ {h}

Call(c, request) ==
  /\ call[c] = Idle
  /\ call' = [call EXCEPT ![c] = request]
  /\ UNCHANGED <<allocated, reply>>

Answer(c, request, r) ==
  /\ call[c] = request
  /\ call' = [call EXCEPT ![c] = Idle]
  /\ reply' = [reply EXCEPT ![c] = r]

\* next_handle gives out a handle that nobody has.
Allocate(c, h) ==
  /\ Take(h)
  /\ Answer(c, NextCall, "some")

\* next_handle gives up.  It may do so while handles are free: the scan looks
\* at the words one after the other.
GiveUp(c) ==
  /\ Answer(c, NextCall, "none")
  /\ UNCHANGED allocated

\* free_handle succeeds on an allocated handle, and only on one.
Free(c, h) ==
  /\ Release(h)
  /\ Answer(c, FreeCall(h), "ok")

Refuse(c, h) ==
  /\ h \notin allocated
  /\ Answer(c, FreeCall(h), IF h \in Handles THEN "not_allocated" ELSE "out_of_bounds")
  /\ UNCHANGED allocated

\* MaxHandle itself stands for every handle that is out of bounds.
Next ==
  \E c \in Callers :
    \/ Call(c, NextCall) \/ GiveUp(c)
    \/ \E h \in Handles : Allocate(c, h)
    \/ \E h \in 0 .. MaxHandle : Call(c, FreeCall(h)) \/ Free(c, h) \/ Refuse(c, h)

Spec == Init /\ [][Next]_vars
=============================================================================
