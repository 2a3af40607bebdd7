------------------------------- MODULE Logger -------------------------------
(***************************************************************************)
(* kernel_core/src/logger.rs: the ring buffer of log chunks that every     *)
(* core writes records into and that whoever gets the sink's lock drains.  *)
(*                                                                         *)
(* One step is one access to an atomic, to a chunk's data or to the lock.  *)
(* The text of a record is abstracted to the chunks it takes: after each   *)
(* chunk, finished or lost, the record has more text or it has not.  The   *)
(* bytes of a chunk are named by the index its writer drew for it.  The    *)
(* indices are the number of fetch_adds so far (the code's usize wraps     *)
(* after 2^64 chunks, of which NumChunks is a divisor).                    *)
(***************************************************************************)
EXTENDS Naturals, Sequences, FiniteSets

CONSTANTS
  Threads,        \* threads that log and flush
  NumChunks,      \* NUM_CHUNKS_IN_BUFFER
  NoThread,       \* the owner of a lock that is free
  MaxIndex        \* bound: no record is begun or continued from this index on

ASSUME LoggerAssumption ==
  /\ NumChunks \in Nat \ {0}
  /\ MaxIndex \in Nat
  /\ NoThread \notin Threads

VARIABLES
  status, data,   \* status_and_size and bytes of each chunk of the buffer
  write_index, read_index, overflow_count,
  sink,           \* who has locked the sink
  left,           \* flush_internal: rounds left of the loop
  pc, index,      \* per thread: place in the code, index drawn for the chunk
  last,           \* history: per thread, 1 + the index of its record's last chunk, or 0
  previous,       \* history: the value of `last` when each index was drawn
  accepted,       \* history: the chunks the sink has accepted, in order
  lost,           \* history: the indices whose chunk could not be acquired
  unreported      \* history: those counted since the last overflow message

ring == <<status, data, write_index, read_index, overflow_count>>
history == <<last, previous, accepted, lost, unreported>>
vars == <<ring, sink, left, pc, index, history>>

Slots == 0 .. NumChunks - 1
Slot(i) == i % NumChunks

Init ==
  /\ status = [s \in Slots |-> "empty"]
  /\ data = [s \in Slots |-> 0]
  /\ write_index = 0 /\ read_index = 0 /\ overflow_count = 0
  /\ sink = NoThread
  /\ left = 0
  /\ pc = [t \in Threads |-> "idle"]
  /\ index = [t \in Threads |-> 0]
  /\ last = [t \in Threads |-> 0]
  /\ previous = <<>>
  /\ accepted = <<>>
  /\ lost = {}
  /\ unreported = {}
-----------------------------------------------------------------------------
At(t, label) == pc[t] = label
Goto(t, label) == pc' = [pc EXCEPT ![t] = label]

\* A record goes on with its next chunk, or it is written and the thread tries
\* to flush the buffer.
MoreOrDone(t) == Goto(t, "try_lock") \/ (write_index < MaxIndex /\ Goto(t, "acquire"))

\* log: the record passes the level filter (one that does not changes nothing).
Log(t) ==
  /\ At(t, "idle") /\ write_index < MaxIndex
  /\ Goto(t, "acquire")
  /\ last' = [last EXCEPT ![t] = 0]
  /\ UNCHANGED <<ring, sink, left, index, previous, accepted, lost, unreported>>

\* acquire_new_chunk: write_index.fetch_add(1)
DrawIndex(t) ==
  /\ At(t, "acquire")
  /\ index' = [index EXCEPT ![t] = write_index]
  /\ write_index' = write_index + 1
  /\ previous' = Append(previous, last[t])
  /\ last' = [last EXCEPT ![t] = write_index + 1]
  /\ Goto(t, "distance")
  /\ UNCHANGED <<status, data, read_index, overflow_count, sink, left, accepted, lost, unreported>>

\* Mutant: off by one, the chunk that is still unread counts as free.
CheckDistanceLoose(t) ==
  /\ At(t, "distance")
  /\ Goto(t, IF index[t] - read_index > NumChunks THEN "overflow" ELSE "claim")
  /\ UNCHANGED <<ring, sink, left, index, history>>

\* Mutant: a writer that finds no room gives its index back.
CheckDistanceReturns(t) ==
  /\ At(t, "distance")
  /\ IF index[t] - read_index >= NumChunks
     THEN /\ write_index' = write_index - 1
          /\ previous' = SubSeq(previous, 1, Len(previous) - 1)
          /\ Goto(t, "overflow")
     ELSE Goto(t, "claim") /\ UNCHANGED <<write_index, previous>>
  /\ UNCHANGED <<status, data, read_index, overflow_count, sink, left, index,
                 last, accepted, lost, unreported>>

\* distance = index - read_index
CheckDistance(t) ==
  /\ At(t, "distance")
  /\ Goto(t, IF index[t] - read_index >= NumChunks THEN "overflow" ELSE "claim")
  /\ UNCHANGED <<ring, sink, left, index, history>>

CountOverflow(t) ==
  /\ At(t, "overflow")
  /\ overflow_count' = overflow_count + 1
  /\ Goto(t, "discard")
  /\ lost' = lost \cup {index[t]}
  /\ UNCHANGED <<status, data, write_index, read_index, sink, left, index, last, previous, accepted, unreported>>

\* try_acquire_for_write
Claim(t) ==
  /\ At(t, "claim")
  /\ IF status[Slot(index[t])] = "empty"
     THEN /\ status' = [status EXCEPT ![Slot(index[t])] = "writing"]
          /\ Goto(t, "write")
          /\ UNCHANGED lost
     ELSE /\ Goto(t, "discard")
          /\ lost' = lost \cup {index[t]}
          /\ UNCHANGED status
  /\ UNCHANGED <<data, write_index, read_index, overflow_count, sink, left, index,
                 last, previous, accepted, unreported>>

\* write_str: "Increment overflow count and discard the remaining data."
Discard(t) ==
  /\ At(t, "discard")
  /\ overflow_count' = overflow_count + 1
  /\ unreported' = unreported \cup {index[t]}
  /\ MoreOrDone(t)
  /\ UNCHANGED <<status, data, write_index, read_index, sink, left, index, last, previous, accepted, lost>>

\* write_str: the bytes are copied into the chunk.
Copy(t) ==
  /\ At(t, "write")
  /\ data' = [data EXCEPT ![Slot(index[t])] = index[t]]
  /\ Goto(t, "finish")
  /\ UNCHANGED <<status, write_index, read_index, overflow_count, sink, left, index, history>>

\* Mutant: the last chunk of a record is left unfinished.
FinishNotLast(t) ==
  /\ At(t, "finish")
  /\ \/ Goto(t, "try_lock") /\ UNCHANGED status
     \/ /\ write_index < MaxIndex /\ Goto(t, "acquire")
        /\ status' = [status EXCEPT ![Slot(index[t])] = "full"]
  /\ UNCHANGED <<data, write_index, read_index, overflow_count, sink, left, index, history>>

\* finish_chunk: when the chunk has no room left, or when the writer is dropped.
Finish(t) ==
  /\ At(t, "finish")
  /\ status' = [status EXCEPT ![Slot(index[t])] = "full"]
  /\ MoreOrDone(t)
  /\ UNCHANGED <<data, write_index, read_index, overflow_count, sink, left, index, history>>
-----------------------------------------------------------------------------
\* log: sink.try_lock()
TryLock(t) ==
  /\ At(t, "try_lock")
  /\ \/ /\ sink = NoThread
        /\ sink' = t
        /\ left' = NumChunks \div 3
        /\ Goto(t, "report")
     \/ /\ sink # NoThread
        /\ Goto(t, "idle")
        /\ UNCHANGED <<sink, left>>
  /\ UNCHANGED <<ring, index, history>>

\* flush: sink.lock(), which waits until the lock is free.
Flush(t) ==
  /\ At(t, "idle") /\ sink = NoThread
  /\ sink' = t
  /\ left' = NumChunks
  /\ Goto(t, "report")
  /\ UNCHANGED <<ring, index, history>>

\* flush_internal: overflow_count.swap(0) and the overflow message
Report(t) ==
  /\ At(t, "report")
  /\ overflow_count' = 0
  /\ unreported' = IF overflow_count > 0 THEN {} ELSE unreported
  /\ Goto(t, "check")
  /\ UNCHANGED <<status, data, write_index, read_index, sink, left, index, last, previous, accepted, lost>>

\* Mutant: the limit is not looked at.
CheckIndicesUnlimited(t) ==
  /\ At(t, "check")
  /\ Goto(t, IF read_index = write_index THEN "unlock" ELSE "read")
  /\ UNCHANGED <<ring, sink, left, index, history>>

\* The head of the loop; only the holder of the lock changes read_index.
CheckIndices(t) ==
  /\ At(t, "check")
  /\ Goto(t, IF left = 0 \/ read_index = write_index THEN "unlock" ELSE "read")
  /\ UNCHANGED <<ring, sink, left, index, history>>

\* Mutant: the chunk is read without looking at its status.
TryReadBlind(t) ==
  /\ At(t, "read")
  /\ Goto(t, "accept")
  /\ UNCHANGED <<ring, sink, left, index, history>>

\* try_read: "Chunk not ready; avoid busy waiting."
TryRead(t) ==
  /\ At(t, "read")
  /\ Goto(t, IF status[Slot(read_index)] = "full" THEN "accept" ELSE "unlock")
  /\ UNCHANGED <<ring, sink, left, index, history>>

Accept(t) ==
  /\ At(t, "accept")
  /\ accepted' = Append(accepted, data[Slot(read_index)])
  /\ Goto(t, "release")
  /\ UNCHANGED <<ring, sink, left, index, last, previous, lost, unreported>>

\* Mutant: the chunk stays full.
MarkEmptyForgets(t) ==
  /\ At(t, "release")
  /\ Goto(t, "advance")
  /\ UNCHANGED <<ring, sink, left, index, history>>

MarkEmpty(t) ==
  /\ At(t, "release")
  /\ status' = [status EXCEPT ![Slot(read_index)] = "empty"]
  /\ Goto(t, "advance")
  /\ UNCHANGED <<data, write_index, read_index, overflow_count, sink, left, index, history>>

Advance(t) ==
  /\ At(t, "advance")
  /\ read_index' = read_index + 1
  /\ left' = left - 1
  /\ Goto(t, "check")
  /\ UNCHANGED <<status, data, write_index, overflow_count, sink, index, history>>

\* Mutant: the count is reset at the end of the flush.
UnlockResets(t) ==
  /\ At(t, "unlock")
  /\ sink' = NoThread
  /\ left' = 0
  /\ overflow_count' = 0
  /\ Goto(t, "idle")
  /\ UNCHANGED <<status, data, write_index, read_index, index, history>>

\* The guard of the sink goes out of scope.
Unlock(t) ==
  /\ At(t, "unlock")
  /\ sink' = NoThread
  /\ left' = 0
  /\ Goto(t, "idle")
  /\ UNCHANGED <<ring, index, history>>
-----------------------------------------------------------------------------
Write(t) ==
  \/ DrawIndex(t) \/ CheckDistance(t) \/ CountOverflow(t) \/ Claim(t) \/ Discard(t)
  \/ Copy(t) \/ Finish(t)

Drain(t) ==
  \/ TryLock(t) \/ Report(t) \/ CheckIndices(t) \/ TryRead(t) \/ Accept(t)
  \/ MarkEmpty(t) \/ Advance(t) \/ Unlock(t)

Next == \E t \in Threads : Log(t) \/ Write(t) \/ Flush(t) \/ Drain(t)

Spec == Init /\ [][Next]_vars

\* Threads inside a call keep running, and flush is called again and again.
FairSpec ==
  /\ Spec
  /\ \A t \in Threads : WF_vars(Write(t) \/ Drain(t))
  /\ SF_vars(\E t \in Threads : Flush(t))
-----------------------------------------------------------------------------
Writers == {t \in Threads : pc[t] \in {"write", "finish"}}

\* Chunk states, indices and program points have their types; the rounds left
\* of a flush never go below zero.
TypeOK ==
  /\ status \in [Slots -> {"empty", "writing", "full"}]
  /\ data \in [Slots -> Nat]
  /\ write_index \in Nat /\ read_index \in Nat /\ overflow_count \in Nat /\ left \in Nat
  /\ sink \in Threads \cup {NoThread}
  /\ pc \in [Threads -> {"idle", "acquire", "distance", "overflow", "claim", "discard",
                         "write", "finish", "try_lock", "report", "check", "read",
                         "accept", "release", "advance", "unlock"}]
  /\ index \in [Threads -> Nat]
  /\ last \in [Threads -> Nat]
  /\ previous \in Seq(Nat)
  /\ accepted \in Seq(Nat)
  /\ lost \subseteq Nat
  /\ unreported \subseteq Nat

\* "We use the atomic to make sure that we have exclusive access to the data
\* buffer" (logger.rs:104): no two writers have the same chunk, and the sink is
\* never given a chunk that somebody is writing.
ChunksAreExclusive ==
  /\ \A t, u \in Writers : Slot(index[t]) = Slot(index[u]) => t = u
  /\ \A t \in Threads, u \in Writers :
       pc[t] \in {"accept", "release"} => Slot(index[u]) # Slot(read_index)

\* A writer whose index is within the buffer always gets its chunk: the
\* compare_exchange of try_acquire_for_write cannot fail after the distance
\* check has passed.
ClaimSucceeds == \A t \in Threads : pc[t] = "claim" => status[Slot(index[t])] = "empty"

\* The sink accepts the chunks exactly once and in the order in which their
\* indices were drawn, whoever flushes and whenever the writers finish.
AcceptedInOrder == \A k \in 1 .. Len(accepted) : accepted[k] = k - 1

\* The reader never gets past an index that was lost: what the sink accepts of
\* the log is what was written before the first loss.
NothingAfterALoss == \A i \in lost : Len(accepted) <= i

\* A record is not torn: before a chunk of it, the sink has accepted every
\* earlier chunk of the record.
RecordsAreWhole ==
  \A k \in 1 .. Len(accepted) :
    LET p == previous[accepted[k] + 1] IN
      p # 0 => \E j \in 1 .. k - 1 : accepted[j] = p - 1

\* "Send overflow message if any logs were lost" (logger.rs:204): a loss that
\* has been counted is announced to the sink by a later flush.
LossIsReported == unreported # {} ~> unreported = {}

\* Without an overflow nothing is stuck: while flush is called again and again,
\* every finished chunk reaches the sink, unless an index is lost.
ProcessedUnlessLost ==
  \A s \in Slots : status[s] = "full" ~> (status[s] = "empty" \/ lost # {})

\* "Final flush to ensure all messages are processed" (logger.rs:628): while
\* flush is called again and again, every finished chunk reaches the sink.
EveryChunkProcessed ==
  \A s \in Slots : status[s] = "full" ~> status[s] = "empty"
=============================================================================
