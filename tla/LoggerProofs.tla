---------------------------- MODULE LoggerProofs ----------------------------
(***************************************************************************)
(* Theorems about the logger's ring buffer for every number of threads,    *)
(* every buffer size and every bound on the indices.                       *)
(***************************************************************************)
EXTENDS Logger, TLAPS

\* A thread holds an index from the moment it draws it until its chunk is
\* finished or lost, and works on the index's chunk once it is within the buffer.
Holds(t) == pc[t] \in {"distance", "overflow", "claim", "write", "finish"}
Within(t) == pc[t] \in {"claim", "write", "finish"}
Reading(t) == pc[t] \in {"report", "check", "read", "accept", "release", "advance", "unlock"}

\* Every index is held by at most one thread, and none that is held is lost.
HeldInv ==
  /\ read_index <= write_index
  /\ \A t \in Threads : Holds(t) =>
       read_index <= index[t] /\ index[t] < write_index /\ index[t] \notin lost
  /\ \A t, u \in Threads : Holds(t) /\ Holds(u) /\ index[t] = index[u] => t = u
  /\ \A t \in Threads : Within(t) => index[t] < read_index + NumChunks
  /\ \A i \in lost : read_index <= i /\ i < write_index

\* A chunk that is being written has a writer, whose bytes are in it once they
\* are copied.
WriterInv ==
  /\ \A t \in Writers : status[Slot(index[t])] = "writing"
  /\ \A s \in Slots : status[s] = "writing" => \E t \in Writers : Slot(index[t]) = s
  /\ \A t \in Threads : pc[t] = "finish" => data[Slot(index[t])] = index[t]

\* A full chunk holds the bytes of an index of the window that starts at
\* read_index, and that index is neither held nor lost.
FullInv ==
  \A s \in Slots : status[s] = "full" =>
    /\ Slot(data[s]) = s
    /\ read_index <= data[s] /\ data[s] < read_index + NumChunks /\ data[s] < write_index
    /\ data[s] \notin lost
    /\ \A t \in Threads : Holds(t) => index[t] # data[s]

\* What the holder of the sink's lock knows about the chunk at read_index.
ReaderInv ==
  /\ \A t \in Threads : Reading(t) => sink = t
  /\ \A t \in Threads : pc[t] \in {"read", "accept", "release", "advance"} => left > 0
  /\ \A t \in Threads : pc[t] \in {"accept", "release"} => status[Slot(read_index)] = "full"
  /\ \A t \in Threads : pc[t] = "advance" =>
       /\ status[Slot(read_index)] = "empty"
       /\ read_index < write_index /\ read_index \notin lost
       /\ \A u \in Threads : Holds(u) => index[u] # read_index

\* The sink has accepted read_index chunks, and one more while the reader is
\* between the two stores that release it.
AcceptedInv ==
  /\ AcceptedInOrder
  /\ \A t \in Threads : pc[t] \in {"release", "advance"} => Len(accepted) = read_index + 1
  /\ (\A t \in Threads : pc[t] \notin {"release", "advance"}) => Len(accepted) = read_index

\* The chunk before a chunk of a record was drawn before it.
RecordInv ==
  /\ Len(previous) = write_index
  /\ \A i \in 1 .. Len(previous) : previous[i] < i
  /\ \A t \in Threads : last[t] <= write_index

IInv == TypeOK /\ HeldInv /\ WriterInv /\ FullInv /\ ReaderInv /\ AcceptedInv /\ RecordInv
-----------------------------------------------------------------------------
\* Two indices of one window of NumChunks indices have different chunks.
LEMMA SlotInjective ==
  ASSUME NEW r \in Nat, NEW i \in Nat, NEW j \in Nat,
         r <= i, i < r + NumChunks, r <= j, j < r + NumChunks,
         Slot(i) = Slot(j)
  PROVE  i = j
<1> DEFINE p == i \div NumChunks
           q == j \div NumChunks
<1>1. /\ p \in Nat /\ i = NumChunks * p + Slot(i) /\ NumChunks * p \in Nat
      /\ q \in Nat /\ j = NumChunks * q + Slot(j) /\ NumChunks * q \in Nat
  BY LoggerAssumption DEF Slot
<1>2. i < j + NumChunks /\ j < i + NumChunks
  BY LoggerAssumption
<1>3. ~ (p < q) /\ ~ (q < p)
  <2>1. ASSUME NEW x \in Nat, NEW y \in Nat, x < y
        PROVE  NumChunks * x + NumChunks <= NumChunks * y
    <3>1. NumChunks * y = NumChunks * x + NumChunks * (y - x)
      BY <2>1, LoggerAssumption
    <3>2. NumChunks * (y - x) >= NumChunks
      BY <2>1, LoggerAssumption
    <3>3. NumChunks * x \in Nat /\ NumChunks * y \in Nat /\ NumChunks * (y - x) \in Nat
      BY <2>1, LoggerAssumption
    <3>4. QED BY <3>1, <3>2, <3>3, LoggerAssumption
  <2>2. Slot(i) \in Nat
    BY LoggerAssumption DEF Slot
  <2> HIDE DEF p, q
  <2>3. QED BY <1>1, <1>2, <2>1, <2>2, LoggerAssumption
<1>4. p = q
  BY <1>1, <1>3
<1>5. QED BY <1>1, <1>4

\* An index has a chunk of the buffer.
LEMMA SlotInRange == ASSUME NEW i \in Nat PROVE Slot(i) \in Slots
BY LoggerAssumption DEF Slot, Slots

\* In every state of IInv a writer that has passed the distance check finds its
\* chunk empty.
LEMMA ClaimFindsEmpty == IInv => ClaimSucceeds
<1> SUFFICES ASSUME IInv, NEW t \in Threads, pc[t] = "claim"
             PROVE  status[Slot(index[t])] = "empty"
  BY DEF ClaimSucceeds
<1> DEFINE s == Slot(index[t])
<1>1. /\ index[t] \in Nat /\ read_index \in Nat /\ s \in Slots
      /\ read_index <= index[t] /\ index[t] < read_index + NumChunks
      /\ Holds(t)
  BY SlotInRange DEF IInv, TypeOK, HeldInv, Holds, Within
<1>2. status[s] # "writing"
  <2> SUFFICES ASSUME status[s] = "writing" PROVE FALSE
    OBVIOUS
  <2>1. PICK u \in Writers : Slot(index[u]) = s
    BY <1>1 DEF IInv, WriterInv
  <2>2. /\ u \in Threads /\ u # t /\ Holds(u) /\ index[u] \in Nat
        /\ read_index <= index[u] /\ index[u] < read_index + NumChunks
    BY <2>1, SMTT(60) DEF IInv, TypeOK, HeldInv, Writers, Holds, Within
  <2>3. index[u] = index[t]
    BY <1>1, <2>1, <2>2, SlotInjective
  <2>4. QED BY <1>1, <2>2, <2>3 DEF IInv, HeldInv
<1>3. status[s] # "full"
  <2> SUFFICES ASSUME status[s] = "full" PROVE FALSE
    OBVIOUS
  <2>1. /\ data[s] \in Nat /\ Slot(data[s]) = s
        /\ read_index <= data[s] /\ data[s] < read_index + NumChunks
        /\ index[t] # data[s]
    BY <1>1 DEF IInv, TypeOK, FullInv
  <2>2. QED BY <1>1, <2>1, SlotInjective
<1>4. QED BY <1>1, <1>2, <1>3 DEF IInv, TypeOK

\* In every state of IInv a full chunk at read_index holds the bytes of read_index.
LEMMA FullAtReadIndex ==
  ASSUME IInv, status[Slot(read_index)] = "full"
  PROVE  /\ data[Slot(read_index)] = read_index
         /\ read_index < write_index /\ read_index \notin lost
         /\ \A u \in Threads : Holds(u) => index[u] # read_index
<1> DEFINE s == Slot(read_index)
<1>1. read_index \in Nat /\ s \in Slots /\ data[s] \in Nat
  BY SlotInRange DEF IInv, TypeOK
<1>2. /\ Slot(data[s]) = s /\ read_index <= data[s] /\ data[s] < read_index + NumChunks
      /\ data[s] < write_index /\ data[s] \notin lost
      /\ \A u \in Threads : Holds(u) => index[u] # data[s]
  BY <1>1 DEF IInv, FullInv
<1>3. data[s] = read_index
  BY <1>1, <1>2, SlotInjective, LoggerAssumption
<1>4. QED BY <1>2, <1>3
-----------------------------------------------------------------------------
(* Every action keeps the inductive invariant.                             *)

\* Every step keeps the types.
LEMMA TypeStep == IInv /\ [Next]_vars => TypeOK'
<1> SUFFICES ASSUME IInv, [Next]_vars PROVE TypeOK'
  OBVIOUS
<1>1. TypeOK
  BY DEF IInv
<1>2. CASE UNCHANGED vars
  BY <1>1, <1>2 DEF TypeOK, vars, ring, history
<1>3. ASSUME NEW t \in Threads, Log(t) PROVE TypeOK'
  BY <1>1, <1>3, SMTT(60) DEF TypeOK, Log, At, Goto, ring
<1>4. ASSUME NEW t \in Threads, Flush(t) PROVE TypeOK'
  BY <1>1, <1>4, LoggerAssumption DEF TypeOK, Flush, At, Goto, ring, history
<1>5. ASSUME NEW t \in Threads, TryLock(t) PROVE TypeOK'
  <2>1. NumChunks \div 3 \in Nat
    BY LoggerAssumption
  <2>2. QED BY <1>1, <1>5, <2>1, ZenonT(60) DEF TypeOK, TryLock, At, Goto, ring, history
<1>6. ASSUME NEW t \in Threads, Unlock(t) PROVE TypeOK'
  BY <1>1, <1>6, LoggerAssumption, SMTT(60) DEF TypeOK, Unlock, At, Goto, ring, history
<1>7. ASSUME NEW t \in Threads, DrawIndex(t) PROVE TypeOK'
  BY <1>1, <1>7, SMTT(60) DEF TypeOK, DrawIndex, At, Goto
<1>8. ASSUME NEW t \in Threads, CheckDistance(t) PROVE TypeOK'
  BY <1>1, <1>8, SMTT(60) DEF TypeOK, CheckDistance, At, Goto, ring, history
<1>9. ASSUME NEW t \in Threads, CountOverflow(t) PROVE TypeOK'
  <2>1. lost' \subseteq Nat
    BY <1>1, <1>9, ZenonT(60) DEF TypeOK, CountOverflow
  <2>2. QED BY <1>1, <1>9, <2>1 DEF TypeOK, CountOverflow, At, Goto
<1>10. ASSUME NEW t \in Threads, Claim(t) PROVE TypeOK'
  <2>1. lost' \subseteq Nat
    <3>1. lost' = lost \/ lost' = lost \cup {index[t]}
      BY <1>10 DEF Claim
    <3>2. index[t] \in Nat
      BY <1>1 DEF TypeOK
    <3>3. QED BY <1>1, <3>1, <3>2, ZenonT(60) DEF TypeOK
  <2>2. QED BY <1>1, <1>10, <2>1, ZenonT(60) DEF TypeOK, Claim, At, Goto
<1>11. ASSUME NEW t \in Threads, Discard(t) PROVE TypeOK'
  <2>1. unreported' \subseteq Nat
    BY <1>1, <1>11, ZenonT(60) DEF TypeOK, Discard
  <2>2. /\ overflow_count' = overflow_count + 1
        /\ UNCHANGED <<status, data, write_index, read_index, sink, left, index,
                       last, previous, accepted, lost>>
        /\ pc' = [pc EXCEPT ![t] = "try_lock"] \/ pc' = [pc EXCEPT ![t] = "acquire"]
    BY <1>11 DEF Discard, MoreOrDone, Goto
  <2>3. CASE pc' = [pc EXCEPT ![t] = "try_lock"]
    BY <1>1, <2>1, <2>2, <2>3 DEF TypeOK
  <2>4. CASE pc' = [pc EXCEPT ![t] = "acquire"]
    BY <1>1, <2>1, <2>2, <2>4 DEF TypeOK
  <2>5. QED BY <2>2, <2>3, <2>4
<1>12. ASSUME NEW t \in Threads, Copy(t) PROVE TypeOK'
  BY <1>1, <1>12, ZenonT(60) DEF TypeOK, Copy, At, Goto, history
<1>13. ASSUME NEW t \in Threads, Finish(t) PROVE TypeOK'
  BY <1>1, <1>13, ZenonT(60) DEF TypeOK, Finish, At, Goto, MoreOrDone, history
<1>14. ASSUME NEW t \in Threads, Report(t) PROVE TypeOK'
  BY <1>1, <1>14, ZenonT(60) DEF TypeOK, Report, At, Goto
<1>15. ASSUME NEW t \in Threads, CheckIndices(t) PROVE TypeOK'
  BY <1>1, <1>15, SMTT(60) DEF TypeOK, CheckIndices, At, Goto, ring, history
<1>16. ASSUME NEW t \in Threads, TryRead(t) PROVE TypeOK'
  BY <1>1, <1>16, SMTT(60) DEF TypeOK, TryRead, At, Goto, ring, history
<1>17. ASSUME NEW t \in Threads, Accept(t) PROVE TypeOK'
  <2>1. data[Slot(read_index)] \in Nat
    BY <1>1, SlotInRange DEF TypeOK
  <2>2. QED BY <1>1, <1>17, <2>1, SMTT(60) DEF TypeOK, Accept, At, Goto, ring
<1>18. ASSUME NEW t \in Threads, MarkEmpty(t) PROVE TypeOK'
  BY <1>1, <1>18, ZenonT(60) DEF TypeOK, MarkEmpty, At, Goto, history
<1>19. ASSUME NEW t \in Threads, Advance(t) PROVE TypeOK'
  <2>1. left - 1 \in Nat
    BY <1>1, <1>19 DEF IInv, ReaderInv, TypeOK, Advance, At
  <2>2. QED BY <1>1, <1>19, <2>1 DEF TypeOK, Advance, At, Goto, history
<1>20. QED
  BY <1>2, <1>3, <1>4, <1>5, <1>6, <1>7, <1>8, <1>9, <1>10, <1>11, <1>12, <1>13, <1>14, <1>15, <1>16, <1>17, <1>18, <1>19
     DEF Next, Write, Drain

\* A step that neither touches a chunk nor starts or ends a writer keeps
\* WriterInv.
LEMMA WriterFrame ==
  ASSUME IInv, UNCHANGED <<status, data>>,
         \A u \in Threads : /\ pc[u] \in {"write", "finish"} <=> pc'[u] \in {"write", "finish"}
                            /\ pc'[u] = "finish" => pc[u] = "finish"
                            /\ pc[u] \in {"write", "finish"} => index'[u] = index[u]
  PROVE  WriterInv'
<1>1. Writers' = Writers
  BY DEF Writers
<1>2. \A u \in Writers : index'[u] = index[u] /\ u \in Threads
  BY DEF Writers
<1>3. \A u \in Writers : status'[Slot(index'[u])] = "writing"
  BY <1>2 DEF IInv, WriterInv
<1>4. \A s \in Slots : status'[s] = "writing" => \E u \in Writers : Slot(index'[u]) = s
  BY <1>2 DEF IInv, WriterInv
<1>5. \A u \in Threads : pc'[u] = "finish" => data'[Slot(index'[u])] = index'[u]
  BY DEF IInv, WriterInv
<1>6. QED BY <1>1, <1>3, <1>4, <1>5 DEF WriterInv, Slot, Slots

\* A step by which threads at most let go of an index keeps HeldInv.
LEMMA HeldFrame ==
  ASSUME IInv, UNCHANGED <<read_index, write_index, lost, index>>,
         \A u \in Threads : (Holds(u)' => Holds(u)) /\ (Within(u)' => Within(u))
  PROVE  HeldInv'
BY DEF IInv, HeldInv

\* In every state of IInv the writers have chunks of their own, and none has the
\* chunk that the sink is given.
LEMMA WritersExclusive == IInv => ChunksAreExclusive
<1> SUFFICES ASSUME IInv PROVE ChunksAreExclusive
  OBVIOUS
<1>1. \A t \in Writers : /\ t \in Threads /\ Holds(t) /\ index[t] \in Nat /\ read_index \in Nat
                         /\ read_index <= index[t] /\ index[t] < read_index + NumChunks
  BY DEF IInv, TypeOK, HeldInv, Writers, Holds, Within
<1>2. ASSUME NEW t \in Writers, NEW u \in Writers, Slot(index[t]) = Slot(index[u])
      PROVE  t = u
  <2>1. index[t] = index[u]
    BY <1>1, <1>2, SlotInjective
  <2>2. QED BY <1>1, <2>1 DEF IInv, HeldInv
<1>3. ASSUME NEW t \in Threads, NEW u \in Writers, pc[t] \in {"accept", "release"}
      PROVE  Slot(index[u]) # Slot(read_index)
  <2>1. status[Slot(read_index)] = "full"
    BY <1>3 DEF IInv, ReaderInv
  <2>2. status[Slot(index[u])] = "writing"
    BY DEF IInv, WriterInv
  <2>3. QED BY <2>1, <2>2
<1>4. QED BY <1>2, <1>3 DEF ChunksAreExclusive

\* log keeps the invariant.
LEMMA LogStep == ASSUME IInv, NEW t \in Threads, Log(t), TypeOK' PROVE IInv'
<1>1. HeldInv'
  BY LoggerAssumption DEF IInv, TypeOK, HeldInv, Holds, Within, Log, At, Goto, ring
<1>2. WriterInv'
  BY WriterFrame, SMTT(60) DEF IInv, TypeOK, Log, At, Goto, ring
<1>3. FullInv'
  BY LoggerAssumption DEF IInv, TypeOK, FullInv, Holds, Log, At, Goto, ring
<1>4. ReaderInv'
  BY LoggerAssumption DEF IInv, TypeOK, ReaderInv, Reading, Holds, Log, At, Goto, ring
<1>5. AcceptedInv'
  BY LoggerAssumption, SMTT(60) DEF IInv, TypeOK, AcceptedInv, AcceptedInOrder, Log, At, Goto, ring
<1>6. RecordInv'
  BY LoggerAssumption DEF IInv, TypeOK, RecordInv, Log, At, Goto, ring
<1>7. QED BY <1>1, <1>2, <1>3, <1>4, <1>5, <1>6 DEF IInv

\* flush taking the lock keeps the invariant.
LEMMA FlushStep == ASSUME IInv, NEW t \in Threads, Flush(t), TypeOK' PROVE IInv'
<1>1. HeldInv'
  BY LoggerAssumption DEF IInv, TypeOK, HeldInv, Holds, Within, Flush, At, Goto, ring, history
<1>2. WriterInv'
  BY WriterFrame, SMTT(60) DEF IInv, TypeOK, Flush, At, Goto, ring, history
<1>3. FullInv'
  BY LoggerAssumption DEF IInv, TypeOK, FullInv, Holds, Flush, At, Goto, ring, history
<1>4. ReaderInv'
  BY LoggerAssumption, SMTT(60) DEF IInv, TypeOK, ReaderInv, Reading, Holds, Flush, At, Goto, ring, history
<1>5. AcceptedInv'
  BY LoggerAssumption, SMTT(60) DEF IInv, TypeOK, AcceptedInv, AcceptedInOrder, Flush, At, Goto, ring, history
<1>6. RecordInv'
  BY LoggerAssumption DEF IInv, TypeOK, RecordInv, Flush, At, Goto, ring, history
<1>7. QED BY <1>1, <1>2, <1>3, <1>4, <1>5, <1>6 DEF IInv

\* try_lock keeps the invariant.
LEMMA TryLockStep == ASSUME IInv, NEW t \in Threads, TryLock(t), TypeOK' PROVE IInv'
<1>0. /\ pc[t] = "try_lock"
      /\ \/ sink = NoThread /\ sink' = t /\ pc' = [pc EXCEPT ![t] = "report"]
         \/ pc' = [pc EXCEPT ![t] = "idle"] /\ UNCHANGED <<sink, left>>
      /\ UNCHANGED <<ring, index, history>>
  BY DEF TryLock, At, Goto
<1>1. HeldInv'
  BY <1>0, HeldFrame, SMTT(60) DEF IInv, TypeOK, Holds, Within, ring, history
<1>2. WriterInv'
  BY <1>0, WriterFrame, SMTT(60) DEF IInv, TypeOK, ring, history
<1>3. FullInv'
  BY <1>0, LoggerAssumption, SMTT(60) DEF IInv, TypeOK, FullInv, Holds, ring, history
<1>4. ReaderInv'
  BY <1>0, LoggerAssumption, SMTT(60) DEF IInv, TypeOK, ReaderInv, Reading, Holds, ring, history
<1>5. AcceptedInv'
  BY <1>0, LoggerAssumption, SMTT(60) DEF IInv, TypeOK, AcceptedInv, AcceptedInOrder, ring, history
<1>6. RecordInv'
  BY <1>0, LoggerAssumption DEF IInv, TypeOK, RecordInv, ring, history
<1>7. QED BY <1>1, <1>2, <1>3, <1>4, <1>5, <1>6 DEF IInv

\* The release of the lock keeps the invariant.
LEMMA UnlockStep == ASSUME IInv, NEW t \in Threads, Unlock(t), TypeOK' PROVE IInv'
<1>1. HeldInv'
  BY LoggerAssumption, SMTT(60) DEF IInv, TypeOK, HeldInv, Holds, Within, Unlock, At, Goto, ring, history
<1>2. WriterInv'
  BY WriterFrame, SMTT(60) DEF IInv, TypeOK, Unlock, At, Goto, ring, history
<1>3. FullInv'
  BY LoggerAssumption DEF IInv, TypeOK, FullInv, Holds, Unlock, At, Goto, ring, history
<1>4. ReaderInv'
  BY LoggerAssumption DEF IInv, TypeOK, ReaderInv, Reading, Holds, Unlock, At, Goto, ring, history
<1>5. AcceptedInv'
  BY LoggerAssumption DEF IInv, TypeOK, AcceptedInv, AcceptedInOrder, Unlock, At, Goto, ring, history
<1>6. RecordInv'
  BY LoggerAssumption DEF IInv, TypeOK, RecordInv, Unlock, At, Goto, ring, history
<1>7. QED BY <1>1, <1>2, <1>3, <1>4, <1>5, <1>6 DEF IInv

\* The overflow message keeps the invariant.
LEMMA ReportStep == ASSUME IInv, NEW t \in Threads, Report(t), TypeOK' PROVE IInv'
<1>1. HeldInv'
  BY LoggerAssumption DEF IInv, TypeOK, HeldInv, Holds, Within, Report, At, Goto
<1>2. WriterInv'
  BY WriterFrame, SMTT(60) DEF IInv, TypeOK, Report, At, Goto
<1>3. FullInv'
  BY LoggerAssumption DEF IInv, TypeOK, FullInv, Holds, Report, At, Goto
<1>4. ReaderInv'
  BY LoggerAssumption DEF IInv, TypeOK, ReaderInv, Reading, Holds, Report, At, Goto
<1>5. AcceptedInv'
  BY LoggerAssumption DEF IInv, TypeOK, AcceptedInv, AcceptedInOrder, Report, At, Goto
<1>6. RecordInv'
  BY LoggerAssumption DEF IInv, TypeOK, RecordInv, Report, At, Goto
<1>7. QED BY <1>1, <1>2, <1>3, <1>4, <1>5, <1>6 DEF IInv

\* The head of the loop keeps the invariant.
LEMMA CheckIndicesStep == ASSUME IInv, NEW t \in Threads, CheckIndices(t), TypeOK' PROVE IInv'
<1>1. HeldInv'
  BY LoggerAssumption DEF IInv, TypeOK, HeldInv, Holds, Within, CheckIndices, At, Goto, ring, history
<1>2. WriterInv'
  BY WriterFrame, SMTT(60) DEF IInv, TypeOK, CheckIndices, At, Goto, ring, history
<1>3. FullInv'
  BY LoggerAssumption DEF IInv, TypeOK, FullInv, Holds, CheckIndices, At, Goto, ring, history
<1>4. ReaderInv'
  BY LoggerAssumption DEF IInv, TypeOK, ReaderInv, Reading, Holds, CheckIndices, At, Goto, ring, history
<1>5. AcceptedInv'
  BY LoggerAssumption, SMTT(60) DEF IInv, TypeOK, AcceptedInv, AcceptedInOrder, CheckIndices, At, Goto, ring, history
<1>6. RecordInv'
  BY LoggerAssumption DEF IInv, TypeOK, RecordInv, CheckIndices, At, Goto, ring, history
<1>7. QED BY <1>1, <1>2, <1>3, <1>4, <1>5, <1>6 DEF IInv

\* The look at the chunk's status keeps the invariant.
LEMMA TryReadStep == ASSUME IInv, NEW t \in Threads, TryRead(t), TypeOK' PROVE IInv'
<1>1. HeldInv'
  BY LoggerAssumption, SMTT(60) DEF IInv, TypeOK, HeldInv, Holds, Within, TryRead, At, Goto, ring, history
<1>2. WriterInv'
  BY WriterFrame, SMTT(60) DEF IInv, TypeOK, TryRead, At, Goto, ring, history
<1>3. FullInv'
  BY LoggerAssumption DEF IInv, TypeOK, FullInv, Holds, TryRead, At, Goto, ring, history
<1>4. ReaderInv'
  BY LoggerAssumption, SMTT(60) DEF IInv, TypeOK, ReaderInv, Reading, Holds, TryRead, At, Goto, ring, history
<1>5. AcceptedInv'
  BY LoggerAssumption, SMTT(60) DEF IInv, TypeOK, AcceptedInv, AcceptedInOrder, TryRead, At, Goto, ring, history
<1>6. RecordInv'
  BY LoggerAssumption, SMTT(60) DEF IInv, TypeOK, RecordInv, TryRead, At, Goto, ring, history
<1>7. QED BY <1>1, <1>2, <1>3, <1>4, <1>5, <1>6 DEF IInv

\* The distance check keeps the invariant.
LEMMA CheckDistanceStep == ASSUME IInv, NEW t \in Threads, CheckDistance(t), TypeOK' PROVE IInv'
<1>1. HeldInv'
  BY LoggerAssumption, SMTT(60) DEF IInv, TypeOK, HeldInv, Holds, Within, CheckDistance, At, Goto, ring, history
<1>2. WriterInv'
  BY WriterFrame, SMTT(60) DEF IInv, TypeOK, CheckDistance, At, Goto, ring, history
<1>3. FullInv'
  BY LoggerAssumption DEF IInv, TypeOK, FullInv, Holds, CheckDistance, At, Goto, ring, history
<1>4. ReaderInv'
  BY LoggerAssumption, SMTT(60) DEF IInv, TypeOK, ReaderInv, Reading, Holds, CheckDistance, At, Goto, ring, history
<1>5. AcceptedInv'
  BY LoggerAssumption, SMTT(60) DEF IInv, TypeOK, AcceptedInv, AcceptedInOrder, CheckDistance, At, Goto, ring, history
<1>6. RecordInv'
  BY LoggerAssumption, SMTT(60) DEF IInv, TypeOK, RecordInv, CheckDistance, At, Goto, ring, history
<1>7. QED BY <1>1, <1>2, <1>3, <1>4, <1>5, <1>6 DEF IInv

\* Drawing an index keeps the invariant.
LEMMA DrawIndexStep == ASSUME IInv, NEW t \in Threads, DrawIndex(t), TypeOK' PROVE IInv'
<1>1. HeldInv'
  BY LoggerAssumption, SMTT(60) DEF IInv, TypeOK, HeldInv, Holds, Within, DrawIndex, At, Goto
<1>2. WriterInv'
  BY WriterFrame, SMTT(60) DEF IInv, TypeOK, DrawIndex, At, Goto
<1>3. FullInv'
  BY LoggerAssumption, SMTT(60) DEF IInv, TypeOK, FullInv, Holds, DrawIndex, At, Goto
<1>4. ReaderInv'
  BY LoggerAssumption, SMTT(60) DEF IInv, TypeOK, ReaderInv, Reading, Holds, DrawIndex, At, Goto
<1>5. AcceptedInv'
  BY LoggerAssumption, SMTT(60) DEF IInv, TypeOK, AcceptedInv, AcceptedInOrder, DrawIndex, At, Goto
<1>6. RecordInv'
  BY LoggerAssumption, SMTT(60) DEF IInv, TypeOK, RecordInv, DrawIndex, At, Goto
<1>7. QED BY <1>1, <1>2, <1>3, <1>4, <1>5, <1>6 DEF IInv

\* Losing an index keeps the invariant.
LEMMA CountOverflowStep == ASSUME IInv, NEW t \in Threads, CountOverflow(t), TypeOK' PROVE IInv'
<1>1. HeldInv'
  BY LoggerAssumption, SMTT(60) DEF IInv, TypeOK, HeldInv, Holds, Within, CountOverflow, At, Goto
<1>2. WriterInv'
  BY WriterFrame, SMTT(60) DEF IInv, TypeOK, CountOverflow, At, Goto
<1>3. FullInv'
  BY LoggerAssumption, SMTT(60) DEF IInv, TypeOK, FullInv, Holds, CountOverflow, At, Goto
<1>4. ReaderInv'
  BY LoggerAssumption, SMTT(60) DEF IInv, TypeOK, ReaderInv, Reading, Holds, CountOverflow, At, Goto
<1>5. AcceptedInv'
  BY LoggerAssumption, SMTT(60) DEF IInv, TypeOK, AcceptedInv, AcceptedInOrder, CountOverflow, At, Goto
<1>6. RecordInv'
  BY LoggerAssumption, SMTT(60) DEF IInv, TypeOK, RecordInv, CountOverflow, At, Goto
<1>7. QED BY <1>1, <1>2, <1>3, <1>4, <1>5, <1>6 DEF IInv

\* Acquiring a chunk keeps the invariant.
LEMMA ClaimStep == ASSUME IInv, NEW t \in Threads, Claim(t), TypeOK' PROVE IInv'
<1> DEFINE s == Slot(index[t])
<1>0. /\ pc[t] = "claim" /\ index[t] \in Nat /\ s \in Slots
      /\ status[s] = "empty" /\ status' = [status EXCEPT ![s] = "writing"]
      /\ pc' = [pc EXCEPT ![t] = "write"]
      /\ UNCHANGED <<data, write_index, read_index, overflow_count, sink, left, index,
                     last, previous, accepted, lost, unreported>>
  BY ClaimFindsEmpty, SlotInRange, ZenonT(60) DEF ClaimSucceeds, Claim, At, Goto, IInv, TypeOK
<1>1. HeldInv'
  BY <1>0, HeldFrame, SMTT(60) DEF IInv, TypeOK, Holds, Within
<1>2. WriterInv'
  <2>1. Writers' = Writers \cup {t}
    BY <1>0, SMTT(60) DEF Writers, IInv, TypeOK
  <2>2. \A u \in Writers \cup {t} : status'[Slot(index[u])] = "writing"
    BY <1>0, SMTT(60) DEF IInv, TypeOK, WriterInv
  <2>3. \A r \in Slots : status'[r] = "writing" => \E u \in Writers \cup {t} : Slot(index[u]) = r
    BY <1>0, SMTT(60) DEF IInv, TypeOK, WriterInv
  <2>4. \A u \in Threads : pc'[u] = "finish" => data[Slot(index[u])] = index[u]
    BY <1>0, SMTT(60) DEF IInv, TypeOK, WriterInv
  <2>5. QED BY <1>0, <2>1, <2>2, <2>3, <2>4 DEF WriterInv, Slot, Slots
<1>3. FullInv'
  BY <1>0, SMTT(60) DEF IInv, TypeOK, FullInv, Holds, Slot, Slots
<1>4. ReaderInv'
  <2>1. ASSUME NEW u \in Threads, pc[u] = "advance"
        PROVE  s # Slot(read_index)
    <3>1. read_index <= index[t] /\ index[t] < read_index + NumChunks /\ read_index \in Nat
      BY <1>0, SMTT(60) DEF IInv, TypeOK, HeldInv, Holds, Within
    <3>2. index[t] # read_index
      BY <1>0, <2>1 DEF IInv, ReaderInv, Holds
    <3>3. QED BY <1>0, <3>1, <3>2, SlotInjective, LoggerAssumption
  <2>2. Slot(read_index) \in Slots
    BY SlotInRange, SMTT(60) DEF IInv, TypeOK
  <2>3. \A u \in Threads : pc'[u] = "advance" => pc[u] = "advance" /\ status'[Slot(read_index)] = "empty"
    BY <1>0, <2>1, <2>2, SMTT(60) DEF IInv, TypeOK, ReaderInv
  <2>4. \A u \in Threads : pc'[u] \in {"accept", "release"} => status'[Slot(read_index)] = "full"
    BY <1>0, <2>2, SMTT(60) DEF IInv, TypeOK, ReaderInv
  <2>5. \A u \in Threads : /\ Reading(u)' => Reading(u)
                           /\ Holds(u)' => Holds(u)
                           /\ pc'[u] \in {"read", "accept", "release", "advance"} =>
                                pc[u] \in {"read", "accept", "release", "advance"}
    BY <1>0, SMTT(60) DEF IInv, TypeOK, Reading, Holds
  <2>6. QED BY <1>0, <2>3, <2>4, <2>5, SMTT(60) DEF IInv, ReaderInv, Slot
<1>5. AcceptedInv'
  BY <1>0, SMTT(60) DEF IInv, TypeOK, AcceptedInv, AcceptedInOrder
<1>6. RecordInv'
  BY <1>0, SMTT(60) DEF IInv, TypeOK, RecordInv
<1>7. QED BY <1>1, <1>2, <1>3, <1>4, <1>5, <1>6 DEF IInv

\* Counting the loss keeps the invariant.
LEMMA DiscardStep == ASSUME IInv, NEW t \in Threads, Discard(t), TypeOK' PROVE IInv'
<1>1. HeldInv'
  BY HeldFrame, SMTT(60) DEF IInv, TypeOK, Holds, Within, Discard, At, Goto, MoreOrDone
<1>2. WriterInv'
  BY WriterFrame, SMTT(60) DEF IInv, TypeOK, Discard, At, Goto, MoreOrDone
<1>3. FullInv'
  BY LoggerAssumption, SMTT(60) DEF IInv, TypeOK, FullInv, Holds, Discard, At, Goto, MoreOrDone
<1>4. ReaderInv'
  BY LoggerAssumption, SMTT(60) DEF IInv, TypeOK, ReaderInv, Reading, Holds, Discard, At, Goto, MoreOrDone
<1>5. AcceptedInv'
  BY LoggerAssumption, SMTT(60) DEF IInv, TypeOK, AcceptedInv, AcceptedInOrder, Discard, At, Goto, MoreOrDone
<1>6. RecordInv'
  BY LoggerAssumption, SMTT(60) DEF IInv, TypeOK, RecordInv, Discard, At, Goto, MoreOrDone
<1>7. QED BY <1>1, <1>2, <1>3, <1>4, <1>5, <1>6 DEF IInv

\* Writing a chunk keeps the invariant.
LEMMA CopyStep == ASSUME IInv, NEW t \in Threads, Copy(t), TypeOK' PROVE IInv'
<1> DEFINE s == Slot(index[t])
<1>0. /\ pc[t] = "write" /\ t \in Writers /\ index[t] \in Nat /\ s \in Slots
      /\ status[s] = "writing" /\ data' = [data EXCEPT ![s] = index[t]]
      /\ pc' = [pc EXCEPT ![t] = "finish"] /\ UNCHANGED <<status, index>>
  BY SlotInRange, SMTT(60) DEF Copy, At, Goto, Writers, IInv, TypeOK, WriterInv
<1>1. HeldInv'
  BY LoggerAssumption, SMTT(60) DEF IInv, TypeOK, HeldInv, Holds, Within, Copy, At, Goto, history
<1>2. WriterInv'
  <2>1. Writers' = Writers
    BY <1>0, SMTT(60) DEF Writers, IInv, TypeOK
  <2>2. ASSUME NEW u \in Threads, pc'[u] = "finish"
        PROVE  data'[Slot(index[u])] = index[u]
    <3>1. CASE u = t
      BY <1>0, <3>1, SMTT(60) DEF IInv, TypeOK
    <3>2. CASE u # t
      <4>1. u \in Writers /\ pc[u] = "finish" /\ index[u] \in Nat /\ Slot(index[u]) \in Slots
        BY <1>0, <2>2, <3>2, SlotInRange, SMTT(60) DEF Writers, IInv, TypeOK
      <4>2. Slot(index[u]) # s
        BY <1>0, <3>2, <4>1, WritersExclusive DEF ChunksAreExclusive
      <4>3. QED BY <1>0, <4>1, <4>2, SMTT(60) DEF IInv, TypeOK, WriterInv
    <3>3. QED BY <3>1, <3>2
  <2>3. QED BY <1>0, <2>1, <2>2, SMTT(60) DEF IInv, WriterInv, Slot, Slots
<1>3. FullInv'
  <2>1. \A r \in Slots : status[r] = "full" => data'[r] = data[r]
    BY <1>0 DEF IInv, TypeOK
  <2>2. \A u \in Threads : Holds(u)' => Holds(u)
    BY <1>0 DEF Holds, IInv, TypeOK
  <2>3. QED BY <1>0, <2>1, <2>2, SMTT(60) DEF IInv, FullInv, Copy, history, Slot, Slots
<1>4. ReaderInv'
  BY LoggerAssumption, SMTT(60) DEF IInv, TypeOK, ReaderInv, Reading, Holds, Copy, At, Goto, history
<1>5. AcceptedInv'
  BY LoggerAssumption, SMTT(60) DEF IInv, TypeOK, AcceptedInv, AcceptedInOrder, Copy, At, Goto, history
<1>6. RecordInv'
  BY LoggerAssumption, SMTT(60) DEF IInv, TypeOK, RecordInv, Copy, At, Goto, history
<1>7. QED BY <1>1, <1>2, <1>3, <1>4, <1>5, <1>6 DEF IInv

\* Finishing a chunk keeps the invariant.
LEMMA FinishStep == ASSUME IInv, NEW t \in Threads, Finish(t), TypeOK' PROVE IInv'
<1> DEFINE s == Slot(index[t])
<1>0. /\ pc[t] = "finish" /\ t \in Writers /\ index[t] \in Nat /\ s \in Slots
      /\ Holds(t) /\ Within(t)
      /\ status[s] = "writing" /\ status' = [status EXCEPT ![s] = "full"]
      /\ \E label \in {"try_lock", "acquire"} : pc' = [pc EXCEPT ![t] = label]
      /\ UNCHANGED <<data, write_index, read_index, sink, left, index, lost>>
  BY SlotInRange
     DEF Finish, MoreOrDone, At, Goto, Writers, Holds, Within, IInv, TypeOK, WriterInv, history
<1>a. PICK label \in {"try_lock", "acquire"} : pc' = [pc EXCEPT ![t] = label]
  BY <1>0, ZenonT(60)
<1>1. HeldInv'
  BY HeldFrame, SMTT(60) DEF IInv, TypeOK, Holds, Within, Finish, At, Goto, MoreOrDone, history
<1>2. WriterInv'
  <2>1. Writers' = Writers \ {t}
    BY <1>0, <1>a, SMTT(60) DEF Writers, IInv, TypeOK
  <2>2. \A u \in Writers \ {t} : Slot(index[u]) \in Slots /\ Slot(index[u]) # s
    BY <1>0, SlotInRange, WritersExclusive, ZenonT(60) DEF ChunksAreExclusive, Writers, IInv, TypeOK
  <2>3. \A u \in Writers \ {t} : status'[Slot(index[u])] = "writing"
    BY <1>0, <2>2, SMTT(60) DEF IInv, TypeOK, WriterInv
  <2>4. \A r \in Slots : status'[r] = "writing" => \E u \in Writers \ {t} : Slot(index[u]) = r
    BY <1>0, SMTT(60) DEF IInv, TypeOK, WriterInv
  <2>5. \A u \in Threads : pc'[u] = "finish" => data[Slot(index[u])] = index[u]
    BY <1>a, SMTT(60) DEF IInv, TypeOK, WriterInv
  <2>6. QED BY <1>0, <2>1, <2>3, <2>4, <2>5, SMTT(60) DEF WriterInv, Slot, Slots
<1>3. FullInv'
  <2>1. \A u \in Threads : Holds(u)' => Holds(u) /\ u # t
    BY <1>0, <1>a, SMTT(60) DEF Holds, IInv, TypeOK
  <2>2. /\ data[s] = index[t] /\ data[s] \notin lost /\ data[s] < write_index
        /\ read_index <= data[s] /\ data[s] < read_index + NumChunks
    BY <1>0, SMTT(60) DEF IInv, WriterInv, HeldInv
  <2>3. \A u \in Threads : Holds(u)' => index[u] # data[s]
    BY <1>0, <2>1, <2>2, SMTT(60) DEF IInv, HeldInv
  <2>4. \A r \in Slots \ {s} : status'[r] = status[r]
    BY <1>0, SMTT(60) DEF IInv, TypeOK
  <2>5. QED BY <1>0, <2>1, <2>2, <2>3, <2>4, SMTT(60) DEF IInv, FullInv, Slot, Slots
<1>4. ReaderInv'
  <2>1. \A u \in Threads : /\ Reading(u)' => Reading(u) /\ pc'[u] = pc[u]
                           /\ Holds(u)' => Holds(u)
    BY <1>0, <1>a, SMTT(60) DEF Reading, Holds, IInv, TypeOK
  <2>2. Slot(read_index) \in Slots
    BY SlotInRange DEF IInv, TypeOK
  <2>3. \A u \in Threads : pc[u] \in {"accept", "release", "advance"} =>
          status'[Slot(read_index)] = status[Slot(read_index)]
    BY <1>0, <2>2, SMTT(60) DEF IInv, TypeOK, ReaderInv
  <2>4. \A u \in Threads : pc'[u] \in {"read", "accept", "release", "advance"} => Reading(u)'
    BY DEF Reading
  <2>5. QED BY <1>0, <2>1, <2>3, <2>4, SMTT(60) DEF IInv, ReaderInv, Slot
<1>5. AcceptedInv'
  BY LoggerAssumption, SMTT(60) DEF IInv, TypeOK, AcceptedInv, AcceptedInOrder, Finish, At, Goto, MoreOrDone, history
<1>6. RecordInv'
  BY LoggerAssumption, SMTT(60) DEF IInv, TypeOK, RecordInv, Finish, At, Goto, MoreOrDone, history
<1>7. QED BY <1>1, <1>2, <1>3, <1>4, <1>5, <1>6 DEF IInv

\* Giving a chunk to the sink keeps the invariant.
LEMMA AcceptStep == ASSUME IInv, NEW t \in Threads, Accept(t), TypeOK' PROVE IInv'
<1>0. /\ pc[t] = "accept" /\ sink = t
      /\ \A u \in Threads : Reading(u) => u = t
      /\ pc' = [pc EXCEPT ![t] = "release"]
      /\ accepted' = Append(accepted, read_index) /\ UNCHANGED read_index
  BY FullAtReadIndex, SMTT(60) DEF Accept, At, Goto, IInv, ReaderInv, Reading, ring
<1>1. HeldInv'
  BY LoggerAssumption, SMTT(60) DEF IInv, TypeOK, HeldInv, Holds, Within, Accept, At, Goto, ring
<1>2. WriterInv'
  BY WriterFrame, SMTT(60) DEF IInv, TypeOK, Accept, At, Goto, ring
<1>3. FullInv'
  BY LoggerAssumption, SMTT(60) DEF IInv, TypeOK, FullInv, Holds, Accept, At, Goto, ring
<1>4. ReaderInv'
  BY LoggerAssumption, SMTT(60) DEF IInv, TypeOK, ReaderInv, Reading, Holds, Accept, At, Goto, ring
<1>5. AcceptedInv'
  <2>1. \A u \in Threads : pc[u] \notin {"release", "advance"}
    BY <1>0 DEF Reading
  <2>2. Len(accepted) = read_index /\ accepted \in Seq(Nat) /\ read_index \in Nat
    BY <2>1 DEF IInv, AcceptedInv, TypeOK
  <2>3. Len(accepted') = read_index + 1
    BY <1>0, <2>2
  <2>4. AcceptedInOrder'
    BY <1>0, <2>2, <2>3 DEF IInv, AcceptedInv, AcceptedInOrder
  <2>5. pc'[t] = "release"
    BY <1>0 DEF IInv, TypeOK
  <2>6. QED BY <1>0, <2>3, <2>4, <2>5 DEF AcceptedInv
<1>6. RecordInv'
  BY LoggerAssumption, SMTT(60) DEF IInv, TypeOK, RecordInv, Accept, At, Goto, ring
<1>7. QED BY <1>1, <1>2, <1>3, <1>4, <1>5, <1>6 DEF IInv

\* Emptying the chunk keeps the invariant.
LEMMA MarkEmptyStep == ASSUME IInv, NEW t \in Threads, MarkEmpty(t), TypeOK' PROVE IInv'
<1> DEFINE s == Slot(read_index)
<1>0. /\ pc[t] = "release" /\ s \in Slots /\ status[s] = "full"
      /\ \A u \in Threads : Reading(u) => u = t
      /\ status' = [status EXCEPT ![s] = "empty"]
      /\ pc' = [pc EXCEPT ![t] = "advance"]
      /\ UNCHANGED <<data, write_index, read_index, sink, left, index, lost>>
  BY SlotInRange, SMTT(60) DEF MarkEmpty, At, Goto, IInv, TypeOK, ReaderInv, Reading, history
<1>1. HeldInv'
  BY LoggerAssumption, SMTT(60) DEF IInv, TypeOK, HeldInv, Holds, Within, MarkEmpty, At, Goto, history
<1>2. WriterInv'
  <2>1. Writers' = Writers
    BY <1>0, SMTT(60) DEF Writers, IInv, TypeOK
  <2>2. \A u \in Writers : Slot(index[u]) \in Slots /\ Slot(index[u]) # s
    BY <1>0, SlotInRange, ZenonT(60) DEF IInv, TypeOK, WriterInv, Writers
  <2>3. \A u \in Writers : status'[Slot(index[u])] = "writing"
    BY <1>0, <2>2, SMTT(60) DEF IInv, TypeOK, WriterInv
  <2>4. \A r \in Slots : status'[r] = "writing" => \E u \in Writers : Slot(index[u]) = r
    BY <1>0, SMTT(60) DEF IInv, TypeOK, WriterInv
  <2>5. \A u \in Threads : pc'[u] = "finish" => data[Slot(index[u])] = index[u]
    BY <1>0, SMTT(60) DEF IInv, TypeOK, WriterInv
  <2>6. QED BY <1>0, <2>1, <2>3, <2>4, <2>5, SMTT(60) DEF WriterInv, Slot, Slots
<1>3. FullInv'
  BY LoggerAssumption, SMTT(60) DEF IInv, TypeOK, FullInv, Holds, MarkEmpty, At, Goto, history
<1>4. ReaderInv'
  <2>1. /\ read_index < write_index /\ read_index \notin lost
        /\ \A u \in Threads : Holds(u) => index[u] # read_index
    BY <1>0, FullAtReadIndex
  <2>2. \A u \in Threads : (Holds(u)' => Holds(u)) /\ (Reading(u)' => u = t)
    BY <1>0, SMTT(60) DEF Holds, Reading, IInv, TypeOK
  <2>3. sink = t /\ left > 0
    BY <1>0, SMTT(60) DEF IInv, ReaderInv, Reading
  <2>4. status'[s] = "empty" /\ pc'[t] = "advance"
    BY <1>0, SMTT(60) DEF IInv, TypeOK
  <2>5. \A u \in Threads : pc'[u] \in {"read", "accept", "release", "advance"} => u = t
    BY <2>2 DEF Reading
  <2>6. QED BY <1>0, <2>1, <2>2, <2>3, <2>4, <2>5 DEF ReaderInv, Slot
<1>5. AcceptedInv'
  BY LoggerAssumption, SMTT(60) DEF IInv, TypeOK, AcceptedInv, AcceptedInOrder, MarkEmpty, At, Goto, history
<1>6. RecordInv'
  BY LoggerAssumption, SMTT(60) DEF IInv, TypeOK, RecordInv, MarkEmpty, At, Goto, history
<1>7. QED BY <1>1, <1>2, <1>3, <1>4, <1>5, <1>6 DEF IInv

\* Moving read_index keeps the invariant.
LEMMA AdvanceStep == ASSUME IInv, NEW t \in Threads, Advance(t), TypeOK' PROVE IInv'
<1>0. /\ pc[t] = "advance" /\ status[Slot(read_index)] = "empty" /\ read_index \in Nat
      /\ \A u \in Threads : Reading(u) => u = t
      /\ read_index < write_index /\ read_index \notin lost
      /\ \A u \in Threads : Holds(u) => index[u] # read_index
      /\ pc' = [pc EXCEPT ![t] = "check"] /\ read_index' = read_index + 1
      /\ UNCHANGED <<status, data, write_index, sink, index, lost, accepted>>
      /\ NumChunks \in Nat
  BY LoggerAssumption, SMTT(60) DEF Advance, At, Goto, IInv, TypeOK, ReaderInv, Reading, history
<1>n. read_index \in Nat /\ NumChunks \in Nat
  BY <1>0
<1>a. \A u \in Threads : (Holds(u)' <=> Holds(u)) /\ (Within(u)' <=> Within(u))
  BY <1>0, SMTT(60) DEF IInv, TypeOK, Holds, Within
<1>1. HeldInv'
  <2>1. \A u \in Threads : Holds(u) => index[u] \in Nat /\ index[u] >= read_index + 1
    BY <1>0, SMTT(60) DEF IInv, TypeOK, HeldInv
  <2>2. \A u \in Threads : Within(u) => index[u] \in Nat /\ index[u] < read_index + 1 + NumChunks
    BY <1>0, SMTT(60) DEF IInv, TypeOK, HeldInv
  <2>3. ASSUME NEW i \in lost PROVE read_index + 1 <= i
    <3>1. i \in Nat /\ read_index <= i /\ i # read_index
      BY <1>0, SMTT(60) DEF IInv, TypeOK, HeldInv
    <3>2. QED BY <1>n, <3>1
  <2>4. read_index + 1 <= write_index
    BY <1>0, SMTT(60) DEF IInv, TypeOK
  <2>5. QED BY <1>0, <1>a, <2>1, <2>2, <2>3, <2>4, SMTT(60) DEF IInv, HeldInv
<1>2. WriterInv'
  BY WriterFrame, SMTT(60) DEF IInv, TypeOK, Advance, At, Goto, history
<1>3. FullInv'
  <2>1. ASSUME NEW s \in Slots, status[s] = "full"
        PROVE  read_index + 1 <= data[s] /\ data[s] < read_index + 1 + NumChunks
    <3>1. /\ data[s] \in Nat /\ Slot(data[s]) = s
          /\ read_index <= data[s] /\ data[s] < read_index + NumChunks
      BY <2>1 DEF IInv, TypeOK, FullInv
    <3>2. data[s] # read_index
      BY <1>0, <2>1, <3>1, SMTT(60)
    <3>3. QED BY <1>n, <3>1, <3>2
  <2>2. QED BY <1>0, <1>a, <2>1, SMTT(60) DEF IInv, FullInv, Slot, Slots
<1>4. ReaderInv'
  BY LoggerAssumption, SMTT(60) DEF IInv, TypeOK, ReaderInv, Reading, Holds, Advance, At, Goto, history
<1>5. AcceptedInv'
  <2>1. Len(accepted) = read_index + 1
    BY <1>0 DEF IInv, AcceptedInv
  <2>2. \A u \in Threads : pc'[u] \notin {"release", "advance"}
    BY <1>0, SMTT(60) DEF IInv, TypeOK, Reading
  <2>3. QED BY <1>0, <2>1, <2>2, ZenonT(60) DEF IInv, AcceptedInv, AcceptedInOrder
<1>6. RecordInv'
  BY LoggerAssumption, SMTT(60) DEF IInv, TypeOK, RecordInv, Advance, At, Goto, history
<1>7. QED BY <1>1, <1>2, <1>3, <1>4, <1>5, <1>6 DEF IInv
-----------------------------------------------------------------------------
\* The initial state satisfies the invariant.
LEMMA InitInv == Init => IInv
<1> SUFFICES ASSUME Init PROVE IInv
  OBVIOUS
<1>1. TypeOK
  BY LoggerAssumption DEF Init, TypeOK
<1>2. HeldInv /\ WriterInv /\ FullInv /\ ReaderInv
  BY SMTT(60) DEF Init, HeldInv, WriterInv, Writers, FullInv, ReaderInv, Holds, Within, Reading, Slots
<1>3. AcceptedInv /\ RecordInv
  BY DEF Init, AcceptedInv, AcceptedInOrder, RecordInv
<1>4. QED BY <1>1, <1>2, <1>3 DEF IInv

\* A step that changes nothing keeps the invariant.
LEMMA StutterStep == IInv /\ UNCHANGED vars => IInv'
<1> SUFFICES ASSUME IInv, UNCHANGED vars PROVE IInv'
  OBVIOUS
<1>1. TypeOK' /\ HeldInv'
  BY SMTT(60) DEF IInv, vars, ring, history, TypeOK, HeldInv, Holds, Within, Slots
<1>2. WriterInv'
  BY SMTT(60) DEF IInv, vars, ring, history, WriterInv, Writers, Slot, Slots
<1>3. FullInv'
  BY SMTT(60) DEF IInv, vars, ring, history, FullInv, Holds, Slot, Slots
<1>4. ReaderInv'
  BY SMTT(60) DEF IInv, vars, ring, history, ReaderInv, Reading, Holds, Slot
<1>5. AcceptedInv' /\ RecordInv'
  BY SMTT(60) DEF IInv, vars, ring, history, AcceptedInv, AcceptedInOrder, RecordInv
<1>6. QED BY <1>1, <1>2, <1>3, <1>4, <1>5 DEF IInv

\* The inductive invariant holds in every reachable state of the logger.
THEOREM Invariance == Spec => []IInv
<1>1. Init => IInv
  BY InitInv
<1>2. IInv /\ [Next]_vars => IInv'
  <2> SUFFICES ASSUME IInv, [Next]_vars PROVE IInv'
    OBVIOUS
  <2>1. TypeOK'
    BY TypeStep
  <2>2. CASE UNCHANGED vars
    BY <2>2, StutterStep
  <2>3. ASSUME NEW t \in Threads, Write(t) PROVE IInv'
    BY <2>1, <2>3, DrawIndexStep, CheckDistanceStep, CountOverflowStep, ClaimStep,
       DiscardStep, CopyStep, FinishStep DEF Write
  <2>4. ASSUME NEW t \in Threads, Drain(t) PROVE IInv'
    BY <2>1, <2>4, TryLockStep, ReportStep, CheckIndicesStep, TryReadStep, AcceptStep,
       MarkEmptyStep, AdvanceStep, UnlockStep DEF Drain
  <2>5. ASSUME NEW t \in Threads, Log(t) \/ Flush(t) PROVE IInv'
    BY <2>1, <2>5, LogStep, FlushStep
  <2>6. QED BY <2>2, <2>3, <2>4, <2>5 DEF Next
<1>3. QED BY <1>1, <1>2, PTL DEF Spec

\* Every variable keeps its type, whatever the threads do.
THEOREM TypeCorrect == Spec => []TypeOK
<1>1. IInv => TypeOK
  BY DEF IInv
<1>2. QED BY <1>1, Invariance, PTL

\* No chunk is ever written by two threads, or read while it is written: the
\* exclusive access that the unsafe blocks of LogChunk rely on.
THEOREM ChunkExclusion == Spec => []ChunksAreExclusive
<1>1. IInv => ChunksAreExclusive
  BY WritersExclusive
<1>2. QED BY <1>1, Invariance, PTL

\* try_acquire_for_write never fails once the distance check has passed.
THEOREM ClaimNeverFails == Spec => []ClaimSucceeds
<1>1. IInv => ClaimSucceeds
  BY ClaimFindsEmpty
<1>2. QED BY <1>1, Invariance, PTL

\* The sink accepts the chunks once each and in the order of their indices.
THEOREM InOrderDelivery == Spec => []AcceptedInOrder
<1>1. IInv => AcceptedInOrder
  BY DEF IInv, AcceptedInv
<1>2. QED BY <1>1, Invariance, PTL

\* After the first lost index i the sink never accepts more than i chunks: the
\* ring buffer does not recover from an overflow.
THEOREM LossIsFinal == Spec => []NothingAfterALoss
<1>1. IInv => NothingAfterALoss
  <2> SUFFICES ASSUME IInv, NEW i \in lost PROVE Len(accepted) <= i
    BY DEF NothingAfterALoss
  <2>1. i \in Nat /\ read_index \in Nat /\ read_index <= i
    BY DEF IInv, TypeOK, HeldInv
  <2>2. CASE \A t \in Threads : pc[t] \notin {"release", "advance"}
    BY <2>1, <2>2 DEF IInv, AcceptedInv
  <2>3. ASSUME NEW t \in Threads, pc[t] \in {"release", "advance"}
        PROVE  Len(accepted) <= i
    <3>1. Len(accepted) = read_index + 1
      BY <2>3 DEF IInv, AcceptedInv
    <3>2. read_index \notin lost
      <4>1. CASE pc[t] = "release"
        BY <4>1, FullAtReadIndex, SMTT(60) DEF IInv, ReaderInv
      <4>2. CASE pc[t] = "advance"
        BY <4>2, SMTT(60) DEF IInv, ReaderInv
      <4>3. QED BY <2>3, <4>1, <4>2
    <3>3. QED BY <2>1, <3>1, <3>2
  <2>4. QED BY <2>2, <2>3
<1>2. QED BY <1>1, Invariance, PTL

\* What the sink has accepted of a record is its beginning, with no gap.
THEOREM NoTornRecord == Spec => []RecordsAreWhole
<1>1. IInv => RecordsAreWhole
  <2> SUFFICES ASSUME IInv, NEW k \in 1 .. Len(accepted),
                      previous[accepted[k] + 1] # 0
               PROVE  \E j \in 1 .. k - 1 : accepted[j] = previous[accepted[k] + 1] - 1
    BY DEF RecordsAreWhole
  <2>1. Len(accepted) \in Nat /\ accepted[k] = k - 1 /\ accepted[k] + 1 = k
    BY SMTT(60) DEF IInv, TypeOK, AcceptedInv, AcceptedInOrder
  <2>2. Len(accepted) <= write_index /\ write_index \in Nat
    <3>1. read_index \in Nat /\ write_index \in Nat /\ read_index <= write_index
      BY DEF IInv, TypeOK, HeldInv
    <3>2. ASSUME NEW t \in Threads, pc[t] \in {"release", "advance"}
          PROVE  Len(accepted) <= write_index
      <4>1. read_index < write_index
        <5>1. CASE pc[t] = "release"
          BY <5>1, FullAtReadIndex, SMTT(60) DEF IInv, ReaderInv
        <5>2. CASE pc[t] = "advance"
          BY <5>2, SMTT(60) DEF IInv, ReaderInv
        <5>3. QED BY <3>2, <5>1, <5>2
      <4>2. QED BY <3>1, <3>2, <4>1 DEF IInv, AcceptedInv
    <3>3. CASE \A t \in Threads : pc[t] \notin {"release", "advance"}
      BY <3>1, <3>3 DEF IInv, AcceptedInv
    <3>4. QED BY <3>1, <3>2, <3>3
  <2>3. previous \in Seq(Nat) /\ k \in 1 .. Len(previous)
    BY <2>1, <2>2 DEF IInv, TypeOK, RecordInv
  <2>4. previous[k] \in Nat /\ previous[k] < k
    BY <2>3 DEF IInv, RecordInv
  <2>5. previous[k] \in 1 .. k - 1 /\ previous[k] \in 1 .. Len(accepted)
    BY <2>1, <2>4
  <2>6. accepted[previous[k]] = previous[k] - 1
    BY <2>5 DEF IInv, AcceptedInv, AcceptedInOrder
  <2>7. QED BY <2>1, <2>5, <2>6
<1>2. QED BY <1>1, Invariance, PTL
=============================================================================
