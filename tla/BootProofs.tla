----------------------------- MODULE BootProofs -----------------------------
(***************************************************************************)
(* Safety of module Boot for every set of cores and any memory for their   *)
(* stacks.                                                                 *)
(*                                                                         *)
(* No property is inductive by itself.  Whether a core finds a global      *)
(* initialised depends on how far the boot core has come (GlobalsReady),   *)
(* which threads the cores save to depends on what the boot core put in    *)
(* the scheduler (ThreadsAreOwn), and where a core's own execution is kept *)
(* depends on its place in the handler (ExecutionKept).                    *)
(***************************************************************************)
EXTENDS Boot, TLAPS

\* The places of a core from its first instruction to its wait for interrupts.
HandlerLabels == {"save", "ack", "slice", "restore"}
CoreLabels == {"vector", "core_interrupts", "unmask", "idle"} \cup HandlerLabels
SetUpLabels == {"vector", "logging", "memory", "threads", "interrupts", "timer"}
KmainLabels == SetUpLabels \cup CoreLabels \cup {"smp", "start_core", "halted"}

TypeInv ==
  /\ pc \in [Cores -> CoreLabels \cup KmainLabels \cup {"off"}]
  /\ \A c \in Cores : pc[c] \in (IF c = 0 THEN KmainLabels ELSE CoreLabels \cup {"off"})
  /\ stack \in [Cores -> Stacks \cup {NoStack}]
  /\ timer \in [Cores -> {"off", "armed", "fired"}]
  /\ regs \in [Cores -> Int] /\ frame \in [Cores -> Int]

\* The globals that a core may use from core_interrupts on.
Globals == {"ALLOCATOR", "PAGE_ALLOCATOR", "SCHEDULER", "CONTROLLER", "TIMER", "HANDLER_POLICY"}

\* What the boot core has initialised when it is at a label of its own set-up,
\* during which it is alone, and that all is initialised when any core is past it.
GlobalsReady ==
  /\ pc[0] \in {"threads", "interrupts", "timer"} => {"ALLOCATOR", "PAGE_ALLOCATOR"} \subseteq once
  /\ pc[0] \in {"interrupts", "timer"} => "SCHEDULER" \in once
  /\ pc[0] = "timer" => "CONTROLLER" \in once /\ distributor = "on"
  /\ pc[0] \notin SetUpLabels \cup {"halted"} => Globals \subseteq once /\ distributor = "on"
  /\ pc[0] \in SetUpLabels => \A c \in Cores \ {0} : pc[c] = "off"
  /\ \A c \in Cores \ {0} : pc[c] # "off" => Globals \subseteq once /\ distributor = "on"

\* Every core has its own idle thread, and no other.
ThreadsAreOwn ==
  "SCHEDULER" \in once =>
    /\ current = [c \in Cores |-> c]
    /\ queue = [c \in Cores |-> EmptyQueue]
    /\ saved \in [Cores -> Int]

\* Where a core's own execution is: in its registers, in the frame that the
\* exception vector saved, or in its thread.
ExecutionKept ==
  \A c \in Cores :
    /\ pc[c] \notin HandlerLabels => regs[c] = c
    /\ pc[c] = "save" => frame[c] = c
    /\ pc[c] \in {"ack", "slice", "restore"} => saved[c] = c

\* A core keeps what it has set up, and has an unfinished interrupt only while
\* it handles it.
SetUpKept ==
  \A c \in Cores :
    /\ pc[c] \notin {"off", "vector"} => c \in vector
    /\ pc[c] \in {"smp", "start_core", "unmask", "idle"} \cup HandlerLabels =>
         timer[c] # "off" /\ c \in enabled /\ c \in interface
    /\ pc[c] = "idle" => c \in unmasked
    /\ c \in active => pc[c] = "slice"

\* No two cores were given the same stack.
StacksDistinct ==
  \A c, d \in Cores : c # d /\ stack[c] # NoStack => stack[c] # stack[d]

IInv == TypeInv /\ GlobalsReady /\ ThreadsAreOwn /\ ExecutionKept /\ SetUpKept /\ StacksDistinct

USE DEF HandlerLabels, CoreLabels, SetUpLabels, KmainLabels, NoStack, Handler, Zeroed
-----------------------------------------------------------------------------
\* next_time_slice changes nothing on a core that has no thread to run next.
LEMMA NothingQueued ==
  ASSUME NEW t, NEW running
  PROVE  NextTimeSlice(EmptyQueue, t, running) = <<EmptyQueue, t>>
<1>1. DOMAIN EmptyQueue = {}
  BY DEF EmptyQueue
<1>2. {i \in DOMAIN EmptyQueue : EmptyQueue[i] \in running} = {}
  BY <1>1
<1>3. QED BY <1>2, Zenon DEF NextTimeSlice

\* kmain starts with nothing initialised and the other cores off.
LEMMA InitIInv == Init => IInv
  BY BootAssumption DEF Init, IInv, TypeInv, GlobalsReady, ThreadsAreOwn, ExecutionKept,
       SetUpKept, StacksDistinct

\* Every step of kmain, of another core and of the hardware preserves the
\* inductive invariant.
LEMMA NextIInv == IInv /\ [Next]_vars => IInv'
<1> SUFFICES ASSUME IInv, [Next]_vars
             PROVE  IInv'
  OBVIOUS
<1> USE BootAssumption
<1>1. CASE InitLogging
  BY <1>1, SMTT(60) DEF InitLogging, Goto, scheduling, gic, machine, IInv, TypeInv, GlobalsReady, ThreadsAreOwn, ExecutionKept, SetUpKept, StacksDistinct, Globals
<1>2. CASE InitMemory
  BY <1>2, SMTT(60) DEF InitMemory, Goto, scheduling, gic, machine, IInv, TypeInv, GlobalsReady, ThreadsAreOwn, ExecutionKept, SetUpKept, StacksDistinct, Globals
<1>3. CASE InitThreads
  <2>1. /\ pc[0] = "threads" /\ pc' = [pc EXCEPT ![0] = "interrupts"]
        /\ once' = once \cup {"THREADS", "SCHEDULER"}
        /\ UNCHANGED <<stack, machine>>
    BY <1>3, SMTT(60) DEF InitThreads, Uses, Goto, IInv, GlobalsReady
  <2>2. \A c \in Cores : pc[c] \notin {"ack", "slice", "restore"}
    BY <2>1, SMTT(60) DEF IInv, TypeInv, GlobalsReady
  <2>3. TypeInv' /\ GlobalsReady'
    BY <2>1, SMTT(60) DEF gic, machine, IInv, TypeInv, GlobalsReady, Globals
  <2>4. ThreadsAreOwn'
    <3>1. /\ saved' = [t \in Cores |-> Zeroed]
          /\ current' = [c \in Cores |-> c]
          /\ queue' = [c \in Cores |-> EmptyQueue]
      BY <1>3, Zenon DEF InitThreads
    <3>2. saved' \in [Cores -> Int]
      BY <3>1, SMT
    <3>3. QED BY <3>1, <3>2, Zenon DEF ThreadsAreOwn
  <2>5. ExecutionKept' /\ SetUpKept' /\ StacksDistinct'
    BY <2>1, <2>2, SMTT(60) DEF gic, machine, IInv, TypeInv, ExecutionKept, SetUpKept, StacksDistinct
  <2>6. QED BY <2>3, <2>4, <2>5 DEF IInv
<1>4. CASE InitController
  BY <1>4, SMTT(60) DEF InitController, Goto, scheduling, gic, machine, IInv, TypeInv, GlobalsReady, ThreadsAreOwn, ExecutionKept, SetUpKept, StacksDistinct, Globals
<1>5. CASE InitTimer
  BY <1>5, SMTT(60) DEF InitTimer, Uses, Goto, scheduling, gic, machine, IInv, TypeInv, GlobalsReady, ThreadsAreOwn, ExecutionKept, SetUpKept, StacksDistinct, Globals
<1>6. CASE SetUpFails
  BY <1>6, SMTT(60) DEF SetUpFails, Goto, scheduling, gic, machine, IInv, TypeInv, GlobalsReady, ThreadsAreOwn, ExecutionKept, SetUpKept, StacksDistinct, Globals
<1>7. CASE BootFails
  BY <1>7, SMTT(60) DEF BootFails, Goto, scheduling, gic, machine, IInv, TypeInv, GlobalsReady, ThreadsAreOwn, ExecutionKept, SetUpKept, StacksDistinct, Globals
<1>8. CASE AllBooted
  BY <1>8, SMTT(60) DEF AllBooted, Goto, scheduling, gic, machine, IInv, TypeInv, GlobalsReady, ThreadsAreOwn, ExecutionKept, SetUpKept, StacksDistinct, Globals
<1>9. CASE Halted
  BY <1>9, SMTT(60) DEF Halted, vars, scheduling, gic, machine, IInv, TypeInv, GlobalsReady, ThreadsAreOwn, ExecutionKept, SetUpKept, StacksDistinct, Globals
<1>10. ASSUME NEW c \in Cores, InstallVector(c) PROVE IInv'
  BY <1>10, SMTT(60) DEF InstallVector, Goto, scheduling, gic, machine, IInv, TypeInv, GlobalsReady, ThreadsAreOwn, ExecutionKept, SetUpKept, StacksDistinct, Globals
<1>11. ASSUME NEW c \in Cores, InitForCore(c) PROVE IInv'
  BY <1>11, SMTT(60) DEF InitForCore, InitializeForCore, Uses, Goto, StartForCore, Enable, scheduling, gic, machine, IInv, TypeInv, GlobalsReady, ThreadsAreOwn, ExecutionKept, SetUpKept, StacksDistinct, Globals
<1>12. ASSUME NEW c \in Cores, Unmask(c) PROVE IInv'
  BY <1>12, SMTT(60) DEF Unmask, Goto, scheduling, gic, machine, IInv, TypeInv, GlobalsReady, ThreadsAreOwn, ExecutionKept, SetUpKept, StacksDistinct, Globals
<1>13. ASSUME NEW c \in Cores, Save(c) PROVE IInv'
  BY <1>13, SMTT(60) DEF Save, Uses, Goto, scheduling, gic, machine, IInv, TypeInv, GlobalsReady, ThreadsAreOwn, ExecutionKept, SetUpKept, StacksDistinct, Globals
<1>14. ASSUME NEW c \in Cores, Ack(c) PROVE IInv'
  BY <1>14, SMTT(60) DEF Ack, Goto, scheduling, gic, machine, IInv, TypeInv, GlobalsReady, ThreadsAreOwn, ExecutionKept, SetUpKept, StacksDistinct, Globals
<1>15. ASSUME NEW c \in Cores, HandleTimer(c) PROVE IInv'
  <2>1. current = [d \in Cores |-> d] /\ queue = [d \in Cores |-> EmptyQueue]
    BY <1>15, SMTT(60) DEF HandleTimer, IInv, TypeInv, GlobalsReady, ThreadsAreOwn, Globals
  <2>2. NextTimeSlice(queue[c], current[c], DOMAIN saved) = <<EmptyQueue, c>>
    <3>1. queue[c] = EmptyQueue /\ current[c] = c
      BY <2>1
    <3>2. NextTimeSlice(EmptyQueue, c, DOMAIN saved) = <<EmptyQueue, c>>
      BY NothingQueued
    <3>3. QED BY <3>1, <3>2, Zenon
  <2>3. /\ queue' = [queue EXCEPT ![c] = EmptyQueue]
        /\ current' = [current EXCEPT ![c] = c]
    <3> DEFINE n == NextTimeSlice(queue[c], current[c], DOMAIN saved)
    <3>1. queue' = [queue EXCEPT ![c] = n[1]] /\ current' = [current EXCEPT ![c] = n[2]]
      BY <1>15, Zenon DEF HandleTimer
    <3>2. n[1] = EmptyQueue /\ n[2] = c
      <4> HIDE DEF n
      <4> QED BY <2>2, SMT DEF n
    <3> HIDE DEF n
    <3>3. QED BY <3>1, <3>2, Zenon
  <2>4. queue' = queue /\ current' = current
    <3>1. queue' = queue
      <4>1. queue' = [d \in Cores |-> IF d = c THEN EmptyQueue ELSE queue[d]]
        BY <2>1, <2>3
      <4>2. \A d \in Cores : (IF d = c THEN EmptyQueue ELSE queue[d]) = EmptyQueue
        BY <2>1
      <4>3. QED BY <4>1, <4>2, <2>1
    <3>2. current' = current
      <4>1. current' = [d \in Cores |-> IF d = c THEN c ELSE current[d]]
        BY <2>1, <2>3
      <4>2. \A d \in Cores : (IF d = c THEN c ELSE current[d]) = d
        BY <2>1
      <4>3. QED BY <4>1, <4>2, <2>1
    <3>3. QED BY <3>1, <3>2
  <2>5. /\ pc[c] = "slice"
        /\ timer' = [timer EXCEPT ![c] = "armed"]
        /\ active' = active \ {c}
        /\ pc' = [pc EXCEPT ![c] = "ack"]
        /\ UNCHANGED <<once, stack, vector, unmasked, gic, regs, frame, saved>>
    BY <1>15, SMTT(60) DEF HandleTimer, Goto, Reset, FinishInterrupt
  <2>6. QED
    BY <2>4, <2>5, SMTT(60) DEF scheduling, gic, machine, IInv, TypeInv, GlobalsReady, ThreadsAreOwn, ExecutionKept, SetUpKept, StacksDistinct, Globals
<1>16. ASSUME NEW c \in Cores, Restore(c) PROVE IInv'
  BY <1>16, SMTT(60) DEF Restore, Goto, scheduling, gic, machine, IInv, TypeInv, GlobalsReady, ThreadsAreOwn, ExecutionKept, SetUpKept, StacksDistinct, Globals
<1>17. ASSUME NEW c \in Cores, TimerFires(c) PROVE IInv'
  BY <1>17, SMTT(60) DEF TimerFires, scheduling, gic, machine, IInv, TypeInv, GlobalsReady, ThreadsAreOwn, ExecutionKept, SetUpKept, StacksDistinct, Globals
<1>18. ASSUME NEW c \in Cores, TakeInterrupt(c) PROVE IInv'
  BY <1>18, SMTT(60) DEF TakeInterrupt, Goto, scheduling, gic, machine, IInv, TypeInv, GlobalsReady, ThreadsAreOwn, ExecutionKept, SetUpKept, StacksDistinct, Globals
<1>19. ASSUME NEW c \in Cores, Wait(c) PROVE IInv'
  BY <1>19, SMTT(60) DEF Wait, vars, scheduling, gic, machine, IInv, TypeInv, GlobalsReady, ThreadsAreOwn, ExecutionKept, SetUpKept, StacksDistinct, Globals
<1>20. ASSUME NEW c \in Cores, StartCore(c) PROVE IInv'
  BY <1>20, SMTT(60) DEF StartCore, scheduling, gic, machine, IInv, TypeInv, GlobalsReady, ThreadsAreOwn, ExecutionKept, SetUpKept, StacksDistinct, Globals
<1>21. ASSUME NEW c \in Cores, NEW s \in Stacks, BootCore(c, s) PROVE IInv'
  BY <1>21, SMTT(60) DEF BootCore, Waiting, FreshStacks, Uses, Goto, scheduling, gic, machine, IInv, TypeInv, GlobalsReady, ThreadsAreOwn, ExecutionKept, SetUpKept, StacksDistinct, Globals
<1>22. CASE UNCHANGED vars
  BY <1>22, SMTT(60) DEF vars, scheduling, gic, machine, IInv, TypeInv, GlobalsReady, ThreadsAreOwn, ExecutionKept, SetUpKept, StacksDistinct, Globals
<1>23. QED
  BY <1>1, <1>2, <1>3, <1>4, <1>5, <1>6, <1>7, <1>8, <1>9, <1>10, <1>11, <1>12, <1>13, <1>14, <1>15, <1>16, <1>17, <1>18, <1>19, <1>20, <1>21, <1>22 DEF Next, Kmain, Step

\* The inductive invariant implies the properties.
LEMMA IInvImplies == IInv => NoUseBeforeInit /\ ResumesOwnExecution /\ Wakeable
<1> SUFFICES ASSUME IInv
             PROVE  NoUseBeforeInit /\ ResumesOwnExecution /\ Wakeable
  OBVIOUS
<1>1. NoUseBeforeInit
  BY DEF IInv, TypeInv, NoUseBeforeInit
<1>2. ResumesOwnExecution
  BY DEF IInv, ExecutionKept, StacksDistinct, ResumesOwnExecution
<1>3. Wakeable
  BY DEF IInv, GlobalsReady, SetUpKept, Wakeable
<1>4. QED
  BY <1>1, <1>2, <1>3

\* Every behaviour of the kernel keeps the inductive invariant.
LEMMA IInvAlways == Spec => []IInv
  BY InitIInv, NextIInv, PTL DEF Spec

\* However many cores there are, and whichever of them start: none uses a global
\* before kmain has initialised it or takes an interrupt without a vector.
THEOREM InitialisedBeforeUse == Spec => []NoUseBeforeInit
  BY IInvAlways, IInvImplies, PTL

\* A core that returns from any number of timer interrupts, interleaved with
\* those of the other cores, has its own registers and a stack of its own.
THEOREM OwnExecutionResumed == Spec => []ResumesOwnExecution
  BY IInvAlways, IInvImplies, PTL

\* No interleaving of the cores' set-up and interrupts leaves a core waiting
\* with its timer, its interrupt or its CPU interface off or blocked.
THEOREM WaitingCoreWakeable == Spec => []Wakeable
  BY IInvAlways, IInvImplies, PTL
=============================================================================
