-------------------------------- MODULE Boot --------------------------------
(***************************************************************************)
(* The kernel binary (kernel/src): kmain on the boot core, the start of    *)
(* the other cores, and from then on the timer interrupts of every core,   *)
(* with the interrupt policy and the scheduler of kernel_core.             *)
(*                                                                         *)
(* The kernel's globals are Once cells; `once` is the set of those that    *)
(* are initialised.  At this version of the code nothing puts a thread on  *)
(* a scheduler's queue: every core has its idle thread and no other.       *)
(***************************************************************************)
EXTENDS Integers, Sequences

CONSTANTS
  Cores,          \* CPU ids in the device tree, the boot core being 0
  Stacks          \* the memory that the page allocator has for stacks

ASSUME BootAssumption == Cores \subseteq Nat /\ 0 \in Cores /\ Stacks \subseteq Nat \ {0}

VARIABLES
  pc,             \* what each core is about to do
  once,           \* the globals that are initialised
  stack,          \* the stack of each core, 0 for none
  vector,         \* cores with an exception vector
  unmasked,       \* cores that accept interrupts
  timer,          \* each core's timer: "off", "armed" or "fired"
  distributor,    \* the interrupt controller's distributor: "off" or "on"
  interface,      \* cores whose CPU interface is enabled, for every priority
  enabled,        \* cores with the timer's interrupt enabled
  active,         \* cores with an acknowledged interrupt that is not finished
  regs,           \* whose execution a core's registers hold
  frame,          \* the registers that the exception vector has saved
  saved,          \* the processor state of each thread
  current,        \* current_threads of the scheduler
  queue           \* queues of the scheduler

scheduling == <<saved, current, queue>>
gic == <<distributor, interface, enabled>>
machine == <<vector, unmasked, timer, gic, active, regs, frame>>
vars == <<pc, once, stack, machine, scheduling>>

NoStack == 0
Handler == -1     \* the registers in an interrupt handler
Zeroed == -2      \* new_for_idle_thread

NoThreads == [t \in {} |-> Zeroed]
EmptyQueue == <<>>

\* start.S has set up the boot core's stack and jumped to kmain.
Init ==
  /\ pc = [c \in Cores |-> IF c = 0 THEN "vector" ELSE "off"]
  /\ once = {}
  /\ stack = [c \in Cores |-> NoStack]
  /\ vector = {} /\ unmasked = {} /\ active = {}
  /\ distributor = "off" /\ interface = {} /\ enabled = {}
  /\ timer = [c \in Cores |-> "off"]
  /\ regs = [c \in Cores |-> c]
  /\ frame = [c \in Cores |-> c]
  /\ saved = NoThreads /\ current = NoThreads /\ queue = NoThreads

Goto(c, label) == pc' = [pc EXCEPT ![c] = label]

\* The core uses globals, and panics when one of them is not initialised.
Uses(c, globals, label) == Goto(c, IF globals \subseteq once THEN label ELSE "panic")
-----------------------------------------------------------------------------
\* install_exception_vector; on the boot core also zero_bss_section.
InstallVector(c) ==
  /\ pc[c] = "vector"
  /\ vector' = vector \cup {c}
  /\ Goto(c, IF c = 0 THEN "logging" ELSE "core_interrupts")
  /\ UNCHANGED <<once, stack, unmasked, timer, gic, active, regs, frame, scheduling>>

\* init_logging
InitLogging ==
  /\ pc[0] = "logging"
  /\ once' = once \cup {"LOGGER"}
  /\ Goto(0, "memory")
  /\ UNCHANGED <<stack, machine, scheduling>>

\* memory::init, which module MemorySetup is about.
InitMemory ==
  /\ pc[0] = "memory"
  /\ once' = once \cup {"PAGE_ALLOCATOR", "ALLOCATOR"}
  /\ Goto(0, "threads")
  /\ UNCHANGED <<stack, machine, scheduling>>

\* Mutant: the cores get the same idle thread.
InitThreadsShared ==
  /\ pc[0] = "threads"
  /\ Uses(0, {"ALLOCATOR"}, "interrupts")
  /\ once' = once \cup {"THREADS", "SCHEDULER"}
  /\ saved' = [t \in Cores |-> Zeroed]
  /\ current' = [c \in Cores |-> 0]
  /\ queue' = [c \in Cores |-> EmptyQueue]
  /\ UNCHANGED <<stack, machine>>

\* Mutant: the other cores are started before the interrupts are initialised.
InitThreadsEarlySmp ==
  /\ pc[0] = "threads"
  /\ Uses(0, {"ALLOCATOR"}, "smp")
  /\ once' = once \cup {"THREADS", "SCHEDULER"}
  /\ saved' = [t \in Cores |-> Zeroed]
  /\ current' = [c \in Cores |-> c]
  /\ queue' = [c \in Cores |-> EmptyQueue]
  /\ UNCHANGED <<stack, machine>>

\* list_cores and thread::init: an idle thread of its own for each core, named
\* here after the core, with a processor state that is zero.
InitThreads ==
  /\ pc[0] = "threads"
  /\ Uses(0, {"ALLOCATOR"}, "interrupts")
  /\ once' = once \cup {"THREADS", "SCHEDULER"}
  /\ saved' = [t \in Cores |-> Zeroed]
  /\ current' = [c \in Cores |-> c]
  /\ queue' = [c \in Cores |-> EmptyQueue]
  /\ UNCHANGED <<stack, machine>>

\* interrupt::init: the controller, which forwards interrupts from now on.
InitController ==
  /\ pc[0] = "interrupts"
  /\ once' = once \cup {"CONTROLLER"}
  /\ distributor' = "on"
  /\ Goto(0, "timer")
  /\ UNCHANGED <<stack, vector, unmasked, timer, interface, enabled, active, regs, frame, scheduling>>

\* The timer and the handler policy.  The timer's interrupt gets priority 0,
\* which it has after a reset, too, and is one that each core has for itself.
InitTimer ==
  /\ pc[0] = "timer"
  /\ Uses(0, {"SCHEDULER"}, "core_interrupts")
  /\ once' = once \cup {"TIMER", "HANDLER_POLICY"}
  /\ UNCHANGED <<stack, machine, scheduling>>

\* Controller::enable for the timer's interrupt: the word that write_bit_for_id
\* sets a bit of is another one for each core.
Enable(c) == enabled' = enabled \cup {c}

\* Mutant: the interrupt is enabled on the boot core only.
StartForCoreOnce(c) ==
  /\ timer' = [timer EXCEPT ![c] = "fired"]
  /\ Enable(0)

\* Timer::start_for_core sets the timer to zero, so that it fires at once.
StartForCore(c) ==
  /\ timer' = [timer EXCEPT ![c] = "fired"]
  /\ Enable(c)

\* Timer::reset, to a tenth of a second.
Reset(c) == timer' = [timer EXCEPT ![c] = "armed"]

\* initialize_for_core lets interrupts of every priority through the CPU
\* interface.
InitializeForCore(c) == interface' = interface \cup {c}

\* init_for_core
InitForCore(c) ==
  /\ pc[c] = "core_interrupts"
  /\ Uses(c, {"CONTROLLER", "TIMER"}, IF c = 0 THEN "smp" ELSE "unmask")
  /\ InitializeForCore(c)
  /\ StartForCore(c)
  /\ UNCHANGED <<once, stack, vector, unmasked, distributor, active, regs, frame, scheduling>>

\* CpuExceptionMask::all_enabled().write(), then the loop of wfi.
Unmask(c) ==
  /\ pc[c] = "unmask"
  /\ unmasked' = unmasked \cup {c}
  /\ Goto(c, "idle")
  /\ UNCHANGED <<once, stack, vector, timer, gic, active, regs, frame, scheduling>>
-----------------------------------------------------------------------------
Waiting == {c \in Cores \ {0} : stack[c] = NoStack}

\* The page allocator's answer: memory that nobody has.
FreshStacks == Stacks \ {stack[c] : c \in Cores}

\* One turn of boot_all_cores, for cores in any order: a stack, ...
BootCore(c, s) ==
  /\ pc[0] = "smp" /\ c \in Waiting
  /\ s \in FreshStacks
  /\ stack' = [stack EXCEPT ![c] = s]
  /\ Uses(0, {"PAGE_ALLOCATOR"}, "start_core")
  /\ UNCHANGED <<once, machine, scheduling>>

\* ... then start_core, after which the core starts on its own: CPU_ON succeeds.
StartCore(c) ==
  /\ pc[0] = "start_core"
  /\ pc[c] = "off" /\ stack[c] # NoStack
  /\ pc' = [pc EXCEPT ![0] = "smp", ![c] = "vector"]
  /\ UNCHANGED <<once, stack, machine, scheduling>>

\* The device tree lacks the UART, the RAM, the cores, the interrupt controller
\* or the timer, or describes one of them in a way the kernel does not know: an
\* expect of kmain stops the boot core before there are others.
SetUpFails ==
  /\ pc[0] \in {"logging", "memory", "threads", "interrupts", "timer"}
  /\ Goto(0, "halted")
  /\ UNCHANGED <<once, stack, machine, scheduling>>

\* The device tree's PSCI node is of no use, the enable method of a core is not
\* PSCI, there is no memory for a stack, or the firmware refuses: init_smp's
\* expect stops the boot core.  The cores that have started go on.
BootFails ==
  /\ pc[0] \in {"smp", "start_core"}
  /\ Goto(0, "halted")
  /\ UNCHANGED <<once, stack, machine, scheduling>>

\* The loop of the panic handler.
Halted == pc[0] = "halted" /\ UNCHANGED vars

AllBooted ==
  /\ pc[0] = "smp" /\ Waiting = {}
  /\ Goto(0, "unmask")
  /\ UNCHANGED <<once, stack, machine, scheduling>>
-----------------------------------------------------------------------------
\* The hardware: the timer has counted down.
TimerFires(c) ==
  /\ timer[c] = "armed"
  /\ timer' = [timer EXCEPT ![c] = "fired"]
  /\ UNCHANGED <<pc, once, stack, vector, unmasked, gic, active, regs, frame, scheduling>>

\* The interrupt controller has an interrupt for the core: ack_interrupt does
\* not answer INTID_NONE_PENDING.
Pending(c) ==
  /\ timer[c] = "fired" /\ c \in enabled /\ distributor = "on" /\ c \in interface
  /\ c \notin active

\* The hardware takes the interrupt, with interrupts masked, and the exception
\* vector saves the registers.
TakeInterrupt(c) ==
  /\ pc[c] = "idle" /\ c \in unmasked /\ Pending(c)
  /\ unmasked' = unmasked \ {c}
  /\ frame' = [frame EXCEPT ![c] = regs[c]]
  /\ regs' = [regs EXCEPT ![c] = Handler]
  /\ Goto(c, IF c \in vector THEN "save" ELSE "panic")
  /\ UNCHANGED <<once, stack, vector, timer, gic, active, scheduling>>

\* save_current_thread_state
Save(c) ==
  /\ pc[c] = "save"
  /\ Uses(c, {"SCHEDULER", "HANDLER_POLICY"}, "ack")
  /\ saved' = [saved EXCEPT ![current[c]] = frame[c]]
  /\ UNCHANGED <<once, stack, machine, current, queue>>

\* finish_interrupt
FinishInterrupt(c) == active' = active \ {c}

\* The top of the loop in process_interrupts: ack_interrupt.
Ack(c) ==
  /\ pc[c] = "ack"
  /\ IF Pending(c)
     THEN active' = active \cup {c} /\ Goto(c, "slice")
     ELSE UNCHANGED active /\ Goto(c, "restore")
  /\ UNCHANGED <<once, stack, vector, unmasked, timer, gic, regs, frame, scheduling>>

\* next_time_slice: the first thread of queue q that is in `running`, if any,
\* takes the place of t, and the threads before it go to the end of the queue.
NextTimeSlice(q, t, running) ==
  LET found == {i \in DOMAIN q : q[i] \in running}
      i == CHOOSE i \in found : \A j \in found : i <= j IN
  IF found = {} THEN <<q, t>>
  ELSE <<SubSeq(q, i + 1, Len(q)) \o SubSeq(q, 1, i - 1) \o <<t>>, q[i]>>

\* The body of the loop for the timer's interrupt: the next time slice, the
\* timer's reset and finish_interrupt.  All threads were created running.
HandleTimer(c) ==
  /\ pc[c] = "slice"
  /\ LET n == NextTimeSlice(queue[c], current[c], DOMAIN saved) IN
       queue' = [queue EXCEPT ![c] = n[1]] /\ current' = [current EXCEPT ![c] = n[2]]
  /\ Reset(c)
  /\ FinishInterrupt(c)
  /\ Goto(c, "ack")
  /\ UNCHANGED <<once, stack, vector, unmasked, gic, regs, frame, saved>>

\* restore_current_thread_state and the return from the exception.
Restore(c) ==
  /\ pc[c] = "restore"
  /\ frame' = [frame EXCEPT ![c] = saved[current[c]]]
  /\ regs' = [regs EXCEPT ![c] = saved[current[c]]]
  /\ unmasked' = unmasked \cup {c}
  /\ Goto(c, "idle")
  /\ UNCHANGED <<once, stack, vector, timer, gic, active, scheduling>>

\* The loop of wfi, while there is no interrupt.
Wait(c) == pc[c] = "idle" /\ UNCHANGED vars

\* What a core does by itself.
Step(c) ==
  \/ InstallVector(c) \/ InitForCore(c) \/ Unmask(c)
  \/ Save(c) \/ Ack(c) \/ HandleTimer(c) \/ Restore(c)

Kmain ==
  \/ InitLogging \/ InitMemory \/ InitThreads \/ InitController \/ InitTimer \/ SetUpFails
  \/ \E c \in Cores : StartCore(c) \/ \E s \in Stacks : BootCore(c, s)
  \/ BootFails \/ AllBooted

Next == Kmain \/ Halted \/ \E c \in Cores : Step(c) \/ TimerFires(c) \/ TakeInterrupt(c) \/ Wait(c)

\* A core that can go on does, timers count, and interrupts that are pending
\* and enabled are taken.
Fairness ==
  /\ WF_vars(Kmain)
  /\ \A c \in Cores : WF_vars(Step(c)) /\ WF_vars(TimerFires(c)) /\ WF_vars(TakeInterrupt(c))

Spec == Init /\ [][Next]_vars /\ Fairness
-----------------------------------------------------------------------------
\* No core uses a global before the boot core has initialised it, nor takes an
\* interrupt without a vector ("interrupt handler policy to be initialized
\* before interrupts are enabled", handlers.rs:38).
NoUseBeforeInit == \A c \in Cores : pc[c] # "panic"

\* A core that waits for interrupts runs on a stack of its own and, after any
\* number of interrupts on any cores, goes on with its own execution: what it
\* restores is what it saved ("Each idle thread must be distinct",
\* scheduler.rs:23).
ResumesOwnExecution ==
  /\ \A c \in Cores : pc[c] = "idle" => regs[c] = c
  /\ \A c, d \in Cores \ {0} : c # d /\ stack[c] # NoStack => stack[c] # stack[d]

\* A core that waits can be woken: its timer runs, nothing between the timer and
\* the core is off or masked, and no interrupt of it is unfinished.
Wakeable ==
  \A c \in Cores : pc[c] = "idle" =>
    /\ timer[c] # "off" /\ c \in enabled /\ distributor = "on" /\ c \in interface
    /\ c \in unmasked /\ c \in vector /\ c \notin active

\* Every core that is started gets time slices for ever: each timer interrupt is
\* handled, finished and followed by another (handler.rs:38-54).
EveryCoreRuns ==
  \A c \in Cores :
    \/ []<>(pc[c] = "slice")
    \/ <>[](pc[0] = "halted" /\ pc[c] \in {"off", "halted"})
=============================================================================
