------------------------------ MODULE Scheduler ------------------------------
(***************************************************************************)
(* The process table (process/src/lib.rs) and the round-robin scheduler    *)
(* (sched/src/lib.rs) of the Eucalypt kernel on its one scheduled CPU.     *)
(*                                                                         *)
(* The kernel is preemptive: apic_timer_handler may interrupt the running  *)
(* process between any two of its instructions.  An action below is what a *)
(* process does between two points where a tick makes a difference, and    *)
(* HandleTimerInterrupt is the whole interrupt handler.                    *)
(*                                                                         *)
(* CURRENT_TICKS and wake_at_tick are compared only with each other, so    *)
(* the model keeps their difference, wake[p] = ticks left until            *)
(* wake_at_tick, which needs no bound on the clock.                        *)
(***************************************************************************)
EXTENDS Integers

CONSTANTS
  MAX_PROCESSES,   \* slots of PROCESS_TABLE.processes (64 in the code)
  QUANTUM_TICKS,   \* ticks a process runs before it is preempted (5)
  BootProcesses,   \* processes kmain creates before it starts the scheduler (2)
  SleepTicks,      \* what sleep_proc_ms / sleep_proc_us compute for `ticks`
  Program          \* Program[p]: the kernel services the code of p calls

Pid == 0 .. MAX_PROCESSES - 1

Services == {"yield", "block", "unblock", "sleep", "exit", "exit_current",
             "create", "destroy", "cleanup", "disable", "enable"}

ASSUME SchedulerConstants ==
  /\ MAX_PROCESSES \in Nat /\ MAX_PROCESSES > 0
  /\ QUANTUM_TICKS \in Nat /\ QUANTUM_TICKS > 0
  /\ BootProcesses \in Nat /\ BootProcesses < MAX_PROCESSES
  /\ SleepTicks \subseteq Nat \ {0}            \* `.max(1)`
  /\ Program \in [Pid -> SUBSET Services]

VARIABLES
  state,     \* state[p]: Process.state of slot p, "None" for an empty slot
  rsp,       \* rsp[p]: whose stack the saved Process.rsp of slot p points into
  wake,      \* wake[p]: wake_at_tick - CURRENT_TICKS, 0 once it has passed
  count,     \* PROCESS_COUNT
  current,   \* PROCESS_TABLE.current
  quantum,   \* QUANTUM_REMAINING
  enabled,   \* SCHEDULER_ENABLED
  cpu,       \* the process whose stack the CPU executes on
  pc,        \* pc[p]: where the code of p is
  slots,     \* slots[p]: slots the service p is inside has still to work on
  orphan     \* history: some process was destroyed while it was current

vars == <<state, rsp, wake, count, current, quantum, enabled, cpu, pc, slots,
          orphan>>

LiveStates == {"Ready", "Running", "Blocked", "Sleeping", "Terminated"}

(* run: in its own code; hlt: halted inside yield/block; sleep_set: between *)
(* the two stores of sleep_proc_*; sleeping: in its hlt loop; unblock:      *)
(* between the test and the store of unblock_process; create, cleanup:      *)
(* inside these services; boot: kmain; idle, exited: final hlt loops.       *)
Places == {"run", "hlt", "sleep_set", "sleeping", "unblock", "create",
           "cleanup", "boot", "idle", "exited"}

(* init_kernel_process gives the kernel Priority::Idle, create_process      *)
(* gives every other process Priority::Normal.                              *)
IsIdle(p) == p = 0

(* Kernel state when kmain has called init_kernel_process.                  *)
Init ==
  /\ state = [p \in Pid |-> IF p = 0 THEN "Running" ELSE "None"]
  /\ rsp = [p \in Pid |-> p]
  /\ wake = [p \in Pid |-> 0]
  /\ count = 1
  /\ current = 0
  /\ quantum = QUANTUM_TICKS
  /\ enabled = FALSE
  /\ cpu = 0
  /\ pc = [p \in Pid |-> IF p = 0 THEN "boot" ELSE "run"]
  /\ slots = [p \in Pid |-> {}]
  /\ orphan = FALSE

-----------------------------------------------------------------------------
(* The timer interrupt.                                                     *)

(* Mutant: a scan that starts at slot 0 instead of behind `current`.        *)
OffsetFromZero(p) == p

(* find_next_ready looks at the offsets 1 .. count from `current`.          *)
Offset(p) == IF p > current THEN p - current ELSE p + count - current

(* find_next_ready(current, true): the Ready process with the smallest      *)
(* offset, an Idle one only when there is no other.  A set of at most one.  *)
NextReady(st) ==
  LET ready  == {p \in Pid : p < count /\ st[p] = "Ready"}
      normal == {p \in ready : ~IsIdle(p)}
      pool   == IF normal # {} THEN normal ELSE ready
  IN  {p \in pool : \A q \in pool : Offset(p) <= Offset(q)}

(* Mutant: switch_to that does not make the preempted process Ready.        *)
SwitchToKeepsRunning(st, next) ==
  LET saved == IF st[current] = "None" THEN rsp
                                       ELSE [rsp EXCEPT ![current] = cpu]
  IN  /\ rsp' = saved
      /\ state' = [st EXCEPT ![next] = "Running"]
      /\ current' = next
      /\ cpu' = saved[next]

(* Mutant: switch_to that moves `current` before it saves the stack.        *)
SwitchToSavesLate(st, next) ==
  LET left == IF st[current] = "Running" THEN [st EXCEPT ![current] = "Ready"]
                                         ELSE st
  IN  /\ rsp' = [rsp EXCEPT ![next] = cpu]
      /\ state' = [left EXCEPT ![next] = "Running"]
      /\ current' = next
      /\ cpu' = cpu

(* switch_to: the interrupted stack is saved in the slot of `current`, and  *)
(* the CPU goes on with the stack saved in the slot of `next`.              *)
SwitchTo(st, next) ==
  LET saved == IF st[current] = "None" THEN rsp
                                       ELSE [rsp EXCEPT ![current] = cpu]
      left  == IF st[current] = "Running" THEN [st EXCEPT ![current] = "Ready"]
                                          ELSE st
  IN  /\ rsp' = saved
      /\ state' = [left EXCEPT ![next] = "Running"]
      /\ current' = next
      /\ cpu' = saved[next]

(* schedule: the quantum runs only for a Running process; one that cannot   *)
(* go on is left at once; one that is Ready is left alone.                  *)
Schedule(st) ==
  LET running == st[current] = "Running"
      q       == IF quantum > 0 THEN quantum - 1 ELSE 0
      leave   == \/ running /\ q = 0
                 \/ st[current] \in {"Terminated", "Sleeping", "Blocked"}
  IN  \/ /\ leave
         /\ \E next \in NextReady(st) : SwitchTo(st, next)
         /\ quantum' = QUANTUM_TICKS
      \/ /\ leave => NextReady(st) = {}
         /\ state' = st
         /\ quantum' = IF ~running THEN quantum
                       ELSE IF q = 0 THEN QUANTUM_TICKS ELSE q
         /\ UNCHANGED <<rsp, current, cpu>>

(* An interrupt ends the hlt of yield_process and block_current, unless it  *)
(* is taken just before the hlt executes.                                   *)
EndHlt ==
  \/ pc' = pc
  \/ pc[cpu] = "hlt" /\ pc' = [pc EXCEPT ![cpu] = "run"]

(* A tick passes.                                                           *)
TicksLeft == [p \in Pid |-> IF wake[p] > 0 THEN wake[p] - 1 ELSE 0]

(* Mutant: a sleeper is woken one tick too early.                           *)
WokenEarly ==
  [p \in Pid |-> IF p < count /\ state[p] = "Sleeping" /\ TicksLeft[p] <= 1
                 THEN "Ready" ELSE state[p]]

(* Mutant: the loop stops one slot short of PROCESS_COUNT.                  *)
WokenButLast ==
  [p \in Pid |-> IF p < count - 1 /\ state[p] = "Sleeping" /\ TicksLeft[p] = 0
                 THEN "Ready" ELSE state[p]]

(* The loop over the first PROCESS_COUNT slots that wakes the sleepers.     *)
Woken ==
  [p \in Pid |-> IF p < count /\ state[p] = "Sleeping" /\ TicksLeft[p] = 0
                 THEN "Ready" ELSE state[p]]

(* apic_timer_handler and handle_timer_interrupt.                           *)
HandleTimerInterrupt ==
  /\ EndHlt
  /\ \/ /\ enabled
        /\ wake' = TicksLeft
        /\ Schedule(Woken)
     \/ /\ ~enabled
        /\ UNCHANGED <<state, rsp, wake, current, quantum, cpu>>
  /\ UNCHANGED <<count, enabled, slots, orphan>>

(* An IDE interrupt: only its ending a hlt matters here.                    *)
DeviceInterrupt ==
  /\ pc[cpu] = "hlt"
  /\ pc' = [pc EXCEPT ![cpu] = "run"]
  /\ UNCHANGED <<state, rsp, wake, count, current, quantum, enabled, cpu,
                 slots, orphan>>

-----------------------------------------------------------------------------
(* What the process on the CPU does.                                        *)

At(place) == pc[cpu] = place

Goto(place) == pc' = [pc EXCEPT ![cpu] = place]

Calls(service) == At("run") /\ service \in Program[cpu]

(* The services act on PROCESS_TABLE.processes[PROCESS_TABLE.current], if   *)
(* there is a process in that slot.                                         *)
SetCurrent(s) ==
  state' = IF state[current] = "None" THEN state
                                      ELSE [state EXCEPT ![current] = s]

YieldProcess ==
  /\ Calls("yield")
  /\ SetCurrent("Ready")
  /\ quantum' = 0
  /\ Goto("hlt")
  /\ UNCHANGED <<rsp, wake, count, current, enabled, cpu, slots, orphan>>

BlockCurrent ==
  /\ Calls("block")
  /\ SetCurrent("Blocked")
  /\ Goto("hlt")
  /\ UNCHANGED <<rsp, wake, count, current, quantum, enabled, cpu, slots,
                 orphan>>

(* unblock_process: finds the process Blocked ...                           *)
UnblockProcess(p) ==
  /\ Calls("unblock")
  /\ state[p] = "Blocked"
  /\ slots' = [slots EXCEPT ![cpu] = {p}]
  /\ Goto("unblock")
  /\ UNCHANGED <<state, rsp, wake, count, current, quantum, enabled, cpu, orphan>>

(* ... and makes it Ready, possibly some ticks later.  (A store into a slot *)
(* that was emptied meanwhile leaves it empty.)                             *)
UnblockStore ==
  /\ At("unblock")
  /\ state' = [p \in Pid |-> IF p \in slots[cpu] /\ state[p] # "None"
                            THEN "Ready" ELSE state[p]]
  /\ slots' = [slots EXCEPT ![cpu] = {}]
  /\ Goto("run")
  /\ UNCHANGED <<rsp, wake, count, current, quantum, enabled, cpu, orphan>>

(* sleep_proc_ms and sleep_proc_us: the wake-up time is stored first ...    *)
SleepProc(ticks) ==
  /\ Calls("sleep")
  /\ wake' = IF state[current] = "None" THEN wake
                                        ELSE [wake EXCEPT ![current] = ticks]
  /\ Goto("sleep_set")
  /\ UNCHANGED <<state, rsp, count, current, quantum, enabled, cpu, slots,
                 orphan>>

(* ... then the state, and a tick may fall between the two ...              *)
SleepSet ==
  /\ At("sleep_set")
  /\ SetCurrent("Sleeping")
  /\ Goto("sleeping")
  /\ UNCHANGED <<rsp, wake, count, current, quantum, enabled, cpu, slots,
                 orphan>>

(* ... then it halts until an interrupt leaves it in another state.         *)
SleepReturn ==
  /\ At("sleeping")
  /\ state[current] \notin {"Sleeping", "None"}
  /\ Goto("run")
  /\ UNCHANGED <<state, rsp, wake, count, current, quantum, enabled, cpu,
                 slots, orphan>>

(* process_exit, which process_entry_wrapper calls when `entry` returns.    *)
ProcessExit ==
  /\ Calls("exit")
  /\ SetCurrent("Terminated")
  /\ Goto("exited")
  /\ UNCHANGED <<rsp, wake, count, current, quantum, enabled, cpu, slots,
                 orphan>>

(* exit_current_process returns to its caller.                              *)
ExitCurrentProcess ==
  /\ Calls("exit_current")
  /\ SetCurrent("Terminated")
  /\ UNCHANGED <<rsp, wake, count, current, quantum, enabled, cpu, pc, slots,
                 orphan>>

SetScheduler(on) ==
  /\ Calls(IF on THEN "enable" ELSE "disable")
  /\ enabled' = on
  /\ UNCHANGED <<state, rsp, wake, count, current, quantum, cpu, pc, slots,
                 orphan>>

-----------------------------------------------------------------------------
(* Creation and destruction.                                                *)

(* The slot create_process fills, and what is on the new stack.             *)
FillSlot(pid) ==
  /\ state' = [state EXCEPT ![pid] = "Ready"]
  /\ rsp' = [rsp EXCEPT ![pid] = pid]
  /\ wake' = [wake EXCEPT ![pid] = 0]
  /\ count' = count + 1

(* Mutant: create_process without the limit check.                          *)
CreateProcessUnchecked ==
  /\ Calls("create")
  /\ slots' = [slots EXCEPT ![cpu] = {count}]
  /\ Goto("create")
  /\ UNCHANGED <<state, rsp, wake, count, current, quantum, enabled, cpu,
                 orphan>>

(* create_process reads PROCESS_COUNT and checks the limit.  A call that    *)
(* fails there, or in the allocation of the stack or the page table, has no *)
(* effect on the process table.                                             *)
CreateProcess ==
  /\ Calls("create")
  /\ count < MAX_PROCESSES
  /\ slots' = [slots EXCEPT ![cpu] = {count}]
  /\ Goto("create")
  /\ UNCHANGED <<state, rsp, wake, count, current, quantum, enabled, cpu,
                 orphan>>

CreateFail ==
  /\ At("create")
  /\ slots' = [slots EXCEPT ![cpu] = {}]
  /\ Goto("run")
  /\ UNCHANGED <<state, rsp, wake, count, current, quantum, enabled, cpu,
                 orphan>>

CreateFinish ==
  /\ At("create")
  /\ \E pid \in slots[cpu] :
       /\ FillSlot(pid)
       /\ pc' = [pc EXCEPT ![cpu] = "run", ![pid] = "run"]
  /\ slots' = [slots EXCEPT ![cpu] = {}]
  /\ UNCHANGED <<current, quantum, enabled, cpu, orphan>>

(* kmain: create_process, unpreempted because the scheduler is still off.   *)
BootCreate ==
  /\ At("boot")
  /\ count <= BootProcesses
  /\ FillSlot(count)
  /\ UNCHANGED <<current, quantum, enabled, cpu, pc, slots, orphan>>

(* kmain: init_scheduler, enable_scheduler, loop { hlt }.                   *)
StartScheduler ==
  /\ At("boot")
  /\ count = BootProcesses + 1
  /\ current' = 0
  /\ quantum' = QUANTUM_TICKS
  /\ state' = IF state[0] = "None" THEN state
                                   ELSE [state EXCEPT ![0] = "Running"]
  /\ enabled' = TRUE
  /\ Goto("idle")
  /\ UNCHANGED <<rsp, wake, count, cpu, slots, orphan>>

(* destroy_process, when there is a process in the slot.                    *)
TakeSlot(p) ==
  IF state[p] = "None" THEN UNCHANGED <<state, current, orphan>>
  ELSE /\ state' = [state EXCEPT ![p] = "None"]
       /\ current' = IF current = p THEN 0 ELSE current
       /\ orphan' = (orphan \/ current = p)

DestroyProcess(p) ==
  /\ Calls("destroy")
  /\ TakeSlot(p)
  /\ UNCHANGED <<rsp, wake, count, quantum, enabled, cpu, pc, slots>>

(* cleanup_terminated_processes: a loop over the slots below PROCESS_COUNT, *)
(* one slot per step, in ascending order.                                   *)
CleanupTerminatedProcesses ==
  /\ Calls("cleanup")
  /\ slots' = [slots EXCEPT ![cpu] = {p \in Pid : p < count}]
  /\ Goto("cleanup")
  /\ UNCHANGED <<state, rsp, wake, count, current, quantum, enabled, cpu, orphan>>

CleanupSlot(p) ==
  /\ At("cleanup")
  /\ p \in slots[cpu]
  /\ \A q \in slots[cpu] : p <= q
  /\ IF state[p] = "Terminated" THEN TakeSlot(p)
                                ELSE UNCHANGED <<state, current, orphan>>
  /\ slots' = [slots EXCEPT ![cpu] = @ \ {p}]
  /\ UNCHANGED <<rsp, wake, count, quantum, enabled, cpu, pc>>

CleanupReturn ==
  /\ At("cleanup")
  /\ slots[cpu] = {}
  /\ Goto("run")
  /\ UNCHANGED <<state, rsp, wake, count, current, quantum, enabled, cpu, slots,
                 orphan>>

-----------------------------------------------------------------------------
ProcessStep ==
  \/ YieldProcess
  \/ BlockCurrent
  \/ \E p \in Pid : UnblockProcess(p)
  \/ UnblockStore
  \/ \E ticks \in SleepTicks : SleepProc(ticks)
  \/ SleepSet
  \/ SleepReturn
  \/ ProcessExit
  \/ ExitCurrentProcess
  \/ \E on \in BOOLEAN : SetScheduler(on)
  \/ CreateProcess
  \/ CreateFail
  \/ CreateFinish
  \/ BootCreate
  \/ StartScheduler
  \/ \E p \in Pid : DestroyProcess(p)
  \/ CleanupTerminatedProcesses
  \/ \E p \in Pid : CleanupSlot(p)
  \/ CleanupReturn

Next ==
  \/ HandleTimerInterrupt
  \/ DeviceInterrupt
  \/ ProcessStep

Spec == Init /\ [][Next]_vars

(* Fairness.  The APIC timer is periodic, so ticks keep coming, and kmain   *)
(* gets to its hlt loop.  Strong fairness for a process inside a service: a *)
(* quantum is long enough for a few instructions, so one that is given the  *)
(* CPU again and again gets to the end of the service.                      *)
FairSpec ==
  /\ Spec
  /\ WF_vars(HandleTimerInterrupt)
  /\ WF_vars(BootCreate)
  /\ WF_vars(StartScheduler)
  /\ \A p \in Pid :
       SF_vars(/\ cpu = p
               /\ SleepSet \/ SleepReturn \/ UnblockStore \/ CreateFinish \/ CreateFail)

(* test_process_1 and test_process_2 of kernel/src/main.rs call             *)
(* sleep_proc_ms in an endless loop, and a tick does not fall between its   *)
(* two stores every single time.                                            *)
LoopFairness ==
  \A p \in Pid :
    /\ SF_vars(cpu = p /\ \E ticks \in SleepTicks : SleepProc(ticks))
    /\ SF_vars(cpu = p /\ wake[current] \in SleepTicks /\ SleepSet)

SleepLoopSpec == FairSpec /\ LoopFairness

-----------------------------------------------------------------------------
(* Properties.                                                              *)

TypeOK ==
  /\ state \in [Pid -> LiveStates \cup {"None"}]
  /\ rsp \in [Pid -> Pid]
  /\ wake \in [Pid -> Nat]
  /\ count \in Nat
  /\ current \in Pid
  /\ quantum \in 0 .. QUANTUM_TICKS
  /\ enabled \in BOOLEAN
  /\ cpu \in Pid
  /\ pc \in [Pid -> Places]
  /\ slots \in [Pid -> SUBSET Pid]
  /\ orphan \in BOOLEAN

(* At most one process is Running, and it is PROCESS_TABLE.current: what    *)
(* switch_to, yield_process, block_current, sleep_proc_*, process_exit and  *)
(* destroy_process do to the state field never leaves a second one behind.  *)
RunningIsCurrent ==
  \A p \in Pid : state[p] = "Running" => p = current

(* No process is ever resumed on another one's stack: the CPU executes the  *)
(* process PROCESS_TABLE.current names, and every slot keeps its own        *)
(* process's stack pointer.  (destroy_process of the current process breaks *)
(* this by design of its last statement, hence the history variable.)       *)
ContextIntegrity ==
  ~orphan => cpu = current /\ \A p \in Pid : rsp[p] = p

(* sleep_proc_ms and sleep_proc_us never return before the wake-up tick     *)
(* they computed, whoever wakes, blocks or unblocks whom in between.        *)
SleepNotEarly ==
  ~orphan =>
    \A p \in Pid : pc[p] = "sleeping" /\ state[p] \notin {"Sleeping", "None"}
                    => wake[p] = 0

(* The table is dense: PROCESS_COUNT never exceeds MAX_PROCESSES (the       *)
(* timer handler indexes every slot below it) and no process sits at or     *)
(* above it, where find_next_ready would never see it.                      *)
TableDense ==
  /\ count <= MAX_PROCESSES
  /\ \A p \in Pid : p >= count => state[p] = "None"

(* When the process on the CPU cannot go on (it sleeps, is blocked or has   *)
(* exited), find_next_ready has some process to switch to: the kernel's     *)
(* idle loop is available, unless destroy_process was called for it.        *)
SomeoneToRun ==
  /\ enabled /\ ~orphan /\ state[0] # "None"
  /\ state[current] \in {"Sleeping", "Blocked", "Terminated"}
  => \E p \in Pid : p < count /\ state[p] = "Ready"

(* Round robin ("the scheduler goes from pid1 -> pid2 and so on"): a        *)
(* process that is Ready gets the CPU, or is destroyed.  The kernel's Idle  *)
(* process runs only when no other can.                                     *)
RoundRobin ==
  \A p \in Pid \ {0} : state[p] = "Ready" ~> (cpu = p \/ state[p] = "None")

(* The timer handler wakes every sleeper, and the sleeper gets out of       *)
(* sleep_proc_*: nobody sleeps forever.                                     *)
SleepersWake ==
  \A p \in Pid \ {0} : pc[p] = "sleeping" ~> (pc[p] = "run" \/ state[p] = "None")
=============================================================================
