------------------------------ MODULE Scheduler ------------------------------
(***************************************************************************)
(* The preemptive scheduler of the kernel: scheduler.cpp, scheduler.h and  *)
(* the handler of vector 0x28 in task.asm, which the real-time clock (RTC) *)
(* raises and which yield() raises in software.                            *)
(*                                                                         *)
(* There is one CPU.  What it executes is a context: the code of a task    *)
(* and, above it, the activations of interrupt handlers that interrupted   *)
(* it.  A stretch of code that runs with interrupts disabled is one step.  *)
(* task_switch re-enables interrupts when it returns, so the rest of the   *)
(* handler is several steps, and the RTC may interrupt it between any two. *)
(***************************************************************************)
EXTENDS Naturals, Sequences

CONSTANTS
  MaxTasks,  \* MAX_TASKS, the size of the task table
  MaxRtc     \* bound: how often the RTC fires

ASSUME MaxTasksAssumption == MaxTasks \in Nat \ {0}
ASSUME MaxRtcAssumption == MaxRtc \in Nat

Tasks == 0 .. MaxTasks - 1
Kernel == 0                        \* KERNEL_TASK_ID, the task that runs kmain
Modes == {"kernel", "user"}        \* the code selector of a frame

(* Where an activation of a handler stands: in scheduler_interrupt after   *)
(* task_switch returned ("reset": about to clear no_scheduler_tick), at    *)
(* fxrstor, at end_of_interrupt, at iretq; in the general-protection       *)
(* handler before yield(), and inside yield() before int 0x28.             *)
Handler == {"reset", "restore", "eoi", "iret", "gp", "gp_int"}

(* A context.  Its task's code is at "run" or, inside yield() between      *)
(* setting the flag and the interrupt, at "int"; nest holds the handlers   *)
(* above it, innermost first.                                              *)
Context == [task : Tasks, cs : Modes, at : {"run", "int"}, nest : Seq(Handler)]
Entry(t, mode) == [task |-> t, cs |-> mode, at |-> "run", nest |-> <<>>]

VARIABLES
  state,      \* tasks[t].state
  frame,      \* tasks[t].frame: the context in which t is switched back in
  stack,      \* tasks[t].stack_base: is the stack of t "none", "mapped" or "freed"
  blocks,     \* fxsave_blocks[t]: the task whose FPU state the block holds
  total,      \* total_tasks
  current,    \* current_task_id
  switching,  \* task_switching_enabled
  noTick,     \* no_scheduler_tick
  ticks,      \* ticks_since_boot
  temp,       \* temp_fxsave
  fpu,        \* the task whose FPU state the processor holds
  cpu,        \* the context the processor executes
  inService,  \* has the PIC delivered an RTC interrupt that is not acknowledged
  rtc,        \* how often the RTC interrupted the processor
  machine     \* "ok", the assertion that failed, or "fault": no stack

tasks == <<state, frame, stack, blocks, total, current>>
handler == <<switching, noTick, ticks, temp, fpu, inService, rtc>>
vars == <<tasks, handler, cpu, machine>>

-----------------------------------------------------------------------------
(* The state in which init() leaves the scheduler. *)
Init ==
  /\ state = [t \in Tasks |-> IF t = Kernel THEN "running" ELSE "killed"]
  /\ frame = [t \in Tasks |-> Entry(t, "kernel")]
  /\ stack = [t \in Tasks |-> "none"]
  /\ blocks = [t \in Tasks |-> t]
  /\ total = 1
  /\ current = Kernel
  /\ switching = "off"
  /\ noTick = "clear"
  /\ ticks = 0
  /\ temp = Kernel
  /\ fpu = Kernel
  /\ cpu = Entry(Kernel, "kernel")
  /\ inService = "no"
  /\ rtc = 0
  /\ machine = "ok"

(* The processor executes the code of a task, outside yield(). *)
InTask == machine = "ok" /\ cpu.nest = <<>> /\ cpu.at = "run"

(* The innermost activation is a handler at pc. *)
At(pc) == machine = "ok" /\ cpu.nest # <<>> /\ Head(cpu.nest) = pc

Goto(pc) == cpu' = [cpu EXCEPT !.nest = <<pc>> \o Tail(@)]

(* The slot schedule_task takes: the first killed one, else a new one. *)
IsFreeSlot(s) ==
  /\ s \in 0..total
  /\ s < total => state[s] = "killed"
  /\ \A i \in 0 .. s - 1 : state[i] # "killed"

OutOfTasksOneLate(s) == s > MaxTasks
OutOfTasks(s) == s >= MaxTasks

schedule_task(mode) ==
  /\ InTask
  /\ \E s \in 0..total :
       /\ IsFreeSlot(s)
       /\ \/ /\ OutOfTasks(s)
             /\ machine' = "out_of_tasks"
             /\ UNCHANGED tasks
          \/ /\ ~OutOfTasks(s)
             /\ total' = IF s = total THEN total + 1 ELSE total
             /\ state' = [state EXCEPT ![s] = "waiting"]
             /\ stack' = [stack EXCEPT ![s] = "mapped"]
             /\ frame' = [frame EXCEPT ![s] = Entry(s, mode)]
             /\ UNCHANGED <<blocks, current, machine>>
  /\ UNCHANGED <<handler, cpu>>

enable_task_switch ==
  /\ InTask
  /\ current = Kernel
  /\ switching = "off"
  /\ switching' = "on"
  /\ UNCHANGED <<tasks, noTick, ticks, temp, fpu, inService, rtc, cpu, machine>>

(* The tasks task_switch may switch to, and how far its search walks to    *)
(* reach one.                                                              *)
RunnableButLast == {t \in 0 .. total - 2 : t # current /\ state[t] = "waiting"}
Runnable == {t \in 0 .. total - 1 : t # current /\ state[t] = "waiting"}

DistanceDown(t) == IF t < current THEN current - t ELSE current + total - t
Distance(t) == IF t > current THEN t - current ELSE t + total - current

(* The table after the interrupted context was saved in it, and the        *)
(* context that replaces it: the saved one, entered through the handler.   *)
SaveFrameInNext(c, next) == [frame EXCEPT ![next] = c]
SaveFrame(c, next) == [frame EXCEPT ![current] = c]

LoadBareFrame(next) == frame[next]
LoadFrame(next) == [frame[next] EXCEPT !.nest = <<"reset">> \o @]

(* task_switch on top of the interrupted context c. *)
task_switch(c) ==
  \/ /\ state[current] # "running"
     /\ machine' = "not_running"
     /\ temp' = fpu
     /\ UNCHANGED <<tasks, cpu>>
  \/ /\ state[current] = "running"
     /\ Runnable = {}
     /\ cpu' = [c EXCEPT !.nest = <<"reset">> \o @]
     /\ temp' = fpu
     /\ UNCHANGED <<tasks, machine>>
  \/ /\ state[current] = "running"
     /\ \E next \in Runnable :
          /\ \A t \in Runnable : Distance(next) <= Distance(t)
          /\ frame' = SaveFrame(c, next)
          /\ blocks' = [blocks EXCEPT ![current] = fpu]
          /\ temp' = blocks[next]
          /\ cpu' = LoadFrame(next)
          /\ state' = [state EXCEPT ![next] = "running"]
          /\ current' = next
     /\ UNCHANGED <<stack, total, machine>>

CountEveryInterrupt == ticks' = ticks + 1
CountTick == ticks' = IF noTick = "set" THEN ticks ELSE ticks + 1

(* The RTC interrupts the processor: the handler to the end of the         *)
(* interrupt if switching is off, else to the return of task_switch.       *)
Rtc ==
  /\ machine = "ok"
  /\ inService = "no"
  /\ rtc < MaxRtc
  /\ rtc' = rtc + 1
  /\ CountTick
  /\ \/ switching = "off" /\ UNCHANGED <<tasks, temp, cpu, machine, inService>>
     \/ switching = "on" /\ inService' = "yes" /\ task_switch(cpu)
  /\ UNCHANGED <<switching, noTick, fpu>>

(* yield(), by a task or by the general-protection handler, up to its      *)
(* interrupt.  With switching off it executes pause instead.               *)
yield ==
  /\ switching = "on"
  /\ \/ InTask /\ cpu' = [cpu EXCEPT !.at = "int"]
     \/ At("gp") /\ Goto("gp_int")
  /\ noTick' = "set"
  /\ UNCHANGED <<tasks, switching, ticks, temp, fpu, inService, rtc, machine>>

(* The int 0x28 of yield(). *)
Int28 ==
  /\ \/ /\ machine = "ok" /\ cpu.nest = <<>> /\ cpu.at = "int"
        /\ task_switch([cpu EXCEPT !.at = "run"])
     \/ At("gp_int") /\ task_switch(cpu)
  /\ CountTick
  /\ UNCHANGED <<switching, noTick, fpu, inService, rtc>>

-----------------------------------------------------------------------------
(* The rest of the handler, with interrupts enabled. *)
ResetTick ==
  /\ At("reset")
  /\ noTick' = "clear"
  /\ Goto("restore")
  /\ UNCHANGED <<tasks, switching, ticks, temp, fpu, inService, rtc, machine>>

Restore ==
  /\ At("restore")
  /\ fpu' = temp
  /\ Goto("eoi")
  /\ UNCHANGED <<tasks, switching, noTick, ticks, temp, inService, rtc, machine>>

end_of_interrupt ==
  /\ At("eoi")
  /\ inService' = "no"
  /\ Goto("iret")
  /\ UNCHANGED <<tasks, switching, noTick, ticks, temp, fpu, rtc, machine>>

(* get_current_task_is_user(): the selector in the frame of the table. *)
CurrentIsUser == frame[current].cs = "user" /\ frame[current].nest = <<>>

kill(t) ==
  /\ state' = [state EXCEPT ![t] = "killed"]
  /\ stack' = [stack EXCEPT ![t] = IF @ = "mapped" THEN "freed" ELSE @]
  /\ UNCHANGED <<frame, blocks, total, current>>

(* iretq.  The user code selector 0x18 carries requested privilege level 0 *)
(* and names a descriptor of privilege level 3, so the return to the code  *)
(* of a user task raises a general-protection fault, whose handler kills   *)
(* the current task.                                                       *)
Iret ==
  /\ At("iret")
  /\ \/ /\ Tail(cpu.nest) = <<>> => cpu.cs = "kernel"
        /\ cpu' = [cpu EXCEPT !.nest = Tail(@)]
        /\ UNCHANGED <<tasks, machine>>
     \/ /\ Tail(cpu.nest) = <<>>
        /\ cpu.cs = "user"
        /\ cpu' = [cpu EXCEPT !.nest = <<"gp">> \o @]
        /\ IF CurrentIsUser THEN kill(current) /\ UNCHANGED machine
                            ELSE machine' = "not_user" /\ UNCHANGED tasks
  /\ UNCHANGED handler

(* The function of a scheduled task returns into exit(): kill unmaps the   *)
(* stack exit() runs on, and the next push has nowhere to go.              *)
exit ==
  /\ InTask
  /\ current # Kernel
  /\ kill(current)
  /\ machine' = "fault"
  /\ UNCHANGED <<handler, cpu>>

(* kstd::panic halts with interrupts disabled, where the asserts stand. *)
Halted == machine # "ok" /\ UNCHANGED vars

Next ==
  \/ \E mode \in Modes : schedule_task(mode)
  \/ enable_task_switch
  \/ Rtc
  \/ yield
  \/ Int28
  \/ ResetTick
  \/ Restore
  \/ end_of_interrupt
  \/ Iret
  \/ exit
  \/ Halted

Spec == Init /\ [][Next]_vars

(* The processor keeps executing handlers, kmain reaches                   *)
(* enable_task_switch, and every task of the kernel is a loop around       *)
(* yield(): minishell::loop, dispatch_key_events, busy_sleep, acquire.     *)
Progress == yield \/ Int28 \/ ResetTick \/ Restore \/ end_of_interrupt \/ Iret

FairSpec == Spec /\ WF_vars(Progress) /\ WF_vars(enable_task_switch)

-----------------------------------------------------------------------------
(* Types of the scheduler's variables. *)
TypeOK ==
  /\ state \in [Tasks -> {"killed", "waiting", "running"}]
  /\ frame \in [Tasks -> Context]
  /\ stack \in [Tasks -> {"none", "mapped", "freed"}]
  /\ blocks \in [Tasks -> Tasks]
  /\ total \in 1..MaxTasks
  /\ current \in 0 .. total - 1
  /\ switching \in {"off", "on"}
  /\ noTick \in {"clear", "set"}
  /\ ticks \in Nat
  /\ temp \in Tasks
  /\ fpu \in Tasks
  /\ cpu \in Context
  /\ inService \in {"no", "yes"}
  /\ rtc \in 0..MaxRtc
  /\ machine \in {"ok", "out_of_tasks", "not_running", "not_user", "fault"}

(* The code the processor executes, or returns to through the handlers it  *)
(* is in, is the code of the task current_task_id names; every saved frame *)
(* is the frame of its own task.  A nested RTC interrupt saves the frame   *)
(* of a handler that is itself in the middle of switching tasks.           *)
CpuRunsCurrent ==
  /\ cpu.task = current
  /\ \A t \in Tasks : frame[t].task = t

(* ticks_since_boot never runs ahead of the clock: no_scheduler_tick keeps *)
(* yields from being counted, even when an RTC interrupt consumes the flag *)
(* between its being set and the software interrupt it was set for.        *)
TicksNeverAhead == ticks <= rtc

(* An RTC interrupt in service is always on its way to end_of_interrupt,   *)
(* also when task_switch replaced the context it will return to; lost, it  *)
(* would block the RTC and every interrupt below it for good.              *)
RtcIsAcknowledged ==
  inService = "yes" /\ machine = "ok" =>
    cpu.nest # <<>> /\ Head(cpu.nest) \in {"reset", "restore", "eoi"}

(* Tasks get the processor in the order they were scheduled: those up to   *)
(* the current one have had it, those after it wait at their entry.        *)
StartedInOrder ==
  \A t \in Tasks :
    /\ t < current => state[t] = "running"
    /\ t = current => state[t] # "waiting"
    /\ t > current /\ t < total => state[t] = "waiting" /\ frame[t].nest = <<>>
    /\ t >= total => state[t] = "killed"

(* A task that schedule_task put into the table gets the processor, unless *)
(* the machine stops.                                                      *)
ScheduledTaskStarts ==
  \A t \in Tasks : state[t] = "waiting" ~> (state[t] # "waiting" \/ machine # "ok")

(* The assertion of the general-protection handler: the fault of iretq     *)
(* finds the frame of a user task in the table, as no interrupt between    *)
(* the switch to the task and the iretq overwrote it.                      *)
GpFindsUserTask == machine # "not_user"

(* The scheduler hands out the processor as a queue of tasks would.        *)
Queue == INSTANCE RunQueue
           WITH queue <- [k \in 1 .. total - 1 - current |-> current + k]
RefinesRunQueue == Queue!Spec

(* The assertion of task_switch: the current task is running.              *)
CurrentTaskIsRunning == machine # "not_running"

(* A task whose function returns terminates properly, through exit().      *)
TaskTerminatesProperly == machine # "fault"

(* A task that was switched out gets the processor again.                  *)
SwitchedOutTaskResumes ==
  \A t \in Tasks :
    state[t] = "running" /\ current # t ~> (current = t \/ machine # "ok")

(* The handler restores the context of the task it returns to: its FPU     *)
(* state is in the processor when its code executes.                       *)
FpuStateRestored ==
  machine = "ok" /\ cpu.nest = <<>> => fpu = current
=============================================================================
