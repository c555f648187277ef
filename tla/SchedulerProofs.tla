--------------------------- MODULE SchedulerProofs ---------------------------
(* Proofs, for every size of the task table and every number of clock      *)
(* interrupts, of the safety properties the runs of MCScheduler check.     *)
EXTENDS Scheduler, TLAPS, SequenceTheorems

USE MaxTasksAssumption, MaxRtcAssumption

(* The innermost activation of n is the general-protection handler. *)
InGp(n) == n # <<>> /\ Head(n) \in {"gp", "gp_int"}

(* Nothing is ever stacked on the general-protection handler. *)
GpIsInnermost(n) == \A i \in 2 .. Len(n) : n[i] \notin {"gp", "gp_int"}

(* A task inside yield() whose flag was consumed, or may be consumed by a  *)
(* handler above it, was interrupted by an RTC interrupt nobody counted.   *)
YieldOwesTick ==
  cpu.at = "int" /\ (noTick = "clear" \/ cpu.nest # <<>>) => ticks + 1 <= rtc

(* The tasks that wait are at their entry. *)
WaitingAtEntry ==
  \A t \in Tasks : t > current /\ t < total =>
    frame[t] = Entry(t, "kernel") \/ frame[t] = Entry(t, "user")

(* Exactly the general-protection handler runs on behalf of a killed task. *)
KilledInGp == machine = "ok" => (state[current] = "running" <=> ~InGp(cpu.nest))

GpYieldMarked ==
  machine = "ok" /\ cpu.nest # <<>> /\ Head(cpu.nest) = "gp_int" => noTick = "set"

UserFrameInTable ==
  cpu.cs = "user" => frame[current].cs = "user" /\ frame[current].nest = <<>>

IInv ==
  /\ TypeOK
  /\ CpuRunsCurrent
  /\ TicksNeverAhead
  /\ RtcIsAcknowledged
  /\ StartedInOrder
  /\ GpFindsUserTask
  /\ GpIsInnermost(cpu.nest)
  /\ YieldOwesTick
  /\ WaitingAtEntry
  /\ KilledInGp
  /\ GpYieldMarked
  /\ UserFrameInTable

-----------------------------------------------------------------------------
(* Entering a handler, moving on inside one, and leaving one. *)
LEMMA Enter ==
  ASSUME NEW n \in Seq(Handler), NEW pc \in Handler
  PROVE  /\ <<pc>> \o n \in Seq(Handler)
         /\ <<pc>> \o n # <<>>
         /\ Head(<<pc>> \o n) = pc
         /\ GpIsInnermost(n) /\ ~InGp(n) => GpIsInnermost(<<pc>> \o n)
<1> DEFINE m == <<pc>> \o n
<1>1. <<pc>> \in Seq(Handler) /\ Len(<<pc>>) = 1 /\ <<pc>>[1] = pc
  OBVIOUS
<1>2. /\ m \in Seq(Handler)
      /\ Len(m) = 1 + Len(n)
      /\ \A i \in 1 .. 1 + Len(n) : m[i] = IF i <= 1 THEN <<pc>>[i] ELSE n[i - 1]
  BY <1>1, ConcatProperties
<1>3. Len(n) \in Nat
  BY LenProperties
<1>4. m # <<>>
  BY <1>2, <1>3
<1>5. Head(m) = m[1]
  BY <1>2, <1>4
<1>6. ASSUME GpIsInnermost(n), ~InGp(n), NEW i \in 2 .. Len(m)
      PROVE  m[i] \notin {"gp", "gp_int"}
  <2>1. i \in 1 .. 1 + Len(n) /\ m[i] = n[i - 1] /\ i - 1 \in 1 .. Len(n)
    BY <1>2, <1>3
  <2>2. CASE i = 2
    <3>1. n # <<>> /\ Head(n) = n[1] /\ i - 1 = 1
      BY <2>1, <2>2, <1>3
    <3> QED BY <3>1, <2>1, <1>6 DEF InGp
  <2>3. CASE i # 2
    <3>1. i - 1 \in 2 .. Len(n)
      BY <2>1, <2>3, <1>3
    <3> QED BY <3>1, <2>1, <1>6 DEF GpIsInnermost
  <2> QED BY <2>2, <2>3
<1>7. Head(m) = pc
  BY <1>1, <1>2, <1>3, <1>5
<1> QED BY <1>2, <1>4, <1>6, <1>7 DEF GpIsInnermost

(* What remains of the stack of handlers when the innermost one returns. *)
LEMMA Leave ==
  ASSUME NEW n \in Seq(Handler), n # <<>>, GpIsInnermost(n)
  PROVE  /\ Tail(n) \in Seq(Handler)
         /\ GpIsInnermost(Tail(n))
         /\ ~InGp(Tail(n))
<1>1. /\ Tail(n) \in Seq(Handler)
      /\ Len(Tail(n)) = Len(n) - 1
      /\ \A i \in 1 .. Len(Tail(n)) : Tail(n)[i] = n[i + 1]
  BY HeadTailProperties
<1>2. Len(n) \in Nat
  BY LenProperties
<1>3. \A i \in 1 .. Len(Tail(n)) : Tail(n)[i] \notin {"gp", "gp_int"}
  BY <1>1, <1>2 DEF GpIsInnermost
<1>4. GpIsInnermost(Tail(n))
  BY <1>1, <1>2, <1>3 DEF GpIsInnermost
<1>5. ~InGp(Tail(n))
  <2>1. ASSUME Tail(n) # <<>> PROVE Head(Tail(n)) = Tail(n)[1] /\ 1 \in 1 .. Len(Tail(n))
    BY <2>1, <1>1, HeadTailProperties, LenProperties, EmptySeq
  <2> QED BY <2>1, <1>3 DEF InGp
<1> QED BY <1>1, <1>4, <1>5

(* init() establishes the invariant. *)
LEMMA InitIInv == Init => IInv
<1> SUFFICES ASSUME Init PROVE IInv
  OBVIOUS
<1>1. TypeOK
  BY DEF Init, TypeOK, Tasks, Kernel, Entry, Context, Modes
<1>2. CpuRunsCurrent /\ TicksNeverAhead /\ RtcIsAcknowledged /\ StartedInOrder
      /\ GpFindsUserTask
  BY DEF Init, CpuRunsCurrent, TicksNeverAhead, RtcIsAcknowledged, StartedInOrder,
         GpFindsUserTask, Tasks, Kernel, Entry
<1>3. GpIsInnermost(cpu.nest)
  BY DEF Init, GpIsInnermost, Entry
<1>4. YieldOwesTick /\ WaitingAtEntry /\ KilledInGp /\ GpYieldMarked /\ UserFrameInTable
  BY DEF Init, YieldOwesTick, WaitingAtEntry, KilledInGp, GpYieldMarked, UserFrameInTable,
         Tasks, Kernel, Entry, InGp
<1> QED BY <1>1, <1>2, <1>3, <1>4 DEF IInv

-----------------------------------------------------------------------------
(* No slot below total is free while a task executes, so schedule_task     *)
(* takes a new one.                                                        *)
LEMMA FreeSlotIsNew ==
  ASSUME IInv, InTask, NEW s \in 0..total, IsFreeSlot(s)
  PROVE  s = total
<1>1. \A t \in Tasks : t < total => state[t] # "killed"
  <2>1. state[current] = "running"
    BY DEF IInv, KilledInGp, InGp, InTask
  <2>2. \A t \in Tasks : t < current \/ t = current \/ t > current
    BY DEF IInv, TypeOK, Tasks
  <2> QED BY <2>1, <2>2 DEF IInv, StartedInOrder
<1>2. total \in 1..MaxTasks
  BY DEF IInv, TypeOK
<1>3. s < total => state[s] = "killed"
  BY DEF IsFreeSlot
<1> QED BY <1>1, <1>2, <1>3 DEF Tasks

(* schedule_task preserves the invariant. *)
LEMMA ScheduleTaskStep ==
  ASSUME IInv, NEW mode \in Modes, schedule_task(mode)
  PROVE  IInv'
<1> USE DEF IInv
<1>1. PICK s \in 0..total :
       /\ IsFreeSlot(s)
       /\ \/ /\ s >= MaxTasks
             /\ machine' = "out_of_tasks"
             /\ UNCHANGED tasks
          \/ /\ s < MaxTasks
             /\ total' = IF s = total THEN total + 1 ELSE total
             /\ state' = [state EXCEPT ![s] = "waiting"]
             /\ stack' = [stack EXCEPT ![s] = "mapped"]
             /\ frame' = [frame EXCEPT ![s] = Entry(s, mode)]
             /\ UNCHANGED <<blocks, current, machine>>
  BY DEF schedule_task, OutOfTasks
<1>2. InTask /\ s = total /\ UNCHANGED <<handler, cpu>>
  BY <1>1, FreeSlotIsNew DEF schedule_task, OutOfTasks
<1> USE DEF handler, tasks
<1>3. CASE s >= MaxTasks
  BY <1>1, <1>2, <1>3 DEF TypeOK, CpuRunsCurrent, TicksNeverAhead, RtcIsAcknowledged,
     StartedInOrder, GpFindsUserTask, YieldOwesTick, WaitingAtEntry, KilledInGp,
     GpYieldMarked, UserFrameInTable, GpIsInnermost
<1>4. CASE s < MaxTasks
  <2>1. /\ total' = total + 1 /\ total < MaxTasks /\ total \in Tasks
        /\ state' = [state EXCEPT ![total] = "waiting"]
        /\ stack' = [stack EXCEPT ![total] = "mapped"]
        /\ frame' = [frame EXCEPT ![total] = Entry(total, mode)]
        /\ current \in Tasks /\ current < total
    BY <1>1, <1>2, <1>4 DEF TypeOK, Tasks
  <2> DEFINE E == Entry(total, mode)
  <2>a. /\ E.task = total /\ E.nest = <<>>
        /\ E = Entry(total, "kernel") \/ E = Entry(total, "user")
    BY DEF Entry, Modes
  <2>b. /\ state'[total] = "waiting" /\ frame'[total] = E
        /\ \A t \in Tasks : t # total => state'[t] = state[t] /\ frame'[t] = frame[t]
    BY <2>1 DEF TypeOK
  <2>c. \A t \in Tasks : t \in Nat /\ current \in Nat /\ total \in Nat
    BY <2>1 DEF Tasks
  <2> HIDE DEF E
  <2>2. TypeOK'
    <3>1. Entry(total, mode) \in Context
      BY <2>1 DEF Entry, Context, Modes
    <3>2. /\ frame' \in [Tasks -> Context]
          /\ state' \in [Tasks -> {"killed", "waiting", "running"}]
          /\ stack' \in [Tasks -> {"none", "mapped", "freed"}]
      BY <2>1, <3>1 DEF TypeOK
    <3>3. blocks' = blocks /\ current' = current /\ machine' = machine
      BY <1>1, <1>2, <1>4
    <3>4. total' \in 1..MaxTasks /\ current' \in 0 .. total' - 1
      BY <2>1, <3>3, MaxTasksAssumption DEF TypeOK, Tasks
    <3> QED BY <3>2, <3>3, <3>4, <1>2 DEF TypeOK
  <2>3. CpuRunsCurrent' /\ TicksNeverAhead' /\ RtcIsAcknowledged' /\ GpFindsUserTask'
    BY <2>1, <1>1, <1>2, <1>4 DEF CpuRunsCurrent, TicksNeverAhead, RtcIsAcknowledged,
       GpFindsUserTask, Entry, TypeOK
  <2>4. StartedInOrder'
    BY <2>1, <2>a, <2>b, <2>c, <1>1, <1>4 DEF StartedInOrder
  <2>5. WaitingAtEntry'
    BY <2>1, <2>a, <2>b, <2>c, <1>1, <1>4 DEF WaitingAtEntry
  <2>6. GpIsInnermost(cpu.nest)' /\ YieldOwesTick' /\ KilledInGp' /\ GpYieldMarked'
        /\ UserFrameInTable'
    <3>1. /\ current' = current /\ cpu' = cpu /\ noTick' = noTick /\ ticks' = ticks
          /\ rtc' = rtc /\ machine' = machine
          /\ state'[current] = state[current] /\ frame'[current] = frame[current]
      BY <2>1, <2>b, <1>1, <1>2, <1>4
    <3> QED BY <3>1 DEF GpIsInnermost, YieldOwesTick, KilledInGp, GpYieldMarked,
                        UserFrameInTable
  <2> QED BY <2>2, <2>3, <2>4, <2>5, <2>6
<1> QED BY <1>3, <1>4, <1>2 DEF TypeOK

(* enable_task_switch preserves the invariant. *)
LEMMA EnableStep ==
  ASSUME IInv, enable_task_switch
  PROVE  IInv'
BY DEF IInv, enable_task_switch, tasks, TypeOK, CpuRunsCurrent, TicksNeverAhead,
   RtcIsAcknowledged, StartedInOrder, GpFindsUserTask, YieldOwesTick, WaitingAtEntry,
   KilledInGp, GpYieldMarked, UserFrameInTable, GpIsInnermost

-----------------------------------------------------------------------------
(* The search of task_switch finds the task after the current one. *)
LEMMA NextTask ==
  ASSUME IInv, NEW next \in Runnable,
         \A t \in Runnable : Distance(next) <= Distance(t)
  PROVE  next = current + 1 /\ next \in Tasks /\ next < total
<1>1. current \in Nat /\ total \in Nat /\ current < total /\ total <= MaxTasks
  BY DEF IInv, TypeOK
<1>2. \A t \in Runnable : t \in Tasks /\ t \in Nat /\ t < total /\ t > current
  <2> SUFFICES ASSUME NEW t \in Runnable PROVE t \in Tasks /\ t \in Nat /\ t < total /\ t > current
    OBVIOUS
  <2>1. t \in Nat /\ t < total /\ t \in Tasks /\ t # current /\ state[t] = "waiting"
    BY <1>1 DEF Runnable, Tasks
  <2>2. ~(t < current)
    BY <2>1 DEF IInv, StartedInOrder
  <2> QED BY <2>1, <2>2, <1>1
<1>3. current + 1 \in Runnable
  <2>1. current + 1 \in Tasks /\ current + 1 < total /\ current + 1 \in 0 .. total - 1
    BY <1>1, <1>2 DEF Tasks
  <2>2. state[current + 1] = "waiting"
    BY <2>1, <1>1 DEF IInv, StartedInOrder
  <2> QED BY <2>1, <2>2, <1>1 DEF Runnable
<1>4. Distance(next) = next - current /\ Distance(current + 1) = 1
  BY <1>1, <1>2 DEF Distance
<1> QED BY <1>1, <1>2, <1>3, <1>4

(* What task_switch preserves, whoever raised the interrupt. *)
LEMMA TaskSwitchStep ==
  ASSUME IInv, machine = "ok", NEW c \in Context,
         c.task = current, c.cs = cpu.cs, c.nest = cpu.nest, task_switch(c)
  PROVE  /\ CpuRunsCurrent' /\ StartedInOrder' /\ GpFindsUserTask'
         /\ GpIsInnermost(cpu'.nest) /\ WaitingAtEntry' /\ KilledInGp'
         /\ UserFrameInTable'
         /\ state' \in [Tasks -> {"killed", "waiting", "running"}]
         /\ frame' \in [Tasks -> Context] /\ stack' = stack
         /\ blocks' \in [Tasks -> Tasks] /\ total' = total
         /\ current' \in 0 .. total - 1 /\ temp' \in Tasks /\ cpu' \in Context
         /\ machine' \in {"ok", "not_running"}
         /\ machine' = "ok" =>
              /\ cpu'.nest # <<>> /\ Head(cpu'.nest) = "reset"
              /\ cpu'.at = "run" \/ cpu'.at = c.at
         /\ machine' # "ok" => InGp(cpu.nest) /\ cpu' = cpu
<1>0. /\ current \in Tasks /\ fpu \in Tasks /\ cpu \in Context /\ c.nest \in Seq(Handler)
      /\ total \in Nat /\ current < total
  BY DEF IInv, TypeOK, Context, Tasks
<1>1. CASE state[current] # "running"
  <2>1. /\ machine' = "not_running" /\ temp' = fpu /\ UNCHANGED <<tasks, cpu>>
    BY <1>1 DEF task_switch
  <2>2. InGp(cpu.nest)
    BY <1>1 DEF IInv, KilledInGp
  <2> QED BY <2>1, <2>2, <1>0 DEF tasks, IInv, TypeOK, CpuRunsCurrent, StartedInOrder,
        GpFindsUserTask, GpIsInnermost, WaitingAtEntry, KilledInGp, UserFrameInTable
<1>2. CASE state[current] = "running" /\ Runnable = {} /\ UNCHANGED tasks
  <2>1. /\ machine' = "ok" /\ temp' = fpu /\ UNCHANGED tasks
        /\ cpu' = [c EXCEPT !.nest = <<"reset">> \o @]
    BY <1>2 DEF task_switch
  <2>2. ~InGp(c.nest) /\ GpIsInnermost(c.nest)
    BY <1>2 DEF IInv, KilledInGp
  <2>3. /\ cpu' \in Context /\ cpu'.task = current /\ cpu'.cs = cpu.cs /\ cpu'.at = c.at
        /\ cpu'.nest # <<>> /\ Head(cpu'.nest) = "reset" /\ GpIsInnermost(cpu'.nest)
    BY <2>1, <2>2, <1>0, Enter DEF Context, Handler
  <2>4. ~InGp(cpu'.nest)
    BY <2>3 DEF InGp
  <2> QED BY <1>2, <2>1, <2>3, <2>4, <1>0 DEF tasks, IInv, TypeOK, CpuRunsCurrent,
        StartedInOrder, GpFindsUserTask, WaitingAtEntry, KilledInGp, UserFrameInTable
<1>3. CASE state[current] = "running" /\
           \E next \in Runnable :
             /\ \A t \in Runnable : Distance(next) <= Distance(t)
             /\ frame' = SaveFrame(c, next)
             /\ blocks' = [blocks EXCEPT ![current] = fpu]
             /\ temp' = blocks[next]
             /\ cpu' = LoadFrame(next)
             /\ state' = [state EXCEPT ![next] = "running"]
             /\ current' = next
             /\ UNCHANGED <<stack, total, machine>>
  <2>1. PICK next \in Runnable :
             /\ \A t \in Runnable : Distance(next) <= Distance(t)
             /\ frame' = SaveFrame(c, next)
             /\ blocks' = [blocks EXCEPT ![current] = fpu]
             /\ temp' = blocks[next]
             /\ cpu' = LoadFrame(next)
             /\ state' = [state EXCEPT ![next] = "running"]
             /\ current' = next
             /\ UNCHANGED <<stack, total, machine>>
    BY <1>3
  <2>2. next = current + 1 /\ next \in Tasks /\ next < total
    BY <2>1, NextTask
  <2>3. frame[next] = Entry(next, "kernel") \/ frame[next] = Entry(next, "user")
    BY <2>2, <1>0 DEF IInv, WaitingAtEntry
  <2>4. /\ frame[next].task = next /\ frame[next].at = "run" /\ frame[next].nest = <<>>
        /\ frame[next] \in Context /\ frame[next].cs \in Modes
    <3>1. frame[next] \in Context
      BY <2>2 DEF IInv, TypeOK
    <3>2. frame[next].cs \in Modes
      BY <3>1 DEF Context
    <3>3. frame[next].task = next /\ frame[next].at = "run" /\ frame[next].nest = <<>>
      BY <2>3 DEF Entry
    <3> QED BY <3>1, <3>2, <3>3
  <2>5. GpIsInnermost(<<>>) /\ ~InGp(<<>>) /\ <<>> \in Seq(Handler)
    BY DEF GpIsInnermost, InGp
  <2>6. /\ cpu' \in Context /\ cpu'.task = next /\ cpu'.cs = frame[next].cs
        /\ cpu'.at = "run"
        /\ cpu'.nest # <<>> /\ Head(cpu'.nest) = "reset" /\ GpIsInnermost(cpu'.nest)
    <3>1. cpu' = [frame[next] EXCEPT !.nest = <<"reset">> \o <<>>]
      BY <2>1, <2>4 DEF LoadFrame
    <3> DEFINE n == <<"reset">> \o <<>>
    <3>2. n \in Seq(Handler) /\ n # <<>> /\ Head(n) = "reset" /\ GpIsInnermost(n)
      BY <2>5, Enter DEF Handler
    <3> DEFINE f == frame[next]
    <3>3. cpu' = [f EXCEPT !.nest = n] /\ f \in Context /\ f.task = next /\ f.at = "run"
      BY <3>1, <2>4
    <3> HIDE DEF n, f
    <3>4. /\ cpu' \in Context /\ cpu'.nest = n /\ cpu'.task = f.task
          /\ cpu'.cs = f.cs /\ cpu'.at = f.at
      BY <3>2, <3>3 DEF Context
    <3> QED BY <3>2, <3>3, <3>4 DEF f
  <2>7. /\ frame' \in [Tasks -> Context] /\ frame'[current] = c
        /\ \A t \in Tasks : t # current => frame'[t] = frame[t]
    BY <2>1, <1>0 DEF SaveFrame, IInv, TypeOK
  <2>8. /\ state' \in [Tasks -> {"killed", "waiting", "running"}] /\ state'[next] = "running"
        /\ \A t \in Tasks : t # next => state'[t] = state[t]
    BY <2>1, <2>2 DEF IInv, TypeOK
  <2>9. blocks' \in [Tasks -> Tasks] /\ temp' \in Tasks /\ current' \in 0 .. total - 1
        /\ current' = current + 1 /\ stack' = stack /\ total' = total /\ machine' = "ok"
    BY <2>1, <2>2, <1>0 DEF IInv, TypeOK
  <2>10. \A t \in Tasks : t \in Nat
    BY DEF Tasks
  <2>11. CpuRunsCurrent'
    BY <2>1, <2>6, <2>7 DEF IInv, CpuRunsCurrent
  <2>12. StartedInOrder'
    <3> SUFFICES ASSUME NEW t \in Tasks
                 PROVE  /\ t < next => state'[t] = "running"
                        /\ t = next => state'[t] # "waiting"
                        /\ t > next /\ t < total => state'[t] = "waiting" /\ frame'[t].nest = <<>>
                        /\ t >= total => state'[t] = "killed"
      BY <2>1, <2>9 DEF StartedInOrder
    <3>1. t < next => t < current \/ t = current
      BY <2>2, <2>10, <1>0
    <3>2. t > next => t > current /\ t # current /\ t # next
      BY <2>2, <2>10, <1>0
    <3>3. t >= total => t # next
      BY <2>2, <2>10, <1>0
    <3>4. t < next => t # next
      BY <2>2, <2>10
    <3> QED BY <3>1, <3>2, <3>3, <3>4, <2>7, <2>8, <1>3 DEF IInv, StartedInOrder
  <2>13. WaitingAtEntry'
    <3>1. \A t \in Tasks : t > next /\ t < total => t > current /\ t # current
      BY <2>2, <2>10, <1>0
    <3> QED BY <3>1, <2>1, <2>7, <2>9 DEF IInv, WaitingAtEntry
  <2>14. KilledInGp'
    BY <2>1, <2>6, <2>8, <2>9 DEF KilledInGp, InGp
  <2>15. UserFrameInTable'
    <3>1. next # current /\ frame'[next] = frame[next] /\ current' = next
      BY <2>1, <2>2, <2>7, <1>0
    <3> QED BY <3>1, <2>4, <2>6 DEF UserFrameInTable
  <2> QED BY <2>6, <2>7, <2>8, <2>9, <2>11, <2>12, <2>13, <2>14, <2>15 DEF GpFindsUserTask
<1> QED BY <1>1, <1>2, <1>3 DEF task_switch

(* An RTC interrupt preserves the invariant. *)
LEMMA RtcStep ==
  ASSUME IInv, Rtc
  PROVE  IInv'
<1>0. /\ machine = "ok" /\ inService = "no" /\ rtc < MaxRtc /\ rtc' = rtc + 1
      /\ ticks' = (IF noTick = "set" THEN ticks ELSE ticks + 1)
      /\ UNCHANGED <<switching, noTick, fpu>>
  BY DEF Rtc, CountTick
<1>1. rtc' \in 0..MaxRtc /\ ticks' \in Nat /\ TicksNeverAhead'
  BY <1>0 DEF IInv, TypeOK, TicksNeverAhead
<1>2. CASE UNCHANGED <<tasks, temp, cpu, machine, inService>>
  <2>1. YieldOwesTick'
    BY <1>0, <1>2 DEF IInv, TypeOK, YieldOwesTick
  <2>2. TypeOK'
    BY <1>0, <1>1, <1>2 DEF IInv, TypeOK, tasks
  <2> QED BY <1>0, <1>1, <1>2, <2>1, <2>2 DEF IInv, tasks, CpuRunsCurrent,
        RtcIsAcknowledged, StartedInOrder, GpFindsUserTask, GpIsInnermost, WaitingAtEntry,
        KilledInGp, GpYieldMarked, UserFrameInTable
<1>3. CASE inService' = "yes" /\ task_switch(cpu)
  <2>1. cpu \in Context /\ cpu.task = current
    BY DEF IInv, TypeOK, CpuRunsCurrent
  <2>2. /\ CpuRunsCurrent' /\ StartedInOrder' /\ GpFindsUserTask'
        /\ GpIsInnermost(cpu'.nest) /\ WaitingAtEntry' /\ KilledInGp'
        /\ UserFrameInTable'
    BY <2>1, <1>0, <1>3, TaskSwitchStep
  <2>3. /\ machine' = "ok" =>
             /\ cpu'.nest # <<>> /\ Head(cpu'.nest) = "reset"
             /\ cpu'.at = "run" \/ cpu'.at = cpu.at
        /\ machine' # "ok" => InGp(cpu.nest) /\ cpu' = cpu
    BY <2>1, <1>0, <1>3, TaskSwitchStep
  <2>4. TypeOK'
    <3>1. /\ state' \in [Tasks -> {"killed", "waiting", "running"}]
          /\ frame' \in [Tasks -> Context] /\ stack' = stack
          /\ blocks' \in [Tasks -> Tasks] /\ total' = total
          /\ current' \in 0 .. total - 1 /\ temp' \in Tasks /\ cpu' \in Context
          /\ machine' \in {"ok", "not_running"}
      BY <2>1, <1>0, <1>3, TaskSwitchStep
    <3> QED BY <3>1, <1>0, <1>1, <1>3 DEF IInv, TypeOK
  <2>5. RtcIsAcknowledged' /\ GpYieldMarked'
    BY <2>3 DEF RtcIsAcknowledged, GpYieldMarked
  <2>6. YieldOwesTick'
    <3>1. ASSUME cpu'.at = "int" PROVE cpu.at = "int" /\ (machine' # "ok" => cpu.nest # <<>>)
      BY <3>1, <2>3 DEF InGp
    <3>2. ASSUME cpu'.at = "int" PROVE ticks' + 1 <= rtc'
      BY <3>1, <3>2, <1>0 DEF IInv, TypeOK, TicksNeverAhead, YieldOwesTick
    <3> QED BY <3>2 DEF YieldOwesTick
  <2> QED BY <2>2, <2>4, <2>5, <2>6, <1>1 DEF IInv
<1> QED BY <1>2, <1>3 DEF Rtc

(* The software interrupt of yield() preserves the invariant. *)
LEMMA Int28Step ==
  ASSUME IInv, Int28
  PROVE  IInv'
<1>0. /\ machine = "ok"
      /\ ticks' = (IF noTick = "set" THEN ticks ELSE ticks + 1)
      /\ UNCHANGED <<switching, noTick, fpu, inService, rtc>>
  BY DEF Int28, CountTick, At
<1>1. CASE cpu.nest = <<>> /\ cpu.at = "int" /\ task_switch([cpu EXCEPT !.at = "run"])
  <2> DEFINE c == [cpu EXCEPT !.at = "run"]
  <2>1. /\ c \in Context /\ c.task = current /\ c.cs = cpu.cs /\ c.nest = cpu.nest
        /\ c.at = "run"
    BY DEF IInv, TypeOK, CpuRunsCurrent, Context
  <2> HIDE DEF c
  <2>2. task_switch(c)
    BY <1>1 DEF c
  <2>3. /\ CpuRunsCurrent' /\ StartedInOrder' /\ GpFindsUserTask'
        /\ GpIsInnermost(cpu'.nest) /\ WaitingAtEntry' /\ KilledInGp'
        /\ UserFrameInTable'
    BY <2>1, <2>2, <1>0, TaskSwitchStep
  <2>4. machine' = "ok" /\ cpu'.nest # <<>> /\ Head(cpu'.nest) = "reset" /\ cpu'.at = "run"
    BY <2>1, <2>2, <1>0, <1>1, TaskSwitchStep DEF InGp
  <2>5. ticks' \in Nat /\ TicksNeverAhead'
    BY <1>0, <1>1 DEF IInv, TypeOK, TicksNeverAhead, YieldOwesTick
  <2>6. TypeOK'
    <3>1. /\ state' \in [Tasks -> {"killed", "waiting", "running"}]
          /\ frame' \in [Tasks -> Context] /\ stack' = stack
          /\ blocks' \in [Tasks -> Tasks] /\ total' = total
          /\ current' \in 0 .. total - 1 /\ temp' \in Tasks /\ cpu' \in Context
      BY <2>1, <2>2, <1>0, TaskSwitchStep
    <3> QED BY <3>1, <1>0, <2>4, <2>5 DEF IInv, TypeOK
  <2>7. RtcIsAcknowledged' /\ GpYieldMarked' /\ YieldOwesTick'
    BY <2>4 DEF RtcIsAcknowledged, GpYieldMarked, YieldOwesTick
  <2> QED BY <2>3, <2>5, <2>6, <2>7 DEF IInv
<1>2. CASE At("gp_int") /\ task_switch(cpu)
  <2>1. InGp(cpu.nest) /\ noTick = "set"
    BY <1>2 DEF At, InGp, IInv, GpYieldMarked
  <2>2. machine' = "not_running" /\ temp' = fpu /\ UNCHANGED <<tasks, cpu>>
    BY <1>0, <1>2, <2>1 DEF task_switch, IInv, KilledInGp
  <2>3. UNCHANGED ticks
    BY <1>0, <2>1
  <2>4. TypeOK'
    BY <1>0, <2>2, <2>3 DEF IInv, TypeOK, tasks
  <2> QED BY <1>0, <2>2, <2>3, <2>4 DEF IInv, tasks, CpuRunsCurrent, TicksNeverAhead,
        RtcIsAcknowledged, StartedInOrder, GpFindsUserTask, GpIsInnermost, YieldOwesTick,
        WaitingAtEntry, KilledInGp, GpYieldMarked, UserFrameInTable
<1> QED BY <1>1, <1>2 DEF Int28

-----------------------------------------------------------------------------
(* A step of a handler from one pc to the next one. *)
LEMMA GotoStep ==
  ASSUME IInv, NEW pc \in Handler, NEW pc2 \in Handler, At(pc), Goto(pc2)
  PROVE  /\ cpu' \in Context /\ cpu'.task = cpu.task /\ cpu'.cs = cpu.cs /\ cpu'.at = cpu.at
         /\ cpu'.nest # <<>> /\ Head(cpu'.nest) = pc2 /\ GpIsInnermost(cpu'.nest)
<1>1. cpu \in Context /\ cpu.nest \in Seq(Handler) /\ cpu.nest # <<>> /\ GpIsInnermost(cpu.nest)
  BY DEF IInv, TypeOK, Context, At
<1> DEFINE n == <<pc2>> \o Tail(cpu.nest)
<1>2. n \in Seq(Handler) /\ n # <<>> /\ Head(n) = pc2 /\ GpIsInnermost(n)
  BY <1>1, Leave, Enter
<1>3. cpu' = [cpu EXCEPT !.nest = n]
  BY DEF Goto
<1> HIDE DEF n
<1> QED BY <1>1, <1>2, <1>3 DEF Context

(* yield() up to its interrupt preserves the invariant. *)
LEMMA YieldStep ==
  ASSUME IInv, yield
  PROVE  IInv'
<1>0. noTick' = "set"
      /\ UNCHANGED <<tasks, switching, ticks, temp, fpu, inService, rtc, machine>>
  BY DEF yield
<1>1. CASE InTask /\ cpu' = [cpu EXCEPT !.at = "int"]
  <2>1. /\ cpu' \in Context /\ cpu'.task = cpu.task /\ cpu'.cs = cpu.cs
        /\ cpu'.nest = cpu.nest /\ cpu.nest = <<>>
    BY <1>1 DEF IInv, TypeOK, Context, InTask
  <2>2. YieldOwesTick' /\ GpYieldMarked'
    BY <1>0, <2>1 DEF YieldOwesTick, GpYieldMarked
  <2>3. TypeOK'
    BY <1>0, <2>1 DEF IInv, TypeOK, tasks
  <2> QED BY <1>0, <2>1, <2>2, <2>3 DEF IInv, tasks, CpuRunsCurrent, TicksNeverAhead,
        RtcIsAcknowledged, StartedInOrder, GpFindsUserTask, GpIsInnermost,
        WaitingAtEntry, KilledInGp, UserFrameInTable
<1>2. CASE At("gp") /\ Goto("gp_int")
  <2>1. /\ cpu' \in Context /\ cpu'.task = cpu.task /\ cpu'.cs = cpu.cs /\ cpu'.at = cpu.at
        /\ cpu'.nest # <<>> /\ Head(cpu'.nest) = "gp_int" /\ GpIsInnermost(cpu'.nest)
    BY <1>2, GotoStep DEF Handler
  <2>2. cpu.nest # <<>> /\ Head(cpu.nest) = "gp" /\ InGp(cpu.nest) /\ InGp(cpu'.nest)
    BY <1>2, <2>1 DEF At, InGp
  <2>3. RtcIsAcknowledged' /\ YieldOwesTick' /\ GpYieldMarked' /\ KilledInGp'
    BY <1>0, <2>1, <2>2 DEF IInv, RtcIsAcknowledged, YieldOwesTick, GpYieldMarked,
       KilledInGp, tasks
  <2>4. TypeOK'
    BY <1>0, <2>1 DEF IInv, TypeOK, tasks
  <2> QED BY <1>0, <2>1, <2>3, <2>4 DEF IInv, tasks, CpuRunsCurrent, TicksNeverAhead,
        StartedInOrder, GpFindsUserTask, WaitingAtEntry, UserFrameInTable
<1> QED BY <1>1, <1>2 DEF yield

(* The tail of the handler preserves the invariant. *)
LEMMA HandlerStep ==
  ASSUME IInv, ResetTick \/ Restore \/ end_of_interrupt
  PROVE  IInv'
<1>1. PICK pc \in {"reset", "restore", "eoi"}, pc2 \in {"restore", "eoi", "iret"} :
         /\ At(pc) /\ Goto(pc2)
         /\ pc2 = "iret" => inService' = "no"
         /\ pc2 # "iret" => inService' = inService
  BY DEF ResetTick, Restore, end_of_interrupt
<1>2. /\ UNCHANGED <<tasks, switching, ticks, temp, rtc, machine>>
      /\ fpu' \in Tasks /\ noTick' \in {"clear", "set"} /\ inService' \in {"no", "yes"}
  BY DEF ResetTick, Restore, end_of_interrupt, IInv, TypeOK
<1>3. /\ cpu' \in Context /\ cpu'.task = cpu.task /\ cpu'.cs = cpu.cs /\ cpu'.at = cpu.at
      /\ cpu'.nest # <<>> /\ Head(cpu'.nest) = pc2 /\ GpIsInnermost(cpu'.nest)
  BY <1>1, GotoStep DEF Handler
<1>4. cpu.nest # <<>> /\ Head(cpu.nest) = pc /\ ~InGp(cpu.nest) /\ ~InGp(cpu'.nest)
  BY <1>1, <1>3 DEF At, InGp
<1>5. RtcIsAcknowledged' /\ YieldOwesTick' /\ GpYieldMarked' /\ KilledInGp'
  BY <1>1, <1>2, <1>3, <1>4 DEF IInv, RtcIsAcknowledged, YieldOwesTick, GpYieldMarked,
     KilledInGp, tasks
<1>6. TypeOK'
  BY <1>2, <1>3 DEF IInv, TypeOK, tasks
<1> QED BY <1>2, <1>3, <1>5, <1>6 DEF IInv, tasks, CpuRunsCurrent, TicksNeverAhead,
      StartedInOrder, GpFindsUserTask, WaitingAtEntry, UserFrameInTable

(* kill of the current task, by the fault handler or by exit(). *)
LEMMA KillCurrent ==
  ASSUME IInv, kill(current)
  PROVE  /\ state' \in [Tasks -> {"killed", "waiting", "running"}]
         /\ stack' \in [Tasks -> {"none", "mapped", "freed"}]
         /\ state'[current] = "killed" /\ StartedInOrder' /\ WaitingAtEntry'
         /\ UNCHANGED <<frame, blocks, total, current>>
<1>1. current \in Tasks /\ \A t \in Tasks : t \in Nat
  BY DEF IInv, TypeOK, Tasks
<1>2. /\ state' \in [Tasks -> {"killed", "waiting", "running"}]
      /\ state'[current] = "killed"
      /\ \A t \in Tasks : t # current => state'[t] = state[t]
      /\ UNCHANGED <<frame, blocks, total, current>>
  BY <1>1 DEF kill, IInv, TypeOK
<1>3. stack' \in [Tasks -> {"none", "mapped", "freed"}]
  BY <1>1 DEF kill, IInv, TypeOK
<1>4. StartedInOrder'
  <2>1. \A t \in Tasks : t < current \/ t > current => t # current
    BY <1>1
  <2> QED BY <1>1, <1>2, <2>1 DEF IInv, StartedInOrder, TypeOK
<1>5. WaitingAtEntry'
  BY <1>2 DEF IInv, WaitingAtEntry
<1> QED BY <1>2, <1>3, <1>4, <1>5

(* iretq, with the fault it may raise, preserves the invariant. *)
LEMMA IretStep ==
  ASSUME IInv, Iret
  PROVE  IInv'
<1>0. /\ At("iret") /\ UNCHANGED handler /\ cpu.nest # <<>> /\ Head(cpu.nest) = "iret"
      /\ machine = "ok" /\ inService = "no" /\ cpu \in Context /\ cpu.nest \in Seq(Handler)
      /\ GpIsInnermost(cpu.nest) /\ ~InGp(cpu.nest) /\ state[current] = "running"
  BY DEF Iret, At, IInv, RtcIsAcknowledged, TypeOK, Context, InGp, KilledInGp
<1>1. CASE cpu' = [cpu EXCEPT !.nest = Tail(@)] /\ UNCHANGED <<tasks, machine>>
  <2> DEFINE n == Tail(cpu.nest)
  <2>1. n \in Seq(Handler) /\ GpIsInnermost(n) /\ ~InGp(n)
    BY <1>0, Leave
  <2>2. cpu' = [cpu EXCEPT !.nest = n]
    BY <1>1
  <2> HIDE DEF n
  <2>3. /\ cpu' \in Context /\ cpu'.task = cpu.task /\ cpu'.cs = cpu.cs /\ cpu'.at = cpu.at
        /\ cpu'.nest = n
    BY <1>0, <2>1, <2>2 DEF Context
  <2>4. RtcIsAcknowledged' /\ YieldOwesTick' /\ GpYieldMarked' /\ KilledInGp'
    BY <1>0, <1>1, <2>1, <2>3 DEF IInv, handler, tasks, RtcIsAcknowledged, YieldOwesTick,
       GpYieldMarked, KilledInGp, InGp
  <2>5. TypeOK'
    BY <1>0, <1>1, <2>3 DEF IInv, TypeOK, tasks, handler
  <2> QED BY <1>0, <1>1, <2>1, <2>3, <2>4, <2>5 DEF IInv, tasks, handler, CpuRunsCurrent,
        TicksNeverAhead, StartedInOrder, GpFindsUserTask, WaitingAtEntry, UserFrameInTable
<1>2. CASE /\ cpu.cs = "user"
           /\ cpu' = [cpu EXCEPT !.nest = <<"gp">> \o @]
           /\ IF CurrentIsUser THEN kill(current) /\ UNCHANGED machine
                               ELSE machine' = "not_user" /\ UNCHANGED tasks
  <2>1. kill(current) /\ UNCHANGED machine
    BY <1>2 DEF CurrentIsUser, IInv, UserFrameInTable
  <2> DEFINE n == <<"gp">> \o cpu.nest
  <2>2. n \in Seq(Handler) /\ n # <<>> /\ Head(n) = "gp" /\ GpIsInnermost(n)
    BY <1>0, Enter DEF Handler
  <2>3. cpu' = [cpu EXCEPT !.nest = n]
    BY <1>2
  <2> HIDE DEF n
  <2>4. /\ cpu' \in Context /\ cpu'.task = cpu.task /\ cpu'.cs = cpu.cs /\ cpu'.at = cpu.at
        /\ cpu'.nest = n
    BY <1>0, <2>2, <2>3 DEF Context
  <2>5. /\ state' \in [Tasks -> {"killed", "waiting", "running"}]
        /\ stack' \in [Tasks -> {"none", "mapped", "freed"}]
        /\ state'[current] = "killed" /\ StartedInOrder' /\ WaitingAtEntry'
        /\ UNCHANGED <<frame, blocks, total, current>>
    BY <2>1, KillCurrent
  <2>6. RtcIsAcknowledged' /\ YieldOwesTick' /\ GpYieldMarked' /\ KilledInGp'
    BY <1>0, <2>1, <2>2, <2>4, <2>5 DEF IInv, handler, RtcIsAcknowledged, YieldOwesTick,
       GpYieldMarked, KilledInGp, InGp
  <2>7. TypeOK'
    BY <1>0, <2>1, <2>4, <2>5 DEF IInv, TypeOK, handler
  <2> QED BY <1>0, <2>1, <2>2, <2>4, <2>5, <2>6, <2>7 DEF IInv, handler, CpuRunsCurrent,
        TicksNeverAhead, GpFindsUserTask, UserFrameInTable
<1> QED BY <1>1, <1>2 DEF Iret

(* exit() preserves the invariant. *)
LEMMA ExitStep ==
  ASSUME IInv, exit
  PROVE  IInv'
<1>1. machine' = "fault" /\ UNCHANGED <<handler, cpu>> /\ kill(current)
  BY DEF exit
<1>2. /\ state' \in [Tasks -> {"killed", "waiting", "running"}]
      /\ stack' \in [Tasks -> {"none", "mapped", "freed"}]
      /\ StartedInOrder' /\ WaitingAtEntry'
      /\ UNCHANGED <<frame, blocks, total, current>>
  BY <1>1, KillCurrent
<1>3. TypeOK'
  BY <1>1, <1>2 DEF IInv, TypeOK, handler
<1> QED BY <1>1, <1>2, <1>3 DEF IInv, handler, CpuRunsCurrent, TicksNeverAhead,
      RtcIsAcknowledged, GpFindsUserTask, GpIsInnermost, YieldOwesTick, KilledInGp,
      GpYieldMarked, UserFrameInTable

(* A step that changes nothing preserves the invariant. *)
LEMMA StutterStep ==
  ASSUME IInv, UNCHANGED vars
  PROVE  IInv'
BY DEF IInv, vars, tasks, handler, TypeOK, CpuRunsCurrent, TicksNeverAhead,
   RtcIsAcknowledged, StartedInOrder, GpFindsUserTask, GpIsInnermost, YieldOwesTick,
   WaitingAtEntry, KilledInGp, GpYieldMarked, UserFrameInTable

(* Every step preserves the invariant. *)
LEMMA IInvStep == IInv /\ [Next]_vars => IInv'
BY ScheduleTaskStep, EnableStep, RtcStep, YieldStep, Int28Step, HandlerStep, IretStep,
   ExitStep, StutterStep DEF Next, Halted

(* The inductive invariant holds in every reachable state. *)
LEMMA IInvAlways == Spec => []IInv
BY InitIInv, IInvStep, PTL DEF Spec

(* The scheduler's safety, for every size of the task table: the types,    *)
(* that the processor executes the task current_task_id names, that the    *)
(* tick counter never runs ahead of the clock, that an RTC interrupt is    *)
(* always about to be acknowledged, that tasks start in the order they     *)
(* were scheduled, and the assertion of the general-protection handler.    *)
THEOREM SchedulerSafe ==
  Spec => []( TypeOK /\ CpuRunsCurrent /\ TicksNeverAhead /\ RtcIsAcknowledged
              /\ StartedInOrder /\ GpFindsUserTask )
BY IInvAlways, PTL DEF IInv

(* Every member of the scheduler keeps its type for any number of tasks,   *)
(* and no step leaves the tables of MAX_TASKS entries.                     *)
THEOREM SchedulerTypes == Spec => []TypeOK
BY IInvAlways, PTL DEF IInv

(* However yields and RTC interrupts fall, ticks_since_boot never exceeds  *)
(* the interrupts of the clock.                                            *)
THEOREM SchedulerTicksNeverAhead == Spec => []TicksNeverAhead
BY IInvAlways, PTL DEF IInv

(* While an RTC interrupt is in service the processor is in the handler,   *)
(* on its way to end_of_interrupt, whichever task it was switched to.      *)
THEOREM SchedulerAcknowledges == Spec => []RtcIsAcknowledged
BY IInvAlways, PTL DEF IInv

(* With any number of tasks, task_switch starts them in the order in which *)
(* schedule_task put them into the table.                                  *)
THEOREM SchedulerStartsInOrder == Spec => []StartedInOrder
BY IInvAlways, PTL DEF IInv

(* The assertion of the general-protection handler never fails.            *)
THEOREM SchedulerGpFindsUserTask == Spec => []GpFindsUserTask
BY IInvAlways, PTL DEF IInv

-----------------------------------------------------------------------------
(* The queue of waiting tasks the refinement mapping reads off the table. *)
Ahead == [k \in 1 .. total - 1 - current |-> current + k]

(* The tasks behind the current one form a sequence. *)
LEMMA AheadIsSeq ==
  ASSUME TypeOK
  PROVE  /\ Ahead \in Seq(Nat) /\ Len(Ahead) = total - 1 - current
         /\ \A k \in 1 .. total - 1 - current : Ahead[k] = current + k
BY DEF TypeOK, Ahead

(* schedule_task is Submit of the run queue, or stops the machine. *)
LEMMA ScheduleRefines ==
  ASSUME IInv, IInv', NEW mode \in Modes, schedule_task(mode)
  PROVE  [Queue!Next]_(Queue!vars)
<1>1. PICK s \in 0..total :
       /\ IsFreeSlot(s)
       /\ \/ s >= MaxTasks /\ UNCHANGED tasks
          \/ /\ s < MaxTasks
             /\ total' = IF s = total THEN total + 1 ELSE total
             /\ current' = current
  BY DEF schedule_task, OutOfTasks
<1>2. s = total
  BY <1>1, FreeSlotIsNew DEF schedule_task, OutOfTasks
<1>3. CASE s >= MaxTasks /\ UNCHANGED tasks
  BY <1>3 DEF tasks, Queue!vars
<1>4. CASE s < MaxTasks
  <2>1. total' = total + 1 /\ current' = current /\ total < MaxTasks
        /\ total \in Nat /\ current \in Nat /\ current < total
    BY <1>1, <1>2, <1>4 DEF IInv, TypeOK
  <2>2. Ahead' = Append(Ahead, total)
    <3>1. Ahead \in Seq(Nat) /\ Len(Ahead) = total - 1 - current
          /\ \A k \in 1 .. total - 1 - current : Ahead[k] = current + k
      BY AheadIsSeq DEF IInv
    <3>2. Ahead' = [k \in 1 .. total - current |-> current + k]
      BY <2>1 DEF Ahead
    <3> DEFINE a == Append(Ahead, total)
    <3>3. /\ a \in Seq(Nat) /\ Len(a) = total - current
          /\ \A k \in 1 .. total - 1 - current : a[k] = current + k
          /\ a[total - current] = total
      BY <3>1, <2>1, AppendProperties
    <3>4. \A k \in 1 .. total - current : a[k] = current + k
      <4> HIDE DEF a
      <4>1. \A k \in 1 .. total - current :
              k \in 1 .. total - 1 - current \/ (k = total - current /\ current + k = total)
        BY <2>1
      <4> QED BY <4>1, <3>3
    <3>5. Ahead' \in Seq(Nat) /\ Len(Ahead') = total - current
          /\ \A k \in 1 .. total - current : Ahead'[k] = current + k
      BY <3>2, <2>1
    <3> HIDE DEF a
    <3>6. Ahead' = a
      BY <3>3, <3>4, <3>5, SeqEqual
    <3> QED BY <3>6 DEF a
  <2>3. total = current + Len(Ahead) + 1
    BY <2>1, AheadIsSeq DEF IInv
  <2>4. Queue!Submit
    BY <2>1, <2>2, <2>3 DEF Queue!Submit, Ahead
  <2> QED BY <2>4 DEF Queue!Next
<1> QED BY <1>1, <1>3, <1>4

(* A switch is Dispatch of the run queue, or leaves it alone. *)
LEMMA SwitchRefines ==
  ASSUME IInv, NEW c, task_switch(c)
  PROVE  [Queue!Next]_(Queue!vars)
<1>1. CASE UNCHANGED tasks
  BY <1>1 DEF tasks, Queue!vars
<1>2. CASE \E next \in Runnable :
             /\ \A t \in Runnable : Distance(next) <= Distance(t)
             /\ current' = next
             /\ total' = total
  <2>1. /\ current' = current + 1 /\ total' = total /\ current + 1 < total
        /\ total \in Nat /\ current \in Nat
    BY <1>2, NextTask DEF IInv, TypeOK
  <2>2. Ahead \in Seq(Nat) /\ Len(Ahead) = total - 1 - current
        /\ \A k \in 1 .. total - 1 - current : Ahead[k] = current + k
    BY AheadIsSeq DEF IInv
  <2>3. Ahead # <<>> /\ Head(Ahead) = current + 1
    BY <2>1, <2>2
  <2>4. /\ Tail(Ahead) \in Seq(Nat) /\ Len(Tail(Ahead)) = total - 2 - current
        /\ \A k \in 1 .. total - 2 - current : Tail(Ahead)[k] = Ahead[k + 1]
    BY <2>1, <2>2, <2>3, HeadTailProperties
  <2>5. \A k \in 1 .. total - 2 - current : Tail(Ahead)[k] = current + 1 + k
    BY <2>1, <2>2, <2>4
  <2>6. /\ Ahead' \in Seq(Nat) /\ Len(Ahead') = total - 2 - current
        /\ \A k \in 1 .. total - 2 - current : Ahead'[k] = current + 1 + k
    BY <2>1 DEF Ahead
  <2>7. Ahead' = Tail(Ahead)
    BY <2>4, <2>5, <2>6, SeqEqual
  <2>8. Queue!Dispatch
    BY <2>1, <2>3, <2>7 DEF Queue!Dispatch, Ahead
  <2> QED BY <2>8 DEF Queue!Next
<1> QED BY <1>1, <1>2 DEF task_switch

(* The scheduler implements the run queue: for every size of the table,    *)
(* a call of schedule_task appends a task, a switch takes the first one,   *)
(* and nothing else touches the queue.                                     *)
THEOREM SchedulerRefinesRunQueue == Spec => RefinesRunQueue
<1>1. Init => Queue!Init
  BY DEF Init, Queue!Init, Kernel
<1>2. IInv /\ IInv' /\ [Next]_vars => [Queue!Next]_(Queue!vars)
  <2> SUFFICES ASSUME IInv, IInv', [Next]_vars PROVE [Queue!Next]_(Queue!vars)
    OBVIOUS
  <2>1. ASSUME NEW mode \in Modes, schedule_task(mode) PROVE [Queue!Next]_(Queue!vars)
    BY <2>1, ScheduleRefines
  <2>2. CASE Rtc
    <3>1. UNCHANGED tasks \/ task_switch(cpu)
      BY <2>2 DEF Rtc
    <3>2. ASSUME UNCHANGED tasks PROVE UNCHANGED Queue!vars
      BY <3>2 DEF tasks, Queue!vars
    <3> QED BY <3>1, <3>2, SwitchRefines
  <2>3. CASE Int28
    BY <2>3, SwitchRefines DEF Int28
  <2>4. ASSUME enable_task_switch \/ yield \/ ResetTick \/ Restore \/ end_of_interrupt
               \/ Iret \/ exit \/ Halted \/ UNCHANGED vars
        PROVE  UNCHANGED <<total, current>>
    BY <2>4 DEF enable_task_switch, yield, ResetTick, Restore, end_of_interrupt, Iret,
       exit, kill, Halted, vars, tasks
  <2>5. ASSUME UNCHANGED <<total, current>> PROVE UNCHANGED Queue!vars
    BY <2>5 DEF Queue!vars
  <2> QED BY <2>1, <2>2, <2>3, <2>4, <2>5 DEF Next
<1> QED BY <1>1, <1>2, IInvAlways, PTL DEF Spec, RefinesRunQueue, Queue!Spec

=============================================================================
