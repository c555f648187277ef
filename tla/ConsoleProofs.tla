---------------------------- MODULE ConsoleProofs ----------------------------
(***************************************************************************)
(* Proofs, for every value of the constants of module Console, of what the *)
(* run of MCConsole checks on a small instance.  Each component has an     *)
(* inductive invariant of its own; a step of the composition is a step of  *)
(* the component or leaves its variables alone.                            *)
(***************************************************************************)
EXTENDS Console, SequenceTheorems, FiniteSetTheorems, TLAPS

(* The event pump: the types of its variables, ... *)
PumpTypes ==
  /\ pump \in {"none", "kmain", "dispatcher"}
  /\ screen_lock \in {"none", "kmain", "dispatcher"}
  /\ subscribers \in {0, 1}
  /\ kmain \in {"init", "enable_task_switch", "print", "printing", "lock", "push",
                "unlock", "loop"}
  /\ dispatcher \in {"try", "pop", "popping", "handle", "printing"}
  /\ current \in {"kmain", "dispatcher"}
  /\ scancodes \in Nat /\ event \in Nat
  /\ events \in Seq(Nat) /\ Len(events) <= Capacity
  /\ seen \in Seq(Nat) /\ accepted \in Seq(Nat) /\ delivered \in Seq(Nat)

(* ... who holds its two locks, ... *)
PumpLocks ==
  /\ pump = "kmain" <=> kmain \in {"push", "unlock"}
  /\ pump = "dispatcher" <=> dispatcher # "try"
  /\ screen_lock = "kmain" <=> kmain = "printing"
  /\ screen_lock = "dispatcher" <=> dispatcher = "printing"
  /\ subscribers = 1 <=> kmain \in {"unlock", "loop"}
  /\ dispatcher \in {"handle", "printing"} => subscribers = 1

(* ... and where its events are: before the switch all of them are in the  *)
(* queue, and between the two steps of pop_front none is added, as the     *)
(* dispatcher holds the lock that the interrupt tries.                     *)
PumpEvents ==
  /\ current = "kmain" => dispatcher = "try" /\ delivered = <<>> /\ events = accepted
  /\ dispatcher = "popping" => seen = events
  /\ ShellMissesNothing

PumpInv == PumpTypes /\ PumpLocks /\ PumpEvents

-----------------------------------------------------------------------------
(* The capacity of the queue and the bounds on the keys are numbers. *)
LEMMA PumpConstants == {Capacity, MaxKeys, Burst} \subseteq Nat \ {0}
BY ConsoleAssumption DEF Pump!EventPumpAssumption

(* keyboard::init leaves the pump empty and unlocked. *)
LEMMA PumpInit == Init => PumpInv
BY PumpConstants DEF Init, Pump!Init, PumpInv, PumpTypes, PumpLocks, PumpEvents,
   ShellMissesNothing, Pump!ShellMissesNothing

(* The handler's loop finds a finite number of keys. *)
LEMMA KeysReadIsNat ==
  ASSUME NEW codes \in BoundedSeq(Pump!Scancodes, Burst)
  PROVE  Pump!KeysRead(codes) \in Nat /\ Len(codes) \in Nat
<1>1. PICK m \in 0..Burst : codes \in [1..m -> Pump!Scancodes]
  BY DEF BoundedSeq, SeqOf
<1>2. m \in Nat /\ DOMAIN codes = 1..m /\ Len(codes) = m
  BY <1>1, PumpConstants
<1> DEFINE K == {i \in DOMAIN codes :
                  codes[i] = "key" /\ \A j \in 1..i : codes[j] # "error"}
<1>3. IsFiniteSet(1..m)
  BY <1>2, FS_Interval
<1>4. IsFiniteSet(K)
  BY <1>2, <1>3, FS_Subset
<1>5. Cardinality(K) \in Nat
  BY <1>4, FS_CardinalityType
<1>6. Pump!Cardinality(K) = Cardinality(K)
  BY DEF Pump!Cardinality, Cardinality, Pump!IsFiniteSet, IsFiniteSet
<1> QED BY <1>2, <1>5, <1>6 DEF Pump!KeysRead

(* Events that are appended in two parts, or at once. *)
LEMMA InTwoParts ==
  ASSUME NEW s \in Seq(Nat), NEW t \in Seq(Nat), NEW u \in Seq(Nat)
  PROVE  s \o t \o u = s \o (t \o u)
BY ConcatAssociative, SMTT(60)

(* An interrupt that gets the lock adds the same events at the end of the  *)
(* queue and of the history; one that does not adds none.                  *)
LEMMA PumpInterrupt ==
  ASSUME PumpInv, NEW codes \in BoundedSeq(Pump!Scancodes, Burst),
         Pump!handle_interrupt(codes)
  PROVE  PumpInv'
<1> DEFINE n == Pump!KeysRead(codes)
           k == IF Len(events) + n > Capacity THEN Capacity - Len(events) ELSE n
           new == [i \in 1..k |-> scancodes + i]
<1>1. n \in Nat /\ Len(codes) \in Nat /\ Capacity \in Nat
  BY KeysReadIsNat, PumpConstants
<1>2. /\ UNCHANGED <<pump, screen_lock, subscribers, kmain, dispatcher, seen, event,
                     current, delivered>>
      /\ scancodes' = scancodes + Len(codes)
      /\ IF pump = "none" THEN events' = events \o new /\ accepted' = accepted \o new
                          ELSE UNCHANGED <<events, accepted>>
  BY DEF Pump!handle_interrupt, Pump!Queue, Pump!PushBack
<1>3. PumpTypes /\ PumpLocks /\ PumpEvents
  BY DEF PumpInv
<1>4. /\ events \in Seq(Nat) /\ accepted \in Seq(Nat) /\ delivered \in Seq(Nat)
      /\ Len(events) \in Nat /\ Len(events) <= Capacity /\ scancodes \in Nat
  BY <1>3 DEF PumpTypes
<1> HIDE DEF n
<1>5. k \in Nat /\ Len(events) + k <= Capacity
  BY <1>1, <1>4
<1> HIDE DEF k
<1>6. new \in Seq(Nat) /\ Len(new) = k
  BY <1>4, <1>5
<1> HIDE DEF new
<1>7. PumpLocks'
  BY <1>2, <1>3 DEF PumpLocks
<1>8. CASE pump = "none"
  <2>1. events' = events \o new /\ accepted' = accepted \o new
    BY <1>2, <1>8
  <2>2. events' \in Seq(Nat) /\ Len(events') <= Capacity /\ accepted' \in Seq(Nat)
    BY <2>1, <1>4, <1>5, <1>6, ConcatProperties
  <2>3. dispatcher = "try"
    BY <1>3, <1>8 DEF PumpLocks, PumpTypes
  <2>4. PumpTypes'
    BY <1>1, <1>2, <1>3, <2>2 DEF PumpTypes
  <2>5. ShellMissesNothing'
    <3> SUFFICES ASSUME current = "dispatcher", subscribers = 1
                 PROVE  delivered \o <<>> \o events' = accepted'
      BY <1>2, <2>3 DEF ShellMissesNothing, Pump!ShellMissesNothing, Pump!InDispatch
    <3>1. delivered \o <<>> \o events = accepted
      BY <1>3, <2>3 DEF PumpEvents, ShellMissesNothing, Pump!ShellMissesNothing,
         Pump!InDispatch
    <3>2. delivered \o <<>> \in Seq(Nat)
      BY <1>4, ConcatProperties
    <3>3. (delivered \o <<>> \o events) \o new = (delivered \o <<>>) \o (events \o new)
      BY <3>2, <1>4, <1>6, InTwoParts
    <3> QED BY <3>1, <3>3, <2>1
  <2> QED BY <1>2, <1>3, <1>7, <2>1, <2>3, <2>4, <2>5 DEF PumpInv, PumpEvents
<1>9. CASE pump # "none"
  <2>1. PumpTypes'
    BY <1>1, <1>2, <1>3, <1>9 DEF PumpTypes
  <2>2. PumpEvents'
    BY <1>2, <1>3, <1>9 DEF PumpEvents, ShellMissesNothing, Pump!ShellMissesNothing,
       Pump!InDispatch
  <2> QED BY <1>7, <2>1, <2>2 DEF PumpInv
<1> QED BY <1>8, <1>9

(* kmain takes and frees each lock itself, and subscribes once. *)
LEMMA PumpKmain == ASSUME PumpInv, Pump!KmainStep PROVE PumpInv'
<1> USE DEF PumpInv
<1>1. /\ current = "kmain" /\ dispatcher = "try" /\ delivered = <<>> /\ events = accepted
      /\ UNCHANGED <<events, accepted, scancodes, dispatcher, seen, event, current,
                     delivered>>
  BY DEF PumpEvents, Pump!KmainStep, Pump!queue
<1>2. PumpTypes' /\ PumpLocks'
  BY <1>1 DEF PumpTypes, PumpLocks, Pump!KmainStep, Pump!AfterStep, Pump!Lock
<1>3. PumpEvents'
  BY <1>1 DEF PumpEvents, ShellMissesNothing, Pump!ShellMissesNothing
<1> QED BY <1>2, <1>3

(* At the switch every event that was accepted is in the queue. *)
LEMMA PumpSwitch == ASSUME PumpInv, Pump!Switch PROVE PumpInv'
<1> USE DEF PumpInv
<1>1. /\ dispatcher = "try" /\ delivered = <<>> /\ events = accepted
      /\ UNCHANGED <<pump, screen_lock, events, accepted, scancodes, subscribers, kmain,
                     dispatcher, seen, event, delivered>>
      /\ current' = "dispatcher"
  BY DEF PumpEvents, Pump!Switch, Pump!queue
<1>2. PumpTypes' /\ PumpLocks'
  BY <1>1 DEF PumpTypes, PumpLocks
<1>3. delivered \o <<>> \o events = accepted
  BY <1>1, ConcatEmptySeq DEF PumpTypes
<1>4. PumpEvents'
  BY <1>1, <1>3 DEF PumpEvents, ShellMissesNothing, Pump!ShellMissesNothing,
     Pump!InDispatch
<1> QED BY <1>2, <1>4

(* The steps of the dispatcher that move no event. *)
LEMMA PumpKeepsEvents ==
  ASSUME PumpInv, Pump!TryLock \/ Pump!PopRead \/ Pump!Unlock \/ Pump!HandleLock
  PROVE  PumpInv'
<1> USE DEF PumpInv
<1>1. /\ current = "dispatcher"
      /\ UNCHANGED <<events, accepted, scancodes, subscribers, kmain, event, current,
                     delivered>>
      /\ dispatcher \in {"handle", "printing"} <=> dispatcher' \in {"handle", "printing"}
      /\ dispatcher' = "popping" => seen' = events
  BY DEF Pump!TryLock, Pump!PopRead, Pump!Unlock, Pump!HandleLock, Pump!Dispatching,
     Pump!queue
<1>2. PumpTypes' /\ PumpLocks'
  BY DEF PumpTypes, PumpLocks, Pump!TryLock, Pump!PopRead, Pump!Unlock, Pump!HandleLock,
     Pump!Dispatching, Pump!queue
<1>3. PumpEvents'
  BY <1>1 DEF PumpEvents, ShellMissesNothing, Pump!ShellMissesNothing, Pump!InDispatch
<1> QED BY <1>2, <1>3

(* pop_front moves the first event of the queue to the dispatcher. *)
LEMMA PumpPopEvent == ASSUME PumpInv, Pump!PopEvent PROVE PumpInv'
<1> USE DEF PumpInv
<1>1. /\ current = "dispatcher" /\ dispatcher = "popping" /\ seen = events
      /\ events # <<>> /\ event' = Head(events) /\ events' = Tail(events)
      /\ dispatcher' = IF subscribers = 0 THEN "pop" ELSE "handle"
      /\ UNCHANGED <<pump, screen_lock, subscribers, kmain, seen, current, scancodes,
                     accepted, delivered>>
  BY DEF PumpEvents, Pump!PopEvent, Pump!Dispatching, Pump!ToSubscribers
<1>2. /\ events \in Seq(Nat) /\ accepted \in Seq(Nat) /\ delivered \in Seq(Nat)
      /\ Len(events) <= Capacity
  BY DEF PumpTypes
<1>3. /\ Head(events) \in Nat /\ Tail(events) \in Seq(Nat)
      /\ Len(Tail(events)) = Len(events) - 1 /\ Len(events) \in Nat
      /\ <<Head(events)>> \o Tail(events) = events
  BY <1>1, <1>2, HeadTailProperties
<1>4. PumpTypes' /\ PumpLocks'
  <2>1. Len(events') <= Capacity
    BY <1>1, <1>2, <1>3, PumpConstants
  <2> QED BY <1>1, <1>3, <2>1 DEF PumpTypes, PumpLocks
<1>5. ShellMissesNothing'
  <2> SUFFICES ASSUME subscribers = 1
               PROVE  delivered \o <<event'>> \o events' = accepted
    BY <1>1 DEF ShellMissesNothing, Pump!ShellMissesNothing, Pump!InDispatch
  <2>1. delivered \o <<>> \o events = accepted
    BY <1>1 DEF PumpEvents, ShellMissesNothing, Pump!ShellMissesNothing, Pump!InDispatch
  <2>2. delivered \o events = accepted
    BY <2>1, <1>2, ConcatEmptySeq
  <2> DEFINE first == <<Head(events)>>
             rest == Tail(events)
  <2>3. first \in Seq(Nat) /\ rest \in Seq(Nat) /\ delivered \in Seq(Nat)
    BY <1>2, <1>3
  <2>4. first \o rest = events /\ event' = Head(events) /\ events' = rest
    BY <1>1, <1>3
  <2>5. delivered \o <<event'>> \o events' = delivered \o first \o rest
    BY <2>4, Zenon
  <2> HIDE DEF first, rest
  <2>6. delivered \o first \o rest = delivered \o (first \o rest)
    BY ONLY <2>3, InTwoParts
  <2> QED BY <2>2, <2>4, <2>5, <2>6, Zenon
<1> QED BY <1>1, <1>4, <1>5 DEF PumpEvents

(* What the shell has handled it has handled behind everything before it. *)
LEMMA PumpHandleDone == ASSUME PumpInv, Pump!HandleDone PROVE PumpInv'
<1> USE DEF PumpInv
<1>1. /\ current = "dispatcher" /\ dispatcher = "printing"
      /\ screen_lock' = "none" /\ dispatcher' = "pop"
      /\ delivered' = Append(delivered, event)
      /\ UNCHANGED <<pump, events, accepted, scancodes, subscribers, kmain, seen, event,
                     current>>
  BY DEF Pump!HandleDone, Pump!Dispatching, Pump!queue
<1>2. /\ events \in Seq(Nat) /\ accepted \in Seq(Nat) /\ delivered \in Seq(Nat)
      /\ event \in Nat
  BY DEF PumpTypes
<1>3. /\ delivered' \in Seq(Nat)
      /\ delivered' = delivered \o <<event>>
  BY <1>1, <1>2
<1>4. PumpTypes' /\ PumpLocks'
  BY <1>1, <1>3 DEF PumpTypes, PumpLocks
<1>5. ShellMissesNothing'
  <2> SUFFICES ASSUME subscribers = 1
               PROVE  delivered' \o <<>> \o events = accepted
    BY <1>1 DEF ShellMissesNothing, Pump!ShellMissesNothing, Pump!InDispatch
  <2>1. delivered \o <<event>> \o events = accepted
    BY <1>1 DEF PumpEvents, ShellMissesNothing, Pump!ShellMissesNothing, Pump!InDispatch
  <2>2. delivered' \o <<>> = delivered'
    BY <1>3, ConcatEmptySeq
  <2> QED BY <2>1, <2>2, <1>3
<1> QED BY <1>1, <1>4, <1>5 DEF PumpEvents

(* A step that leaves the pump alone. *)
LEMMA PumpStutter == ASSUME PumpInv, UNCHANGED pump_vars PROVE PumpInv'
BY DEF PumpInv, PumpTypes, PumpLocks, PumpEvents, pump_vars, ShellMissesNothing,
   Pump!ShellMissesNothing, Pump!InDispatch

(* Every step of the composition preserves the invariant of the pump. *)
LEMMA PumpStep == PumpInv /\ [Next]_vars => PumpInv'
<1> SUFFICES ASSUME PumpInv, [Next]_vars PROVE PumpInv'
  OBVIOUS
<1>1. CASE KmainStep BY <1>1, PumpKmain DEF KmainStep
<1>2. CASE Switch BY <1>2, PumpSwitch DEF Switch
<1>3. CASE KeyboardInterrupt BY <1>3, PumpInterrupt DEF KeyboardInterrupt
<1>4. CASE DispatchStep
  BY <1>4, PumpKeepsEvents, PumpPopEvent DEF DispatchStep
<1>5. CASE StartPrinting BY <1>5, PumpKeepsEvents DEF StartPrinting
<1>6. CASE FinishKey BY <1>6, PumpHandleDone DEF FinishKey
<1>7. CASE \/ Driver \/ StartRead \/ FinishRead \/ FsStep \/ StartCat
           \/ Controller \/ SeekEnd \/ DiskInterrupt \/ Spin \/ UNCHANGED vars
  BY <1>7, PumpStutter DEF Driver, StartRead, FinishRead, FsStep, StartCat, Controller,
     SeekEnd, DiskInterrupt, Spin, vars
<1> QED BY <1>1, <1>2, <1>3, <1>4, <1>5, <1>6, <1>7 DEF Next, Task, Dispatch

(* The pump's invariant holds in every state. *)
LEMMA PumpAlways == Spec => []PumpInv
<1>1. Init /\ [][Next]_vars => []PumpInv
  BY PumpInit, PumpStep, PTL
<1> QED BY <1>1, PTL DEF Spec

(* Whatever the capacity of the queue, the number of keys and the order of *)
(* interrupts, switches and steps of the tasks: what the shell has handled *)
(* is what was queued, without gap, repetition or reordering, up to what   *)
(* is still in the dispatcher and in the queue.                            *)
THEOREM ConsoleShellMissesNothing == Spec => []ShellMissesNothing
BY PumpAlways, PTL DEF PumpInv, PumpEvents

(* The dispatcher never asks for a screen whose lock kmain, which will not *)
(* run again, has kept: the lock of the prompt is freed before the shell   *)
(* is subscribed.                                                          *)
THEOREM ConsoleScreenIsFree == Spec => []ScreenIsFree
<1>1. PumpInv => ScreenIsFree
  BY DEF PumpInv, PumpTypes, PumpLocks, ScreenIsFree, Pump!ScreenIsFree
<1> QED BY <1>1, PumpAlways, PTL

-----------------------------------------------------------------------------
(* The floppy driver and the controller: the invariant is that of module   *)
(* FloppyProofs, with the variables of the composition.                    *)
DriveP == INSTANCE FloppyProofs WITH
  pc <- drive_pc, machine <- drive_machine, buffer <- dma_buffer,
  handled <- disk_interrupt_handled

(* The two instances of module Floppy, that of Console and that of         *)
(* FloppyProofs, have the same initial states and the same steps.          *)
LEMMA SameDrive ==
  /\ Drive!Init => DriveP!Init
  /\ Drive!Driver => DriveP!Driver
  /\ Drive!FinishRead => DriveP!FinishRead
  /\ \A n \in Nat : Drive!read_floppy(n) => DriveP!read_floppy(n)
  /\ Drive!Controller => DriveP!Controller
  /\ Drive!SeekEnd => DriveP!SeekEnd
  /\ Drive!Interrupt => DriveP!Interrupt
  /\ UNCHANGED drive_vars => UNCHANGED DriveP!vars
<1>1. Drive!Init => DriveP!Init
  BY DEF
    Drive!Init, Drive!Retries, DriveP!Init, DriveP!Retries
<1>2. Drive!Driver => DriveP!Driver
  <2>1. Drive!Poll => DriveP!Poll
    BY DEF
      Drive!Poll, Drive!At, Drive!Goto, Drive!Now, Drive!Script, Drive!Command,
      Drive!driver, Drive!RQM, Drive!DIO, Drive!CMD_BSY, Drive!wait_til_fifo_ready,
      Drive!Retry, Drive!Stop, Drive!same, Drive!AfterParams, Drive!CtlTake, DriveP!Poll,
      DriveP!At, DriveP!Goto, DriveP!Now, DriveP!Script, DriveP!Command, DriveP!driver,
      DriveP!RQM, DriveP!DIO, DriveP!CMD_BSY, DriveP!wait_til_fifo_ready, DriveP!Retry,
      DriveP!Stop, DriveP!same, DriveP!AfterParams, DriveP!CtlTake
  <2>2. Drive!issue_parameter_command => DriveP!issue_parameter_command
    BY DEF
      Drive!issue_parameter_command, Drive!At, Drive!Goto, Drive!Now, Drive!Script,
      Drive!Command, Drive!driver, Drive!RQM, Drive!DIO, Drive!CMD_BSY,
      Drive!wait_til_fifo_ready, Drive!Retry, Drive!Stop, Drive!same, Drive!AfterParams,
      Drive!CtlTakeParam, DriveP!issue_parameter_command, DriveP!At, DriveP!Goto,
      DriveP!Now, DriveP!Script, DriveP!Command, DriveP!driver, DriveP!RQM, DriveP!DIO,
      DriveP!CMD_BSY, DriveP!wait_til_fifo_ready, DriveP!Retry, DriveP!Stop, DriveP!same,
      DriveP!AfterParams, DriveP!CtlTakeParam
  <2>3. Drive!wait_for_disk_interrupt => DriveP!wait_for_disk_interrupt
    BY DEF
      Drive!wait_for_disk_interrupt, Drive!At, Drive!Goto, Drive!Now, Drive!Script,
      Drive!Command, Drive!driver, Drive!Retry, Drive!Stop, Drive!same, Drive!AfterParams,
      DriveP!wait_for_disk_interrupt, DriveP!At, DriveP!Goto, DriveP!Now, DriveP!Script,
      DriveP!Command, DriveP!driver, DriveP!Retry, DriveP!Stop, DriveP!same,
      DriveP!AfterParams
  <2>4. Drive!WaitForResult => DriveP!WaitForResult
    BY DEF
      Drive!WaitForResult, Drive!At, Drive!Goto, Drive!Now, Drive!Script, Drive!Command,
      Drive!driver, Drive!RQM, Drive!DIO, Drive!CMD_BSY, Drive!wait_til_fifo_ready,
      Drive!Retry, Drive!Stop, Drive!same, Drive!AfterParams, DriveP!WaitForResult,
      DriveP!At, DriveP!Goto, DriveP!Now, DriveP!Script, DriveP!Command, DriveP!driver,
      DriveP!RQM, DriveP!DIO, DriveP!CMD_BSY, DriveP!wait_til_fifo_ready, DriveP!Retry,
      DriveP!Stop, DriveP!same, DriveP!AfterParams
  <2>5. Drive!ReadResult => DriveP!ReadResult
    BY DEF
      Drive!ReadResult, Drive!At, Drive!Goto, Drive!Now, Drive!Script, Drive!Command,
      Drive!driver, Drive!RQM, Drive!DIO, Drive!CMD_BSY, Drive!wait_til_fifo_ready,
      Drive!Retry, Drive!Stop, Drive!same, Drive!AfterParams, Drive!CtlGive,
      DriveP!ReadResult, DriveP!At, DriveP!Goto, DriveP!Now, DriveP!Script,
      DriveP!Command, DriveP!driver, DriveP!RQM, DriveP!DIO, DriveP!CMD_BSY,
      DriveP!wait_til_fifo_ready, DriveP!Retry, DriveP!Stop, DriveP!same,
      DriveP!AfterParams, DriveP!CtlGive
  <2>6. Drive!Check => DriveP!Check
    BY DEF
      Drive!Check, Drive!At, Drive!Goto, Drive!Now, Drive!Script, Drive!Command,
      Drive!driver, Drive!RQM, Drive!DIO, Drive!CMD_BSY, Drive!wait_til_fifo_ready,
      Drive!Retry, Drive!Stop, Drive!same, Drive!AfterParams, DriveP!Check, DriveP!At,
      DriveP!Goto, DriveP!Now, DriveP!Script, DriveP!Command, DriveP!driver, DriveP!RQM,
      DriveP!DIO, DriveP!CMD_BSY, DriveP!wait_til_fifo_ready, DriveP!Retry, DriveP!Stop,
      DriveP!same, DriveP!AfterParams
  <2>7. Drive!Reset => DriveP!Reset
    BY DEF
      Drive!Reset, Drive!At, Drive!Goto, Drive!Now, Drive!Script, Drive!Command,
      Drive!driver, Drive!CtlTake, DriveP!Reset, DriveP!At, DriveP!Goto, DriveP!Now,
      DriveP!Script, DriveP!Command, DriveP!driver, DriveP!CtlTake
  <2>8. Drive!NextCommand => DriveP!NextCommand
    BY DEF
      Drive!NextCommand, Drive!At, Drive!Goto, Drive!Now, Drive!Script, Drive!Command,
      Drive!driver, Drive!ReadStep, Drive!Stop, Drive!low_memory_allocate,
      Drive!BufferPages, Drive!Retries, DriveP!NextCommand, DriveP!At, DriveP!Goto,
      DriveP!Now, DriveP!Script, DriveP!Command, DriveP!driver, DriveP!ReadStep,
      DriveP!Stop, DriveP!low_memory_allocate, DriveP!BufferPages, DriveP!Retries
  <2> QED BY <2>1, <2>2, <2>3, <2>4, <2>5, <2>6, <2>7, <2>8 DEF Drive!Driver, DriveP!Driver
<1>3. Drive!FinishRead => DriveP!FinishRead
  BY DEF
    Drive!FinishRead, Drive!At, Drive!Goto, Drive!ReadStep, Drive!Script, Drive!Command,
    Drive!Result, Drive!StatusOf, DriveP!FinishRead, DriveP!At, DriveP!Goto,
    DriveP!ReadStep, DriveP!Script, DriveP!Command, DriveP!Result, DriveP!StatusOf
<1>4. \A n \in Nat : Drive!read_floppy(n) => DriveP!read_floppy(n)
  BY DEF
    Drive!read_floppy, Drive!prepare_transfer, Drive!At, Drive!Goto, Drive!Stop,
    Drive!driver, Drive!BufferPages, Drive!PageBytes, Drive!SectorBytes,
    Drive!CountRegister, Drive!TransferCount, Drive!Retries, DriveP!read_floppy,
    DriveP!prepare_transfer, DriveP!At, DriveP!Goto, DriveP!Stop, DriveP!driver,
    DriveP!BufferPages, DriveP!PageBytes, DriveP!SectorBytes, DriveP!CountRegister,
    DriveP!TransferCount, DriveP!Retries
<1>5. Drive!Controller => DriveP!Controller
  BY DEF
    Drive!Controller, Drive!CtlDone, Drive!CtlWants, Drive!CtlSeeks, Drive!CtlSenses,
    Drive!CtlReads, Drive!CtlFails, Drive!driver, DriveP!Controller, DriveP!CtlDone,
    DriveP!CtlWants, DriveP!CtlSeeks, DriveP!CtlSenses, DriveP!CtlReads, DriveP!CtlFails,
    DriveP!driver
<1>6. Drive!SeekEnd => DriveP!SeekEnd
  BY DEF
    Drive!SeekEnd, Drive!driver, DriveP!SeekEnd, DriveP!driver
<1>7. Drive!Interrupt => DriveP!Interrupt
  BY DEF
    Drive!Interrupt, Drive!handle_floppy_interrupt, Drive!driver, DriveP!Interrupt,
    DriveP!handle_floppy_interrupt, DriveP!driver
<1>8. UNCHANGED drive_vars => UNCHANGED DriveP!vars
  BY DEF drive_vars, DriveP!vars, DriveP!driver
<1> QED BY <1>1, <1>2, <1>3, <1>4, <1>5, <1>6, <1>7, <1>8

(* The sectors the file system reads at once fit the driver's buffer. *)
LEMMA WantedSectorsFit ==
  /\ Fs!SectorsWanted \in Nat
  /\ Fs!SectorsWanted * Drive!SectorBytes <= Drive!BufferPages * Drive!PageBytes
<1>1. Fs!SectorsWanted \in {0, 1, 2, Fs!root_directory_sector_count}
  BY DEF Fs!SectorsWanted
<1>2. EntryBytes \in Nat /\ RootEntries \in Nat /\ BytesPerSector \in Nat \ {0}
  BY ConsoleAssumption DEF Fs!Fat12Assumption
<1>3. EntryBytes * RootEntries \in Nat BY <1>2
<1>4. Fs!root_directory_sector_count \in Nat
  <2> DEFINE bytes == EntryBytes * RootEntries
  <2>1. Fs!root_directory_sector_count = bytes \div BytesPerSector
    BY DEF Fs!root_directory_sector_count
  <2>2. bytes \in Nat BY <1>3
  <2> HIDE DEF bytes
  <2> QED BY <1>2, <2>1, <2>2
<1> QED
  BY <1>1, <1>4, ConsoleAssumption
  DEF RootDirectoryBytes, Drive!SectorBytes, Drive!BufferPages, Drive!PageBytes

(* A step of the composition is a step of the drive or leaves it alone. *)
LEMMA DriveSteps == [Next]_vars => [DriveP!DriveNext]_(DriveP!vars)
<1> SUFFICES ASSUME [Next]_vars PROVE DriveP!DriveNext \/ UNCHANGED DriveP!vars
  OBVIOUS
<1>1. CASE Driver BY <1>1, SameDrive DEF Driver, DriveP!DriveNext
<1>2. CASE StartRead
  <2>1. DriveP!FitsBuffer(Fs!SectorsWanted)
    BY WantedSectorsFit DEF DriveP!FitsBuffer, Drive!SectorBytes, Drive!BufferPages,
       Drive!PageBytes, DriveP!SectorBytes, DriveP!BufferPages, DriveP!PageBytes
  <2> QED BY <1>2, <2>1, WantedSectorsFit, SameDrive DEF StartRead, DriveP!DriveNext
<1>3. CASE FinishRead BY <1>3, SameDrive DEF FinishRead, DriveP!DriveNext
<1>4. CASE Controller BY <1>4, SameDrive DEF Controller, DriveP!DriveNext
<1>5. CASE SeekEnd BY <1>5, SameDrive DEF SeekEnd, DriveP!DriveNext
<1>6. CASE DiskInterrupt BY <1>6, SameDrive DEF DiskInterrupt, DriveP!DriveNext
<1>7. CASE \/ FsStep \/ KmainStep \/ Dispatch \/ Switch \/ KeyboardInterrupt \/ Spin
           \/ UNCHANGED vars
  BY <1>7, SameDrive DEF FsStep, KmainStep, Dispatch, DispatchStep, StartCat,
     StartPrinting, FinishKey, Switch, KeyboardInterrupt, Spin, vars
<1> QED BY <1>1, <1>2, <1>3, <1>4, <1>5, <1>6, <1>7 DEF Next, Task

(* The invariant of the drive holds in every state. *)
LEMMA DriveAlways == Spec => []DriveP!DriveInv
<1>1. DriveP!FloppyAssumption
  BY ConsoleAssumption DEF Drive!FloppyAssumption, DriveP!FloppyAssumption
<1>2. Init => DriveP!DriveInv BY SameDrive, DriveP!DriveInit DEF Init
<1>3. DriveP!DriveInv /\ [Next]_vars => DriveP!DriveInv'
  BY <1>1, DriveSteps, DriveP!DriveStep
<1>4. Init /\ [][Next]_vars => []DriveP!DriveInv
  BY <1>2, <1>3, PTL
<1> QED BY <1>4, PTL DEF Spec

(* Whatever the timing of the controller, the seek and their interrupts,   *)
(* and whatever errors the controller reports: a read that returns ok has  *)
(* copied the data of its own transfer to the caller.                      *)
THEOREM ConsoleReadGetsItsData == Spec => []ReadGetsItsData
<1>1. DriveP!DriveInv => ReadGetsItsData
  BY DEF DriveP!DriveInv, DriveP!ReadGetsItsData, ReadGetsItsData, Drive!ReadGetsItsData
<1> QED BY <1>1, DriveAlways, PTL

(* No command of the driver runs out of tries, gets more result than it    *)
(* has room for or waits for a masked interrupt, and no read is larger     *)
(* than the buffer of the DMA.                                             *)
THEOREM ConsoleCommandsSucceed == Spec => []CommandsSucceed
<1>1. DriveP!DriveInv => CommandsSucceed
  BY DEF DriveP!DriveInv, DriveP!CommandsSucceed, CommandsSucceed, Drive!CommandsSucceed
<1> QED BY <1>1, DriveAlways, PTL

-----------------------------------------------------------------------------
(* The shell: the invariant is that of module ShellProofs, with the        *)
(* variables of the composition.                                           *)
ShellP == INSTANCE ShellProofs WITH machine <- shell_machine, typed <- line

(* The two instances of module Minishell, that of Console and that of      *)
(* ShellProofs, print the same prompt.                                     *)
LEMMA SamePrompt == ASSUME NEW s PROVE Shell!Prompt(s) = ShellP!Prompt(s)
BY DEF
  Shell!Prompt, Shell!write, Shell!print_char, Shell!advance_cursor_to_newline,
  Shell!Backspace, Shell!advance_one, Shell!advance_one_y, Shell!Scrolls,
  Shell!write_color_char_at, Shell!Cells,
  ShellP!Prompt, ShellP!write, ShellP!print_char, ShellP!advance_cursor_to_newline,
  ShellP!Backspace, ShellP!advance_one, ShellP!advance_one_y, ShellP!Scrolls,
  ShellP!write_color_char_at, ShellP!Cells

(* They begin in the same states and handle a key in the same way. *)
LEMMA SameShell ==
  /\ Shell!Init => ShellP!Init
  /\ \A code, pressed :
       Shell!handle_key_event(code, pressed) => ShellP!handle_key_event(code, pressed)
<1>1. Shell!Init => ShellP!Init
  BY DEF Shell!Init, Shell!Empty, Shell!Home, Shell!Cells,
         ShellP!Init, ShellP!Empty, ShellP!Home, ShellP!Cells
<1>2. \A s, c : Shell!print_char(s, c) = ShellP!print_char(s, c)
  BY DEF
    Shell!print_char, Shell!advance_cursor_to_newline, Shell!Backspace, Shell!advance_one,
    Shell!advance_one_y, Shell!Scrolls, Shell!write_color_char_at, Shell!Cells,
    ShellP!print_char, ShellP!advance_cursor_to_newline, ShellP!Backspace,
    ShellP!advance_one, ShellP!advance_one_y, ShellP!Scrolls, ShellP!write_color_char_at,
    ShellP!Cells
<1>3. Shell!Enter => ShellP!Enter
  BY DEF
    Shell!Enter, Shell!Command, Shell!CString, Shell!Terminated, Shell!Prints, Shell!Output,
    Shell!IsCat, Shell!puts, Shell!Home, Shell!Empty,
    Shell!Prompt, Shell!write, Shell!print_char, Shell!advance_cursor_to_newline,
    Shell!Backspace, Shell!advance_one, Shell!advance_one_y, Shell!Scrolls,
    Shell!write_color_char_at, Shell!Cells,
    ShellP!Enter, ShellP!Command, ShellP!CString, ShellP!Terminated, ShellP!Prints,
    ShellP!Output, ShellP!IsCat, ShellP!puts, ShellP!Home, ShellP!Empty,
    ShellP!Prompt, ShellP!write, ShellP!print_char, ShellP!advance_cursor_to_newline,
    ShellP!Backspace, ShellP!advance_one, ShellP!advance_one_y, ShellP!Scrolls,
    ShellP!write_color_char_at, ShellP!Cells
<1>4. \A code : Shell!Insert(code) => ShellP!Insert(code)
  BY <1>2 DEF Shell!Insert, Shell!UPPERS, ShellP!Insert, ShellP!UPPERS
<1>5. Shell!Erase => ShellP!Erase
  BY <1>2 DEF Shell!Erase, Shell!Removable, Shell!AllButLast,
              ShellP!Erase, ShellP!Removable, ShellP!AllButLast
<1> QED
  BY <1>1, <1>3, <1>4, <1>5
  DEF Shell!handle_key_event, Shell!Shift, Shell!Letters, Shell!Removable, Shell!vars,
      ShellP!handle_key_event, ShellP!Shift, ShellP!Letters, ShellP!Removable, ShellP!vars

(* kmain prints the prompt before it subscribes the shell, on an empty     *)
(* screen; from then on the line is on the screen.                         *)
BeforePrompt == kmain \in {"init", "enable_task_switch", "print", "printing"}
PromptInv ==
  /\ BeforePrompt =>
       ShellP!LineInv /\ screen \in ShellP!Screens /\ screen.x = 0 /\ line = <<>>
  /\ ~BeforePrompt => ShellP!ShellInv

(* What is assumed of the shell. *)
LEMMA ShellSizes == ShellP!ShellAssumption
BY ConsoleAssumption
DEF Shell!VgaAssumption, Shell!MinishellAssumption,
    ShellP!ShellAssumption, ShellP!VgaAssumption, ShellP!MinishellAssumption

(* A key goes to the shell only after the prompt was printed. *)
LEMMA PromptKey == ASSUME PumpInv, PromptInv, FinishKey PROVE PromptInv'
<1>1. /\ Shell!handle_key_event(key.code, key.pressed) /\ kmain' = kmain /\ ~BeforePrompt
  BY DEF FinishKey, Pump!HandleDone, Pump!Dispatching, PumpInv, PumpLocks, BeforePrompt
<1>2. ShellP!handle_key_event(key.code, key.pressed) BY <1>1, SameShell
<1>3. ShellP!ShellInv BY <1>1 DEF PromptInv
<1>4. ShellP!ShellInv' BY <1>2, <1>3, ShellSizes, ShellP!ShellKey
<1> QED BY <1>1, <1>4 DEF PromptInv, BeforePrompt

(* A step that leaves the shell alone. *)
LEMMA PromptStutter ==
  ASSUME PromptInv, BeforePrompt' <=> BeforePrompt,
         UNCHANGED <<command_buffer, buffer_count, screen, line, wrapped, shell_machine>>
  PROVE  PromptInv'
<1>1. ShellP!LineInv' <=> ShellP!LineInv
  BY DEF ShellP!LineInv, ShellP!Printable, ShellP!Letters
<1>2. ShellP!Screens' = ShellP!Screens
  BY DEF ShellP!Screens, ShellP!Cells, ShellP!Glyphs, ShellP!Printable, ShellP!Letters
<1>3. ShellP!ScreenInv' <=> ShellP!ScreenInv
  BY <1>2 DEF ShellP!ScreenInv, ShellP!Shows, ShellP!At
<1> QED BY <1>1, <1>2, <1>3 DEF PromptInv, ShellP!ShellInv

(* kmain's steps touch the screen only where it prints the prompt. *)
LEMMA PromptKmain == ASSUME PumpInv, PromptInv, KmainStep PROVE PromptInv'
<1>1. /\ UNCHANGED <<command_buffer, buffer_count, line, wrapped, shell_machine>>
      /\ screen' = IF kmain = "printing" THEN ShellP!Prompt(screen) ELSE screen
      /\ kmain' = Pump!AfterStep(kmain) /\ kmain # "loop"
  BY SamePrompt DEF KmainStep, Pump!KmainStep
<1>2. CASE kmain = "printing"
  <2>1. screen \in ShellP!Screens /\ screen.x = 0 /\ line = <<>> /\ ShellP!LineInv
    BY <1>2 DEF PromptInv, BeforePrompt
  <2>2. ShellP!Prompt(screen) \in ShellP!Screens /\ ShellP!Shows(ShellP!Prompt(screen), <<>>)
    BY <2>1, ShellSizes, ShellP!PromptShows
  <2>3. ShellP!LineInv' BY <1>1, <2>1 DEF ShellP!LineInv, ShellP!Printable, ShellP!Letters
  <2>4. screen' \in ShellP!Screens' /\ ShellP!Shows(screen', line')
    BY <1>1, <1>2, <2>1, <2>2
    DEF ShellP!Screens, ShellP!Cells, ShellP!Glyphs, ShellP!Printable, ShellP!Letters
  <2>5. ~BeforePrompt' BY <1>1, <1>2 DEF BeforePrompt, Pump!AfterStep
  <2> QED BY <2>3, <2>4, <2>5
         DEF PromptInv, ShellP!ShellInv, ShellP!ScreenInv, ShellP!Shows, ShellP!At
<1>3. CASE kmain # "printing"
  <2>1. BeforePrompt' <=> BeforePrompt
    BY <1>1, <1>3 DEF PumpInv, PumpTypes, BeforePrompt, Pump!AfterStep
  <2> QED BY <1>1, <1>3, <2>1, PromptStutter
<1> QED BY <1>2, <1>3

(* Every step of the composition preserves the invariant of the shell. *)
LEMMA PromptStep == PumpInv /\ PromptInv /\ [Next]_vars => PromptInv'
<1> SUFFICES ASSUME PumpInv, PromptInv, [Next]_vars PROVE PromptInv'
  OBVIOUS
<1>1. CASE KmainStep BY <1>1, PromptKmain
<1>2. CASE FinishKey BY <1>2, PromptKey
<1>3. CASE \/ Switch \/ KeyboardInterrupt \/ DispatchStep \/ StartPrinting
  <2>1. kmain' = kmain
    BY <1>3 DEF Switch, Pump!Switch, KeyboardInterrupt, Pump!handle_interrupt, DispatchStep,
       Pump!TryLock, Pump!PopRead, Pump!PopEvent, Pump!Unlock, StartPrinting, Pump!HandleLock
  <2>2. UNCHANGED shell_vars
    BY <1>3 DEF Switch, KeyboardInterrupt, DispatchStep, StartPrinting
  <2> QED BY <2>1, <2>2, PromptStutter DEF shell_vars, BeforePrompt
<1>4. CASE \/ Driver \/ StartRead \/ FinishRead \/ FsStep \/ StartCat
           \/ Controller \/ SeekEnd \/ DiskInterrupt \/ Spin \/ UNCHANGED vars
  <2>1. UNCHANGED pump_vars /\ UNCHANGED shell_vars
    BY <1>4 DEF Driver, StartRead, FinishRead, FsStep, StartCat, Controller, SeekEnd,
       DiskInterrupt, Spin, vars
  <2> QED BY <2>1, PromptStutter DEF pump_vars, shell_vars, BeforePrompt
<1> QED BY <1>1, <1>2, <1>3, <1>4 DEF Next, Task, Dispatch

(* The shell's invariant holds in every state. *)
LEMMA PromptAlways == Spec => [](PumpInv /\ PromptInv)
<1>1. Init => PromptInv
  <2> SUFFICES ASSUME Init PROVE PromptInv OBVIOUS
  <2>1. ShellP!Init BY SameShell DEF Init
  <2>2. ShellP!LineInv /\ screen \in ShellP!Screens /\ screen.x = 0 /\ line = <<>>
    BY <2>1, ShellSizes, ShellP!ShellBegins
  <2> QED BY <2>2 DEF Init, Pump!Init, PromptInv, BeforePrompt
<1>2. Init /\ [][Next]_vars => [](PumpInv /\ PromptInv)
  BY <1>1, PumpInit, PumpStep, PromptStep, PTL
<1> QED BY <1>2, PTL DEF Spec

(* A line before the prompt is empty, so that it is in the buffer too. *)
LEMMA LineInBuffer == ASSUME PromptInv PROVE ShellP!LineInv
BY DEF PromptInv, ShellP!ShellInv

(* Whatever is typed, shifted and deleted, in lines shorter or longer than *)
(* the buffer: enter executes the line as it was typed, up to the last     *)
(* character the buffer has room for.                                      *)
THEOREM ConsoleExecutesWhatWasTyped == Spec => []ExecutesWhatWasTyped
<1>1. PromptInv => ExecutesWhatWasTyped
  <2> SUFFICES ASSUME PromptInv PROVE ExecutesWhatWasTyped OBVIOUS
  <2>1. ShellP!ExecutesWhatWasTyped BY LineInBuffer, ShellSizes, ShellP!LineIsExecuted
  <2> QED
    BY <2>1 DEF ExecutesWhatWasTyped, Shell!ExecutesWhatWasTyped, Shell!CString,
                Shell!Terminated, Shell!AllButLast, ShellP!ExecutesWhatWasTyped,
                ShellP!CString, ShellP!Terminated, ShellP!AllButLast
<1> QED BY <1>1, PromptAlways, PTL

(* On a screen of any size, through scrolling, clearing and the output of  *)
(* commands, the row of the cursor shows the prompt and the line.          *)
THEOREM ConsoleScreenShowsLine == Spec => []ScreenShowsLine
<1>1. PumpInv /\ PromptInv => ScreenShowsLine
  <2> SUFFICES ASSUME PumpInv, PromptInv, subscribers > 0 PROVE Shell!ShowsLine
    BY DEF ScreenShowsLine
  <2>1. ~BeforePrompt BY DEF PumpInv, PumpTypes, PumpLocks, BeforePrompt
  <2>2. ShellP!ShowsLine BY <2>1, ShellSizes, ShellP!ShellIsCorrect DEF PromptInv
  <2> QED BY <2>2 DEF Shell!ShowsLine, Shell!Row, ShellP!ShowsLine, ShellP!Row
<1> QED BY <1>1, PromptAlways, PTL
=============================================================================
