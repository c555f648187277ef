---------------------------- MODULE FloppyProofs ----------------------------
(***************************************************************************)
(* The inductive invariant of the floppy driver and its controller, proved *)
(* for every order of their steps, of the end of the seek and of the       *)
(* interrupts, and for every set of errors.  Module ConsoleProofs takes it *)
(* over for the driver as a part of the system.                            *)
(***************************************************************************)
EXTENDS Floppy, TLAPS

(* The floppy driver and the controller: the types of their variables; no  *)
(* command is ever retried.                                                *)
Commands == {"none", "VERSION", "CONFIGURE", "LOCK", "RESET", "SPECIFY", "RECALIBRATE",
             "SENSE_INTERRUPT", "READ"}
Phases == {"ready", "param", "busy", "result"}
ControllerType ==
  [phase : Phases, cmd : Commands, left : Nat, data : Nat,
   seeking : {"yes", "no"}, ended : {"yes", "no"},
   st0 : {"normal", "abnormal", "seek_end", "invalid"}, st1 : SUBSET Errors]
DriveTypes ==
  /\ step \in 1..8
  /\ pc \in {"poll", "params", "interrupt", "fifo", "result", "settle", "done", "idle"}
  /\ tries = 5 /\ sent \in Nat /\ got \in Nat /\ reads \in Nat
  /\ {handled, masked, irq} \subseteq {"yes", "no"}
  /\ ctl \in ControllerType

(* What a read that succeeded left in the buffer is its own data. *)
OwnData == step = 8 /\ ctl.st0 = "normal" => ctl.data = reads

(* A command of which all bytes were sent is being executed, or has a      *)
(* result that the driver has room for.                                    *)
Executing ==
  /\ ctl.cmd = Now.name
  /\ \/ ctl.phase = "busy" /\ ctl.left = 0
     \/ ctl.phase = "result" /\ ctl.left \in 1 .. Now.results /\ OwnData

(* Where the controller is, by the place of the driver. *)
DriverAt ==
  /\ pc = "poll" => ctl.phase = "ready" /\ sent = 0 /\ got = 0
  /\ pc = "params" =>
       /\ ctl.phase \in {"busy", "param"} /\ ctl.cmd = Now.name /\ got = 0
       /\ sent < Now.params /\ ctl.left = Now.params - sent
  /\ pc = "interrupt" =>
       /\ got = 0
       /\ \/ step = 8 /\ Executing
          \/ step = 4 /\ ctl.left = 0 /\ ctl.phase = "ready"
          \/ /\ step = 4 /\ ctl.left = 0 /\ ctl.phase = "busy" /\ ctl.cmd = "RESET"
             /\ irq = "no" /\ handled = "no"
  /\ pc = "fifo" => step \in {1, 3, 7, 8} /\ got = 0 /\ Executing
  /\ pc = "result" =>
       /\ step \in {1, 3, 7, 8} /\ OwnData
       /\ \/ ctl.phase = "ready"
          \/ ctl.phase = "busy" /\ ctl.left = 0 /\ ctl.cmd = "none"
          \/ ctl.phase = "result" /\ ctl.left > 0 /\ got + ctl.left <= Now.results
  /\ pc = "settle" =>
       /\ step # 4 /\ OwnData
       /\ \/ ctl.phase = "ready"
          \/ ctl.phase = "busy" /\ ctl.left = 0 /\ ctl.cmd = "none"
          \/ /\ ctl.phase = "busy" /\ ctl.left = 0 /\ ctl.cmd = Now.name
             /\ step \in {2, 5, 6}
  /\ pc = "done" => ctl.phase = "ready" /\ OwnData
  /\ pc = "idle" => ctl.phase = "ready" /\ step = 8

(* Before the reset no interrupt is raised, and none is masked after it;   *)
(* the drive seeks only once it was told to recalibrate.                   *)
BeforeReset == step < 4 \/ (step = 4 /\ pc = "poll")
DriveInterrupts ==
  /\ BeforeReset => irq = "no" /\ handled = "no"
  /\ ~BeforeReset => masked = "no"
  /\ step < 6 => ctl.seeking = "no"

DriveInv ==
  /\ DriveTypes /\ DriverAt /\ DriveInterrupts
  /\ ReadGetsItsData /\ CommandsSucceed

-----------------------------------------------------------------------------
(* The script of the driver. *)
LEMMA ScriptIs ==
  /\ step = 1 => Now.name = "VERSION" /\ Now.params = 0 /\ Now.results = 1
  /\ step = 2 => Now.name = "CONFIGURE" /\ Now.params = 3 /\ Now.results = -1
  /\ step = 3 => Now.name = "LOCK" /\ Now.params = 0 /\ Now.results = 1
  /\ step = 4 => Now.name = "RESET" /\ Now.params = 0 /\ Now.results = -1
  /\ step = 5 => Now.name = "SPECIFY" /\ Now.params = 2 /\ Now.results = -1
  /\ step = 6 => Now.name = "RECALIBRATE" /\ Now.params = 1 /\ Now.results = -1
  /\ step = 7 => Now.name = "SENSE_INTERRUPT" /\ Now.params = 0 /\ Now.results = 2
  /\ step = 8 => Now.name = "READ" /\ Now.params = 8 /\ Now.results = 7
  /\ ReadStep = 8
BY DEF Now, Script, Command, ReadStep

(* The driver begins with an idle controller and a masked interrupt. *)
LEMMA DriveInit == Init => DriveInv
<1> SUFFICES ASSUME Init PROVE DriveInv
  OBVIOUS
<1>1. /\ step = 1 /\ pc = "poll" /\ tries = 5 /\ sent = 0 /\ got = 0 /\ reads = 0
      /\ handled = "no" /\ masked = "yes" /\ irq = "no"
      /\ status = "none" /\ machine = "ok"
  BY DEF Init, Retries
<1>2. ctl = [phase |-> "ready", cmd |-> "none", left |-> 0, data |-> 0, seeking |-> "no",
             ended |-> "no", st0 |-> "normal", st1 |-> {}]
  BY DEF Init
<1>3. ctl \in ControllerType /\ ctl.phase = "ready" /\ ctl.seeking = "no"
  BY <1>2 DEF ControllerType, Commands, Phases
<1>4. DriveTypes BY <1>1, <1>3 DEF DriveTypes
<1>5. DriverAt BY <1>1, <1>3 DEF DriverAt
<1>6. DriveInterrupts BY <1>1, <1>3 DEF DriveInterrupts, BeforeReset
<1>7. ReadGetsItsData /\ CommandsSucceed
  BY <1>1 DEF ReadGetsItsData, CommandsSucceed
<1> QED BY <1>4, <1>5, <1>6, <1>7 DEF DriveInv

(* What is left of the controller's state when some of its fields change. *)
LEMMA UpdatePhase ==
  ASSUME NEW c \in ControllerType, NEW p \in Phases
  PROVE  LET d == [c EXCEPT !.phase = p] IN
         /\ d \in ControllerType /\ d.phase = p /\ d.left = c.left /\ d.cmd = c.cmd
         /\ d.seeking = c.seeking /\ d.st0 = c.st0 /\ d.data = c.data
BY Zenon DEF ControllerType, Phases

(* The drive begins to seek. *)
LEMMA UpdateSeeking ==
  ASSUME NEW c \in ControllerType
  PROVE  LET d == [c EXCEPT !.seeking = "yes"] IN
         d \in ControllerType /\ d.phase = c.phase /\ d.left = c.left /\ d.cmd = c.cmd
BY Zenon DEF ControllerType, Phases

(* The seek ends. *)
LEMMA UpdateSeekEnd ==
  ASSUME NEW c \in ControllerType
  PROVE  LET d == [c EXCEPT !.seeking = "no", !.ended = "yes"] IN
         /\ d \in ControllerType /\ d.phase = c.phase /\ d.left = c.left /\ d.cmd = c.cmd
         /\ d.seeking = "no" /\ d.st0 = c.st0 /\ d.data = c.data
BY Zenon DEF ControllerType, Phases

(* The interrupt is sensed. *)
LEMMA UpdateSense ==
  ASSUME NEW c \in ControllerType, NEW s \in {"seek_end", "invalid"}
  PROVE  LET d == [c EXCEPT !.st0 = s, !.ended = "no"] IN
         /\ d \in ControllerType /\ d.phase = c.phase /\ d.left = c.left /\ d.cmd = c.cmd
         /\ d.seeking = c.seeking
BY Zenon DEF ControllerType, Phases

(* A read has its data. *)
LEMMA UpdateRead ==
  ASSUME NEW c \in ControllerType, NEW n \in Nat
  PROVE  LET d == [c EXCEPT !.data = n, !.st0 = "normal", !.st1 = {}] IN
         /\ d \in ControllerType /\ d.phase = c.phase /\ d.left = c.left /\ d.cmd = c.cmd
         /\ d.seeking = c.seeking /\ d.data = n
BY Zenon DEF ControllerType, Phases

(* A read fails. *)
LEMMA UpdateError ==
  ASSUME NEW c \in ControllerType, NEW bits \in SUBSET Errors
  PROVE  LET d == [c EXCEPT !.st0 = "abnormal", !.st1 = bits] IN
         /\ d \in ControllerType /\ d.phase = c.phase /\ d.left = c.left /\ d.cmd = c.cmd
         /\ d.seeking = c.seeking /\ d.st0 = "abnormal"
BY Zenon DEF ControllerType, Phases

(* The controller with so many bytes of result. *)
LEMMA CtlDoneIs ==
  ASSUME ctl \in ControllerType, NEW n \in Nat
  PROVE  /\ CtlDone(n) \in ControllerType
         /\ CtlDone(n).phase = (IF n = 0 THEN "ready" ELSE "result")
         /\ CtlDone(n).left = n /\ CtlDone(n).cmd = ctl.cmd
         /\ CtlDone(n).seeking = ctl.seeking /\ CtlDone(n).st0 = ctl.st0
         /\ CtlDone(n).data = ctl.data
<1> DEFINE p == IF n = 0 THEN "ready" ELSE "result"
           d == [ctl EXCEPT !.phase = p, !.left = n]
<1>1. p \in Phases BY DEF Phases
<1> HIDE DEF p
<1>2. /\ d \in ControllerType /\ d.phase = p /\ d.left = n /\ d.cmd = ctl.cmd
      /\ d.seeking = ctl.seeking /\ d.st0 = ctl.st0 /\ d.data = ctl.data
  BY <1>1, Zenon DEF ControllerType, Phases
<1>3. CtlDone(n) = d BY DEF CtlDone, p
<1> HIDE DEF d
<1> QED BY <1>2, <1>3 DEF p

(* A step of the controller asks for the next byte of a command, or        *)
(* executes the command: it raises an interrupt, begins a seek or has a    *)
(* result.                                                                 *)
LEMMA ControllerDoes ==
  ASSUME ctl \in ControllerType, reads \in Nat, Controller
  PROVE  /\ ctl' \in ControllerType /\ ctl'.cmd = ctl.cmd
         /\ ctl.left > 0 => /\ ctl'.phase = "param" /\ ctl'.left = ctl.left
                            /\ ctl'.seeking = ctl.seeking /\ irq' = irq
         /\ ctl.left = 0 =>
              /\ ctl.cmd \in {"none", "CONFIGURE", "SPECIFY", "RECALIBRATE", "RESET"} =>
                   ctl'.phase = "ready" /\ ctl'.left = 0
              /\ ctl.cmd \in {"VERSION", "LOCK"} => ctl'.phase = "result" /\ ctl'.left = 1
              /\ ctl.cmd = "SENSE_INTERRUPT" => ctl'.phase = "result" /\ ctl'.left \in 1..2
              /\ ctl.cmd = "READ" => /\ ctl'.phase = "result" /\ ctl'.left = 7
                                     /\ ctl'.st0 = "normal" => ctl'.data = reads
              /\ ctl.cmd = "none" => ctl'.st0 = ctl.st0 /\ ctl'.data = ctl.data
              /\ ctl.cmd # "RECALIBRATE" => ctl'.seeking = ctl.seeking
              /\ ctl.cmd \notin {"RESET", "READ"} => irq' = irq
<1>1. /\ CtlWants \in ControllerType /\ CtlWants.phase = "param" /\ CtlWants.left = ctl.left
      /\ CtlWants.cmd = ctl.cmd /\ CtlWants.seeking = ctl.seeking
  <2>1. "param" \in Phases BY DEF Phases
  <2> QED BY <2>1, UpdatePhase, Zenon DEF CtlWants
<1>2. /\ CtlSeeks \in ControllerType /\ CtlSeeks.phase = "ready" /\ CtlSeeks.left = 0
      /\ CtlSeeks.cmd = ctl.cmd
  <2>1. /\ CtlSeeks \in ControllerType /\ CtlSeeks.phase = CtlDone(0).phase
        /\ CtlSeeks.left = CtlDone(0).left /\ CtlSeeks.cmd = CtlDone(0).cmd
    BY CtlDoneIs, UpdateSeeking, Zenon DEF CtlSeeks
  <2> QED BY <2>1, CtlDoneIs
<1>3. /\ CtlSenses \in ControllerType /\ CtlSenses.phase = "result"
      /\ CtlSenses.left \in 1..2 /\ CtlSenses.cmd = ctl.cmd
      /\ CtlSenses.seeking = ctl.seeking
  <2> DEFINE n == IF ctl.ended = "yes" THEN 2 ELSE 1
             s == IF ctl.ended = "yes" THEN "seek_end" ELSE "invalid"
             d == [CtlDone(n) EXCEPT !.st0 = s, !.ended = "no"]
  <2>1. n \in 1..2 /\ s \in {"seek_end", "invalid"} OBVIOUS
  <2>2. CtlSenses = d BY Zenon DEF CtlSenses
  <2> HIDE DEF n, s
  <2>3. CtlDone(n) \in ControllerType BY <2>1, CtlDoneIs
  <2>4. /\ d \in ControllerType /\ d.phase = CtlDone(n).phase /\ d.left = CtlDone(n).left
        /\ d.cmd = CtlDone(n).cmd /\ d.seeking = CtlDone(n).seeking
    BY <2>1, <2>3, UpdateSense, Zenon
  <2> HIDE DEF d
  <2> QED BY <2>1, <2>2, <2>4, CtlDoneIs
<1>4. /\ CtlReads \in ControllerType /\ CtlReads.phase = "result" /\ CtlReads.left = 7
      /\ CtlReads.cmd = ctl.cmd /\ CtlReads.seeking = ctl.seeking /\ CtlReads.data = reads
  <2>1. CtlDone(7) \in ControllerType BY CtlDoneIs
  <2>2. /\ CtlReads \in ControllerType /\ CtlReads.phase = CtlDone(7).phase
        /\ CtlReads.left = CtlDone(7).left /\ CtlReads.cmd = CtlDone(7).cmd
        /\ CtlReads.seeking = CtlDone(7).seeking /\ CtlReads.data = reads
    BY <2>1, UpdateRead, Zenon DEF CtlReads
  <2> QED BY <2>2, CtlDoneIs
<1>5. ASSUME NEW bits \in SUBSET Errors
      PROVE  /\ CtlFails(bits) \in ControllerType /\ CtlFails(bits).phase = "result"
             /\ CtlFails(bits).left = 7 /\ CtlFails(bits).cmd = ctl.cmd
             /\ CtlFails(bits).seeking = ctl.seeking /\ CtlFails(bits).st0 = "abnormal"
  <2>1. CtlDone(7) \in ControllerType BY CtlDoneIs
  <2>2. /\ CtlFails(bits) \in ControllerType /\ CtlFails(bits).phase = CtlDone(7).phase
        /\ CtlFails(bits).left = CtlDone(7).left /\ CtlFails(bits).cmd = CtlDone(7).cmd
        /\ CtlFails(bits).seeking = CtlDone(7).seeking /\ CtlFails(bits).st0 = "abnormal"
    BY <2>1, UpdateError, Zenon DEF CtlFails
  <2> QED BY <2>2, CtlDoneIs
<1>6. CASE ctl.cmd \in {"RECALIBRATE", "SENSE_INTERRUPT", "READ"} \/ ctl.left > 0
  BY <1>1, <1>2, <1>3, <1>4, <1>5, <1>6 DEF Controller
<1>7. CASE ctl.cmd \notin {"RECALIBRATE", "SENSE_INTERRUPT", "READ"} /\ ~(ctl.left > 0)
  BY <1>7, CtlDoneIs DEF Controller
<1> QED BY <1>6, <1>7

(* The controller goes on beside the driver, which does not see it before  *)
(* it asks for the register or waits for the interrupt.                    *)
LEMMA DriveController == ASSUME DriveInv, Controller PROVE DriveInv'
<1>1. /\ UNCHANGED <<step, pc, tries, sent, got, buffer, count, sectors, reads,
                     status, copied, handled, masked, machine>>
      /\ ctl.phase = "busy"
  BY DEF Controller, driver
<1>2. Now' = Now /\ Now.name = Now.name'
  BY <1>1 DEF Now
<1>3. ReadGetsItsData' /\ CommandsSucceed' /\ (BeforeReset' <=> BeforeReset)
  BY <1>1 DEF DriveInv, ReadGetsItsData, CommandsSucceed, BeforeReset
<1>4. ctl \in ControllerType /\ ctl.left \in Nat /\ reads \in Nat
  BY DEF DriveInv, DriveTypes, ControllerType
<1>5. irq' \in {irq, "yes"}
  BY <1>1 DEF Controller
<1>6. DriveTypes'
  BY <1>1, <1>4, <1>5, ControllerDoes DEF DriveInv, DriveTypes
<1> USE DEF DriveInv, DriveTypes
<1>7. /\ ctl.left > 0 <=> pc = "params"
      /\ pc = "params" => sent < Now.params /\ ctl.left = Now.params - sent /\ got = 0
      /\ ctl.cmd \in {"none", Now.name}
      /\ pc \in {"params", "interrupt", "fifo", "result", "settle"}
      /\ pc \in {"params", "interrupt", "fifo"} => ctl.cmd = Now.name /\ got = 0
      /\ pc = "interrupt" => step \in {4, 8}
      /\ pc = "result" => ctl.cmd = "none"
      /\ pc = "settle" /\ ctl.cmd # "none" => step \in {2, 5, 6} /\ ctl.cmd = Now.name
      /\ pc \in {"fifo", "result"} => step \in {1, 3, 7, 8}
      /\ pc = "settle" => step # 4
      /\ pc \in {"result", "settle"} => OwnData
      /\ step = 4 => pc \in {"interrupt"}
  BY <1>1, <1>4, ScriptIs DEF DriverAt, Executing
<1>8. DriveInterrupts'
  BY <1>1, <1>3, <1>4, <1>7, ControllerDoes, ScriptIs DEF DriveInterrupts, BeforeReset
<1>9. DriverAt'
  BY <1>1, <1>2, <1>4, <1>7, ControllerDoes, ScriptIs DEF DriverAt, Executing, OwnData
<1> QED BY <1>3, <1>6, <1>8, <1>9

(* The controller takes the first byte of a command, ... *)
LEMMA CtlTakes ==
  ASSUME ctl \in ControllerType, NEW x \in Commands, NEW n \in Nat, CtlTake(x, n)
  PROVE  /\ ctl' \in ControllerType /\ ctl'.phase = "busy" /\ ctl'.left = n /\ ctl'.cmd = x
         /\ ctl'.seeking = ctl.seeking
<1> DEFINE d == [ctl EXCEPT !.phase = "busy", !.cmd = x, !.left = n]
<1>1. /\ d \in ControllerType /\ d.phase = "busy" /\ d.left = n /\ d.cmd = x
      /\ d.seeking = ctl.seeking
  BY Zenon DEF ControllerType, Phases
<1>2. ctl' = d BY Zenon DEF CtlTake
<1> HIDE DEF d
<1> QED BY <1>1, <1>2

(* ... another one, ... *)
LEMMA CtlTakesParam ==
  ASSUME ctl \in ControllerType, ctl.left > 0, CtlTakeParam
  PROVE  /\ ctl' \in ControllerType /\ ctl'.phase = "busy" /\ ctl'.left = ctl.left - 1
         /\ ctl'.cmd = ctl.cmd /\ ctl'.seeking = ctl.seeking
<1> DEFINE n == ctl.left - 1
           d == [ctl EXCEPT !.phase = "busy", !.left = n]
<1>1. n \in Nat BY DEF ControllerType, Phases
<1>2. ctl' = d BY Zenon DEF CtlTakeParam
<1> HIDE DEF n
<1>3. /\ d \in ControllerType /\ d.phase = "busy" /\ d.left = n /\ d.cmd = ctl.cmd
      /\ d.seeking = ctl.seeking
  BY <1>1, Zenon DEF ControllerType, Phases
<1> HIDE DEF d
<1> QED BY <1>2, <1>3 DEF n

(* ... or gives a byte of the result; after the last it is busy for a      *)
(* while.                                                                  *)
LEMMA CtlGives ==
  ASSUME ctl \in ControllerType, ctl.left > 0, CtlGive
  PROVE  /\ ctl' \in ControllerType /\ ctl'.left = ctl.left - 1
         /\ ctl.left = 1 => ctl'.phase = "busy" /\ ctl'.cmd = "none"
         /\ ctl.left # 1 => ctl'.phase = "result" /\ ctl'.cmd = ctl.cmd
         /\ ctl'.seeking = ctl.seeking /\ ctl'.st0 = ctl.st0 /\ ctl'.data = ctl.data
<1> DEFINE n == ctl.left - 1
           p == IF ctl.left = 1 THEN "busy" ELSE "result"
           x == IF ctl.left = 1 THEN "none" ELSE ctl.cmd
           d == [ctl EXCEPT !.phase = p, !.left = n, !.cmd = x]
<1>1. n \in Nat /\ p \in Phases BY DEF ControllerType, Phases
<1>2. x \in Commands BY DEF ControllerType, Commands, Phases
<1>3. ctl' = d BY Zenon DEF CtlGive
<1> HIDE DEF n, p, x
<1>4. /\ d \in ControllerType /\ d.phase = p /\ d.left = n /\ d.cmd = x
      /\ d.seeking = ctl.seeking /\ d.st0 = ctl.st0 /\ d.data = ctl.data
  BY <1>1, <1>2, Zenon DEF ControllerType, Phases
<1> HIDE DEF d
<1> QED BY <1>3, <1>4 DEF n, p, x

(* The end of the seek raises an interrupt nobody waits for. *)
LEMMA DriveSeekEnd == ASSUME DriveInv, SeekEnd PROVE DriveInv'
<1>1. /\ UNCHANGED <<step, pc, tries, sent, got, buffer, count, sectors, reads,
                     status, copied, handled, masked, machine>>
      /\ ctl.seeking = "yes" /\ irq' = "yes"
  BY DEF SeekEnd, driver
<1>2. ctl \in ControllerType BY DEF DriveInv, DriveTypes
<1>3. /\ ctl' \in ControllerType /\ ctl'.phase = ctl.phase /\ ctl'.left = ctl.left
      /\ ctl'.cmd = ctl.cmd /\ ctl'.st0 = ctl.st0 /\ ctl'.data = ctl.data
  BY <1>2, UpdateSeekEnd, Zenon DEF SeekEnd
<1>4. Now' = Now BY <1>1 DEF Now
<1>5. ReadGetsItsData' /\ CommandsSucceed'
  BY <1>1 DEF DriveInv, ReadGetsItsData, CommandsSucceed
<1>6. DriveTypes' BY <1>1, <1>3 DEF DriveInv, DriveTypes
<1>7. step >= 6 BY <1>1 DEF DriveInv, DriveTypes, DriveInterrupts
<1>8. DriveInterrupts' BY <1>1, <1>7 DEF DriveInv, DriveTypes, DriveInterrupts, BeforeReset
<1>9. DriverAt'
  BY <1>1, <1>3, <1>4, <1>7 DEF DriveInv, DriveTypes, DriverAt, Executing, OwnData
<1> QED BY <1>5, <1>6, <1>8, <1>9 DEF DriveInv

(* The interrupt is handled at any time once it is not masked. *)
LEMMA DriveInterrupt == ASSUME DriveInv, Interrupt PROVE DriveInv'
<1>1. /\ UNCHANGED <<step, pc, tries, sent, got, buffer, count, sectors, reads,
                     status, copied, ctl, masked, machine>>
      /\ irq = "yes" /\ irq' = "no" /\ handled' = "yes"
  BY DEF Interrupt, handle_floppy_interrupt, driver
<1>2. Now' = Now BY <1>1 DEF Now
<1>3. ReadGetsItsData' /\ CommandsSucceed' /\ DriveTypes'
  BY <1>1 DEF DriveInv, ReadGetsItsData, CommandsSucceed, DriveTypes
<1>4. DriveInterrupts' BY <1>1 DEF DriveInv, DriveInterrupts, BeforeReset
<1>5. DriverAt' BY <1>1, <1>2 DEF DriveInv, DriverAt, Executing, OwnData
<1> QED BY <1>3, <1>4, <1>5 DEF DriveInv

(* The first byte of a command goes to a controller that is ready. *)
LEMMA DrivePoll == ASSUME DriveInv, Poll PROVE DriveInv'
<1>1. /\ pc = "poll" /\ Now.name # "RESET" /\ irq' = irq /\ ctl.phase = "ready"
      /\ sent = 0 /\ got = 0
  BY DEF DriveInv, DriverAt, Poll, At
<1>2. /\ CtlTake(Now.name, Now.params)
      /\ pc' = IF Now.params = 0 THEN AfterParams ELSE "params"
      /\ UNCHANGED <<step, buffer, count, sectors, reads, status, copied, masked, machine,
                     tries, sent, got, handled>>
  BY <1>1 DEF Poll, RQM, DIO, Goto, same
<1>3. step \in 1..8 /\ step # 4 /\ Now' = Now
  BY <1>1, <1>2, ScriptIs DEF DriveInv, DriveTypes, Now
<1>4. Now.name \in Commands /\ Now.params \in Nat
  BY <1>3, ScriptIs DEF Commands
<1>5. ctl \in ControllerType BY DEF DriveInv, DriveTypes
<1>6. /\ ctl' \in ControllerType /\ ctl'.phase = "busy" /\ ctl'.left = Now.params
      /\ ctl'.cmd = Now.name /\ ctl'.seeking = ctl.seeking
  BY <1>2, <1>4, <1>5, CtlTakes
<1>7. ReadGetsItsData' /\ CommandsSucceed'
  BY <1>2 DEF DriveInv, ReadGetsItsData, CommandsSucceed
<1>8. /\ step \in {1, 3, 7} => pc' = "fifo"
      /\ step \in {2, 5, 6, 8} => pc' = "params" /\ Now.params > 0
      /\ step \in {1, 3, 7} => Now.params = 0
  BY <1>2, <1>3, ScriptIs DEF AfterParams
<1>9. DriveTypes' BY <1>1, <1>2, <1>3, <1>6, <1>8 DEF DriveInv, DriveTypes
<1>10. DriveInterrupts'
  BY <1>1, <1>2, <1>3, <1>6 DEF DriveInv, DriveTypes, DriveInterrupts, BeforeReset
<1>11. DriverAt'
  BY <1>1, <1>2, <1>3, <1>4, <1>6, <1>8, ScriptIs DEF DriverAt, Executing
<1> QED BY <1>7, <1>9, <1>10, <1>11 DEF DriveInv

(* A parameter goes to a controller that asks for it. *)
LEMMA DriveParam == ASSUME DriveInv, issue_parameter_command PROVE DriveInv'
<1>1. /\ pc = "params" /\ irq' = irq /\ ctl.phase = "param" /\ ctl.cmd = Now.name
      /\ got = 0 /\ sent < Now.params /\ ctl.left = Now.params - sent
  BY DEF DriveInv, DriverAt, issue_parameter_command, At, wait_til_fifo_ready, RQM
<1>2. /\ CtlTakeParam /\ sent' = sent + 1
      /\ pc' = IF sent' = Now.params THEN AfterParams ELSE "params"
      /\ UNCHANGED <<step, buffer, count, sectors, reads, status, copied, masked, machine,
                     tries, got, handled>>
  BY <1>1 DEF issue_parameter_command, DIO, Goto, same
<1>3. step \in 1..8 /\ step # 4 /\ Now' = Now /\ sent \in Nat
  BY <1>1, <1>2, ScriptIs DEF DriveInv, DriveTypes, Now
<1>4. step \in {2, 5, 6, 8} /\ Now.params \in Nat
  BY <1>1, <1>3, ScriptIs
<1>5. ctl \in ControllerType BY DEF DriveInv, DriveTypes
<1>6. /\ ctl' \in ControllerType /\ ctl'.phase = "busy" /\ ctl'.left = ctl.left - 1
      /\ ctl'.cmd = ctl.cmd /\ ctl'.seeking = ctl.seeking
  BY <1>1, <1>2, <1>3, <1>4, <1>5, CtlTakesParam
<1>7. ReadGetsItsData' /\ CommandsSucceed'
  BY <1>2 DEF DriveInv, ReadGetsItsData, CommandsSucceed
<1>8. /\ sent' = Now.params /\ step # 8 => pc' = "settle"
      /\ sent' = Now.params /\ step = 8 => pc' = "interrupt"
      /\ sent' # Now.params => pc' = "params"
  BY <1>2, <1>4, ScriptIs DEF AfterParams
<1>9. DriveTypes' BY <1>1, <1>2, <1>3, <1>6, <1>8 DEF DriveInv, DriveTypes
<1>10. DriveInterrupts'
  BY <1>1, <1>2, <1>3, <1>6 DEF DriveInv, DriveTypes, DriveInterrupts, BeforeReset
<1>11. DriverAt'
  BY <1>1, <1>2, <1>3, <1>4, <1>6, <1>8 DEF DriverAt, Executing, OwnData
<1> QED BY <1>7, <1>9, <1>10, <1>11 DEF DriveInv

(* The interrupt that is waited for may be that of the recalibration: the  *)
(* command may still be executing.                                         *)
LEMMA DriveWaitInterrupt == ASSUME DriveInv, wait_for_disk_interrupt PROVE DriveInv'
<1>1. /\ pc = "interrupt" /\ irq' = irq /\ got = 0 /\ step \in {4, 8}
  BY DEF DriveInv, DriverAt, wait_for_disk_interrupt, At
<1>2. masked = "no"
  BY <1>1 DEF DriveInv, DriveInterrupts, BeforeReset
<1>3. /\ handled = "yes" /\ handled' = "no"
      /\ pc' = IF Now.name = "READ" THEN "fifo" ELSE "done"
      /\ UNCHANGED <<step, buffer, count, sectors, reads, status, copied, masked, machine,
                     tries, sent, got, ctl>>
  BY <1>2 DEF wait_for_disk_interrupt, Goto, same
<1>4. Now' = Now BY <1>3 DEF Now
<1>5. /\ step = 8 => pc' = "fifo" /\ Executing
      /\ step = 4 => pc' = "done" /\ ctl.phase = "ready"
  BY <1>1, <1>3, ScriptIs DEF DriveInv, DriverAt
<1>6. ReadGetsItsData' /\ CommandsSucceed'
  BY <1>3 DEF DriveInv, ReadGetsItsData, CommandsSucceed
<1>7. DriveTypes' BY <1>1, <1>3, <1>5 DEF DriveInv, DriveTypes
<1>8. DriveInterrupts'
  BY <1>1, <1>3, <1>5 DEF DriveInv, DriveInterrupts, BeforeReset
<1>9. DriverAt'
  BY <1>1, <1>3, <1>4, <1>5 DEF DriverAt, Executing, OwnData
<1> QED BY <1>6, <1>7, <1>8, <1>9 DEF DriveInv

(* Once the controller is not busy the command was executed. *)
LEMMA DriveWaitResult == ASSUME DriveInv, WaitForResult PROVE DriveInv'
<1>1. /\ pc = "fifo" /\ pc' = "result" /\ ctl.phase # "busy"
      /\ UNCHANGED <<step, buffer, count, sectors, reads, status, copied, masked, machine,
                     tries, sent, got, handled, ctl, irq>>
  BY DEF WaitForResult, At, Goto, same, wait_til_fifo_ready, RQM
<1>2. Now' = Now BY <1>1 DEF Now
<1>3. /\ step \in {1, 3, 7, 8} /\ got = 0 /\ ctl.phase = "result"
      /\ ctl.left \in 1 .. Now.results /\ OwnData
  BY <1>1 DEF DriveInv, DriverAt, Executing
<1>4. ReadGetsItsData' /\ CommandsSucceed'
  BY <1>1 DEF DriveInv, ReadGetsItsData, CommandsSucceed
<1>5. DriveTypes' BY <1>1 DEF DriveInv, DriveTypes
<1>6. DriveInterrupts' BY <1>1 DEF DriveInv, DriveInterrupts, BeforeReset
<1>7. Now.results \in Nat BY <1>3, ScriptIs
<1>8. DriverAt' BY <1>1, <1>2, <1>3, <1>7 DEF DriverAt, OwnData
<1> QED BY <1>4, <1>5, <1>6, <1>8 DEF DriveInv

(* A byte of the result: there is room for it. *)
LEMMA DriveReadResult == ASSUME DriveInv, ReadResult PROVE DriveInv'
<1>1. /\ pc = "result" /\ irq' = irq /\ step \in {1, 3, 7, 8} /\ OwnData /\ got \in Nat
      /\ \/ ctl.phase = "ready"
         \/ ctl.phase = "busy" /\ ctl.left = 0 /\ ctl.cmd = "none"
         \/ ctl.phase = "result" /\ ctl.left > 0 /\ got + ctl.left <= Now.results
  BY DEF DriveInv, DriverAt, DriveTypes, ReadResult, At
<1>2. ctl \in ControllerType /\ ctl.left \in Nat
  BY DEF DriveInv, DriveTypes, ControllerType
<1>3. Now.results \in Nat BY <1>1, ScriptIs
<1>4. CASE ctl.phase # "result"
  <2>1. /\ pc' = "settle"
        /\ UNCHANGED <<step, buffer, count, sectors, reads, status, copied, masked, machine,
                       tries, sent, got, handled, ctl>>
    BY <1>4 DEF ReadResult, DIO, Goto, same
  <2>2. ReadGetsItsData' /\ CommandsSucceed' /\ DriveTypes'
    BY <1>1, <2>1 DEF DriveInv, ReadGetsItsData, CommandsSucceed, DriveTypes
  <2>3. DriveInterrupts' BY <1>1, <2>1 DEF DriveInv, DriveInterrupts, BeforeReset
  <2>4. DriverAt' BY <1>1, <1>4, <2>1 DEF DriverAt, OwnData
  <2> QED BY <2>2, <2>3, <2>4 DEF DriveInv
<1>5. CASE ctl.phase = "result"
  <2>1. ctl.left > 0 /\ got + ctl.left <= Now.results BY <1>1, <1>5
  <2>2. got < Now.results BY <1>1, <1>2, <1>3, <2>1
  <2>3. /\ CtlGive /\ got' = got + 1
        /\ UNCHANGED <<step, buffer, count, sectors, reads, status, copied, masked, machine,
                       tries, sent, pc, handled>>
    BY <1>1, <1>3, <1>5, <2>2 DEF ReadResult, DIO, same
  <2>4. /\ ctl' \in ControllerType /\ ctl'.left = ctl.left - 1
        /\ ctl.left = 1 => ctl'.phase = "busy" /\ ctl'.cmd = "none"
        /\ ctl.left # 1 => ctl'.phase = "result" /\ ctl'.cmd = ctl.cmd
        /\ ctl'.seeking = ctl.seeking /\ ctl'.st0 = ctl.st0 /\ ctl'.data = ctl.data
    BY <1>2, <2>1, <2>3, CtlGives
  <2>5. Now' = Now BY <2>3 DEF Now
  <2>6. ReadGetsItsData' /\ CommandsSucceed'
    BY <2>3 DEF DriveInv, ReadGetsItsData, CommandsSucceed
  <2>7. DriveTypes' BY <1>1, <2>3, <2>4 DEF DriveInv, DriveTypes
  <2>8. DriveInterrupts' BY <1>1, <2>3, <2>4 DEF DriveInv, DriveInterrupts, BeforeReset
  <2>9. DriverAt'
    BY <1>1, <1>2, <1>3, <2>1, <2>3, <2>4, <2>5 DEF DriverAt, OwnData
  <2> QED BY <2>6, <2>7, <2>8, <2>9 DEF DriveInv
<1> QED BY <1>4, <1>5

(* The controller is ready for the next command. *)
LEMMA DriveCheck == ASSUME DriveInv, Check PROVE DriveInv'
<1>1. /\ pc = "settle" /\ irq' = irq /\ ctl.phase = "ready" /\ OwnData /\ step # 4
  BY DEF DriveInv, DriverAt, Check, At, wait_til_fifo_ready, RQM
<1>2. /\ pc' = "done"
      /\ UNCHANGED <<step, buffer, count, sectors, reads, status, copied, masked, machine,
                     tries, sent, got, handled, ctl>>
  BY <1>1 DEF Check, RQM, DIO, CMD_BSY, Goto, same
<1>3. ReadGetsItsData' /\ CommandsSucceed' /\ DriveTypes'
  BY <1>1, <1>2 DEF DriveInv, ReadGetsItsData, CommandsSucceed, DriveTypes
<1>4. DriveInterrupts' BY <1>1, <1>2 DEF DriveInv, DriveInterrupts, BeforeReset
<1>5. DriverAt' BY <1>1, <1>2 DEF DriverAt, OwnData
<1> QED BY <1>3, <1>4, <1>5 DEF DriveInv

(* No interrupt came before the reset. *)
LEMMA DriveReset == ASSUME DriveInv, Reset PROVE DriveInv'
<1>1. /\ pc = "poll" /\ Now.name = "RESET" /\ masked' = "no" /\ pc' = "interrupt"
      /\ CtlTake("RESET", 0) /\ sent = 0 /\ got = 0
      /\ UNCHANGED <<step, tries, sent, got, buffer, count, sectors, reads, status, copied,
                     handled, irq, machine>>
  BY DEF DriveInv, DriverAt, Reset, At, Goto
<1>2. step \in 1..8 /\ step = 4
  BY <1>1, ScriptIs DEF DriveInv, DriveTypes
<1>3. ctl \in ControllerType /\ "RESET" \in Commands BY DEF DriveInv, DriveTypes, Commands
<1>4. /\ ctl' \in ControllerType /\ ctl'.phase = "busy" /\ ctl'.left = 0
      /\ ctl'.cmd = "RESET" /\ ctl'.seeking = ctl.seeking
  BY <1>1, <1>3, CtlTakes
<1>5. ReadGetsItsData' /\ CommandsSucceed' /\ DriveTypes'
  BY <1>1, <1>2, <1>4 DEF DriveInv, ReadGetsItsData, CommandsSucceed, DriveTypes
<1>6. irq = "no" /\ handled = "no" /\ ctl.seeking = "no"
  BY <1>1, <1>2 DEF DriveInv, DriveInterrupts, BeforeReset
<1>7. DriveInterrupts' BY <1>1, <1>2, <1>4, <1>6 DEF DriveInterrupts, BeforeReset
<1>8. DriverAt' BY <1>1, <1>2, <1>4, <1>6 DEF DriverAt
<1> QED BY <1>5, <1>7, <1>8 DEF DriveInv

(* The next command of the initialisation. *)
LEMMA DriveNextCommand == ASSUME DriveInv, NextCommand PROVE DriveInv'
<1>1. /\ pc = "done" /\ step < 8 /\ irq' = irq /\ ctl.phase = "ready"
  BY ScriptIs DEF DriveInv, DriverAt, NextCommand, At
<1>2. step \in 1..7 BY <1>1 DEF DriveInv, DriveTypes
<1>3. CASE ctl.st0 # "seek_end" /\ Now.name = "SENSE_INTERRUPT"
  <2>1. /\ machine' = "seek_not_ended"
        /\ UNCHANGED <<step, pc, tries, sent, got, buffer, count, sectors, reads,
                       status, copied, handled, masked, ctl>>
    BY <1>3 DEF NextCommand, Stop, driver
  <2>2. ReadGetsItsData' /\ CommandsSucceed' /\ DriveTypes'
    BY <1>1, <2>1 DEF DriveInv, ReadGetsItsData, CommandsSucceed, DriveTypes
  <2>3. DriveInterrupts' BY <1>1, <2>1 DEF DriveInv, DriveInterrupts, BeforeReset
  <2>4. DriverAt' BY <1>1, <2>1 DEF DriveInv, DriverAt, OwnData
  <2> QED BY <2>2, <2>3, <2>4 DEF DriveInv
<1>4. CASE ~(ctl.st0 # "seek_end" /\ Now.name = "SENSE_INTERRUPT")
  <2>1. /\ step' = step + 1 /\ tries' = 5 /\ sent' = 0 /\ got' = 0
        /\ UNCHANGED <<count, sectors, reads, status, copied, handled, masked, ctl>>
        /\ machine' \in {machine, "out_of_low_memory"}
        /\ Now.name = "SENSE_INTERRUPT" => pc' = "idle"
        /\ Now.name # "SENSE_INTERRUPT" => pc' = "poll"
    BY <1>4 DEF NextCommand, low_memory_allocate, Goto, Retries
  <2>2. (step = 7 => pc' = "idle") /\ (step # 7 => pc' = "poll")
    BY <1>2, <2>1, ScriptIs
  <2>3. ReadGetsItsData' /\ CommandsSucceed'
    BY <2>1 DEF DriveInv, ReadGetsItsData, CommandsSucceed
  <2>4. DriveTypes' BY <1>1, <1>2, <2>1, <2>2 DEF DriveInv, DriveTypes
  <2>5. DriveInterrupts'
    BY <1>1, <1>2, <2>1, <2>2 DEF DriveInv, DriveInterrupts, BeforeReset
  <2>6. DriverAt' BY <1>1, <1>2, <2>1, <2>2 DEF DriverAt, OwnData
  <2> QED BY <2>3, <2>4, <2>5, <2>6 DEF DriveInv
<1> QED BY <1>3, <1>4

(* A read begins, of sectors that fit the buffer. *)
LEMMA DriveReadFloppy ==
  ASSUME DriveInv, NEW n \in Nat, n * SectorBytes <= BufferPages * PageBytes, read_floppy(n)
  PROVE  DriveInv'
<1>1. /\ pc = "idle" /\ irq' = irq /\ ctl.phase = "ready" /\ step = 8
  BY DEF DriveInv, DriverAt, read_floppy, At
<1>2. ~(BufferPages * PageBytes < n * SectorBytes)
  BY DEF BufferPages, PageBytes, SectorBytes
<1>3. /\ reads' = reads + 1 /\ status' = "none" /\ pc' = "poll"
      /\ tries' = 5 /\ sent' = 0 /\ got' = 0
      /\ UNCHANGED <<step, buffer, copied, handled, masked, ctl, machine>>
  BY <1>2 DEF read_floppy, prepare_transfer, Goto, Retries
<1>4. ReadGetsItsData' /\ CommandsSucceed' /\ DriveTypes'
  BY <1>1, <1>3 DEF DriveInv, ReadGetsItsData, CommandsSucceed, DriveTypes
<1>5. DriveInterrupts' BY <1>1, <1>3 DEF DriveInv, DriveInterrupts, BeforeReset
<1>6. DriverAt' BY <1>1, <1>3 DEF DriverAt
<1> QED BY <1>4, <1>5, <1>6 DEF DriveInv

(* No error is taken for ok. *)
LEMMA StatusOfIsNotOk ==
  ASSUME FloppyAssumption, NEW bits \in SUBSET Errors
  PROVE  StatusOf(bits) # "ok"
<1>1. CASE bits = {} BY <1>1 DEF StatusOf
<1>2. CASE bits # {}
  <2>1. PICK b \in bits : b \in {"EN", "DE", "OR", "ND", "NW", "MA"}
    BY <1>2 DEF FloppyAssumption
  <2> QED BY <2>1 DEF StatusOf
<1> QED BY <1>1, <1>2

(* A read that ends well copies the data of its own transfer. *)
LEMMA DriveFinishRead == ASSUME FloppyAssumption, DriveInv, FinishRead PROVE DriveInv'
<1>1. /\ pc = "done" /\ step = 8 /\ ctl.phase = "ready" /\ status' = Result
      /\ ctl.st0 = "normal" => ctl.data = reads
      /\ UNCHANGED <<step, tries, sent, got, buffer, count, sectors, reads, handled, masked,
                     ctl, irq>>
  BY ScriptIs DEF DriveInv, DriverAt, FinishRead, At, OwnData
<1>2. ctl.st1 \in SUBSET Errors BY DEF DriveInv, DriveTypes, ControllerType
<1>3. Result = "ok" => ctl.data = reads BY <1>1, <1>2, StatusOfIsNotOk DEF Result
<1>4. /\ Result = "ok" => copied' = ctl.data /\ pc' = "idle" /\ machine' = machine
      /\ Result # "ok" => machine' = "error_reading_floppy" /\ pc' = pc
  BY DEF FinishRead, Goto
<1>5. ReadGetsItsData' /\ CommandsSucceed'
  BY <1>1, <1>3, <1>4 DEF DriveInv, ReadGetsItsData, CommandsSucceed
<1>6. DriveTypes' BY <1>1, <1>4 DEF DriveInv, DriveTypes
<1>7. DriveInterrupts' BY <1>1, <1>4 DEF DriveInv, DriveInterrupts, BeforeReset
<1>8. DriverAt' BY <1>1, <1>4 DEF DriveInv, DriverAt, OwnData
<1> QED BY <1>5, <1>6, <1>7, <1>8 DEF DriveInv

(* A step that leaves the driver and the controller alone. *)
LEMMA DriveStutter == ASSUME DriveInv, UNCHANGED vars PROVE DriveInv'
<1>1. UNCHANGED <<step, pc, tries, sent, got, buffer, count, sectors, reads, status, copied,
                  handled, masked, ctl, irq, machine>>
  BY DEF vars, driver
<1>2. Now' = Now BY <1>1 DEF Now
<1>3. ReadGetsItsData' /\ CommandsSucceed' /\ DriveTypes'
  BY <1>1 DEF DriveInv, ReadGetsItsData, CommandsSucceed, DriveTypes
<1>4. DriveInterrupts' BY <1>1 DEF DriveInv, DriveInterrupts, BeforeReset
<1>5. DriverAt' BY <1>1, <1>2 DEF DriveInv, DriverAt, Executing, OwnData
<1> QED BY <1>3, <1>4, <1>5 DEF DriveInv

(* Every step of the driver preserves the invariant. *)
LEMMA DriveDriver == ASSUME DriveInv, Driver PROVE DriveInv'
BY DrivePoll, DriveParam, DriveWaitInterrupt, DriveWaitResult, DriveReadResult, DriveCheck,
   DriveReset, DriveNextCommand DEF Driver

-----------------------------------------------------------------------------
(* The steps of the drive, whoever asks for a read. *)
FitsBuffer(n) == n \in Nat /\ n * SectorBytes <= BufferPages * PageBytes
DriveNext ==
  \/ Driver \/ FinishRead \/ Controller \/ SeekEnd \/ Interrupt
  \/ \E n \in Nat : FitsBuffer(n) /\ read_floppy(n)

(* Every step of the drive preserves the invariant. *)
LEMMA DriveStep ==
  ASSUME FloppyAssumption, DriveInv, [DriveNext]_vars
  PROVE  DriveInv'
BY DriveDriver, DriveFinishRead, DriveController, DriveSeekEnd, DriveInterrupt,
   DriveReadFloppy, DriveStutter DEF DriveNext, FitsBuffer
=============================================================================
