------------------------------- MODULE Floppy -------------------------------
(***************************************************************************)
(* The floppy driver (floppy.cpp) with what it uses: the DMA channel       *)
(* (dma.cpp), the interrupt mask (pic.cpp) and the buffer in low memory    *)
(* (low_memory_allocator.cpp).  The driver runs a script of commands, then *)
(* reads sectors when it is called.  The controller and the interrupt run  *)
(* beside it: between two accesses of the driver, the controller may finish*)
(* what it does and the interrupt may be delivered.                        *)
(***************************************************************************)
EXTENDS Integers, Sequences

CONSTANTS
  Errors,                 \* the bits of status register 1 a read may fail with
  LowStart, LowEnd        \* avail_low_mem_start and _end, in pages

Retries == 5
BufferPages == 16         \* FLOPPY_BUFFER_SIZE
SectorBytes == 512        \* BYTES_PER_SECTOR
PageBytes == 4096

FloppyAssumption ==
  /\ Errors \subseteq {"EN", "DE", "OR", "ND", "NW", "MA"}
  /\ LowStart \in Nat /\ LowEnd \in Nat /\ LowStart < LowEnd

VARIABLES
  step,      \* the command of the script the driver is at
  pc,        \* where in issue_command_with_result it is
  tries,     \* retries
  sent,      \* parameters sent
  got,       \* result bytes read
  handled,   \* disk_interrupt_handled
  masked,    \* is the interrupt masked
  buffer,    \* floppy_dma_buffer: the page it starts at, 0 if not set
  count,     \* the count register of the DMA channel
  sectors,   \* sector_count of the current read
  reads,     \* reads that were started
  status,    \* what the last read returned, "none" while it runs
  copied,    \* the read whose data was copied to the caller last
  ctl,       \* the controller
  irq,       \* has the controller raised its interrupt
  machine    \* "ok", or the assertion or panic that stopped the machine

driver == <<step, pc, tries, sent, got, buffer, count, sectors, reads, status, copied>>
vars == <<driver, handled, masked, ctl, irq, machine>>

-----------------------------------------------------------------------------
(* The commands, with the bytes they take and the bytes of result the      *)
(* driver makes room for; -1 when it passes no result buffer.              *)
Command(name, params, results) ==
  [name |-> name, params |-> params, results |-> results]
Script == <<
  Command("VERSION", 0, 1), Command("CONFIGURE", 3, -1), Command("LOCK", 0, 1),
  Command("RESET", 0, -1), Command("SPECIFY", 2, -1),
  Command("RECALIBRATE", 1, -1), Command("SENSE_INTERRUPT", 0, 2),
  Command("READ", 8, 7) >>
Now == Script[step]
ReadStep == Len(Script)

(* The controller: "ready" for a command, waiting for a "param", "busy", or*)
(* with bytes of "result" left; the data that its last transfer put into   *)
(* the buffer; whether the drive is seeking, and whether the end of a seek *)
(* waits for a SENSE_INTERRUPT.                                            *)
RQM == ctl.phase # "busy"
DIO == ctl.phase = "result"
CMD_BSY == ctl.phase # "ready"

Init ==
  /\ step = 1 /\ pc = "poll" /\ tries = Retries /\ sent = 0 /\ got = 0
  /\ handled = "no" /\ masked = "yes"
  /\ buffer = 0 /\ count = 0 /\ sectors = 0
  /\ reads = 0 /\ status = "none" /\ copied = 0
  /\ ctl = [phase |-> "ready", cmd |-> "none", left |-> 0, data |-> 0,
            seeking |-> "no", ended |-> "no", st0 |-> "normal", st1 |-> {}]
  /\ irq = "no"
  /\ machine = "ok"

-----------------------------------------------------------------------------
(* The controller, external. A byte of a command makes it busy; when it is *)
(* done with it, it asks for the next byte, executes the command or has    *)
(* the result. A recalibration goes on in the background.                  *)
CtlTake(name, params) ==
  ctl' = [ctl EXCEPT !.phase = "busy", !.cmd = name, !.left = params]
CtlTakeParam == ctl' = [ctl EXCEPT !.phase = "busy", !.left = @ - 1]
CtlGive == ctl' = [ctl EXCEPT !.phase = IF ctl.left = 1 THEN "busy" ELSE "result",
                              !.left = @ - 1, !.cmd = IF ctl.left = 1 THEN "none" ELSE @]

CtlDone(results) ==
  [ctl EXCEPT !.phase = IF results = 0 THEN "ready" ELSE "result", !.left = results]
CtlWants == [ctl EXCEPT !.phase = "param"]
CtlSeeks == [CtlDone(0) EXCEPT !.seeking = "yes"]
CtlSenses ==
  [CtlDone(IF ctl.ended = "yes" THEN 2 ELSE 1) EXCEPT
     !.st0 = IF ctl.ended = "yes" THEN "seek_end" ELSE "invalid", !.ended = "no"]
CtlReads == [CtlDone(7) EXCEPT !.data = reads, !.st0 = "normal", !.st1 = {}]
CtlFails(bits) == [CtlDone(7) EXCEPT !.st0 = "abnormal", !.st1 = bits]

Controller ==
  /\ ctl.phase = "busy"
  /\ \/ ctl.left > 0 /\ ctl' = CtlWants /\ UNCHANGED irq
     \/ /\ ctl.left = 0
        /\ \/ ctl.cmd \in {"none", "CONFIGURE", "SPECIFY"}
              /\ ctl' = CtlDone(0) /\ UNCHANGED irq
           \/ ctl.cmd \in {"VERSION", "LOCK"} /\ ctl' = CtlDone(1) /\ UNCHANGED irq
           \/ ctl.cmd = "RESET" /\ ctl' = CtlDone(0) /\ irq' = "yes"
           \/ ctl.cmd = "RECALIBRATE" /\ ctl' = CtlSeeks /\ UNCHANGED irq
           \/ ctl.cmd = "SENSE_INTERRUPT" /\ ctl' = CtlSenses /\ UNCHANGED irq
           \/ /\ ctl.cmd = "READ"
              /\ irq' = "yes"
              /\ ctl' = CtlReads \/ \E bits \in SUBSET Errors : ctl' = CtlFails(bits)
  /\ UNCHANGED <<driver, handled, masked, machine>>

SeekEnd ==
  /\ ctl.seeking = "yes"
  /\ ctl' = [ctl EXCEPT !.seeking = "no", !.ended = "yes"]
  /\ irq' = "yes"
  /\ UNCHANGED <<driver, handled, masked, machine>>

(* handle_floppy_interrupt, once the interrupt is not masked. *)
AcknowledgeOnly == UNCHANGED handled
handle_floppy_interrupt == handled' = "yes"
Interrupt ==
  /\ machine = "ok"
  /\ irq = "yes" /\ masked = "no"
  /\ irq' = "no"
  /\ handle_floppy_interrupt
  /\ UNCHANGED <<driver, masked, ctl, machine>>

-----------------------------------------------------------------------------
(* issue_command_with_result, one action for each access. *)
At(p) == machine = "ok" /\ pc = p
Goto(p) == pc' = p

Stop(why) ==
  /\ machine' = why
  /\ UNCHANGED <<driver, handled, masked, ctl>>

Retry ==
  IF tries = 1 THEN Stop("out_of_tries")
  ELSE /\ tries' = tries - 1
       /\ Goto("poll")
       /\ sent' = 0 /\ got' = 0
       /\ UNCHANGED <<step, buffer, count, sectors, reads, status, copied,
                      handled, masked, ctl, machine>>

same == <<step, buffer, count, sectors, reads, status, copied, masked, machine>>

AfterParams ==
  IF Now.results = -1 THEN "settle"
  ELSE IF Now.name = "READ" THEN "interrupt" ELSE "fifo"

Poll ==
  /\ At("poll") /\ Now.name # "RESET"
  /\ \/ (~RQM \/ DIO) /\ Retry
     \/ /\ RQM /\ ~DIO
        /\ CtlTake(Now.name, Now.params)
        /\ Goto(IF Now.params = 0 THEN AfterParams ELSE "params")
        /\ UNCHANGED <<same, tries, sent, got, handled>>
  /\ UNCHANGED irq

(* SPIN_UNTIL(RQM) *)
NoWait == TRUE
wait_til_fifo_ready == RQM

issue_parameter_command ==
  /\ At("params")
  /\ wait_til_fifo_ready
  /\ \/ DIO /\ Retry
     \/ /\ ~DIO
        /\ CtlTakeParam
        /\ sent' = sent + 1
        /\ Goto(IF sent' = Now.params THEN AfterParams ELSE "params")
        /\ UNCHANGED <<same, tries, got, handled>>
  /\ UNCHANGED irq

wait_for_disk_interrupt ==
  /\ At("interrupt")
  /\ \/ masked = "yes" /\ Stop("interrupt_masked")
     \/ /\ masked = "no"
        /\ handled = "yes"
        /\ handled' = "no"
        /\ Goto(IF Now.name = "READ" THEN "fifo" ELSE "done")
        /\ UNCHANGED <<same, tries, sent, got, ctl>>
  /\ UNCHANGED irq

WaitForResult ==
  /\ At("fifo")
  /\ wait_til_fifo_ready
  /\ Goto("result")
  /\ UNCHANGED <<same, tries, sent, got, handled, ctl, irq>>

ReadResult ==
  /\ At("result")
  /\ \/ ~DIO /\ Goto("settle") /\ UNCHANGED <<same, tries, sent, got, handled, ctl>>
     \/ DIO /\ got >= Now.results /\ Stop("result_too_large")
     \/ /\ DIO /\ got < Now.results
        /\ CtlGive
        /\ got' = got + 1
        /\ UNCHANGED <<same, tries, sent, pc, handled>>
  /\ UNCHANGED irq

Check ==
  /\ At("settle")
  /\ wait_til_fifo_ready
  /\ \/ (~RQM \/ DIO \/ CMD_BSY) /\ Retry
     \/ /\ RQM /\ ~DIO /\ ~CMD_BSY
        /\ Goto("done")
        /\ UNCHANGED <<same, tries, sent, got, handled, ctl>>
  /\ UNCHANGED irq

(* The reset in init_floppy_driver: pic::unmask_irq, then the register. *)
Reset ==
  /\ At("poll") /\ Now.name = "RESET"
  /\ masked' = "no"
  /\ CtlTake("RESET", 0)
  /\ Goto("interrupt")
  /\ UNCHANGED <<step, tries, sent, got, buffer, count, sectors, reads, status, copied,
                 handled, irq, machine>>

-----------------------------------------------------------------------------
(* low_memory::allocate(FLOPPY_BUFFER_SIZE) does not hand out the last page. *)
low_memory_allocate ==
  IF LowStart >= LowEnd - BufferPages
    THEN machine' = "out_of_low_memory" /\ UNCHANGED buffer
    ELSE buffer' = LowStart /\ UNCHANGED machine

(* The rest of init_floppy_driver after a command. *)
NextCommand ==
  /\ At("done") /\ step < ReadStep
  /\ \/ /\ Now.name = "SENSE_INTERRUPT" /\ ctl.st0 # "seek_end"
        /\ Stop("seek_not_ended")
     \/ /\ Now.name = "SENSE_INTERRUPT" /\ ctl.st0 = "seek_end"
        /\ low_memory_allocate
        /\ step' = step + 1 /\ Goto("idle")
        /\ tries' = Retries /\ sent' = 0 /\ got' = 0
        /\ UNCHANGED <<count, sectors, reads, status, copied, handled, masked, ctl>>
     \/ /\ Now.name # "SENSE_INTERRUPT"
        /\ step' = step + 1 /\ Goto("poll")
        /\ tries' = Retries /\ sent' = 0 /\ got' = 0
        /\ UNCHANGED <<buffer, count, sectors, reads, status, copied, handled, masked,
                       ctl, machine>>
  /\ UNCHANGED irq

(* dma::prepare_transfer writes the count as two bytes. *)
TransferCount(n) == n * SectorBytes - 1
CountRegister(c) == (c % 256) + 256 * ((c \div 16) % 256)

prepare_transfer(n) ==
  IF BufferPages * PageBytes < n * SectorBytes
    THEN Stop("dma_buffer_too_small")
    ELSE /\ count' = CountRegister(TransferCount(n))
         /\ sectors' = n
         /\ reads' = reads + 1
         /\ status' = "none"
         /\ Goto("poll")
         /\ tries' = Retries /\ sent' = 0 /\ got' = 0
         /\ UNCHANGED <<step, buffer, copied, handled, masked, ctl, machine>>

read_floppy(n) ==
  /\ At("idle")
  /\ prepare_transfer(n)
  /\ UNCHANGED irq

(* What read_floppy makes of the first two bytes of the result. *)
StatusOf(bits) ==
  CASE "EN" \in bits -> "end_of_cylinder"
    [] "EN" \notin bits /\ "DE" \in bits -> "data_error"
    [] bits \cap {"EN", "DE"} = {} /\ "OR" \in bits -> "overrun_underrun"
    [] bits \cap {"EN", "DE", "OR"} = {} /\ "ND" \in bits -> "no_data"
    [] bits \cap {"EN", "DE", "OR", "ND"} = {} /\ "NW" \in bits -> "not_writable"
    [] bits \cap {"EN", "DE", "OR", "ND", "NW"} = {} /\ "MA" \in bits -> "missing_address_mark"
    [] bits = {} -> "error_unknown"
ResultByBits == IF ctl.st1 = {} THEN "ok" ELSE StatusOf(ctl.st1)
Result == IF ctl.st0 = "normal" THEN "ok" ELSE StatusOf(ctl.st1)

(* The end of read_floppy_or_fail. *)
FinishRead ==
  /\ At("done") /\ step = ReadStep
  /\ status' = Result
  /\ \/ /\ Result = "ok"
        /\ copied' = ctl.data
        /\ Goto("idle")
        /\ UNCHANGED machine
     \/ /\ Result # "ok"
        /\ machine' = "error_reading_floppy"
        /\ UNCHANGED <<copied, pc>>
  /\ UNCHANGED <<step, tries, sent, got, buffer, count, sectors, reads, handled, masked,
                 ctl, irq>>

Driver ==
  \/ Poll \/ issue_parameter_command \/ wait_for_disk_interrupt \/ WaitForResult
  \/ ReadResult \/ Check \/ Reset \/ NextCommand

(* An iteration of SPIN_UNTIL. *)
Spin ==
  /\ machine = "ok"
  /\ \/ pc = "interrupt" /\ masked = "no" /\ handled = "no"
     \/ pc \in {"params", "fifo", "settle"} /\ ~RQM
  /\ UNCHANGED vars

-----------------------------------------------------------------------------
(* A read that returns ok has copied the data of its own transfer, although*)
(* the interrupt of the recalibration is never waited for and makes every  *)
(* wait_for_disk_interrupt return for the interrupt before its own.        *)
ReadGetsItsData == status = "ok" => copied = reads

(* No command runs out of tries or gets more result than it has room for,  *)
(* and the driver never waits for a masked interrupt.                      *)
CommandsSucceed ==
  machine \notin {"out_of_tries", "result_too_large", "interrupt_masked",
                  "dma_buffer_too_small"}
=============================================================================
