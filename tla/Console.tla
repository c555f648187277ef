------------------------------- MODULE Console -------------------------------
(***************************************************************************)
(* From the keyboard to the file: kmain initialises the floppy driver, the *)
(* file system and the keyboard and starts the shell (main.cpp, from       *)
(* init_floppy_driver on).  Then the keyboard's interrupts queue events,   *)
(* the dispatcher hands them to the shell, the shell's "cat" reads a file, *)
(* and every sector of it is a command to the floppy drive.                *)
(*                                                                         *)
(* Composes modules EventPump, Minishell, Fat and Floppy.  One processor   *)
(* runs kmain until the dispatcher is switched in; the two interrupts and  *)
(* the drive's controller run beside it.                                   *)
(***************************************************************************)
EXTENDS Naturals, Sequences, SequencesExt

CONSTANTS
  Capacity, MaxKeys, Burst,           \* of EventPump
  Width, Height, Size, Spelling,      \* of Minishell
  BytesPerSector, EntryBytes, Reserved, NumFats, SectorsPerFat, RootEntries,
  NumClusters, Names, DirNames, NameSize, ExtSize, SectorsPerPage,   \* of Fat
  Errors, LowStart, LowEnd,           \* of Floppy
  DisksTried,                         \* bound: the disks in the drive
  FastDisk,                           \* bound: the one on which typing is fast
  Scripts, CatScripts                 \* bound: the keys that are typed

VARIABLES
  pump, screen_lock, events, subscribers, kmain, dispatcher, seen, event, current,
  scancodes, accepted, delivered,
  command_buffer, overrun, buffer_count, shift_held, screen, tasks, shell_machine,
  line, wrapped,
  disk, fs_pc, root_dir, path, file, cluster, loaded_fat_sector, fat, buffer, result,
  fs_machine,
  step, drive_pc, tries, sent, got, disk_interrupt_handled, masked, dma_buffer, count,
  sectors, reads, status, copied, ctl, irq, drive_machine,
  keys,     \* the keys of the events that were handed to the shell
  reading   \* is the shell in its call of read_file, or behind it

pump_vars == <<pump, screen_lock, events, subscribers, kmain, dispatcher, seen, event,
               current, scancodes, accepted, delivered>>
shell_vars == <<command_buffer, overrun, buffer_count, shift_held, screen, tasks,
                shell_machine, line, wrapped>>
fs_vars == <<disk, fs_pc, root_dir, path, file, cluster, loaded_fat_sector, fat, buffer,
             result, fs_machine>>
drive_vars == <<step, drive_pc, tries, sent, got, disk_interrupt_handled, masked,
                dma_buffer, count, sectors, reads, status, copied, ctl, irq,
                drive_machine>>
vars == <<pump_vars, shell_vars, fs_vars, drive_vars, keys, reading>>

Pump == INSTANCE EventPump WITH
  screen <- screen_lock, typed <- scancodes, handled <- delivered
Shell == INSTANCE Minishell WITH machine <- shell_machine, typed <- line
Fs == INSTANCE Fat WITH pc <- fs_pc, machine <- fs_machine
Drive == INSTANCE Floppy WITH
  pc <- drive_pc, machine <- drive_machine, buffer <- dma_buffer,
  handled <- disk_interrupt_handled

(* The constants are as the components expect them, and the root directory *)
(* that fs::init reads in one transfer fits the driver's buffer.           *)
RootDirectoryBytes == Fs!root_directory_sector_count * Drive!SectorBytes
ASSUME ConsoleAssumption ==
  /\ Pump!EventPumpAssumption /\ Shell!VgaAssumption /\ Shell!MinishellAssumption
  /\ Fs!Fat12Assumption /\ Drive!FloppyAssumption
  /\ FastDisk \in DisksTried /\ DisksTried \subseteq Fs!Disks
  /\ CatScripts \subseteq Scripts
  /\ RootDirectoryBytes <= Drive!BufferPages * Drive!PageBytes

Running == shell_machine = "ok" /\ fs_machine = "ok" /\ drive_machine = "ok"

Init ==
  /\ Pump!Init /\ Shell!Init /\ Fs!Init /\ Drive!Init
  /\ disk \in DisksTried
  /\ keys = <<>> /\ reading = FALSE

-----------------------------------------------------------------------------
(* The floppy driver, in its initialisation and in a read, and the end of  *)
(* a read, after which the file system has its sectors.                    *)
Initialised == step = Drive!ReadStep

Driver ==
  /\ Running
  /\ Drive!Driver
  /\ UNCHANGED <<pump_vars, shell_vars, fs_vars, keys, reading>>

StartRead ==
  /\ Running /\ Initialised
  /\ Fs!SectorsWanted > 0
  /\ Drive!read_floppy(Fs!SectorsWanted)
  /\ UNCHANGED <<pump_vars, shell_vars, fs_vars, keys, reading>>

FinishRead ==
  /\ Running
  /\ Drive!FinishRead
  /\ IF Drive!Result = "ok"
     THEN \/ Fs!read_boot_param_block \/ Fs!read_root_directory
          \/ Fs!ReadFat \/ Fs!ReadCluster
     ELSE UNCHANGED fs_vars
  /\ UNCHANGED <<pump_vars, shell_vars, keys, reading>>

(* The steps of the file system that read nothing. *)
FsStep ==
  /\ Running
  /\ Fs!FindKernel \/ Fs!Resolve \/ Fs!Return
  /\ UNCHANGED <<pump_vars, shell_vars, drive_vars, keys, reading>>

-----------------------------------------------------------------------------
(* kmain goes on behind fs::init, and prints the shell's first prompt. *)
KmainStep ==
  /\ Running
  /\ fs_pc = "idle"
  /\ Pump!KmainStep
  /\ screen' = IF kmain = "printing" THEN Shell!Prompt(screen) ELSE screen
  /\ UNCHANGED <<command_buffer, overrun, buffer_count, shift_held, tasks,
                 shell_machine, line, wrapped, fs_vars, drive_vars, keys, reading>>

Switch ==
  /\ Running
  /\ Pump!Switch
  /\ UNCHANGED <<shell_vars, fs_vars, drive_vars, keys, reading>>

(* The keyboard's interrupt. Typing is slow on all disks but one: there    *)
(* the next key of a "cat" comes when the one before it was handled.       *)
Slow(codes) ==
  /\ codes = <<"key">> /\ scancodes < 3
  /\ current = "dispatcher" /\ dispatcher = "try" /\ kmain = "loop"
  /\ Len(delivered) = Len(accepted)

KeyboardInterrupt ==
  /\ Running
  /\ \E codes \in BoundedSeq(Pump!Scancodes, Burst) :
       /\ disk = FastDisk \/ Slow(codes)
       /\ Pump!handle_interrupt(codes)
  /\ UNCHANGED <<shell_vars, fs_vars, drive_vars, keys, reading>>

-----------------------------------------------------------------------------
(* What the next key is is decided when it is handed to the shell; nothing *)
(* before depends on it.                                                   *)
Key(code, pressed) == [code |-> code, pressed |-> pressed]
NextKeys ==
  LET scripts == IF disk = FastDisk THEN Scripts ELSE CatScripts
      rest == {s \in scripts : Len(s) > Len(keys) /\ IsPrefix(keys, s)}
  IN IF rest = {} THEN {Key("other", "no")} ELSE {s[Len(keys) + 1] : s \in rest}

DispatchStep ==
  /\ Running
  /\ \/ Pump!TryLock /\ UNCHANGED keys
     \/ Pump!PopRead /\ UNCHANGED keys
     \/ Pump!Unlock /\ UNCHANGED keys
     \/ /\ Pump!PopEvent
        /\ IF dispatcher' = "handle"
           THEN \E k \in NextKeys : keys' = Append(keys, k)
           ELSE UNCHANGED keys
  /\ UNCHANGED <<shell_vars, fs_vars, drive_vars, reading>>

(* handle_key_event up to where it prints: "cat" reads the file first. *)
key == Last(keys)
Text == Shell!CString(Shell!Terminated)
Argument(text) == FlattenSeq([i \in 1 .. Len(text) - 1 |-> Spelling[text[i + 1]]])
EntersCat == key = Key("newline", "yes") /\ Shell!IsCat(Text)

StartCat ==
  /\ Running
  /\ Pump!Dispatching("handle")
  /\ EntersCat /\ ~reading
  /\ Fs!Call(Argument(Text))
  /\ reading' = TRUE
  /\ UNCHANGED <<pump_vars, shell_vars, drive_vars, keys>>

StartPrinting ==
  /\ Running
  /\ Pump!HandleLock
  /\ EntersCat => reading /\ fs_pc = "idle"
  /\ UNCHANGED <<shell_vars, fs_vars, drive_vars, keys, reading>>

FinishKey ==
  /\ Running
  /\ Pump!HandleDone
  /\ Shell!handle_key_event(key.code, key.pressed)
  /\ reading' = FALSE
  /\ UNCHANGED <<fs_vars, drive_vars, keys>>

Dispatch == DispatchStep \/ StartCat \/ StartPrinting \/ FinishKey

-----------------------------------------------------------------------------
(* The drive and its interrupt. *)
Controller ==
  /\ Running
  /\ Drive!Controller
  /\ UNCHANGED <<pump_vars, shell_vars, fs_vars, keys, reading>>

SeekEnd ==
  /\ Running
  /\ Drive!SeekEnd
  /\ UNCHANGED <<pump_vars, shell_vars, fs_vars, keys, reading>>

DiskInterrupt ==
  /\ Running
  /\ Drive!Interrupt
  /\ UNCHANGED <<pump_vars, shell_vars, fs_vars, keys, reading>>

(* The processor spins: the driver in SPIN_UNTIL, the dispatcher as long   *)
(* as it does not get the pump's lock, and a machine that has stopped.     *)
Spin ==
  /\ \/ Running /\ Drive!Spin
     \/ Running /\ Pump!Dispatching("try") /\ pump # "none"
     \/ ~Running
  /\ UNCHANGED vars

Task == Driver \/ StartRead \/ FinishRead \/ FsStep \/ KmainStep \/ Dispatch

Next ==
  \/ Task \/ Switch \/ KeyboardInterrupt \/ Controller \/ SeekEnd \/ DiskInterrupt
  \/ Spin

(* The processor executes the task it is in and takes the interrupts of    *)
(* the clock and of the drive; the drive's controller finishes what it     *)
(* began.  Nobody has to type.                                             *)
Spec ==
  /\ Init /\ [][Next]_vars
  /\ WF_vars(Task) /\ WF_vars(Switch)
  /\ WF_vars(Controller) /\ WF_vars(SeekEnd) /\ WF_vars(DiskInterrupt)

-----------------------------------------------------------------------------
(* The shell handles every event that was queued, once and in order, also  *)
(* those queued before it subscribed, though the interrupt comes between   *)
(* the two steps of pop_front.                                             *)
ShellMissesNothing == Pump!ShellMissesNothing

(* The handler never waits for the screen of a kmain that is switched out  *)
(* for good.                                                               *)
ScreenIsFree == Pump!ScreenIsFree

(* The command that enter executes is the line as it was typed, up to the  *)
(* last character the buffer has room for.                                 *)
ExecutesWhatWasTyped == Shell!ExecutesWhatWasTyped

(* Once the shell is subscribed, the row of the cursor shows the prompt    *)
(* and the line as it will be executed, as long as they have not been too  *)
(* long for a row.                                                         *)
ScreenShowsLine == subscribers > 0 => Shell!ShowsLine

(* A read that returns ok has copied the data of its own transfer, although*)
(* the interrupt of the recalibration is never waited for and makes every  *)
(* wait_for_disk_interrupt return for the interrupt before its own.        *)
ReadGetsItsData == Drive!ReadGetsItsData

(* No command runs out of tries or gets more result than it has room for,  *)
(* and the driver never waits for a masked interrupt.                      *)
CommandsSucceed == Drive!CommandsSucceed

(* The whole sectors that are read never go beyond the pages that the heap *)
(* gives a buffer of the file's size.                                      *)
ReadsStayInBuffer == Fs!ReadsStayInBuffer

(* "cat" prints the sectors of the file whose path was typed, "/name" or   *)
(* "/name.ext", in any case and wherever its entry is, each sector from    *)
(* its own transfer, and says that there is no file exactly for the names  *)
(* that are not in the root directory.                                     *)
TypedPath == FlattenSeq([i \in 1 .. Len(line) - 1 |-> Spelling[line[i + 1]]])
CatPrintsTheFile ==
  Running /\ reading /\ fs_pc = "idle" =>
    \A part \in Fs!Parts(TypedPath) :
      LET name == Fs!FullName(TypedPath, part)
      IN IF name \in Names
         THEN result = "buffer" /\ buffer = Fs!FileSectors(disk, name) /\ copied = reads
         ELSE result = "null"

(* A shell that is subscribed catches up with the events that are queued,  *)
(* unless a command or an assertion stops the machine.                     *)
SubscribedShellHandles ==
  kmain = "loop" ~> delivered = accepted \/ ~Running

(* The initialisation and every read come to an end: the driver never      *)
(* waits forever for the controller or its interrupt.                      *)
DriverReturns == drive_pc # "idle" ~> drive_pc = "idle" \/ ~Running
=============================================================================
