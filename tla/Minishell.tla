------------------------------ MODULE Minishell ------------------------------
(***************************************************************************)
(* The shell (minishell.cpp): handle_key_event, which the dispatcher calls *)
(* for one event after the other, over the screen of module Vga.  A        *)
(* command is named by one letter, "r" for "cat ", and its output is one   *)
(* line.  A letter behind it stands for a part of a path.                  *)
(***************************************************************************)
EXTENDS Vga

CONSTANTS
  Size,     \* characters command_buffer holds
  Spelling  \* the printable characters that are typed, and what they stand for

MinishellAssumption ==
  /\ Size \in Nat \ {0}
  /\ DOMAIN Spelling \cap {"nul", "newline", "backspace"} = {}

VARIABLES
  command_buffer,  \* its characters, "nul" for '\0'
  overrun,         \* was the byte behind the buffer overwritten
  buffer_count,
  shift_held,
  screen,          \* current_screen
  tasks,           \* user tasks that were scheduled
  machine,         \* "ok", or "off" after the command "shutdown"
  typed,           \* history: the line as it was typed and echoed
  wrapped          \* history: did the line go beyond the row of its prompt

vars == <<command_buffer, overrun, buffer_count, shift_held, screen, tasks,
          machine, typed, wrapped>>

Empty == [i \in 0 .. Size - 1 |-> "nul"]

(* UPPERS, the capitals of the letters that are typed. *)
UPPERS == [h |-> "H", c |-> "C", r |-> "R", q |-> "Q", t |-> "T"]
Letters == DOMAIN Spelling

(* loop() prints the prompt and subscribes. *)
Prompt(s) == write(s, <<">">>)

Init ==
  /\ command_buffer = Empty /\ overrun = "no" /\ buffer_count = 0
  /\ shift_held = "no"
  /\ screen = Home
  /\ tasks = 0
  /\ machine = "ok"
  /\ typed = <<>> /\ wrapped = "no"

-----------------------------------------------------------------------------
Shift(pressed) ==
  /\ shift_held' = pressed
  /\ UNCHANGED <<command_buffer, overrun, buffer_count, screen, tasks, machine,
                 typed, wrapped>>

(* A printable character, when there is room for it. *)
Insert(code) ==
  LET c == IF shift_held = "yes" /\ code \in DOMAIN UPPERS THEN UPPERS[code] ELSE code IN
  /\ buffer_count < Size
  /\ command_buffer' = [command_buffer EXCEPT ![buffer_count] = c]
  /\ buffer_count' = buffer_count + 1
  /\ screen' = print_char(screen, c)
  /\ typed' = Append(typed, c)
  /\ wrapped' = IF screen.x < Width THEN wrapped ELSE "yes"
  /\ UNCHANGED <<overrun, shift_held, tasks, machine>>

AllButLast(text) == SubSeq(text, 1, Len(text) - 1)

(* The byte at buffer_count is cleared before the count is decremented: it *)
(* is behind the buffer when the buffer is full.                           *)
Removable == buffer_count > 0

Erase ==
  /\ Removable
  /\ IF buffer_count < Size
     THEN /\ command_buffer' = [command_buffer EXCEPT ![buffer_count] = "nul"]
          /\ UNCHANGED overrun
     ELSE overrun' = "yes" /\ UNCHANGED command_buffer
  /\ buffer_count' = buffer_count - 1
  /\ screen' = print_char(screen, "backspace")
  /\ typed' = AllButLast(typed)
  /\ UNCHANGED <<shift_held, tasks, machine, wrapped>>

(* The C string in a buffer that is terminated at min(buffer_count, 0xFF). *)
Unterminated == command_buffer
Terminated ==
  [command_buffer EXCEPT ![IF buffer_count < Size - 1 THEN buffer_count
                                                      ELSE Size - 1] = "nul"]

CString(b) ==
  LET nul == CHOOSE n \in 0 .. Size :
               /\ n < Size => b[n] = "nul"
               /\ \A i \in 0 .. n - 1 : b[i] # "nul"
  IN [i \in 1..nul |-> b[i - 1]]

(* The command "cat". *)
IsCat(text) == text # <<>> /\ text[1] = "r"

(* The commands that only print: help, pages, ls, cat, and the message     *)
(* about a command that is not recognized.                                 *)
Prints(text) == text \notin {<<"c">>, <<"q">>, <<"t">>}
Output(text) == IF text = <<"h">> \/ IsCat(text)
                THEN <<"o">> ELSE text

Command(text, s) ==
  /\ machine' = IF text = <<"q">> THEN "off" ELSE "ok"
  /\ tasks' = IF text = <<"t">> THEN tasks + 1 ELSE tasks
  /\ screen' = CASE text = <<"c">> -> Prompt(Home)
                 [] text = <<"t">> -> Prompt(s)
                 [] text = <<"q">> -> s
                 [] Prints(text) -> Prompt(puts(s, Output(text)))

Enter ==
  LET text == CString(Terminated) IN
  /\ Command(text, advance_cursor_to_newline(screen))
  /\ typed' = <<>> /\ wrapped' = "no"
  /\ command_buffer' = Empty
  /\ buffer_count' = 0
  /\ UNCHANGED <<overrun, shift_held>>

(* A release of a key other than shift, a letter when the buffer is full   *)
(* and a backspace on an empty line change nothing.                        *)
handle_key_event(code, pressed) ==
  /\ machine = "ok"
  /\ \/ code = "shift" /\ Shift(pressed)
     \/ pressed = "yes" /\ code = "newline" /\ Enter
     \/ pressed = "yes" /\ code \in Letters /\ Insert(code)
     \/ pressed = "yes" /\ code = "backspace" /\ Erase
     \/ /\ \/ pressed = "no" /\ code # "shift"
           \/ pressed = "yes" /\ code \in Letters /\ buffer_count = Size
           \/ pressed = "yes" /\ code = "backspace" /\ ~Removable
        /\ UNCHANGED vars

-----------------------------------------------------------------------------
(* The command that enter executes is the line as it was typed, up to the  *)
(* last character the buffer has room for: no deleted character and none   *)
(* of an earlier line is left in it.                                       *)
ExecutesWhatWasTyped ==
  CString(Terminated) = IF Len(typed) = Size THEN AllButLast(typed) ELSE typed

(* The row of the cursor shows the prompt and the line as it will be       *)
(* executed, as long as they have not been too long for a row.             *)
ShowsLine ==
  machine = "ok" /\ wrapped = "no" =>
    /\ screen.x = Len(typed) + 1
    /\ SubSeq(Row(screen, screen.y), 1, screen.x) = <<">">> \o typed
=============================================================================
