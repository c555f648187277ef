----------------------------- MODULE ShellProofs -----------------------------
(***************************************************************************)
(* The shell and its screen, for every size of both and every sequence of  *)
(* keys: the line that is typed is in the buffer and in the row of the     *)
(* cursor.  Module ConsoleProofs takes it over for the shell as a part of  *)
(* the system.                                                             *)
(***************************************************************************)
EXTENDS Minishell, WellFoundedInduction, SequenceTheorems, TLAPS

(* What is assumed of the sizes and the characters. *)
ShellAssumption == VgaAssumption /\ MinishellAssumption

(* The characters a line consists of, and what is in the buffer while it   *)
(* is typed.                                                               *)
Printable == Letters \cup {"H", "C", "R", "Q", "T"}
LineInv ==
  /\ typed \in Seq(Printable) /\ buffer_count = Len(typed) /\ buffer_count <= Size
  /\ command_buffer \in [0 .. Size - 1 -> Printable \cup {"nul"}]
  /\ \A k \in 1 .. Len(typed) : command_buffer[k - 1] = typed[k]

(* The size of the buffer is a number, and no character that is typed is   *)
(* the one that ends a string or one that moves the cursor.                *)
LEMMA ShellConstants ==
  ASSUME ShellAssumption
  PROVE  /\ Size \in Nat \ {0} /\ Width \in Nat \ {0} /\ Height \in Nat \ {0, 1}
         /\ Printable \cap {"nul", "newline", "backspace"} = {}
<1>1. /\ Size \in Nat \ {0} /\ Width \in Nat \ {0} /\ Height \in Nat \ {0, 1}
      /\ DOMAIN Spelling \cap {"nul", "newline", "backspace"} = {}
  BY DEF ShellAssumption, VgaAssumption, MinishellAssumption
<1> QED BY <1>1 DEF Printable, Letters

(* The command that enter executes. *)
Text == CString(Terminated)

(* The string that enter finds ends behind the line, or, when the buffer   *)
(* is full, before the line's last character.                              *)
LEMMA LineIsExecuted ==
  ASSUME ShellAssumption, LineInv PROVE ExecutesWhatWasTyped /\ Text \in Seq(Printable)
<1> DEFINE m == IF buffer_count < Size - 1 THEN buffer_count ELSE Size - 1
           t == Terminated
<1>1. /\ typed \in Seq(Printable) /\ Len(typed) \in Nat /\ Len(typed) <= Size
      /\ buffer_count = Len(typed) /\ Size \in Nat \ {0}
  BY ShellConstants DEF LineInv
<1>2. m \in 0 .. Size - 1 /\ m <= Len(typed) BY <1>1
<1>3. t[m] = "nul" /\ DOMAIN t = 0 .. Size - 1
  BY <1>1, <1>2 DEF LineInv, Terminated
<1>4. \A k \in 0 .. m - 1 : t[k] = typed[k + 1] /\ t[k] \in Printable
  <2> SUFFICES ASSUME NEW k \in 0 .. m - 1 PROVE t[k] = typed[k + 1] /\ t[k] \in Printable
    OBVIOUS
  <2>1. k + 1 \in 1 .. Len(typed) /\ k \in 0 .. Size - 1 /\ k # m /\ (k + 1) - 1 = k
    BY <1>1, <1>2
  <2>2. command_buffer[k] = typed[k + 1] BY <2>1 DEF LineInv
  <2>3. t[k] = command_buffer[k] BY <1>1, <2>1 DEF LineInv, Terminated
  <2>4. typed[k + 1] \in Printable BY <1>1, <2>1
  <2> QED BY <2>2, <2>3, <2>4
<1>5. \A k \in 0 .. m - 1 : t[k] # "nul" BY <1>4, ShellConstants
<1> DEFINE Ends(n) == (n < Size => t[n] = "nul") /\ \A k \in 0 .. n - 1 : t[k] # "nul"
<1>6. \A n \in 0 .. Size : Ends(n) <=> n = m
  BY <1>1, <1>2, <1>3, <1>5
<1> HIDE DEF m, t
<1>7. m = CHOOSE n \in 0 .. Size : Ends(n)
  BY <1>1, <1>2, <1>6
<1>8. Text = [k \in 1 .. m |-> t[k - 1]]
  BY <1>7 DEF Text, CString, t
<1>9. Text = [k \in 1 .. m |-> typed[k]]
  <2>1. \A k \in 1 .. m : k - 1 \in 0 .. m - 1 /\ (k - 1) + 1 = k BY <1>2
  <2> QED BY <1>4, <1>8, <2>1
<1>10. Text \in Seq(Printable)
  BY <1>1, <1>2, <1>9
<1>11. CASE Len(typed) = Size
  <2>1. m = Len(typed) - 1 BY <1>1, <1>11 DEF m
  <2>2. AllButLast(typed) = [k \in 1 .. m |-> typed[k]]
    BY <1>1, <1>2, <2>1 DEF AllButLast
  <2> QED BY <1>9, <1>10, <1>11, <2>2 DEF Text, ExecutesWhatWasTyped
<1>12. CASE Len(typed) # Size
  <2>1. m = Len(typed) BY <1>1, <1>12 DEF m
  <2>2. typed = [k \in 1 .. m |-> typed[k]] BY <1>1, <2>1
  <2> QED BY <1>9, <1>10, <1>12, <2>2 DEF Text, ExecutesWhatWasTyped
<1> QED BY <1>11, <1>12

(* What insertion stores: the character, or its capital. *)
Typed(code) ==
  IF shift_held = "yes" /\ code \in DOMAIN UPPERS THEN UPPERS[code] ELSE code
(* It is a character of a line. *)
LEMMA TypedIsPrintable ==
  ASSUME NEW code \in Letters PROVE Typed(code) \in Printable
<1>1. \A c \in DOMAIN UPPERS : UPPERS[c] \in {"H", "C", "R", "Q", "T"}
  BY DEF UPPERS
<1> QED BY <1>1 DEF Typed, Printable

(* An inserted character goes behind the line, in the buffer too. *)
LEMMA LineInsert ==
  ASSUME ShellAssumption, LineInv, NEW code \in Letters, Insert(code) PROVE LineInv'
<1> DEFINE c == Typed(code)
<1>1. /\ typed \in Seq(Printable) /\ Len(typed) \in Nat /\ buffer_count = Len(typed)
      /\ Len(typed) < Size /\ Size \in Nat /\ c \in Printable
      /\ command_buffer \in [0 .. Size - 1 -> Printable \cup {"nul"}]
  BY ShellConstants, TypedIsPrintable DEF LineInv, Insert
<1>2. /\ typed' = Append(typed, c) /\ buffer_count' = buffer_count + 1
      /\ command_buffer' = [command_buffer EXCEPT ![buffer_count] = c]
  BY DEF Insert, Typed
<1> HIDE DEF c
<1>3. /\ typed' \in Seq(Printable) /\ Len(typed') = Len(typed) + 1
      /\ typed'[Len(typed) + 1] = c /\ \A k \in 1 .. Len(typed) : typed'[k] = typed[k]
  BY <1>1, <1>2
<1>4. command_buffer' \in [0 .. Size - 1 -> Printable \cup {"nul"}]
  BY <1>1, <1>2
<1>5. ASSUME NEW k \in 1 .. Len(typed') PROVE command_buffer'[k - 1] = typed'[k]
  <2>1. CASE k = Len(typed) + 1 BY <1>1, <1>2, <1>3, <2>1
  <2>2. CASE k # Len(typed) + 1
    <3>1. k \in 1 .. Len(typed) /\ k - 1 # buffer_count /\ k - 1 \in 0 .. Size - 1
      BY <1>1, <1>3, <2>2
    <3> QED BY <1>1, <1>2, <1>3, <3>1 DEF LineInv
  <2> QED BY <2>1, <2>2
<1> QED BY <1>1, <1>2, <1>3, <1>4, <1>5 DEF LineInv

(* A line less its last character. *)
LEMMA Shorter ==
  ASSUME NEW S, NEW s \in Seq(S), Len(s) # 0, NEW t, t = SubSeq(s, 1, Len(s) - 1)
  PROVE  /\ t \in Seq(S) /\ Len(t) = Len(s) - 1
         /\ \A k \in 1 .. Len(s) - 1 : t[k] = s[k]
<1>1. Len(s) \in Nat /\ Len(s) > 0 OBVIOUS
<1>2. PICK n \in Nat : Len(s) = n + 1 BY <1>1
<1>3. t = [k \in 1 .. n |-> s[k]] BY <1>2
<1>4. \A k \in 1 .. n : s[k] \in S BY <1>2
<1> QED BY <1>2, <1>3, <1>4

(* A backspace clears a byte behind the line. *)
LEMMA LineErase == ASSUME ShellAssumption, LineInv, Erase PROVE LineInv'
<1>1. /\ typed \in Seq(Printable) /\ Len(typed) \in Nat \ {0} /\ buffer_count = Len(typed)
      /\ Len(typed) <= Size /\ Size \in Nat
      /\ command_buffer \in [0 .. Size - 1 -> Printable \cup {"nul"}]
  BY ShellConstants DEF LineInv, Erase, Removable
<1>2. /\ typed' = SubSeq(typed, 1, Len(typed) - 1) /\ buffer_count' = buffer_count - 1
      /\ \/ /\ buffer_count < Size
            /\ command_buffer' = [command_buffer EXCEPT ![buffer_count] = "nul"]
         \/ command_buffer' = command_buffer
  BY DEF Erase, AllButLast
<1>3. /\ typed' \in Seq(Printable) /\ Len(typed') = Len(typed) - 1
      /\ \A k \in 1 .. Len(typed) - 1 : typed'[k] = typed[k]
  <2>1. typed \in Seq(Printable) /\ Len(typed) # 0 BY <1>1
  <2>2. typed' = SubSeq(typed, 1, Len(typed) - 1) BY <1>2
  <2> QED BY <2>1, <2>2, Shorter, Zenon
<1>4. command_buffer' \in [0 .. Size - 1 -> Printable \cup {"nul"}]
  BY <1>1, <1>2
<1>5. ASSUME NEW k \in 1 .. Len(typed') PROVE command_buffer'[k - 1] = typed'[k]
  <2>1. k \in 1 .. Len(typed) /\ k \in 1 .. Len(typed) - 1 /\ k - 1 # buffer_count
        /\ k - 1 \in 0 .. Size - 1
    BY <1>1, <1>3
  <2>2. command_buffer'[k - 1] = command_buffer[k - 1] BY <1>1, <1>2, <2>1
  <2> QED BY <1>3, <2>1, <2>2 DEF LineInv
<1> QED BY <1>1, <1>2, <1>3, <1>4, <1>5 DEF LineInv

(* The line is empty at first. *)
LEMMA LineEmpty ==
  ASSUME ShellAssumption, typed = <<>>, buffer_count = 0, command_buffer = Empty PROVE LineInv
<1>1. Len(<<>>) = 0 /\ <<>> \in Seq(Printable) /\ 1 .. 0 = {} OBVIOUS
<1>2. Empty \in [0 .. Size - 1 -> Printable \cup {"nul"}] BY DEF Empty
<1> QED BY <1>1, <1>2, ShellConstants DEF LineInv
(* Enter empties the line and the buffer. *)
LEMMA LineEnter == ASSUME ShellAssumption, Enter PROVE LineInv'
<1>1. typed' = <<>> /\ buffer_count' = 0 /\ command_buffer' = Empty
  BY DEF Enter
<1>2. Empty' = Empty BY DEF Empty
<1>3. Len(<<>>) = 0 /\ <<>> \in Seq(Printable) /\ 1 .. 0 = {} OBVIOUS
<1>4. Empty \in [0 .. Size - 1 -> Printable \cup {"nul"}] BY DEF Empty
<1> QED BY <1>1, <1>3, <1>4, ShellConstants DEF LineInv

(* So every key keeps the buffer in step with the line. *)
LEMMA LineKey ==
  ASSUME ShellAssumption, LineInv, NEW code, NEW pressed, handle_key_event(code, pressed)
  PROVE  LineInv'
<1>1. CASE UNCHANGED <<command_buffer, buffer_count, typed>> BY <1>1 DEF LineInv
<1>2. CASE Shift(pressed) BY <1>1, <1>2 DEF Shift
<1>3. CASE UNCHANGED vars BY <1>1, <1>3 DEF vars
<1> QED BY <1>2, <1>3, LineInsert, LineErase, LineEnter DEF handle_key_event

-----------------------------------------------------------------------------
(* The screen: its cells hold characters, and the cursor is in a row above *)
(* the last one, or behind its end.                                        *)
Glyphs == Printable \cup {">", "o", "blank"}
Screens == [cells : [Cells -> Glyphs], x : 0 .. Width, y : 0 .. Height - 2]
At(s, k) == s.y * Width + k

(* The cells of the rows that are written, and of those that are scrolled. *)
LEMMA CellsOfRow ==
  ASSUME ShellAssumption, NEW y \in 0 .. Height - 2, NEW k \in 0 .. Width
  PROVE  y * Width + k \in Cells
<1>1. Width \in Nat \ {0} /\ Height \in Nat \ {0, 1} BY ShellConstants
<1>2. PICK h \in Nat : Height = h + 2 BY <1>1
<1>3. y * Width <= h * Width /\ y * Width \in Nat /\ h * Width \in Nat BY <1>1, <1>2
<1>4. Width * Height = h * Width + 2 * Width BY <1>1, <1>2
<1> QED BY <1>1, <1>3, <1>4 DEF Cells
(* A cell has one below it, except in the last row. *)
LEMMA CellBelow ==
  ASSUME ShellAssumption, NEW k \in Cells, k < Width * (Height - 1)
  PROVE  k + Width \in Cells
<1>1. Width \in Nat \ {0} /\ Height \in Nat \ {0, 1} BY ShellConstants
<1>2. PICK h \in Nat : Height = h + 1 BY <1>1
<1>3. Width * Height = Width * h + Width /\ Width * h \in Nat BY <1>1, <1>2
<1>4. Height - 1 = h BY <1>2
<1> QED BY <1>1, <1>3, <1>4 DEF Cells

(* Writing a cell changes that cell only. *)
LEMMA WriteCell ==
  ASSUME ShellAssumption, NEW s \in Screens, NEW c \in Glyphs,
         NEW t, t = write_color_char_at(s, c)
  PROVE  /\ t \in Screens /\ t.x = s.x /\ t.y = s.y
         /\ t.cells[At(s, s.x)] = c
         /\ \A k \in 0 .. Width : k # s.x => t.cells[At(s, k)] = s.cells[At(s, k)]
<1>1. /\ s.cells \in [Cells -> Glyphs] /\ s.x \in 0 .. Width /\ s.y \in 0 .. Height - 2
  BY DEF Screens
<1>2. \A k \in 0 .. Width : At(s, k) \in Cells BY <1>1, CellsOfRow DEF At
<1>3. t = [s EXCEPT !.cells = [s.cells EXCEPT ![At(s, s.x)] = c]]
  BY DEF write_color_char_at, At, Screens
<1>4. \A k \in 0 .. Width : k # s.x => At(s, k) # At(s, s.x)
  <2>1. s.y \in Nat /\ Width \in Nat BY <1>1, ShellConstants
  <2>2. PICK row \in Nat : row = s.y * Width BY <2>1
  <2>3. \A k : At(s, k) = row + k BY <2>2 DEF At
  <2> QED BY <1>1, <2>1, <2>3
<1>5. [s.cells EXCEPT ![At(s, s.x)] = c] \in [Cells -> Glyphs] BY <1>1
<1>6. t \in Screens /\ t.x = s.x /\ t.y = s.y /\ t.cells = [s.cells EXCEPT ![At(s, s.x)] = c]
  BY <1>3, <1>5 DEF Screens
<1> QED BY <1>1, <1>2, <1>4, <1>6

(* The next row, to which the text may have to scroll. *)
LEMMA AdvanceRow ==
  ASSUME ShellAssumption, NEW s \in Screens, NEW t, t = advance_one_y(s)
  PROVE  t \in Screens /\ t.x = s.x
<1>1. /\ s.cells \in [Cells -> Glyphs] /\ s.x \in 0 .. Width /\ s.y \in 0 .. Height - 2
      /\ Height \in Nat
  BY ShellConstants DEF Screens
<1>2. CASE Scrolls(s)
  <2> DEFINE up == [k \in Cells |->
                      IF k < Width * (Height - 1) THEN s.cells[k + Width] ELSE s.cells[k]]
  <2>1. up \in [Cells -> Glyphs] BY <1>1, CellBelow
  <2>2. t = [s EXCEPT !.cells = up] BY <1>2 DEF advance_one_y
  <2> HIDE DEF up
  <2> QED BY <2>1, <2>2 DEF Screens
<1>3. CASE ~Scrolls(s)
  <2>1. s.y + 1 \in 0 .. Height - 2 BY <1>1, <1>3 DEF Scrolls
  <2>2. t = [s EXCEPT !.y = s.y + 1] BY <1>3 DEF advance_one_y, Screens
  <2> QED BY <2>1, <2>2 DEF Screens
<1> QED BY <1>2, <1>3
(* The cursor goes to the start of a row. *)
LEMMA NewLine ==
  ASSUME ShellAssumption, NEW s \in Screens, NEW t, t = advance_cursor_to_newline(s)
  PROVE  t \in Screens /\ t.x = 0
<1>1. [s EXCEPT !.x = 0] \in Screens /\ [s EXCEPT !.x = 0].x = 0
  BY ShellConstants DEF Screens
<1> QED BY <1>1, AdvanceRow DEF advance_cursor_to_newline

(* A printed character is in its cell, and the cursor behind it. *)
LEMMA PrintGlyph ==
  ASSUME ShellAssumption, NEW s \in Screens, NEW c \in Glyphs, NEW t, t = print_char(s, c)
  PROVE  /\ t \in Screens
         /\ s.x < Width =>
              /\ t.x = s.x + 1 /\ t.y = s.y /\ t.cells[At(s, s.x)] = c
              /\ \A k \in 0 .. Width : k # s.x => t.cells[At(s, k)] = s.cells[At(s, k)]
<1> DEFINE w == write_color_char_at(s, c)
<1>1. c \notin {"newline", "backspace"} BY ShellConstants DEF Glyphs
<1>2. t = advance_one(w) BY <1>1 DEF print_char
<1>3. /\ w \in Screens /\ w.x = s.x /\ w.y = s.y /\ w.cells[At(s, s.x)] = c
      /\ \A k \in 0 .. Width : k # s.x => w.cells[At(s, k)] = s.cells[At(s, k)]
  BY WriteCell
<1> HIDE DEF w
<1>4. CASE s.x < Width
  <2>1. t = [w EXCEPT !.x = w.x + 1] BY <1>2, <1>3, <1>4 DEF advance_one, Screens
  <2>2. w.x + 1 \in 0 .. Width BY <1>3, <1>4, ShellConstants DEF Screens
  <2>3. t \in Screens /\ t.x = w.x + 1 /\ t.y = w.y /\ t.cells = w.cells
    BY <1>3, <2>1, <2>2 DEF Screens
  <2> QED BY <1>3, <2>3
<1>5. CASE ~(s.x < Width)
  <2>1. t = advance_one_y([w EXCEPT !.x = 0]) BY <1>2, <1>3, <1>5 DEF advance_one
  <2>2. [w EXCEPT !.x = 0] \in Screens BY <1>3, ShellConstants DEF Screens
  <2> QED BY <1>5, <2>1, <2>2, AdvanceRow
<1> QED BY <1>4, <1>5
(* A backspace moves the cursor back and touches the cell it gets to only. *)
LEMMA EraseGlyph ==
  ASSUME ShellAssumption, NEW s \in Screens, NEW t, t = print_char(s, "backspace")
  PROVE  /\ t \in Screens
         /\ s.x > 0 =>
              /\ t.x = s.x - 1 /\ t.y = s.y
              /\ \A k \in 0 .. Width : k # s.x - 1 => t.cells[At(s, k)] = s.cells[At(s, k)]
<1> DEFINE b == [s EXCEPT !.x = IF s.x > 0 THEN s.x - 1 ELSE s.x]
<1>1. t = write_color_char_at(b, "blank")
  BY DEF print_char, Backspace, Screens
<1>2. b \in Screens /\ b.x = (IF s.x > 0 THEN s.x - 1 ELSE s.x) /\ b.y = s.y /\ b.cells = s.cells
  BY ShellConstants DEF Screens
<1>3. "blank" \in Glyphs BY DEF Glyphs
<1> HIDE DEF b
<1>4. /\ t \in Screens /\ t.x = b.x /\ t.y = b.y
      /\ \A k \in 0 .. Width : k # b.x => t.cells[At(b, k)] = b.cells[At(b, k)]
  BY <1>1, <1>2, <1>3, WriteCell
<1>5. \A k \in 0 .. Width : At(b, k) = At(s, k) BY <1>2 DEF At
<1> QED BY <1>2, <1>4, <1>5

(* A set of natural numbers that is not empty has a least element. *)
LEMMA LeastNumber ==
  ASSUME NEW S \in SUBSET Nat, S # {}
  PROVE  \E x \in S : \A y \in S : x <= y
<1>1. PICK x \in S : \A y \in S : ~(<<y, x>> \in OpToRel(<, Nat))
  BY WFMin, NatLessThanWellFounded
<1>2. \A y \in S : ~(y < x) BY <1>1 DEF OpToRel
<1> QED BY <1>2

(* f has the screens on which the first n characters of text are printed.  *)
PrintsTo(f, s, text, n) ==
  /\ f \in [0 .. n -> Screens] /\ f[0] = s
  /\ \A k \in 1 .. n : f[k] = print_char(f[k - 1], text[k])
(* There are such screens for every text, by induction on its length. *)
LEMMA PrintedExists ==
  ASSUME ShellAssumption, NEW s \in Screens, NEW text \in Seq(Glyphs)
  PROVE  \E f : PrintsTo(f, s, text, Len(text))
<1> DEFINE S == {n \in 0 .. Len(text) : ~\E f : PrintsTo(f, s, text, n)}
<1>0. Len(text) \in Nat /\ S \in SUBSET Nat OBVIOUS
<1> SUFFICES ASSUME S # {} PROVE FALSE BY <1>0
<1>1. PICK m \in S : \A n \in S : m <= n BY <1>0, LeastNumber
<1>2. m # 0
  <2>1. PrintsTo([k \in 0 .. 0 |-> s], s, text, 0) BY DEF PrintsTo
  <2> QED BY <1>1, <2>1
<1>3. m \in 1 .. Len(text) /\ m - 1 \in 0 .. Len(text) /\ m - 1 \notin S
  BY <1>1, <1>2
<1>4. PICK f : PrintsTo(f, s, text, m - 1) BY <1>3
<1> DEFINE c == print_char(f[m - 1], text[m])
           g == [k \in 0 .. m |-> IF k = m THEN c ELSE f[k]]
<1>5. f[m - 1] \in Screens /\ text[m] \in Glyphs BY <1>3, <1>4 DEF PrintsTo
<1>6. c \in Screens BY <1>5, PrintGlyph
<1> HIDE DEF c
<1>7. g \in [0 .. m -> Screens] /\ g[0] = s
  BY <1>3, <1>4, <1>6 DEF PrintsTo
<1>8. ASSUME NEW k \in 1 .. m PROVE g[k] = print_char(g[k - 1], text[k])
  <2>1. k - 1 \in 0 .. m /\ k - 1 # m /\ k \in 0 .. m BY <1>3
  <2>2. g[k - 1] = f[k - 1] BY <2>1
  <2>3. CASE k = m BY <2>1, <2>2, <2>3 DEF c
  <2>4. CASE k # m
    <3>1. k \in 1 .. m - 1 BY <1>3, <2>4
    <3>2. f[k] = print_char(f[k - 1], text[k]) BY <1>4, <3>1 DEF PrintsTo
    <3> QED BY <2>1, <2>2, <2>4, <3>2
  <2> QED BY <2>3, <2>4
<1> HIDE DEF g
<1>9. PrintsTo(g, s, text, m) BY <1>7, <1>8 DEF PrintsTo
<1> QED BY <1>1, <1>9

(* So the recursion of write has a solution. *)
LEMMA WriteIs ==
  ASSUME ShellAssumption, NEW s \in Screens, NEW text \in Seq(Glyphs)
  PROVE  \E f :
           /\ f = [n \in 0 .. Len(text) |->
                     IF n = 0 THEN s ELSE print_char(f[n - 1], text[n])]
           /\ write(s, text) = f[Len(text)]
<1> DEFINE Step(f) == [n \in 0 .. Len(text) |->
                         IF n = 0 THEN s ELSE print_char(f[n - 1], text[n])]
           p == CHOOSE f : f = Step(f)
<1>1. PICK f : PrintsTo(f, s, text, Len(text)) BY PrintedExists
<1>2. f = [n \in 0 .. Len(text) |-> f[n]] BY <1>1 DEF PrintsTo
<1>3. \A n \in 0 .. Len(text) :
        f[n] = IF n = 0 THEN s ELSE print_char(f[n - 1], text[n])
  <2>1. \A n \in 0 .. Len(text) : n # 0 => n \in 1 .. Len(text) OBVIOUS
  <2> QED BY <1>1, <2>1 DEF PrintsTo
<1>4. f = Step(f) BY <1>2, <1>3
<1>5. p = Step(p)
  <2> HIDE DEF Step
  <2> QED BY <1>4
<1>6. write(s, text) = p[Len(text)] BY DEF write
<1> HIDE DEF p
<1> QED BY <1>5, <1>6

(* So any text leaves a screen a screen. *)
LEMMA WriteText ==
  ASSUME ShellAssumption, NEW s \in Screens, NEW text \in Seq(Glyphs)
  PROVE  write(s, text) \in Screens
<1>1. PICK f : /\ f = [n \in 0 .. Len(text) |->
                         IF n = 0 THEN s ELSE print_char(f[n - 1], text[n])]
               /\ write(s, text) = f[Len(text)]
  BY WriteIs
<1>2. \A n \in 0 .. Len(text) : f[n] = IF n = 0 THEN s ELSE print_char(f[n - 1], text[n])
  BY <1>1
<1> DEFINE S == {n \in 0 .. Len(text) : f[n] \notin Screens}
<1>3. ASSUME S # {} PROVE FALSE
  <2>0. S \in SUBSET Nat OBVIOUS
  <2>1. PICK m \in S : \A n \in S : m <= n BY <1>3, <2>0, LeastNumber
  <2>2. m # 0 BY <1>2, <2>1
  <2>3. m \in 1 .. Len(text) /\ m - 1 \in 0 .. Len(text) /\ m - 1 \notin S BY <2>1, <2>2
  <2>4. f[m] = print_char(f[m - 1], text[m]) BY <1>2, <2>2, <2>3
  <2>5. f[m - 1] \in Screens /\ text[m] \in Glyphs BY <2>3
  <2> QED BY <2>1, <2>4, <2>5, PrintGlyph
<1>4. Len(text) \in 0 .. Len(text) OBVIOUS
<1> QED BY <1>1, <1>3, <1>4
(* The prompt is one character. *)
LEMMA PromptIs ==
  ASSUME ShellAssumption, NEW s \in Screens
  PROVE  Prompt(s) = print_char(s, ">")
<1> DEFINE text == <<">">>
<1>1. text \in Seq(Glyphs) /\ Len(text) = 1 /\ text[1] = ">" BY DEF Glyphs
<1>2. PICK f : /\ f = [n \in 0 .. Len(text) |->
                         IF n = 0 THEN s ELSE print_char(f[n - 1], text[n])]
               /\ write(s, text) = f[Len(text)]
  BY <1>1, WriteIs
<1>3. \A n \in 0 .. Len(text) : f[n] = IF n = 0 THEN s ELSE print_char(f[n - 1], text[n])
  BY <1>2
<1> HIDE DEF text
<1>4. f[0] = s /\ f[1] = print_char(f[0], ">") BY <1>1, <1>3
<1> QED BY <1>1, <1>2, <1>4 DEF Prompt, text

(* The row of the cursor shows the prompt and a text. *)
Shows(s, text) ==
  /\ s.x = Len(text) + 1 /\ s.cells[At(s, 0)] = ">"
  /\ \A k \in 1 .. Len(text) : s.cells[At(s, k)] = text[k]
ScreenInv ==
  /\ screen \in Screens
  /\ machine = "ok" /\ wrapped = "no" => Shows(screen, typed)
ShellInv == LineInv /\ ScreenInv

(* What the property says of the row, cell by cell. *)
LEMMA ShowsIsRow ==
  ASSUME ShellAssumption, LineInv, screen \in Screens, Shows(screen, typed)
  PROVE  /\ screen.x = Len(typed) + 1
         /\ SubSeq(Row(screen, screen.y), 1, screen.x) = <<">">> \o typed
<1>1. /\ typed \in Seq(Printable) /\ Len(typed) \in Nat /\ screen.x = Len(typed) + 1
      /\ screen.x <= Width /\ Width \in Nat /\ screen.y \in Nat
  BY ShellConstants DEF LineInv, Shows, Screens
<1> DEFINE r == Row(screen, screen.y)
<1>2. PICK row \in Nat : row = screen.y * Width BY <1>1
<1>3. /\ DOMAIN r = 1 .. Width
      /\ \A k \in 1 .. Width : r[k] = screen.cells[At(screen, k - 1)]
  BY <1>1, <1>2 DEF Row, At
<1>4. r[1] = ">" /\ \A k \in 2 .. Len(typed) + 1 : r[k] = typed[k - 1]
  <2>1. r[1] = ">" BY <1>1, <1>3 DEF Shows
  <2>2. ASSUME NEW k \in 2 .. Len(typed) + 1 PROVE r[k] = typed[k - 1]
    <3>1. k \in 1 .. Width /\ k - 1 \in 1 .. Len(typed) BY <1>1
    <3> QED BY <1>3, <3>1 DEF Shows
  <2> QED BY <2>1, <2>2
<1> HIDE DEF r
<1>5. SubSeq(r, 1, screen.x) = [k \in 1 .. Len(typed) + 1 |-> r[k]]
  BY <1>1, <1>3
<1>6. <<">">> \o typed = [k \in 1 .. Len(typed) + 1 |-> IF k = 1 THEN ">" ELSE typed[k - 1]]
  BY <1>1
<1>7. \A k \in 1 .. Len(typed) + 1 : r[k] = IF k = 1 THEN ">" ELSE typed[k - 1]
  BY <1>1, <1>4
<1>8. SubSeq(r, 1, screen.x) = <<">">> \o typed BY <1>5, <1>6, <1>7
<1> QED BY <1>1, <1>8 DEF r

(* The prompt on an empty row. *)
LEMMA PromptShows ==
  ASSUME ShellAssumption, NEW s \in Screens, s.x = 0
  PROVE  Prompt(s) \in Screens /\ Shows(Prompt(s), <<>>)
<1>1. ">" \in Glyphs /\ s.x < Width /\ Len(<<>>) = 0 BY ShellConstants DEF Glyphs
<1> DEFINE t == print_char(s, ">")
<1>2. t \in Screens /\ t.x = 1 /\ t.y = s.y /\ t.cells[At(s, 0)] = ">"
  BY <1>1, PrintGlyph
<1> HIDE DEF t
<1>3. At(t, 0) = At(s, 0) BY <1>2 DEF At
<1>4. Shows(t, <<>>) BY <1>1, <1>2, <1>3 DEF Shows
<1> QED BY <1>2, <1>4, PromptIs DEF t

(* A character that is typed is echoed behind the line. *)
LEMMA ScreenInsert ==
  ASSUME ShellAssumption, ShellInv, machine = "ok",
         NEW code \in Letters, Insert(code)
  PROVE  ScreenInv'
<1> DEFINE c == Typed(code)
<1>1. /\ typed \in Seq(Printable) /\ Len(typed) \in Nat /\ screen \in Screens
      /\ c \in Printable /\ c \in Glyphs
  BY TypedIsPrintable DEF ShellInv, LineInv, ScreenInv, Glyphs
<1>2. /\ typed' = Append(typed, c) /\ screen' = print_char(screen, c)
      /\ wrapped' = IF screen.x < Width THEN wrapped ELSE "yes"
  BY DEF Insert, Typed
<1> HIDE DEF c
<1>3. screen' \in Screens BY <1>1, <1>2, PrintGlyph
<1>4. ASSUME wrapped' = "no" PROVE Shows(screen', typed')
  <2>1. screen.x < Width /\ Shows(screen, typed) BY <1>2, <1>4 DEF ShellInv, ScreenInv
  <2>2. /\ screen'.x = screen.x + 1 /\ screen'.y = screen.y
        /\ screen'.cells[At(screen, screen.x)] = c
        /\ \A k \in 0 .. Width : k # screen.x =>
             screen'.cells[At(screen, k)] = screen.cells[At(screen, k)]
    BY <1>1, <1>2, <2>1, PrintGlyph
  <2>3. \A k : At(screen', k) = At(screen, k) BY <2>2 DEF At
  <2>4. /\ Len(typed') = Len(typed) + 1 /\ typed'[Len(typed) + 1] = c
        /\ \A k \in 1 .. Len(typed) : typed'[k] = typed[k]
    BY <1>1, <1>2
  <2>5. screen.x = Len(typed) + 1 /\ screen'.x = Len(typed') + 1 /\ Width \in Nat
    BY <2>1, <2>2, <2>4, ShellConstants DEF Shows
  <2>6. screen'.cells[At(screen', 0)] = ">" BY <1>1, <2>1, <2>2, <2>3, <2>5 DEF Shows
  <2>7. ASSUME NEW k \in 1 .. Len(typed') PROVE screen'.cells[At(screen', k)] = typed'[k]
    <3>1. CASE k = Len(typed) + 1 BY <2>2, <2>3, <2>4, <2>5, <3>1
    <3>2. CASE k # Len(typed) + 1
      <4>1. k \in 1 .. Len(typed) /\ k \in 0 .. Width /\ k # screen.x
        BY <1>1, <2>1, <2>4, <2>5, <3>2
      <4> QED BY <2>1, <2>2, <2>3, <2>4, <4>1 DEF Shows
    <3> QED BY <3>1, <3>2
  <2> QED BY <2>5, <2>6, <2>7 DEF Shows
<1> QED BY <1>3, <1>4 DEF ScreenInv
(* A backspace takes the last character off the row. *)
LEMMA ScreenErase ==
  ASSUME ShellAssumption, ShellInv, machine = "ok", Erase
  PROVE  ScreenInv'
<1>1. /\ typed \in Seq(Printable) /\ Len(typed) \in Nat \ {0} /\ screen \in Screens
  BY DEF ShellInv, LineInv, ScreenInv, Erase, Removable
<1>2. /\ typed' = SubSeq(typed, 1, Len(typed) - 1) /\ wrapped' = wrapped
      /\ screen' = print_char(screen, "backspace")
  BY DEF Erase, AllButLast
<1>0. /\ typed' \in Seq(Printable) /\ Len(typed') = Len(typed) - 1
      /\ \A k \in 1 .. Len(typed) - 1 : typed'[k] = typed[k]
  <2>1. typed \in Seq(Printable) /\ Len(typed) # 0 BY <1>1
  <2>2. typed' = SubSeq(typed, 1, Len(typed) - 1) BY <1>2
  <2> QED BY <2>1, <2>2, Shorter, Zenon
<1>3. screen' \in Screens BY <1>1, <1>2, EraseGlyph
<1>4. ASSUME wrapped' = "no" PROVE Shows(screen', typed')
  <2>1. Shows(screen, typed) /\ Width \in Nat
    BY <1>2, <1>4, ShellConstants DEF ShellInv, ScreenInv
  <2>2. screen.x = Len(typed) + 1 /\ screen.x > 0 /\ screen.x \in 0 .. Width
    BY <1>1, <2>1 DEF Shows, Screens
  <2>3. /\ screen'.x = screen.x - 1 /\ screen'.y = screen.y
        /\ \A k \in 0 .. Width : k # screen.x - 1 =>
             screen'.cells[At(screen, k)] = screen.cells[At(screen, k)]
    BY <1>1, <1>2, <2>2, EraseGlyph
  <2>4. \A k : At(screen', k) = At(screen, k) BY <2>3 DEF At
  <2>6. screen'.x = Len(typed') + 1 BY <1>1, <2>2, <2>3, <1>0
  <2>7. screen'.cells[At(screen', 0)] = ">" BY <1>1, <2>1, <2>2, <2>3, <2>4 DEF Shows
  <2>8. ASSUME NEW k \in 1 .. Len(typed') PROVE screen'.cells[At(screen', k)] = typed'[k]
    <3>1. /\ k \in 1 .. Len(typed) /\ k \in 1 .. Len(typed) - 1 /\ k \in 0 .. Width
          /\ k # screen.x - 1
      BY <1>1, <2>1, <2>2, <1>0
    <3> QED BY <2>1, <2>3, <2>4, <1>0, <3>1 DEF Shows
  <2> QED BY <2>6, <2>7, <2>8 DEF Shows
<1> QED BY <1>3, <1>4 DEF ScreenInv
(* Enter leaves a prompt, whatever the command prints. *)
LEMMA ScreenEnter ==
  ASSUME ShellAssumption, ShellInv, Enter
  PROVE  ScreenInv'
<1> DEFINE s == advance_cursor_to_newline(screen)
<1>1. s \in Screens /\ s.x = 0 BY NewLine DEF ShellInv, ScreenInv
<1>2. Text \in Seq(Glyphs)
  BY LineIsExecuted DEF ShellInv, Glyphs
<1>3. Output(Text) \in Seq(Glyphs)
  <2>1. <<"o">> \in Seq(Glyphs) BY DEF Glyphs
  <2> QED BY <1>2, <2>1 DEF Output
<1> DEFINE p == puts(s, Output(Text))
<1>4. p \in Screens /\ p.x = 0
  BY <1>1, <1>3, WriteText, NewLine DEF puts
<1>5. Home \in Screens /\ Home.x = 0
  BY ShellConstants DEF Home, Screens, Glyphs
<1>6. Command(Text, s) /\ typed' = <<>> BY DEF Enter, Text
<1> HIDE DEF s, p
<1>7. CASE Text = <<"q">>
  <2>1. <<"q">> # <<"c">> /\ <<"q">> # <<"t">> OBVIOUS
  <2>2. screen' = s /\ machine' = "off" BY <1>6, <1>7, <2>1 DEF Command, Prints
  <2> QED BY <1>1, <2>2 DEF ScreenInv
<1>8. CASE Text # <<"q">>
  <2>1. screen' \in {Prompt(Home), Prompt(s), Prompt(p)}
    BY <1>6, <1>8 DEF Command, Prints, p
  <2>2. screen' \in Screens /\ Shows(screen', <<>>)
    BY <1>1, <1>4, <1>5, <2>1, PromptShows
  <2> QED BY <1>6, <2>2 DEF ScreenInv
<1> QED BY <1>7, <1>8

(* Every key keeps the line in the buffer and on the screen. *)
LEMMA ShellKey ==
  ASSUME ShellAssumption, ShellInv, NEW code, NEW pressed, handle_key_event(code, pressed)
  PROVE  ShellInv'
<1>1. LineInv' BY LineKey DEF ShellInv
<1>2. machine = "ok" BY DEF handle_key_event
<1>3. CASE UNCHANGED <<screen, typed, machine, wrapped>>
  BY <1>1, <1>3 DEF ShellInv, ScreenInv, Shows, At
<1>4. CASE Shift(pressed) BY <1>1, <1>3, <1>4 DEF Shift, ShellInv
<1>5. CASE UNCHANGED vars BY <1>1, <1>3, <1>5 DEF vars, ShellInv
<1>6. CASE Enter BY <1>1, <1>6, ScreenEnter DEF ShellInv
<1>7. CASE code \in Letters /\ Insert(code)
  BY <1>1, <1>2, <1>7, ScreenInsert DEF ShellInv
<1>8. CASE Erase BY <1>1, <1>2, <1>8, ScreenErase DEF ShellInv
<1> QED BY <1>4, <1>5, <1>6, <1>7, <1>8 DEF handle_key_event

(* The shell begins with an empty line on an empty screen. *)
LEMMA ShellBegins ==
  ASSUME ShellAssumption, Init
  PROVE  LineInv /\ screen \in Screens /\ screen.x = 0 /\ typed = <<>>
<1>1. LineInv BY LineEmpty DEF Init
<1>2. Home \in Screens /\ Home.x = 0 BY ShellConstants DEF Home, Screens, Glyphs
<1> QED BY <1>1, <1>2 DEF Init

(* The invariant has both properties of the shell. *)
LEMMA ShellIsCorrect ==
  ASSUME ShellAssumption, ShellInv PROVE ExecutesWhatWasTyped /\ ShowsLine
<1>1. ExecutesWhatWasTyped BY LineIsExecuted DEF ShellInv
<1>2. ShowsLine BY ShowsIsRow DEF ShellInv, ScreenInv, ShowsLine
<1> QED BY <1>1, <1>2
=============================================================================
