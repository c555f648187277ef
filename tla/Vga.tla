-------------------------------- MODULE Vga --------------------------------
(***************************************************************************)
(* The text screen of vga.cpp as functions on a screen: the cells of the   *)
(* VGA memory and the cursor.  A cell holds a character; its colors are    *)
(* left out.                                                               *)
(***************************************************************************)
EXTENDS Naturals, Sequences

CONSTANTS
  Width, Height  \* SCREEN_WIDTH, SCREEN_HEIGHT

VgaAssumption == Width \in Nat \ {0} /\ Height \in Nat \ {0, 1}

Cells == 0 .. Width * Height - 1

(* "newline", "backspace" and "blank" are those characters; a character   *)
(* other than the first two is printed.                                    *)
Home == [cells |-> [i \in Cells |-> "blank"], x |-> 0, y |-> 0]

(* Past the end of a row is the first cell of the next one. *)
write_color_char_at(s, c) == [s EXCEPT !.cells[s.y * Width + s.x] = c]

(* The last row is left out: the text scrolls when it would reach it. *)
Scrolls(s) == s.y + 1 = Height - 1

advance_one_y(s) ==
  IF Scrolls(s)
  THEN [s EXCEPT !.cells = [i \in Cells |->
          IF i < Width * (Height - 1) THEN s.cells[i + Width] ELSE s.cells[i]]]
  ELSE [s EXCEPT !.y = @ + 1]

advance_one(s) ==
  IF s.x < Width THEN [s EXCEPT !.x = @ + 1]
                 ELSE advance_one_y([s EXCEPT !.x = 0])

advance_cursor_to_newline(s) == advance_one_y([s EXCEPT !.x = 0])

BackspaceKeepsCursor(s) == write_color_char_at(s, "blank")
Backspace(s) ==
  write_color_char_at([s EXCEPT !.x = IF @ > 0 THEN @ - 1 ELSE @], "blank")

print_char(s, c) ==
  CASE c = "newline" -> advance_cursor_to_newline(s)
    [] c = "backspace" -> Backspace(s)
    [] OTHER -> advance_one(write_color_char_at(s, c))

(* string::write_impl and string::puts; string::print is write. *)
write(s, text) ==
  LET printed[n \in 0 .. Len(text)] ==
        IF n = 0 THEN s ELSE print_char(printed[n - 1], text[n])
  IN printed[Len(text)]
puts(s, text) == advance_cursor_to_newline(write(s, text))

(* Row r of the screen. *)
Row(s, r) == [i \in 1 .. Width |-> s.cells[r * Width + i - 1]]
=============================================================================
