------------------------------ MODULE MCConsole ------------------------------
(* Names of two characters, extensions of one; two files and a directory.  *)
(* A digit that is typed stands for a path.                                *)
EXTENDS Console

MCNames == {<<"A", "B", " ">>, <<"A", "B", "A">>}
MCDirNames == {<<"D", " ", " ">>}
MCPaths == <<
  <<"/", "a", "b">>, <<"/", "A", "b", ".", "a">>, <<"/", "a", "b", ".">>,
  <<"/", "b">>, <<"/", "b", ".", "a">>, <<"/", ".", "a">>, <<"/">>, <<"a", "b">>,
  <<"/", "d">>, <<"/", "d", "/", "a", "b">>, <<"/", "a", "b", "/", "a">>,
  <<"/", "a", "b", "b", ".", "a">>, <<"/", "a", "b", "a">> >>
Digits == <<"1", "2", "3", "4", "5", "6", "7", "8", "9", "10", "11", "12", "13">>
MCSpelling ==
  [l \in {"h", "c", "r", "q", "t"} \cup ToSet(Digits) |->
     IF l \in ToSet(Digits)
     THEN MCPaths[CHOOSE i \in DOMAIN Digits : Digits[i] = l] ELSE <<l>>]

(* The directory is between the files. The kernel's file is the first one  *)
(* of the directory if it is the first one of the disk.                    *)
Kernel == <<"A", "B", " ">>
MCDisksTried ==
  {d \in Fs!Disks : /\ d.root[2].name = <<"D", " ", " ">>
                    /\ d.root[1].name = Kernel <=> d.layout[Kernel][1] = 2}
MCFastDisk == CHOOSE d \in MCDisksTried :
  Len(d.layout[Kernel]) = 1 /\ Len(d.layout[<<"A", "B", "A">>]) = 2

Press(code) == Key(code, "yes")
MCCatScripts == {<<Press("r"), Press(d), Press("newline")>> : d \in ToSet(Digits)}
MCScripts == MCCatScripts \cup {
  <<Press("q"), Press("newline")>>,
  <<Press("c"), Press("newline"), Press("backspace"), Press("h"), Press("newline")>>,
  <<Press("shift"), Press("t"), Key("shift", "no"), Press("backspace"), Press("newline")>>,
  <<Press("t"), Press("t"), Press("t"), Press("backspace"), Press("newline")>>,
  <<Press("t"), Press("newline"), Press("t"), Key("t", "no"), Press("newline")>>,
  <<Press("h"), Press("backspace"), Press("t"), Press("newline")>> }
=============================================================================
