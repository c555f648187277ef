--------------------------------- MODULE Fat ---------------------------------
(***************************************************************************)
(* The kernel's file system (filesystem.cpp): init reads the boot sector   *)
(* and the root directory, read_file resolves a path and follows the       *)
(* cluster chain, reading the table two sectors at a time.  An action that *)
(* reads is the end of read_floppy_or_fail (module Floppy), which panics   *)
(* when the read fails.                                                    *)
(*                                                                         *)
(* A name has NameSize characters and an extension of ExtSize, which stand *)
(* for eight and three.  A buffer is the sequence of the sectors that were *)
(* read into it.                                                           *)
(***************************************************************************)
EXTENDS Fat12

CONSTANTS
  NameSize, ExtSize,  \* file_name_size, file_extension_size
  SectorsPerPage      \* what the heap rounds a buffer up to

VARIABLES
  disk,               \* the disk in the drive
  pc,                 \* "bpb", "root", "kernel", "idle", "resolve" or "read"
  root_dir,           \* the entries in memory, at most RootEntries
  path,               \* path, of the current call or the last one
  file,               \* file_entry
  cluster,            \* cluster
  loaded_fat_sector,  \* loaded_fat_sector
  fat,                \* fat: the numbers of the two sectors it holds
  buffer,             \* buffer
  result,             \* what read_file returned: "none", "null", "buffer"
  machine             \* "ok", or the assertion that stopped the machine

vars == <<disk, pc, root_dir, path, file, cluster, loaded_fat_sector, fat, buffer,
          result, machine>>

Init ==
  /\ pc = "bpb" /\ root_dir = <<>> /\ path = <<>> /\ file = Unused
  /\ cluster = 0 /\ loaded_fat_sector = 0 /\ fat = <<0, 0>> /\ buffer = <<>>
  /\ result = "none" /\ machine = "ok"

-----------------------------------------------------------------------------
(* read_next_fragment, from the position rest of path p on. Positions      *)
(* beyond the path are its terminating zero. A dot anywhere in the rest of *)
(* the path ends the name.                                                 *)
Upper == [a |-> "A", b |-> "B", d |-> "D"]
toupper(c) == IF c \in DOMAIN Upper THEN Upper[c] ELSE c

Find(p, rest, c) == {i \in rest .. Len(p) : p[i] = c}
Least(S) == CHOOSE i \in S : \A j \in S : i <= j

Padded(p, from, to, size) ==
  [i \in 1..size |-> IF from + i - 1 < to THEN toupper(p[from + i - 1]) ELSE " "]
Sooner(a, b) == IF a < b THEN a ELSE b

ExtensionFrom(rest, dots) == rest
AfterName(rest, dots) == IF dots = {} THEN rest ELSE rest + 1

read_next_fragment(p, rest) ==
  LET dots == Find(p, rest, ".")
      end == Least(Find(p, rest, "/") \cup {Len(p) + 1})
      name_end == Sooner(Least(dots \cup {end}), end)
      after == Sooner(rest + NameSize, name_end)
      ext == AfterName(after, dots)
  IN [fragment |-> Padded(p, rest, after, NameSize) \o Padded(p, ext, end, ExtSize),
      rest |-> IF ext >= end THEN ext ELSE Sooner(ext + ExtSize, end),
      machine |-> IF dots # {} /\ after # Least(dots) THEN "skipped_dot" ELSE "ok"]

(* resolve_path: the entry number i of the directory that starts at the    *)
(* entry base, "null" behind the last one. A directory is searched from    *)
(* its own entry on, as if the entries behind it were in it.               *)
EntryIn(base, i) == IF base + i <= Len(root_dir) THEN root_dir[base + i] ELSE Unused
Found(e, why) == [entry |-> e, machine |-> why]

Search[base \in 0 .. RootEntries, i \in 1 .. RootEntries + 1,
       next \in [fragment : Seq(STRING), rest : Nat, machine : STRING]] ==
  IF next.machine # "ok" THEN Found(Unused, next.machine)
  ELSE IF i > RootEntries THEN Found(Unused, "ok")
  ELSE LET e == EntryIn(base, i) IN
       IF e.name # next.fragment THEN Search[base, i + 1, next]
       ELSE IF next.rest > Len(path)
       THEN Found(e, IF e.attributes = "directory" THEN "file_is_directory" ELSE "ok")
       ELSE IF e.attributes # "directory" THEN Found(e, "fragment_not_directory")
       ELSE Search[base + i - 1, 2, read_next_fragment(path, next.rest)]

resolve_path ==
  IF path = <<>> \/ path[1] # "/" THEN Found(Unused, "not_rooted")
  ELSE Search[0, 1, read_next_fragment(path, 2)]

-----------------------------------------------------------------------------
read_boot_param_block ==
  /\ pc = "bpb"
  /\ pc' = "root"
  /\ UNCHANGED <<disk, root_dir, path, file, cluster, loaded_fat_sector, fat, buffer,
                 result, machine>>

root_directory_sector == Reserved + SectorsPerFat * NumFats
root_directory_sector_count == (EntryBytes * RootEntries) \div BytesPerSector

LoadSectors(lba, n) ==
  [i \in 1 .. n * EntriesPerSector |-> EntryAt(disk, lba, i)]

read_root_directory ==
  /\ pc = "root"
  /\ pc' = "kernel"
  /\ root_dir' = LoadSectors(root_directory_sector, root_directory_sector_count)
  /\ path' = <<"/", "a", "b">>
  /\ UNCHANGED <<disk, file, cluster, loaded_fat_sector, fat, buffer, result, machine>>

(* init's last step, which asserts that the kernel's file is found. *)
FindKernel ==
  /\ pc = "kernel"
  /\ pc' = "idle"
  /\ machine' = IF resolve_path.machine # "ok" THEN resolve_path.machine
                ELSE IF resolve_path.entry = Unused THEN "no_kernel" ELSE "ok"
  /\ UNCHANGED <<disk, root_dir, path, file, cluster, loaded_fat_sector, fat, buffer,
                 result>>

-----------------------------------------------------------------------------
(* The call of read_file. *)
Call(p) ==
  /\ pc = "idle"
  /\ path' = p
  /\ result' = "none"
  /\ pc' = "resolve"
  /\ UNCHANGED <<disk, root_dir, file, cluster, loaded_fat_sector, fat, buffer, machine>>

(* read_file up to its loop: the variables of the loop are new. *)
Resolve ==
  /\ pc = "resolve"
  /\ LET found == resolve_path IN
     /\ machine' = found.machine
     /\ file' = found.entry
     /\ IF found.machine = "ok" /\ found.entry = Unused
        THEN result' = "null" /\ pc' = "idle" /\ UNCHANGED cluster
        ELSE cluster' = found.entry.first /\ pc' = "read" /\ UNCHANGED result
  /\ buffer' = <<>>
  /\ loaded_fat_sector' = 0
  /\ UNCHANGED <<disk, root_dir, path, fat>>

fat_offset == cluster + cluster \div 2
fat_sector == Reserved + fat_offset \div BytesPerSector
entry_offset == fat_offset % BytesPerSector

num_of_root_dir_sectors ==
  LET size == RootEntries * EntryBytes
  IN size \div BytesPerSector + IF size % BytesPerSector # 0 THEN 1 ELSE 0
next_data_sector ==
  cluster - 2 + Reserved + SectorsPerFat * NumFats + num_of_root_dir_sectors

(* The table's sectors in memory while a cluster is handled. *)
LoadFat == <<fat_sector, fat_sector + 1>>

ByteAt(o) == SectorByte(disk, fat[o \div BytesPerSector + 1], o % BytesPerSector)
fat_value == ByteAt(entry_offset) + 256 * ByteAt(entry_offset + 1)
NextCluster(value) == IF cluster % 2 = 1 THEN value \div 16 ELSE value % 4096

(* An iteration of read_file's loop: the table, if it is needed, then the  *)
(* cluster.                                                                *)
MoreClusters == cluster <= 4095
HasCluster == cluster < EndOfChain
FatIsLoaded == fat_sector = loaded_fat_sector

ReadFat ==
  /\ pc = "read" /\ HasCluster /\ ~FatIsLoaded
  /\ fat' = LoadFat
  /\ loaded_fat_sector' = fat_sector
  /\ UNCHANGED <<disk, pc, root_dir, path, file, cluster, buffer, result, machine>>

ReadCluster ==
  /\ pc = "read" /\ HasCluster /\ FatIsLoaded
  /\ buffer' = Append(buffer, next_data_sector)
  /\ cluster' = NextCluster(fat_value)
  /\ UNCHANGED <<disk, pc, root_dir, path, file, loaded_fat_sector, fat, result, machine>>

(* How many sectors are read next; 0 when none is. *)
SectorsWanted ==
  CASE machine # "ok" -> 0
    [] machine = "ok" /\ pc = "bpb" -> 1
    [] machine = "ok" /\ pc = "root" -> root_directory_sector_count
    [] machine = "ok" /\ pc = "read" /\ HasCluster -> IF FatIsLoaded THEN 1 ELSE 2
    [] OTHER -> 0

Return ==
  /\ pc = "read" /\ ~HasCluster
  /\ result' = "buffer"
  /\ pc' = "idle"
  /\ UNCHANGED <<disk, root_dir, path, file, cluster, loaded_fat_sector, fat, buffer,
                 machine>>

-----------------------------------------------------------------------------
(* The path as it is meant: "/name" or "/name.ext", within the sizes. *)
Parts(p) ==
  {part \in [name : 0 .. NameSize, ext : -1 .. ExtSize] :
     /\ Len(p) = 1 + part.name + (part.ext + 1)
     /\ \A i \in 2 .. part.name + 1 : p[i] \notin {".", "/"}
     /\ part.ext >= 0 =>
          /\ p[part.name + 2] = "."
          /\ \A i \in part.name + 3 .. Len(p) : p[i] \notin {".", "/"}}
FullName(p, part) ==
  Padded(p, 2, part.name + 2, NameSize)
    \o Padded(p, part.name + 3, part.name + 3 + part.ext, ExtSize)

(* The whole sectors that are read never go beyond the pages that the heap *)
(* gives a buffer of the file's size.                                      *)
PageBytes == SectorsPerPage * BytesPerSector
ReadsStayInBuffer ==
  Len(buffer) * BytesPerSector <=
    ((file.size + PageBytes - 1) \div PageBytes) * PageBytes
=============================================================================
