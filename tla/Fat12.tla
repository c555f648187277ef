-------------------------------- MODULE Fat12 --------------------------------
(***************************************************************************)
(* A FAT12 disk, as the build writes it and both readers of it see it: the *)
(* boot loader (module BootDisk) and the kernel (module Fat).  Sectors are *)
(* named by their numbers; the table of clusters is kept in its bytes,     *)
(* where an entry takes one and a half of them.                            *)
(***************************************************************************)
EXTENDS Integers, Sequences, FiniteSets, Functions

CONSTANTS
  BytesPerSector,   \* BYTES_PER_SECTOR
  EntryBytes,       \* sizeof(directory_entry)
  Reserved,         \* num_of_reserved_sectors
  NumFats,          \* num_of_fats
  SectorsPerFat,    \* sectors_per_fat
  RootEntries,      \* num_of_directory_entries
  NumClusters,      \* clusters of the disk, the first one is 2
  Names,            \* names of the files: name and extension, filled with blanks
  DirNames          \* names of the directories

Fat12Assumption ==
  /\ {BytesPerSector, EntryBytes, Reserved, NumFats, SectorsPerFat, RootEntries,
      NumClusters} \subseteq Nat \ {0}
  /\ (RootEntries * EntryBytes) % BytesPerSector = 0
  /\ 3 * (NumClusters + 2) <= 2 * SectorsPerFat * BytesPerSector
  /\ Cardinality(Names \cup DirNames) <= RootEntries

EndOfChain == 4088                     \* 0xFF8
Clusters == 2 .. NumClusters + 1

(* A directory entry. An entry that is not used is all zeroes. *)
entry(name, attributes, first, size) ==
  [name |-> name, attributes |-> attributes, first |-> first, size |-> size]
Unused == entry(<<>>, "", 0, 0)

(* The files have one to three clusters, in any order; the entries of the  *)
(* files and directories in the root directory have any order, too.        *)
Chains == UNION {Injection(1..n, Clusters) : n \in 1..3}
Layouts ==
  {f \in [Names -> Chains] :
     \A m, n \in Names : m # n => Range(f[m]) \cap Range(f[n]) = {}}

EntryOf(layout, n) ==
  IF n \in DirNames THEN entry(n, "directory", 0, 0)
  ELSE entry(n, "archive", layout[n][1], Len(layout[n]) * BytesPerSector - 1)
Disk(layout, order) ==
  [layout |-> layout,
   root |-> [i \in 1 .. RootEntries |->
               IF i <= Len(order) THEN EntryOf(layout, order[i]) ELSE Unused]]
Disks ==
  LET names == Names \cup DirNames
  IN {Disk(layout, order) :
        layout \in Layouts, order \in Bijection(1 .. Cardinality(names), names)}

-----------------------------------------------------------------------------
(* The table: what follows a cluster of a file, and how it is stored. *)
NextInChain(chain, c) ==
  LET i == CHOOSE i \in DOMAIN chain : chain[i] = c
  IN IF i = Len(chain) THEN 4095 ELSE chain[i + 1]
FatEntry(disk, c) ==
  IF c = 0 THEN 4080 ELSE IF c = 1 THEN 4095
  ELSE IF \E n \in Names : c \in Range(disk.layout[n])
  THEN NextInChain(disk.layout[CHOOSE n \in Names : c \in Range(disk.layout[n])], c)
  ELSE 0

Nibble(disk, i) == (FatEntry(disk, i \div 3) \div 16^(i % 3)) % 16
FatByte(disk, o) == Nibble(disk, 2 * o) + 16 * Nibble(disk, 2 * o + 1)

(* The byte i of a sector of one of the copies of the table. *)
SectorByte(disk, lba, i) ==
  FatByte(disk, ((lba - Reserved) % SectorsPerFat) * BytesPerSector + i)

(* The root directory follows the tables, the clusters follow it. *)
RootStart == Reserved + NumFats * SectorsPerFat
EntriesPerSector == BytesPerSector \div EntryBytes
RootSectors == RootEntries \div EntriesPerSector
EntryAt(disk, lba, k) == disk.root[(lba - RootStart) * EntriesPerSector + k]
DataSector(c) == RootStart + RootSectors + c - 2

(* The sectors a file is stored in, in the order of its contents. *)
FileSectors(disk, n) == [i \in DOMAIN disk.layout[n] |-> DataSector(disk.layout[n][i])]
=============================================================================
