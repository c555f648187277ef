------------------------------ MODULE BootDisk -------------------------------
(***************************************************************************)
(* The boot loader's way from the BIOS to a kernel image in low memory:    *)
(* stage1.asm reads stage 2, stage2.asm sets up the memory it allocates    *)
(* from, memory_map.asm asks the BIOS for the memory map, fat.asm reads    *)
(* the root directory, the table of clusters and the kernel, with          *)
(* read_floppy.asm and allocator.asm.  Addresses are bytes, memory is kept *)
(* in units of a sector: the number of the sector that was read to it, or  *)
(* what else is there.                                                     *)
(***************************************************************************)
EXTENDS Fat12

CONSTANTS
  PageBytes,       \* PAGE_SIZE
  SegmentBytes,    \* bytes es:di reaches from a page: 64 KiB
  LbaRange,        \* values of the register that holds the LBA: 256
  SectorsPerTrack, NumHeads,
  Stage2Base,      \* 0x700
  LowMems,         \* the sizes of low memory a BIOS may report
  MapEntryBytes,   \* SIZE_OF_MEMORY_MAP_ENTRY
  MaxMapEntries,   \* bound: entries of the BIOS's memory map
  KernelName,      \* kernel_name, the first characters of its directory entry
  KernelFirst      \* is the kernel's entry the first one, as in the image built

BootDiskAssumption ==
  /\ PageBytes % BytesPerSector = 0 /\ SegmentBytes % PageBytes = 0
  /\ Stage2Base \in Nat /\ Stage2Base % BytesPerSector = 0
  /\ LowMems # {} /\ LowMems \subseteq Nat /\ \A m \in LowMems : m % BytesPerSector = 0
  /\ {PageBytes, SegmentBytes, LbaRange, SectorsPerTrack, NumHeads, MapEntryBytes,
      MaxMapEntries} \subseteq Nat \ {0}
  /\ MaxMapEntries * MapEntryBytes <= PageBytes
  /\ KernelFirst \in BOOLEAN

VARIABLES
  disk,
  low_mem_size, \* what the BIOS reports
  pc,           \* what the loader does next, "trap" when memory is exhausted
  mem,          \* the low memory
  cx, ebx, ax,  \* the sector to be read, where to, and how many are left
  eax,          \* the number of the directory entry that is looked at
  avail_mem_start,
  map_base, map_entries,
  root_dir_table, fat_table,
  kernel_load_start, kernel_load_end, kernel_load_size,
  page_tables_start

regs == <<cx, ebx, ax, eax>>
tables == <<map_base, map_entries, root_dir_table, fat_table>>
kernel == <<kernel_load_start, kernel_load_end, kernel_load_size, page_tables_start>>
vars == <<disk, low_mem_size, pc, mem, regs, avail_mem_start, tables, kernel>>

Slot(address) == address \div BytesPerSector
Slots == 0 .. Slot(low_mem_size) - 1
avail_mem_end == (low_mem_size \div PageBytes) * PageBytes - 2 * PageBytes

(* What is in memory besides sectors. *)
Junk == -1
Zero == -2
MapEntry == -3

(* The kernel's file has no extension. *)
Kernel == {n \in Names : n = KernelName \o [i \in 1 .. Len(n) - Len(KernelName) |-> " "]}

Init ==
  /\ disk \in {d \in Disks : KernelFirst => d.root[1].name \in Kernel}
  /\ low_mem_size \in LowMems
  /\ pc = "stage1"
  /\ mem = [s \in Slots |-> Junk]
  /\ cx = 1 /\ ebx = Stage2Base /\ ax = 0 /\ eax = 1
  /\ avail_mem_start = 0
  /\ map_base = 0 /\ map_entries = 0 /\ root_dir_table = 0 /\ fat_table = 0
  /\ kernel_load_start = 0 /\ kernel_load_end = 0 /\ kernel_load_size = 0
  /\ page_tables_start = 0

-----------------------------------------------------------------------------
(* read_floppy_sector: the sector's number, cut to a byte, as track, head  *)
(* and sector; the BIOS, external, reads what is there.  A read that fails *)
(* is repeated.                                                            *)
ToChs(lba) ==
  [cylinder |-> (lba \div SectorsPerTrack) \div NumHeads,
   head |-> (lba \div SectorsPerTrack) % NumHeads,
   sector |-> (lba % SectorsPerTrack) + 1]

BiosSector(chs) ==
  (chs.cylinder * NumHeads + chs.head) * SectorsPerTrack + chs.sector - 1

SectorRead(lba) == BiosSector(ToChs(lba % LbaRange))
read_floppy_sector(lba, address) ==
  mem' = [mem EXCEPT ![Slot(address)] = SectorRead(lba)]

Retry == pc \in {"stage1", "root", "fat", "cluster"} /\ UNCHANGED vars

(* allocate_pages: es:di is set once, so that the bytes a segment away are *)
(* cleared again instead of those behind them.                             *)
Pages(first, n) == first .. first + n * PageBytes - 1
Cleared(first, n) ==
  {s \in Slots : s * BytesPerSector \in Pages(first, n)
                 /\ s * BytesPerSector < first + SegmentBytes}
allocate_pages(n) ==
  /\ avail_mem_start < avail_mem_end
  /\ mem' = [s \in Slots |-> IF s \in Cleared(avail_mem_start, n) THEN Zero ELSE mem[s]]
  /\ avail_mem_start' = avail_mem_start + n * PageBytes

OutOfMemory ==
  /\ pc \in {"map_page", "root_pages", "fat_pages", "kernel_pages"}
  /\ avail_mem_start >= avail_mem_end
  /\ pc' = "trap"
  /\ UNCHANGED <<disk, low_mem_size, mem, regs, avail_mem_start, tables, kernel>>

-----------------------------------------------------------------------------
(* Stage 1 reads the reserved sectors behind its own. *)
Stage1 ==
  /\ pc = "stage1"
  /\ read_floppy_sector(cx, ebx)
  /\ ebx' = ebx + BytesPerSector
  /\ cx' = cx + 1
  /\ pc' = IF cx' < Reserved THEN "stage1" ELSE "stage2"
  /\ UNCHANGED <<disk, low_mem_size, ax, eax, avail_mem_start, tables, kernel>>

(* Memory is allocated from the page behind stage 2 on; the last two pages *)
(* of low memory are cleared for the stack.                                *)
AlignUp(address) == (address \div PageBytes) * PageBytes + PageBytes

Stage2 ==
  /\ pc = "stage2"
  /\ avail_mem_start' = AlignUp(ebx)
  /\ mem' = [s \in Slots |-> IF s \in Cleared(avail_mem_end, 2) THEN Zero ELSE mem[s]]
  /\ pc' = "map_page"
  /\ UNCHANGED <<disk, low_mem_size, regs, tables, kernel>>

AllocateMap ==
  /\ pc = "map_page"
  /\ allocate_pages(1)
  /\ map_base' = avail_mem_start
  /\ pc' = "map"
  /\ UNCHANGED <<disk, low_mem_size, regs, map_entries, root_dir_table, fat_table, kernel>>

(* build_memory_map: an entry of the BIOS, which may be the last one. *)
BuildMap ==
  /\ pc = "map"
  /\ map_entries < MaxMapEntries
  /\ map_entries' = map_entries + 1
  /\ mem' = [mem EXCEPT ![Slot(map_base + map_entries * MapEntryBytes)] = MapEntry]
  /\ pc' \in {"map", "root_pages"}
  /\ map_entries' = MaxMapEntries => pc' = "root_pages"
  /\ UNCHANGED <<disk, low_mem_size, regs, avail_mem_start, map_base, root_dir_table, fat_table,
                 kernel>>

-----------------------------------------------------------------------------
root_dir_sectors == (RootEntries * EntryBytes + BytesPerSector - 1) \div BytesPerSector
first_data_sector == NumFats * SectorsPerFat + root_dir_sectors + Reserved
first_root_dir_sector == first_data_sector - root_dir_sectors

PagesTruncated(bytes) == bytes \div PageBytes
PagesFor(bytes) == bytes \div PageBytes + 1

AllocateRoot ==
  /\ pc = "root_pages"
  /\ allocate_pages(PagesFor(root_dir_sectors * BytesPerSector))
  /\ root_dir_table' = avail_mem_start
  /\ pc' = "fat_pages"
  /\ UNCHANGED <<disk, low_mem_size, regs, map_base, map_entries, fat_table, kernel>>

AllocateFat ==
  /\ pc = "fat_pages"
  /\ allocate_pages(PagesFor(SectorsPerFat * BytesPerSector))
  /\ fat_table' = avail_mem_start
  /\ pc' = "root"
  /\ ebx' = root_dir_table /\ cx' = first_root_dir_sector /\ ax' = root_dir_sectors
  /\ UNCHANGED <<disk, low_mem_size, eax, map_base, map_entries, root_dir_table, kernel>>

(* The next sector of the root directory or of the table. *)
ReadNext ==
  /\ read_floppy_sector(cx, ebx)
  /\ UNCHANGED <<disk, low_mem_size, eax, avail_mem_start, tables, kernel>>

ReadRoot ==
  /\ pc = "root"
  /\ ReadNext
  /\ IF ax > 1
     THEN /\ ebx' = ebx + BytesPerSector /\ cx' = cx + 1 /\ ax' = ax - 1
          /\ UNCHANGED pc
     ELSE /\ ebx' = fat_table /\ cx' = Reserved /\ ax' = SectorsPerFat
          /\ pc' = "fat"

ReadFat ==
  /\ pc = "fat"
  /\ ReadNext
  /\ ebx' = ebx + BytesPerSector /\ cx' = cx + 1 /\ ax' = ax - 1
  /\ pc' = IF ax > 1 THEN "fat" ELSE "scan"

(* The directory in memory is searched for the kernel's name.              *)
EntryInMemory(k) ==
  LET s == Slot(root_dir_table) + (k - 1) \div EntriesPerSector
  IN EntryAt(disk, mem[s], ((k - 1) % EntriesPerSector) + 1)

Scan ==
  /\ pc = "scan"
  /\ IF SubSeq(EntryInMemory(eax).name, 1, Len(KernelName)) = KernelName
     THEN pc' = "kernel_pages" /\ UNCHANGED eax
     ELSE eax' = eax + 1 /\ UNCHANGED pc
  /\ UNCHANGED <<disk, low_mem_size, mem, cx, ebx, ax, avail_mem_start, tables, kernel>>

(* The entry at bx is the first of the table, whichever entry matched. *)
kernel_entry == EntryInMemory(1)

AllocateKernel ==
  /\ pc = "kernel_pages"
  /\ kernel_load_size' = kernel_entry.size
  /\ allocate_pages(PagesFor(kernel_entry.size))
  /\ kernel_load_start' = avail_mem_start
  /\ kernel_load_end' = avail_mem_start
  /\ cx' = kernel_entry.first
  /\ pc' = "cluster"
  /\ UNCHANGED <<disk, low_mem_size, ebx, ax, eax, tables, page_tables_start>>

-----------------------------------------------------------------------------
(* The entry of cluster c in the table in memory. *)
MemoryByte(address) == SectorByte(disk, mem[Slot(address)], address % BytesPerSector)
FatWord(c) ==
  LET at == fat_table + c + c \div 2
  IN MemoryByte(at) + 256 * MemoryByte(at + 1)
NextCluster(c) == IF c % 2 = 1 THEN FatWord(c) \div 16 ELSE FatWord(c) % 4096

FromClusterZero(c) == c + first_data_sector
SectorOf(c) == c - 2 + first_data_sector

ReadCluster ==
  /\ pc = "cluster"
  /\ read_floppy_sector(SectorOf(cx), kernel_load_end)
  /\ kernel_load_end' = kernel_load_end + BytesPerSector
  /\ cx' = NextCluster(cx)
  /\ pc' = IF cx' < EndOfChain THEN "cluster" ELSE "tables"
  /\ UNCHANGED <<disk, low_mem_size, ebx, ax, eax, avail_mem_start, tables, kernel_load_start,
                 kernel_load_size, page_tables_start>>

(* Page tables are built behind the image. *)
PageTables ==
  /\ pc = "tables"
  /\ avail_mem_start' = kernel_load_end
  /\ page_tables_start' = AlignUp(kernel_load_end)
  /\ pc' = "done"
  /\ UNCHANGED <<disk, low_mem_size, mem, regs, tables, kernel_load_start, kernel_load_end,
                 kernel_load_size>>

-----------------------------------------------------------------------------
Image == [i \in 1 .. (kernel_load_end - kernel_load_start) \div BytesPerSector |->
            mem[Slot(kernel_load_start) + i - 1]]

(* What is loaded is the kernel's file, sector by sector, whichever        *)
(* clusters it has: the table that was read before says where they are.    *)
LoadsTheKernel ==
  pc \in {"tables", "done"} => \A n \in Kernel : Image = FileSectors(disk, n)

(* The memory map of the BIOS, the directory and the table are complete in *)
(* memory when the kernel is loaded: nothing was written over them.        *)
TablesAreKept ==
  pc \in {"tables", "done"} =>
    /\ \A i \in 0 .. map_entries - 1 : mem[Slot(map_base + i * MapEntryBytes)] = MapEntry
    /\ \A i \in 0 .. RootSectors - 1 : mem[Slot(root_dir_table) + i] = RootStart + i
    /\ \A i \in 0 .. SectorsPerFat - 1 : mem[Slot(fat_table) + i] = Reserved + i
=============================================================================
