-------------------------------- MODULE Boot ---------------------------------
(***************************************************************************)
(* From the BIOS to the kernel's memory map: the loader reads the kernel   *)
(* (module BootDisk), builds page tables behind it (module BootPaging) and *)
(* enters the kernel, which copies the BIOS's memory map and takes out of  *)
(* it what is in use (module MemoryMap).  The three share the low memory,  *)
(* its size and the number of entries of the memory map.                   *)
(***************************************************************************)
EXTENDS Integers, Sequences

CONSTANTS
  BytesPerSector, EntryBytes, Reserved, NumFats, SectorsPerFat, RootEntries,
  NumClusters, Names, DirNames,
  PageBytes, SegmentBytes, LbaRange, SectorsPerTrack, NumHeads, Stage2Base,
  LowMems, MapEntryBytes, MaxMapEntries, KernelName, KernelFirst,
  E, MaxTables,
  Maps, Width, BiosEnd, KernelStart, KernelEnd, MAX_MEMORY_MAP_ENTRIES

VARIABLES
  stage,    \* "loader", "paging", "kernel"
  disk, low_mem_size, loader_pc, mem, cx, ebx, ax, eax, avail_mem_start,
  map_base, map_entries, root_dir_table, fat_table,
  kernel_load_start, kernel_load_end, kernel_load_size, page_tables_start,
  done, paging_pc, entries, last, table, di, edx, ecx, esi,
  given, g_memory_map, kernel_pc, i, j, v

Loader == INSTANCE BootDisk WITH pc <- loader_pc
Paging == INSTANCE BootPaging WITH pc <- paging_pc
Map == INSTANCE MemoryMap WITH pc <- kernel_pc

ASSUME BootAssumption ==
  /\ Loader!Fat12Assumption /\ Loader!BootDiskAssumption
  /\ Paging!BootPagingAssumption
  /\ Map!MemoryMapAssumption

loader_vars ==
  <<disk, low_mem_size, loader_pc, mem, cx, ebx, ax, eax, avail_mem_start, map_base,
    map_entries, root_dir_table, fat_table, kernel_load_start, kernel_load_end,
    kernel_load_size, page_tables_start>>
paging_vars == <<done, paging_pc, entries, last, table, di, edx, ecx, esi>>
map_vars == <<given, g_memory_map, kernel_pc, i, j, v>>
vars == <<stage, loader_vars, paging_vars, map_vars>>

NoEntry == [base |-> 0, length |-> 0, type |-> "reserved"]

Init ==
  /\ stage = "loader"
  /\ Loader!Init
  /\ Paging!Init
  /\ given = << >> /\ g_memory_map = << >> /\ kernel_pc = "init"
  /\ i = 0 /\ j = 0 /\ v = NoEntry

-----------------------------------------------------------------------------
LoaderStep ==
  /\ \/ Loader!Stage1 \/ Loader!Stage2 \/ Loader!AllocateMap \/ Loader!BuildMap
     \/ Loader!AllocateRoot \/ Loader!AllocateFat \/ Loader!ReadRoot \/ Loader!ReadFat
     \/ Loader!Scan \/ Loader!AllocateKernel \/ Loader!ReadCluster \/ Loader!PageTables
     \/ Loader!OutOfMemory \/ Loader!Retry
  /\ UNCHANGED <<stage, paging_vars, map_vars>>

StartPaging ==
  /\ stage = "loader" /\ loader_pc = "done"
  /\ stage' = "paging"
  /\ UNCHANGED <<loader_vars, paging_vars, map_vars>>

(* allocate_page takes the low memory behind the image, page by page, and  *)
(* clears it, whatever is there.                                           *)
Table == -4
page_tables_end(n) == page_tables_start + n * PageBytes
InTables(s, n) ==
  page_tables_start <= s * BytesPerSector /\ s * BytesPerSector < page_tables_end(n)

StartCall ==
  /\ stage = "paging"
  /\ Paging!Start
  /\ mem' = [s \in DOMAIN mem |-> IF InTables(s, last') THEN Table ELSE mem[s]]
  /\ UNCHANGED <<stage, disk, loader_pc, cx, ebx, ax, eax, avail_mem_start, map_base,
                 map_entries, root_dir_table, fat_table, kernel_load_start,
                 kernel_load_end, kernel_load_size, page_tables_start, map_vars>>

WriteEntry ==
  /\ stage = "paging"
  /\ Paging!WriteEntry
  /\ UNCHANGED <<stage, loader_vars, map_vars>>

(* What the kernel is told of the low memory. *)
StartAtLastTable == page_tables_end(last - 1)
avail_low_mem_start == page_tables_end(last)
avail_low_mem_end == Loader!avail_mem_end

(* The kernel is entered with the BIOS's map, which has the entries that   *)
(* were counted. What it does not look at any more is forgotten.           *)
EnterKernel ==
  /\ stage = "paging" /\ paging_pc = "call" /\ done = Len(Paging!calls)
  /\ stage' = "kernel"
  /\ given' \in {m \in Maps : Len(m) = map_entries}
  /\ v' = given'[1]
  /\ disk' = << >>
  /\ low_mem_size' = BytesPerSector /\ mem' = << >>
  /\ cx' = 0 /\ ebx' = 0 /\ ax' = 0 /\ eax' = 0 /\ avail_mem_start' = 0
  /\ map_base' = 0 /\ map_entries' = 0 /\ root_dir_table' = 0 /\ fat_table' = 0
  /\ kernel_load_start' = 0 /\ kernel_load_end' = 0 /\ kernel_load_size' = 0
  /\ page_tables_start' = 0 /\ loader_pc' = "entered"
  /\ entries' = Paging!NoEntries /\ last' = 0 /\ table' = 0 /\ done' = 0
  /\ di' = 0 /\ edx' = 0 /\ ecx' = 0 /\ esi' = 0
  /\ UNCHANGED <<paging_pc, g_memory_map, kernel_pc, i, j>>

KernelStep ==
  /\ stage = "kernel"
  /\ \/ Map!early_init \/ Map!NextElement \/ Map!ShiftElement \/ Map!PlaceElement
     \/ Map!MarkBios \/ Map!MarkKernel
  /\ UNCHANGED <<stage, loader_vars, paging_vars>>

(* The loader trapped, or could not map low memory, or the map is made or  *)
(* the assertion on its length failed.                                     *)
Stopped ==
  /\ \/ loader_pc = "trap" \/ paging_pc = "fail"
     \/ kernel_pc \in {"done", "assert"}
  /\ UNCHANGED vars

Next ==
  \/ LoaderStep \/ StartPaging \/ StartCall \/ WriteEntry \/ EnterKernel \/ KernelStep
  \/ Stopped

Spec == Init /\ [][Next]_vars

-----------------------------------------------------------------------------
(* What is loaded is the kernel's file, sector by sector, whichever        *)
(* clusters it has, and building the page tables leaves it alone.          *)
LoadsTheKernel == Loader!LoadsTheKernel

(* The memory map of the BIOS, the directory and the table of clusters are *)
(* complete in memory from the loading of the kernel on: neither the image *)
(* nor a page table was written over them.                                 *)
TablesAreKept == Loader!TablesAreKept

(* Each of the two calls of map_contiguous_pages maps every one of its     *)
(* pages to its frame and none of the table behind them, and the second    *)
(* call leaves the pages of the first as they are.                         *)
CallsMapTheirPages == stage = "paging" => Paging!CallsMapTheirPages

(* The low memory the kernel is told it may use, from which it takes the   *)
(* buffer of the floppy disk, holds nothing of the loader's: no page table *)
(* that is in use then, no part of the image and no memory map.            *)
LowMemoryIsUnused ==
  stage = "paging" /\ done = Len(Paging!calls) =>
    \A s \in DOMAIN mem :
      avail_low_mem_start <= s * BytesPerSector /\ s * BytesPerSector < avail_low_mem_end =>
        mem[s] = Loader!Junk \/ mem[s] = Loader!Zero

(* insertion_sort puts the usable regions first, the largest of them at    *)
(* the front, and keeps every region of the boot loader's map.             *)
SortOrdersTheMap == Map!SortOrdersTheMap

(* What is left usable is what was usable, less the memory of the BIOS and *)
(* of the kernel, wherever the sort moved their regions: pma never hands   *)
(* out a page of the kernel.                                               *)
OnlyReservedIsLost == Map!OnlyReservedIsLost
=============================================================================
