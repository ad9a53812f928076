-------------------------------- MODULE Pmm --------------------------------
(***************************************************************************)
(* The physical memory manager, kernel/src/mm/pmm.c: a bitmap of 4 KiB     *)
(* blocks, a counter of used blocks kept beside it, and first-fit scans    *)
(* over the bitmap.  All arithmetic of the code is on u32.                 *)
(*                                                                         *)
(* The callers appear as three external variables.  held counts, for every *)
(* block, how many callers were given it and have not freed it; they free  *)
(* only what they hold.  todo is the part of the machine's memory map that *)
(* has not yet been passed to pmm_init_region or pmm_deinit_region: these  *)
(* two are exported by pmm.h, and the loop of init_pmm that would call     *)
(* them for each entry of the map is commented out.  usable is what was    *)
(* passed so far: the blocks that the last entry about them calls usable.  *)
(***************************************************************************)
EXTENDS Integers, FiniteSets, Sequences

CONSTANTS
  U32,              \* 2^32, the modulus of u32 arithmetic
  KiB,              \* 1024, the unit of mem_lower and mem_upper
  PMM_BLOCK_SIZE,   \* 4096, bytes per block
  ByteBits,         \* 8, bits the memset of init_pmm sets per byte
  WordBits,         \* 32, bits per word of the bitmap
  BitmapBits,       \* 1024 * 1024, bits in the bitmap
  LargeBlocks,      \* 1024, blocks of a large page
  mem_lower,        \* multiboot: KiB of memory below 1 MiB ...
  mem_upper,        \* ... and above it
  ModEnds,          \* multiboot: mod_end of each boot module, in order
  KERNEL_END_PHYS,  \* the ADDRESS of the variable of that name
  ImageStart,       \* where link.ld places the kernel
  Regions,          \* the memory map: records [op, addr, size] in bytes
  MaxRequest        \* bound: the largest run a caller asks for or frees

VARIABLES
  bitmap,           \* the set of bits that are 1
  used_blocks,      \* u32
  report,           \* what the last pmm_alloc_page told its caller
  held,             \* external: block -> number of callers holding it
  todo,             \* external: entries of Regions not yet passed
  usable            \* external: blocks passed as usable, and not reserved since

pmmVars == <<bitmap, used_blocks, report, held, todo, usable>>

Wrap(n) == n % U32
divide_up(n, d) == IF n % d = 0 THEN n \div d ELSE 1 + n \div d

max_blocks == Wrap((mem_lower + mem_upper) * KiB) \div PMM_BLOCK_SIZE

(* The end of the LAST module, not of the highest one. *)
kernel_end ==
  LET modEnd == IF ModEnds = <<>> THEN 0 ELSE ModEnds[Len(ModEnds)]
  IN  IF modEnd < KERNEL_END_PHYS THEN KERNEL_END_PHYS ELSE modEnd

pmm_get_kernel_end == kernel_end + max_blocks \div ByteBits

Bits    == 0 .. BitmapBits - 1
Scanned == 0 .. (max_blocks \div WordBits) * WordBits - 1
Run(first, num) == first .. first + num - 1

(* The blocks pmm_init_region and pmm_deinit_region loop over: the first   *)
(* is rounded down, the number of them up.                                 *)
RegionFirst(addr)   == addr \div PMM_BLOCK_SIZE
RegionNum(size)     == divide_up(size, PMM_BLOCK_SIZE)
RegionRun(addr, size) == Run(RegionFirst(addr), RegionNum(size))

(* Blocks of the kernel image, its modules and the space init_pmm reserves *)
(* behind them.                                                            *)
KernelBlocks ==
  ImageStart \div PMM_BLOCK_SIZE .. RegionNum(pmm_get_kernel_end) - 1

ASSUME PmmAssumption ==
  /\ {U32, KiB, PMM_BLOCK_SIZE, ByteBits, WordBits, LargeBlocks} \subseteq Nat \ {0}
  /\ {BitmapBits, mem_lower, mem_upper, KERNEL_END_PHYS, ImageStart, MaxRequest}
       \subseteq Nat
  /\ WordBits % ByteBits = 0
  /\ ModEnds \in Seq(Nat)
  /\ max_blocks <= BitmapBits
  /\ 0 < kernel_end
  /\ RegionNum(pmm_get_kernel_end) <= BitmapBits

(* The memory map stays inside the bitmap, which the code does not check.  *)
(* It may well call the kernel's own blocks usable.                        *)
ASSUME RegionsAssumption ==
  \A r \in Regions :
     /\ r.op \in {"init", "deinit"}
     /\ r.addr \in Nat /\ r.size \in Nat
     /\ RegionRun(r.addr, r.size) \subseteq Bits
-----------------------------------------------------------------------------
(* The scans.  Both loop over the words below max_blocks / 32, so a last   *)
(* partial word is never looked at.                                        *)

FreeBits == Scanned \ bitmap

Least(S) == CHOOSE x \in S : \A y \in S : x <= y

mmap_find_free == IF FreeBits = {} THEN 0 ELSE Least(FreeBits)

FreeRunsUnreset(num) == {s \in FreeBits : Cardinality(FreeBits \cap (s .. s + num)) >= num}
FreeRuns(num) == {s \in FreeBits : Run(s, num) \subseteq FreeBits}

(* The scan keeps first = 0 for "no run yet".  Bit 0 is counted but cannot *)
(* be remembered, so a run that starts there is returned as starting at 1. *)
mmap_find_free_frame(num) ==
  IF num = 0 \/ FreeRuns(num) = {} THEN 0
  ELSE LET s == Least(FreeRuns(num))
       IN  IF s = 0 /\ num > 1 THEN 1 ELSE s

(* max_blocks - used_blocks, on u32: huge once used_blocks > max_blocks.   *)
Unused == Wrap(max_blocks - used_blocks)
-----------------------------------------------------------------------------
mmap_set_run(first, num) ==
  /\ bitmap' = bitmap \cup Run(first, num)
  /\ used_blocks' = Wrap(used_blocks + num)

mmap_unset_run_signed(first, num) ==
  /\ bitmap' = bitmap \ Run(first, num)
  /\ used_blocks' = used_blocks - num

mmap_unset_run_uncounted(first, num) ==
  /\ bitmap' = bitmap \ Run(first, num)
  /\ used_blocks' = Wrap(used_blocks - 1)

mmap_unset_run_inclusive(first, num) ==
  /\ bitmap' = bitmap \ Run(first, num + 1)
  /\ used_blocks' = Wrap(used_blocks - num)

mmap_unset_run(first, num) ==
  /\ bitmap' = bitmap \ Run(first, num)
  /\ used_blocks' = Wrap(used_blocks - num)

Hold(first, num, d) ==
  held' = [b \in Bits |-> IF b \in Run(first, num) THEN held[b] + d ELSE held[b]]

Given(first, num) == mmap_set_run(first, num) /\ Hold(first, num, 1)

Refused == UNCHANGED <<bitmap, used_blocks, held>>

pmm_init_region_unreserved(addr, size) ==
  /\ mmap_unset_run(RegionFirst(addr), RegionNum(size))
  /\ UNCHANGED <<held, report>>

(* Clears the run, then sets bit 0 again, and counts it every time. *)
pmm_init_region(addr, size) ==
  /\ bitmap' = (bitmap \ RegionRun(addr, size)) \cup {0}
  /\ used_blocks' = Wrap(used_blocks - RegionNum(size) + 1)
  /\ UNCHANGED <<held, report>>

pmm_deinit_region(addr, size) ==
  /\ mmap_set_run(RegionFirst(addr), RegionNum(size))
  /\ UNCHANGED <<held, report>>

(* kpanic() returns, so the scan runs after it as well. *)
pmm_alloc_page ==
  /\ report' = IF Unused = 0 THEN "panic"
               ELSE IF mmap_find_free = 0 THEN "null" ELSE "page"
  /\ \/ mmap_find_free = 0 /\ Refused
     \/ mmap_find_free # 0 /\ Given(mmap_find_free, 1)

(* The first block of pmm_alloc_pages(num), 0 when it returns NULL. *)
PagesFound(num) == IF Unused < num THEN 0 ELSE mmap_find_free_frame(num)

pmm_alloc_pages(num) ==
  /\ \/ PagesFound(num) = 0 /\ Refused
     \/ PagesFound(num) # 0 /\ Given(PagesFound(num), num)
  /\ UNCHANGED report

AlignedBlockDown(free_block) == (free_block \div LargeBlocks) * LargeBlocks
AlignedBlock(free_block) == (free_block \div LargeBlocks + 1) * LargeBlocks

(* Looks for two large pages of free blocks, takes the aligned one inside. *)
pmm_alloc_aligned_large_page ==
  LET free_block == PagesFound(2 * LargeBlocks)
  IN  /\ \/ free_block = 0 /\ Refused
         \/ free_block # 0 /\ Given(AlignedBlock(free_block), LargeBlocks)
      /\ UNCHANGED report

(* pmm_free_page(addr) is the case num = 1. *)
pmm_free_pages(first_block, num) ==
  /\ mmap_unset_run(first_block, num)
  /\ Hold(first_block, num, -1)
  /\ UNCHANGED report
-----------------------------------------------------------------------------
(* init_pmm: every block is used; then the kernel's blocks are set, and    *)
(* counted, a second time.                                                 *)
init_pmm ==
  /\ bitmap = 0 .. (max_blocks \div ByteBits) * ByteBits - 1
                \cup RegionRun(0, pmm_get_kernel_end)
  /\ used_blocks = Wrap(max_blocks + RegionNum(pmm_get_kernel_end))
  /\ report = "none"

Init ==
  /\ init_pmm
  /\ held = [b \in Bits |-> 0]
  /\ todo = Regions
  /\ usable = {}

(* An entry of the memory map is passed once, while nobody holds its blocks. *)
PassRegion(r) ==
  /\ r \in todo
  /\ \A b \in RegionRun(r.addr, r.size) : held[b] = 0
  /\ todo' = todo \ {r}
  /\ \/ /\ r.op = "init"
        /\ pmm_init_region(r.addr, r.size)
        /\ usable' = usable \cup RegionRun(r.addr, r.size)
     \/ /\ r.op = "deinit"
        /\ pmm_deinit_region(r.addr, r.size)
        /\ usable' = usable \ RegionRun(r.addr, r.size)

Alloc ==
  /\ \/ pmm_alloc_page
     \/ \E num \in 0 .. MaxRequest : pmm_alloc_pages(num)
     \/ pmm_alloc_aligned_large_page
  /\ UNCHANGED <<todo, usable>>

Free(first, num) ==
  /\ \A b \in Run(first, num) : b \in Bits /\ held[b] > 0
  /\ pmm_free_pages(first, num)
  /\ UNCHANGED <<todo, usable>>

Next ==
  \/ \E r \in Regions : PassRegion(r)
  \/ Alloc
  \/ \E first \in Bits, num \in 1 .. MaxRequest : Free(first, num)

Spec == Init /\ [][Next]_pmmVars
-----------------------------------------------------------------------------
TypeOK ==
  /\ bitmap \subseteq Bits
  /\ used_blocks \in 0 .. U32 - 1
  /\ report \in {"none", "panic", "null", "page"}
  /\ held \in [Bits -> Nat]
  /\ todo \subseteq Regions
  /\ usable \subseteq Bits

(* No block is ever in the hands of two callers: the allocations that are  *)
(* outstanding, of whatever kind and size, are disjoint.                   *)
NoDoubleAllocation == \A b \in Bits : held[b] <= 1

(* A block stays marked for as long as a caller holds it: freeing one      *)
(* allocation never clears a bit of another.                               *)
HeldAreMarked == \A b \in Bits : held[b] > 0 => b \in bitmap /\ b \in Scanned

(* Block 0, whose number means "no block" to every allocator, is marked    *)
(* whatever regions are passed; the scans rely on it.                      *)
BlockZeroReserved == 0 \in bitmap /\ held[0] = 0

(* A block is free or with a caller only if the last entry passed about it *)
(* calls it usable.  So the kernel is safe until an entry that covers it   *)
(* is passed, and again once it is reserved after that.                    *)
OnlyUsableGiven ==
  \A b \in (Scanned \cup KernelBlocks) \ usable : b \in bitmap /\ held[b] = 0

(* used_blocks is wrong by what the region calls counted twice, but        *)
(* allocating and freeing move it exactly with the bitmap.                 *)
Miscount == Wrap(used_blocks - Cardinality(bitmap))
AccountingExact == [][held' # held => Miscount' = Miscount]_pmmVars

(* pmm_alloc_page's own message: with no free block left it reports        *)
(* "kernel is out of physical memory!".                                    *)
ExhaustionPanics ==
  [][pmm_alloc_page /\ FreeBits = {} => report' = "panic"]_pmmVars

(* The memory manager implements the promise of Frames. *)
F == INSTANCE Frames WITH
       Frame <- Bits,
       avail <- FreeBits,
       taken <- {b \in Bits : held[b] > 0}
ImplementsFrames == F!Spec
=============================================================================
