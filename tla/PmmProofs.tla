----------------------------- MODULE PmmProofs -----------------------------
(***************************************************************************)
(* Proofs about Pmm, for every size of memory, bitmap, kernel and memory   *)
(* map that the assumptions of Pmm allow.                                  *)
(***************************************************************************)
EXTENDS PmmScan, LeastElement

(* First fit is well defined. *)
LEMMA LeastIn ==
  ASSUME NEW S \in SUBSET Nat, S # {}
  PROVE  Least(S) \in S /\ \A y \in S : Least(S) <= y
BY LeastExists DEF Least

(* The types of the constants and of what is computed from them. *)
LEMMA ConstantTypes ==
  /\ U32 \in Nat \ {0} /\ KiB \in Nat \ {0} /\ PMM_BLOCK_SIZE \in Nat \ {0}
  /\ ByteBits \in Nat \ {0} /\ WordBits \in Nat \ {0} /\ LargeBlocks \in Nat \ {0}
  /\ BitmapBits \in Nat /\ mem_lower \in Nat /\ mem_upper \in Nat
  /\ KERNEL_END_PHYS \in Nat /\ ImageStart \in Nat /\ MaxRequest \in Nat
BY PmmAssumption

(* u32 arithmetic yields a u32. *)
LEMMA WrapType == ASSUME NEW n \in Int PROVE Wrap(n) \in 0 .. U32 - 1
BY ConstantTypes DEF Wrap

LEMMA DivType ==
  ASSUME NEW n \in Nat, NEW d \in Nat \ {0}
  PROVE  n \div d \in Nat /\ (n \div d) * d <= n /\ n < (n \div d + 1) * d
OBVIOUS

LEMMA MaxBlocksType == max_blocks \in Nat
<1>1. (mem_lower + mem_upper) * KiB \in Int
  BY ConstantTypes
<1>2. Wrap((mem_lower + mem_upper) * KiB) \in Nat
  BY <1>1, WrapType, ConstantTypes
<1> QED BY <1>2, ConstantTypes, DivType DEF max_blocks

(* Every bit the scans look at is in the bitmap. *)
LEMMA ScannedInBitmap == Scanned \subseteq Bits /\ Bits \subseteq Nat
<1>1. (max_blocks \div WordBits) * WordBits <= max_blocks
       /\ (max_blocks \div WordBits) * WordBits \in Nat
  BY MaxBlocksType, ConstantTypes, DivType
<1>2. max_blocks <= BitmapBits
  BY PmmAssumption
<1> HIDE DEF max_blocks
<1> QED BY <1>1, <1>2, MaxBlocksType, ConstantTypes DEF Scanned, Bits

LEMMA MultLess ==
  ASSUME NEW a \in Nat, NEW b \in Nat, NEW k \in Nat \ {0}, a * k < (b + 1) * k
  PROVE  a <= b
<1>1. ASSUME a >= b + 1 PROVE FALSE
  <2>1. PICK d \in Nat : a = b + 1 + d
    BY <1>1
  <2>2. a * k = (b + 1) * k + d * k
    BY <2>1
  <2>3. d * k \in Nat
    OBVIOUS
  <2> QED BY <2>2, <2>3
<1> QED BY <1>1

(* The memset of init_pmm covers whole bytes, and the scans whole words,   *)
(* so no scan sees a bit that init_pmm left clear.                         *)
LEMMA WordsInsideBytes ==
  (max_blocks \div WordBits) * WordBits <= (max_blocks \div ByteBits) * ByteBits
<1> DEFINE w == max_blocks \div WordBits
           c == max_blocks \div ByteBits
           k == WordBits \div ByteBits
<1>1. WordBits = k * ByteBits /\ k \in Nat
  <2>1. WordBits % ByteBits = 0
    BY PmmAssumption
  <2> QED BY <2>1, ConstantTypes
<1>2. w \in Nat /\ w * WordBits <= max_blocks
  BY MaxBlocksType, ConstantTypes, DivType
<1>3. c \in Nat /\ max_blocks < (c + 1) * ByteBits
  BY MaxBlocksType, ConstantTypes, DivType
<1> HIDE DEF w, c, k
<1>4. w * WordBits = (w * k) * ByteBits /\ w * k \in Nat
  BY <1>1, <1>2, ConstantTypes
<1>5. (w * k) * ByteBits < (c + 1) * ByteBits
  <2>1. (w * k) * ByteBits \in Nat /\ (c + 1) * ByteBits \in Nat
    BY <1>3, <1>4, ConstantTypes
  <2> QED BY <1>2, <1>3, <1>4, <2>1, MaxBlocksType
<1>6. w * k <= c
  BY <1>3, <1>4, <1>5, MultLess, ConstantTypes
<1>7. PICK d \in Nat : c = w * k + d
  <2>1. c - w * k \in Nat /\ c = w * k + (c - w * k)
    BY <1>3, <1>4, <1>6
  <2> QED BY <2>1
<1>8. c * ByteBits = (w * k) * ByteBits + d * ByteBits /\ d * ByteBits \in Nat
  BY <1>4, <1>7, ConstantTypes
<1>9. (w * k) * ByteBits \in Nat
  BY <1>4, ConstantTypes
<1>10. w * WordBits <= c * ByteBits
  BY <1>4, <1>8, <1>9
<1> QED BY <1>10 DEF w, c

LEMMA RegionNumType ==
  ASSUME NEW size \in Nat
  PROVE  /\ RegionNum(size) \in Nat
         /\ RegionFirst(size) \in Nat
         /\ size > 0 => RegionNum(size) > 0
BY ConstantTypes, DivType DEF RegionNum, RegionFirst, divide_up

LEMMA KernelEndType ==
  /\ kernel_end \in Nat \ {0}
  /\ pmm_get_kernel_end \in Nat \ {0}
  /\ RegionNum(pmm_get_kernel_end) \in 1 .. BitmapBits
<1>1. kernel_end \in Nat \ {0}
  <2>1. ModEnds \in Seq(Nat) /\ 0 < kernel_end
    BY PmmAssumption
  <2>2. ASSUME ModEnds # <<>> PROVE ModEnds[Len(ModEnds)] \in Nat
    BY <2>1, <2>2
  <2> QED BY <2>1, <2>2, ConstantTypes DEF kernel_end
<1>2. max_blocks \div ByteBits \in Nat
  BY MaxBlocksType, ConstantTypes, DivType
<1>3. pmm_get_kernel_end \in Nat \ {0}
  BY <1>1, <1>2 DEF pmm_get_kernel_end
<1>4. RegionNum(pmm_get_kernel_end) <= BitmapBits
  BY PmmAssumption
<1> QED BY <1>1, <1>3, <1>4, RegionNumType

(* What init_pmm reserves starts at block 0 and reaches the kernel's end.  *)
LEMMA KernelInBitmap ==
  /\ RegionRun(0, pmm_get_kernel_end) = 0 .. RegionNum(pmm_get_kernel_end) - 1
  /\ KernelBlocks \subseteq RegionRun(0, pmm_get_kernel_end)
  /\ RegionRun(0, pmm_get_kernel_end) \subseteq Bits
<1>1. RegionNum(pmm_get_kernel_end) \in 1 .. BitmapBits
  BY KernelEndType
<1>2. RegionFirst(0) = 0
  BY ConstantTypes DEF RegionFirst
<1>3. ImageStart \div PMM_BLOCK_SIZE \in Nat
  BY ConstantTypes, DivType
<1> QED BY <1>1, <1>2, <1>3, ConstantTypes DEF RegionRun, Run, KernelBlocks, Bits
-----------------------------------------------------------------------------
(* The inductive invariant.  HeldAreMarked ties the callers to the bitmap, *)
(* and BlockZeroReserved makes the scans exact: together they keep a scan  *)
(* from returning a block somebody holds.                                  *)
IInv ==
  /\ TypeOK
  /\ NoDoubleAllocation
  /\ HeldAreMarked
  /\ BlockZeroReserved
  /\ OnlyUsableGiven

(* While bit 0 is set, every run the scan returns is free from end to end. *)
LEMMA FoundRunIsFree ==
  ASSUME 0 \in bitmap, NEW num \in Nat, PagesFound(num) # 0
  PROVE  PagesFound(num) \in Nat /\ Run(PagesFound(num), num) \subseteq FreeBits
<1>1. FreeRuns(num) \in SUBSET Nat
  BY ScannedInBitmap DEF FreeRuns, FreeBits
<1>2. num # 0 /\ FreeRuns(num) # {}
  BY DEF PagesFound, mmap_find_free_frame
<1>3. Least(FreeRuns(num)) \in FreeRuns(num)
  BY <1>1, <1>2, LeastIn
<1>4. Least(FreeRuns(num)) # 0
  BY <1>3 DEF FreeRuns, FreeBits
<1>5. PagesFound(num) = Least(FreeRuns(num))
  BY <1>2, <1>4 DEF PagesFound, mmap_find_free_frame
<1> QED BY <1>1, <1>3, <1>5 DEF FreeRuns

(* The single block that pmm_alloc_page takes is free. *)
LEMMA FoundBlockIsFree ==
  ASSUME mmap_find_free # 0
  PROVE  mmap_find_free \in Nat /\ Run(mmap_find_free, 1) \subseteq FreeBits
<1>1. FreeBits \in SUBSET Nat /\ FreeBits # {}
  BY ScannedInBitmap DEF FreeBits, mmap_find_free
<1>2. mmap_find_free \in FreeBits
  BY <1>1, LeastIn DEF mmap_find_free
<1>3. mmap_find_free \in Nat
  BY <1>1, <1>2
<1>4. Run(mmap_find_free, 1) = {mmap_find_free}
  BY <1>3 DEF Run
<1> QED BY <1>2, <1>3, <1>4

(* The aligned large page lies inside the run that was found. *)
LEMMA LargePageInsideRun ==
  ASSUME NEW first \in Nat
  PROVE  /\ AlignedBlock(first) \in Nat
         /\ Run(AlignedBlock(first), LargeBlocks) \subseteq Run(first, 2 * LargeBlocks)
<1>1. LargeBlocks \in Nat \ {0}
  BY ConstantTypes
<1>2. first \div LargeBlocks \in Nat
  BY <1>1, DivType
<1>3. AlignedBlock(first) = (first \div LargeBlocks) * LargeBlocks + LargeBlocks
  BY <1>1, <1>2 DEF AlignedBlock
<1>4. /\ (first \div LargeBlocks) * LargeBlocks \in Nat
      /\ (first \div LargeBlocks) * LargeBlocks <= first
      /\ first < (first \div LargeBlocks) * LargeBlocks + LargeBlocks
  BY <1>1, <1>2, <1>3, DivType DEF AlignedBlock
<1> QED BY <1>1, <1>3, <1>4 DEF Run

(* Giving a free run to a caller keeps the invariant. *)
LEMMA GivenKeepsIInv ==
  ASSUME IInv, NEW first \in Nat, NEW num \in Nat,
         Run(first, num) \subseteq FreeBits,
         Given(first, num), report' \in {"none", "panic", "null", "page"},
         UNCHANGED <<todo, usable>>
  PROVE  IInv'
<1> USE DEF IInv, Given, mmap_set_run, Hold, FreeBits
<1>1. Run(first, num) \subseteq Bits /\ Run(first, num) \cap bitmap = {}
  BY ScannedInBitmap
<1>2. used_blocks' \in 0 .. U32 - 1
  BY WrapType, ConstantTypes DEF TypeOK
<1>3. held' \in [Bits -> Nat]
  BY DEF TypeOK
<1>4. TypeOK'
  BY <1>1, <1>2, <1>3 DEF TypeOK
<1>5. \A b \in Run(first, num) : held[b] = 0
  BY <1>1 DEF TypeOK, HeldAreMarked
<1>6. NoDoubleAllocation'
  BY <1>5 DEF TypeOK, NoDoubleAllocation
<1>7. HeldAreMarked'
  BY <1>1 DEF TypeOK, HeldAreMarked
<1>8. BlockZeroReserved'
  BY <1>1, ConstantTypes DEF TypeOK, BlockZeroReserved, Bits
<1>9. OnlyUsableGiven'
  <2>1. ASSUME NEW b \in (Scanned \cup KernelBlocks) \ usable PROVE b \notin Run(first, num)
    BY <2>1 DEF OnlyUsableGiven
  <2>2. KernelBlocks \subseteq Bits /\ Scanned \subseteq Bits
    BY KernelInBitmap, ScannedInBitmap
  <2> HIDE DEF Run
  <2> QED BY <2>1, <2>2 DEF TypeOK, OnlyUsableGiven
<1> QED BY <1>4, <1>6, <1>7, <1>8, <1>9

LEMMA RefusedKeepsIInv ==
  ASSUME IInv, Refused, report' \in {"none", "panic", "null", "page"}, UNCHANGED <<todo, usable>>
  PROVE  IInv'
BY DEF IInv, Refused, TypeOK, NoDoubleAllocation, HeldAreMarked,
       BlockZeroReserved, OnlyUsableGiven

(* So does taking back a run that callers hold: with no block in two hands *)
(* each of its blocks is in nobody's afterwards, and its bit may go.       *)
LEMMA FreeKeepsIInv ==
  ASSUME IInv, NEW first \in Bits, NEW num \in Nat, Free(first, num)
  PROVE  IInv'
<1> USE DEF IInv, Free, pmm_free_pages, mmap_unset_run, Hold
<1>1. Run(first, num) \subseteq Bits /\ \A b \in Run(first, num) : held[b] = 1
  BY DEF TypeOK, NoDoubleAllocation
<1>2. used_blocks' \in 0 .. U32 - 1
  BY WrapType, ConstantTypes DEF TypeOK
<1>3. held' \in [Bits -> Nat]
  BY <1>1 DEF TypeOK
<1>4. TypeOK'
  BY <1>2, <1>3 DEF TypeOK
<1>5. NoDoubleAllocation'
  BY <1>1 DEF TypeOK, NoDoubleAllocation
<1>6. HeldAreMarked'
  BY <1>1 DEF TypeOK, HeldAreMarked
<1>7. BlockZeroReserved'
  BY <1>1, ConstantTypes DEF TypeOK, BlockZeroReserved, Bits
<1>8. OnlyUsableGiven'
  <2>1. ASSUME NEW b \in (Scanned \cup KernelBlocks) \ usable PROVE b \notin Run(first, num)
    BY <1>1, <2>1 DEF OnlyUsableGiven
  <2>2. KernelBlocks \subseteq Bits /\ Scanned \subseteq Bits
    BY KernelInBitmap, ScannedInBitmap
  <2> HIDE DEF Run
  <2> QED BY <2>1, <2>2 DEF TypeOK, OnlyUsableGiven
<1> QED BY <1>4, <1>5, <1>6, <1>7, <1>8

(* And passing an entry of the memory map whose blocks nobody holds. *)
LEMMA RegionKeepsIInv ==
  ASSUME IInv, NEW r \in Regions, PassRegion(r)
  PROVE  IInv'
<1> DEFINE R == RegionRun(r.addr, r.size)
<1>1. /\ r.addr \in Nat /\ r.size \in Nat
      /\ R \subseteq Bits
  BY RegionsAssumption
<1>2. RegionNum(r.size) \in Nat
  BY <1>1, RegionNumType
<1>3. todo' \subseteq Regions /\ held' = held /\ report' = report
  BY DEF PassRegion, pmm_init_region, pmm_deinit_region, IInv, TypeOK
<1>4. used_blocks' \in 0 .. U32 - 1
  BY <1>2, WrapType, ConstantTypes
     DEF PassRegion, pmm_init_region, pmm_deinit_region, mmap_set_run, IInv, TypeOK
<1>5. \A b \in R : held[b] = 0
  BY DEF PassRegion
<1>6. CASE r.op = "init"
  <2>1. bitmap' = (bitmap \ R) \cup {0}
    BY <1>6 DEF PassRegion, pmm_init_region
  <2>2. usable' = usable \cup R
    BY <1>6 DEF PassRegion
  <2> HIDE DEF R
  <2> QED BY <1>1, <1>3, <1>4, <1>5, <2>1, <2>2
          DEF IInv, TypeOK, NoDoubleAllocation, HeldAreMarked,
              BlockZeroReserved, OnlyUsableGiven
<1>7. CASE r.op = "deinit"
  <2>1. bitmap' = bitmap \cup R
    BY <1>7 DEF PassRegion, pmm_deinit_region, mmap_set_run, RegionRun
  <2>2. usable' = usable \ R
    BY <1>7 DEF PassRegion
  <2> HIDE DEF R
  <2> QED BY <1>1, <1>3, <1>4, <1>5, <2>1, <2>2
          DEF IInv, TypeOK, NoDoubleAllocation, HeldAreMarked,
              BlockZeroReserved, OnlyUsableGiven
<1> QED BY <1>6, <1>7 DEF PassRegion

(* init_pmm establishes the invariant: the blocks it reserves start at 0   *)
(* and reach the end of the kernel.                                        *)
LEMMA InitIInv == Init => IInv
<1> SUFFICES ASSUME Init PROVE IInv
  OBVIOUS
<1>1. RegionNum(pmm_get_kernel_end) \in 1 .. BitmapBits
  BY KernelEndType
<1>2. RegionRun(0, pmm_get_kernel_end) = 0 .. RegionNum(pmm_get_kernel_end) - 1
  BY KernelInBitmap
<1>3. 0 .. (max_blocks \div ByteBits) * ByteBits - 1 \subseteq Bits
  <2>1. max_blocks <= BitmapBits
    BY PmmAssumption
  <2>2. /\ (max_blocks \div ByteBits) * ByteBits <= max_blocks
        /\ (max_blocks \div ByteBits) * ByteBits \in Nat
    BY MaxBlocksType, ConstantTypes, DivType
  <2> HIDE DEF max_blocks
  <2> QED BY <2>1, <2>2, MaxBlocksType, ConstantTypes DEF Bits
<1>4. bitmap \subseteq Bits
  BY <1>1, <1>2, <1>3, ConstantTypes DEF Init, init_pmm, Bits
<1>5. used_blocks \in 0 .. U32 - 1
  BY <1>1, MaxBlocksType, WrapType DEF Init, init_pmm
<1>6. Scanned \subseteq bitmap
  <2>1. /\ (max_blocks \div WordBits) * WordBits \in Nat
        /\ (max_blocks \div ByteBits) * ByteBits \in Nat
    BY MaxBlocksType, ConstantTypes, DivType
  <2> QED BY <2>1, WordsInsideBytes DEF Scanned, Init, init_pmm
<1>7. KernelBlocks \subseteq bitmap /\ KernelBlocks \subseteq Bits /\ Scanned \subseteq Bits
  BY KernelInBitmap, ScannedInBitmap DEF Init, init_pmm
<1>8. 0 \in bitmap
  BY <1>1, <1>2 DEF Init, init_pmm
<1>9. held = [b \in Bits |-> 0] /\ todo = Regions /\ usable = {} /\ report = "none"
  BY DEF Init, init_pmm
<1>10. TypeOK
  BY <1>4, <1>5, <1>9 DEF TypeOK
<1> QED BY <1>4, <1>6, <1>7, <1>8, <1>9, <1>10
        DEF IInv, NoDoubleAllocation, HeldAreMarked, BlockZeroReserved,
            OnlyUsableGiven

(* Every allocation is either refused or gives a free run. *)
LEMMA AllocGivesOrRefuses ==
  ASSUME IInv, Alloc
  PROVE  /\ report' \in {"none", "panic", "null", "page"}
         /\ todo' = todo /\ usable' = usable
         /\ \/ Refused
            \/ \E first, num \in Nat : /\ Run(first, num) \subseteq FreeBits
                                       /\ Given(first, num)
<1>0. 0 \in bitmap /\ report \in {"none", "panic", "null", "page"}
  BY DEF IInv, BlockZeroReserved, TypeOK
<1>1. CASE pmm_alloc_page
  BY <1>1, FoundBlockIsFree DEF pmm_alloc_page, Alloc
<1>2. ASSUME NEW num \in 0 .. MaxRequest, pmm_alloc_pages(num)
      PROVE  /\ report' = report
             /\ \/ Refused
                \/ \E first, n \in Nat : /\ Run(first, n) \subseteq FreeBits
                                         /\ Given(first, n)
  BY <1>0, <1>2, FoundRunIsFree DEF pmm_alloc_pages
<1>3. CASE pmm_alloc_aligned_large_page
  <2> DEFINE f == PagesFound(2 * LargeBlocks)
  <2>1. LargeBlocks \in Nat /\ 2 * LargeBlocks \in Nat
    BY ConstantTypes
  <2>2. ASSUME f # 0, Given(AlignedBlock(f), LargeBlocks)
        PROVE  \E first, num \in Nat : /\ Run(first, num) \subseteq FreeBits
                                       /\ Given(first, num)
    <3>1. f \in Nat /\ Run(f, 2 * LargeBlocks) \subseteq FreeBits
      BY <1>0, <2>1, <2>2, FoundRunIsFree
    <3>2. AlignedBlock(f) \in Nat /\ Run(AlignedBlock(f), LargeBlocks) \subseteq FreeBits
      BY <3>1, LargePageInsideRun
    <3> QED BY <2>1, <2>2, <3>2
  <2> QED BY <1>0, <1>3, <2>2 DEF pmm_alloc_aligned_large_page, Alloc
<1> QED BY <1>0, <1>1, <1>2, <1>3 DEF Alloc

LEMMA StepIInv == IInv /\ [Next]_pmmVars => IInv'
<1> SUFFICES ASSUME IInv, [Next]_pmmVars PROVE IInv'
  OBVIOUS
<1>1. CASE Alloc
  BY <1>1, AllocGivesOrRefuses, GivenKeepsIInv, RefusedKeepsIInv
<1>2. ASSUME NEW r \in Regions, PassRegion(r) PROVE IInv'
  BY <1>2, RegionKeepsIInv
<1>3. ASSUME NEW first \in Bits, NEW num \in 1 .. MaxRequest, Free(first, num)
      PROVE  IInv'
  <2>1. num \in Nat
    BY <1>3, ConstantTypes
  <2> QED BY <1>3, <2>1, FreeKeepsIInv
<1>4. CASE UNCHANGED pmmVars
  BY <1>4 DEF pmmVars, IInv, TypeOK, NoDoubleAllocation, HeldAreMarked,
              BlockZeroReserved, OnlyUsableGiven
<1> QED BY <1>1, <1>2, <1>3, <1>4 DEF Next

(* The inductive invariant holds in every reachable state. *)
THEOREM Invariance == Spec => []IInv
BY InitIInv, StepIInv, PTL DEF Spec

(* The state has its type: used_blocks stays a u32, bits stay in the       *)
(* bitmap and no block is freed more often than it was given.              *)
THEOREM TypeCorrect == Spec => []TypeOK
<1>1. IInv => TypeOK
  BY DEF IInv
<1> QED BY <1>1, Invariance, PTL

(* No allocator of pmm.c ever gives a block that is out already. *)
THEOREM NoBlockGivenTwice == Spec => []NoDoubleAllocation
<1>1. IInv => NoDoubleAllocation
  BY DEF IInv
<1> QED BY <1>1, Invariance, PTL

(* A held block keeps its bit, whatever else is allocated or freed. *)
THEOREM HeldBlocksStayMarked == Spec => []HeldAreMarked
<1>1. IInv => HeldAreMarked
  BY DEF IInv
<1> QED BY <1>1, Invariance, PTL

(* Block 0 is never free and never given. *)
THEOREM BlockZeroStaysReserved == Spec => []BlockZeroReserved
<1>1. IInv => BlockZeroReserved
  BY DEF IInv
<1> QED BY <1>1, Invariance, PTL

(* A block is free or given only if the last word about it was that it is *)
(* usable, whatever the memory map says of the kernel.                     *)
THEOREM OnlyUsableIsGiven == Spec => []OnlyUsableGiven
<1>1. IInv => OnlyUsableGiven
  BY DEF IInv
<1> QED BY <1>1, Invariance, PTL

(* The kernel, as the last entries passed about it have it. *)
KernelReserved == KernelBlocks \cap usable = {}

(* The call at the end of init_pmm, behind the loop over the memory map,   *)
(* and a call of that loop that names blocks of the kernel.                *)
ReserveKernel ==
  \E r \in Regions : /\ r.op = "deinit" /\ r.addr = 0 /\ r.size = pmm_get_kernel_end
                    /\ PassRegion(r)
UsableKernel ==
  \E r \in Regions : /\ r.op = "init" /\ RegionRun(r.addr, r.size) \cap KernelBlocks # {}
                    /\ PassRegion(r)

(* The kernel's blocks are marked and given to nobody while it is reserved: *)
(* it is after init_pmm, until an entry calls one of its blocks usable, and *)
(* once more when that call of init_pmm is made after the memory map, the   *)
(* order in which the source has the two.                                   *)
THEOREM KernelIsSafe ==
  Spec => /\ KernelReserved
          /\ [](KernelReserved => \A b \in KernelBlocks : b \in bitmap /\ held[b] = 0)
          /\ [][ReserveKernel => KernelReserved']_pmmVars
          /\ [][KernelReserved /\ ~KernelReserved' => UsableKernel]_pmmVars
<1>1. Init => KernelReserved
  BY DEF Init, KernelReserved
<1>2. OnlyUsableGiven => (KernelReserved => \A b \in KernelBlocks : b \in bitmap /\ held[b] = 0)
  BY DEF OnlyUsableGiven, KernelReserved
<1>3. ReserveKernel => KernelReserved'
  <2>1. ASSUME NEW r \in Regions, r.op = "deinit", r.addr = 0, r.size = pmm_get_kernel_end,
               PassRegion(r)
        PROVE  usable' = usable \ RegionRun(0, pmm_get_kernel_end)
    BY <2>1 DEF PassRegion
  <2> QED BY <2>1, KernelInBitmap DEF ReserveKernel, KernelReserved
<1>4. [Next]_pmmVars => (KernelReserved /\ ~KernelReserved' => UsableKernel)
  <2> SUFFICES ASSUME [Next]_pmmVars, KernelReserved, ~KernelReserved' PROVE UsableKernel
    OBVIOUS
  <2>1. usable' # usable
    BY DEF KernelReserved
  <2>2. PICK r \in Regions : PassRegion(r)
    BY <2>1 DEF Next, Alloc, Free, pmmVars
  <2>3. r.op = "init" /\ usable' = usable \cup RegionRun(r.addr, r.size)
    BY <2>2 DEF PassRegion, KernelReserved
  <2> QED BY <2>2, <2>3 DEF KernelReserved, UsableKernel
<1> QED BY <1>1, <1>2, <1>3, <1>4, OnlyUsableIsGiven, PTL DEF Spec
-----------------------------------------------------------------------------
(* The refinement to Frames. *)
Taken == {b \in Bits : held[b] > 0}

(* init_pmm leaves no block free and nobody with a block. *)
LEMMA InitRefines == Init => F!Init
<1> SUFFICES ASSUME Init PROVE FreeBits = {} /\ Taken = {}
  BY DEF F!Init, Taken
<1>1. (max_blocks \div WordBits) * WordBits \in Nat
      /\ (max_blocks \div ByteBits) * ByteBits \in Nat
  <2>1. max_blocks \div WordBits \in Nat /\ max_blocks \div ByteBits \in Nat
    BY MaxBlocksType, ConstantTypes, DivType
  <2> QED BY <2>1, ConstantTypes
<1>2. Scanned \subseteq 0 .. (max_blocks \div ByteBits) * ByteBits - 1
  BY <1>1, WordsInsideBytes DEF Scanned
<1>3. FreeBits = {}
  BY <1>2 DEF Init, init_pmm, FreeBits
<1>4. Taken = {}
  BY DEF Init, Taken
<1> QED BY <1>3, <1>4

(* A gift of a free run is a Grant of its first and last block. *)
LEMMA GivenRefines ==
  ASSUME IInv, NEW first \in Nat, NEW num \in Nat \ {0},
         Run(first, num) \subseteq FreeBits, Given(first, num)
  PROVE  F!Next
<1> DEFINE last == first + num - 1
<1>1. Run(first, num) = first .. last /\ first <= last /\ last \in Nat
  BY DEF Run
<1>2. first \in Bits /\ last \in Bits
  BY <1>1, ScannedInBitmap DEF FreeBits
<1>3. FreeBits' = FreeBits \ (first .. last)
  BY <1>1 DEF Given, mmap_set_run, FreeBits
<1>4. \A b \in first .. last : b \in Bits /\ held'[b] = held[b] + 1
  BY <1>1, ScannedInBitmap DEF FreeBits, Given, Hold
<1>5. \A b \in Bits \ (first .. last) : held'[b] = held[b]
  BY <1>1 DEF Given, Hold
<1>6. \A b \in Bits : held[b] \in Nat
  BY DEF IInv, TypeOK
<1>7. Taken' = Taken \cup (first .. last)
  BY <1>4, <1>5, <1>6 DEF Taken
<1>8. F!Grant(first, last)
  BY <1>1, <1>3, <1>7 DEF F!Grant, Taken
<1> QED BY <1>2, <1>8 DEF F!Next

(* A call with nothing to give is a stutter. *)
LEMMA GivenNothingRefines ==
  ASSUME IInv, NEW first \in Nat, Given(first, 0)
  PROVE  UNCHANGED F!vars
<1>1. Run(first, 0) = {}
  BY DEF Run
<1>2. bitmap' = bitmap
  BY <1>1 DEF Given, mmap_set_run
<1>3. held' = held
  BY <1>1 DEF Given, Hold, IInv, TypeOK
<1> QED BY <1>2, <1>3 DEF F!vars, FreeBits

(* Freeing is a Return. *)
LEMMA FreeRefines ==
  ASSUME IInv, NEW first \in Bits, NEW num \in Nat \ {0}, Free(first, num)
  PROVE  F!Next
<1> DEFINE last == first + num - 1
<1>1. first \in Nat /\ Run(first, num) = first .. last /\ first <= last /\ last \in Nat
  BY ScannedInBitmap DEF Run
<1>2. \A b \in first .. last : b \in Bits /\ b \in Scanned /\ held[b] = 1
  BY <1>1 DEF Free, IInv, TypeOK, HeldAreMarked, NoDoubleAllocation
<1>3. FreeBits' = FreeBits \cup (first .. last)
  BY <1>1, <1>2 DEF Free, pmm_free_pages, mmap_unset_run, FreeBits
<1>4. \A b \in first .. last : held'[b] = 0
  BY <1>1, <1>2 DEF Free, pmm_free_pages, Hold
<1>5. \A b \in Bits \ (first .. last) : held'[b] = held[b]
  BY <1>1 DEF Free, pmm_free_pages, Hold
<1>6. Taken' = Taken \ (first .. last)
  BY <1>2, <1>4, <1>5 DEF Taken
<1>7. first .. last \subseteq Taken
  BY <1>2 DEF Taken
<1>8. F!Return(first, last)
  BY <1>1, <1>3, <1>6, <1>7 DEF F!Return, Taken
<1>9. last \in Bits
  BY <1>1, <1>2
<1> QED BY <1>8, <1>9 DEF F!Next

(* A usable region is a Donate, a reserved one a Withdraw. *)
LEMMA RegionRefines ==
  ASSUME IInv, IInv', NEW r \in Regions, PassRegion(r)
  PROVE  F!Next
<1> DEFINE R == RegionRun(r.addr, r.size)
<1>1. held' = held
  BY DEF PassRegion, pmm_init_region, pmm_deinit_region
<1>2. UNCHANGED Taken
  BY <1>1 DEF Taken
<1>3. CASE r.op = "init"
  <2>1. bitmap' = (bitmap \ R) \cup {0} /\ 0 \in bitmap
    BY <1>3 DEF PassRegion, pmm_init_region, IInv, BlockZeroReserved
  <2>2. FreeBits \subseteq FreeBits'
    BY <2>1 DEF FreeBits
  <2>3. FreeBits' \subseteq Bits \ Taken
    BY <1>1, ScannedInBitmap DEF FreeBits, Taken, IInv, HeldAreMarked
  <2>4. F!Donate
    BY <1>2, <2>2, <2>3 DEF F!Donate, Taken
  <2> QED BY <2>4 DEF F!Next
<1>4. CASE r.op = "deinit"
  <2>1. FreeBits' \subseteq FreeBits
    BY <1>4 DEF PassRegion, pmm_deinit_region, mmap_set_run, FreeBits
  <2>2. F!Withdraw
    BY <1>2, <2>1 DEF F!Withdraw, Taken
  <2> QED BY <2>2 DEF F!Next
<1> QED BY <1>3, <1>4 DEF PassRegion

LEMMA StepRefines == IInv /\ IInv' /\ [Next]_pmmVars => [F!Next]_(F!vars)
<1> SUFFICES ASSUME IInv, IInv', [Next]_pmmVars PROVE F!Next \/ UNCHANGED F!vars
  OBVIOUS
<1>1. CASE Alloc
  <2>1. CASE Refused
    BY <2>1 DEF Refused, F!vars, FreeBits
  <2>2. ASSUME NEW first \in Nat, NEW num \in Nat,
               Run(first, num) \subseteq FreeBits, Given(first, num)
        PROVE  F!Next \/ UNCHANGED F!vars
    <3>1. CASE num = 0
      BY <2>2, <3>1, GivenNothingRefines
    <3>2. CASE num # 0
      BY <2>2, <3>2, GivenRefines
    <3> QED BY <3>1, <3>2
  <2> QED BY <1>1, <2>1, <2>2, AllocGivesOrRefuses
<1>2. ASSUME NEW r \in Regions, PassRegion(r) PROVE F!Next
  BY <1>2, RegionRefines
<1>3. ASSUME NEW first \in Bits, NEW num \in 1 .. MaxRequest, Free(first, num)
      PROVE  F!Next
  <2>1. num \in Nat \ {0}
    BY <1>3, ConstantTypes
  <2> QED BY <1>3, <2>1, FreeRefines
<1>4. CASE UNCHANGED pmmVars
  BY <1>4 DEF pmmVars, F!vars, FreeBits
<1> QED BY <1>1, <1>2, <1>3, <1>4 DEF Next

(* The memory manager keeps the promise of Frames: whatever it grants was  *)
(* free, whatever comes back was out, and the memory map only moves blocks *)
(* that nobody holds.                                                      *)
THEOREM ImplementsFramesThm == Spec => ImplementsFrames
BY Invariance, InitRefines, StepRefines, PTL DEF Spec, ImplementsFrames, F!Spec
-----------------------------------------------------------------------------
(* The counter and the bitmap.  On u32 a difference may be taken early or   *)
(* late: remainders are determined by the multiples they are apart.        *)
LEMMA RemaindersAgree ==
  ASSUME NEW m \in Nat \ {0}, NEW q \in Int, NEW r \in 0 .. m - 1, NEW s \in 0 .. m - 1,
         NEW p \in Int, q * m + r = p * m + s
  PROVE  r = s
<1>1. ASSUME NEW k \in Nat, NEW x \in 0 .. m - 1, NEW y \in 0 .. m - 1, x = k * m + y
      PROVE  x = y
  <2>1. CASE k = 0 BY <1>1, <2>1
  <2>2. CASE k # 0
    <3>1. PICK j \in Nat : k = j + 1
      <4>1. k - 1 \in Nat /\ k = (k - 1) + 1 BY <2>2
      <4> QED BY <4>1
    <3>2. k * m = j * m + m /\ j * m \in Nat BY <3>1
    <3> QED BY <1>1, <3>2
  <2> QED BY <2>1, <2>2
<1>2. CASE p >= q
  <2>1. PICK k \in Nat : p = q + k
    <3>1. p - q \in Nat /\ p = q + (p - q) BY <1>2
    <3> QED BY <3>1
  <2>2. p * m = q * m + k * m BY <2>1
  <2>3. r = k * m + s BY <2>2
  <2> QED BY <1>1, <2>3
<1>3. CASE q >= p
  <2>1. PICK k \in Nat : q = p + k
    <3>1. q - p \in Nat /\ q = p + (q - p) BY <1>3
    <3> QED BY <3>1
  <2>2. q * m = p * m + k * m BY <2>1
  <2>3. s = k * m + r BY <2>2
  <2> QED BY <1>1, <2>3
<1> QED BY <1>2, <1>3

LEMMA WrapEarlyOrLate ==
  ASSUME NEW a \in Int, NEW b \in Int
  PROVE  Wrap(Wrap(a) + b) = Wrap(a + b)
<1> DEFINE q == a \div U32
           w == Wrap(a)
           p == (w + b) \div U32
           x == Wrap(w + b)
           o == (a + b) \div U32
           y == Wrap(a + b)
<1>1. q \in Int /\ w \in 0 .. U32 - 1 /\ a = q * U32 + w
  BY ConstantTypes DEF Wrap
<1>2. p \in Int /\ x \in 0 .. U32 - 1 /\ w + b = p * U32 + x
  BY <1>1, ConstantTypes DEF Wrap
<1>3. o \in Int /\ y \in 0 .. U32 - 1 /\ a + b = o * U32 + y
  BY ConstantTypes DEF Wrap
<1> HIDE DEF q, w, p, x, o, y
<1>4. q * U32 \in Int /\ p * U32 \in Int /\ o * U32 \in Int
      /\ (q + p) * U32 = q * U32 + p * U32
  BY <1>1, <1>2, <1>3, ConstantTypes
<1>5. (q + p) * U32 + x = o * U32 + y BY <1>1, <1>2, <1>3, <1>4, ConstantTypes
<1>6. q + p \in Int BY <1>1, <1>2
<1>7. x = y BY <1>2, <1>3, <1>5, <1>6, RemaindersAgree, ConstantTypes
<1> QED BY <1>7 DEF x, y, w

LEMMA CountBits ==
  ASSUME NEW S \in SUBSET Bits
  PROVE  IsFiniteSet(S) /\ Cardinality(S) \in Nat
<1>1. IsFiniteSet(Bits)
  <2>1. 0 \in Int /\ BitmapBits - 1 \in Int BY ConstantTypes
  <2> QED BY <2>1, FS_Interval DEF Bits
<1>2. IsFiniteSet(S) BY <1>1, FS_Subset
<1> QED BY <1>2, FS_CardinalityType

LEMMA CountRun ==
  ASSUME NEW first \in Nat, NEW num \in Nat
  PROVE  IsFiniteSet(Run(first, num)) /\ Cardinality(Run(first, num)) = num
<1>1. first + num - 1 \in Int BY DEF Run
<1> QED BY <1>1, FS_Interval DEF Run

(* Giving a free run adds its length to both, and taking back a held run    *)
(* takes it from both.                                                     *)
LEMMA GivenCounts ==
  ASSUME IInv, NEW first \in Nat, NEW num \in Nat, Run(first, num) \subseteq FreeBits,
         Given(first, num)
  PROVE  Miscount' = Miscount
<1> DEFINE R == Run(first, num)
           c == Cardinality(bitmap)
<1>1. bitmap \subseteq Bits /\ used_blocks \in Int BY DEF IInv, TypeOK
<1>2. IsFiniteSet(bitmap) /\ c \in Nat BY <1>1, CountBits
<1>3. IsFiniteSet(R) /\ Cardinality(R) = num BY CountRun
<1>4. bitmap \cap R = {} BY DEF FreeBits
<1>5. bitmap' = bitmap \cup R /\ used_blocks' = Wrap(used_blocks + num)
  BY DEF Given, mmap_set_run
<1> HIDE DEF R
<1>6. Cardinality(bitmap \cup R) = c + num
  <2>1. Cardinality(bitmap \cup R) = c + Cardinality(R) - Cardinality(bitmap \cap R)
    BY <1>2, <1>3, FS_Union
  <2>2. Cardinality(bitmap \cap R) = 0 BY <1>4, FS_EmptySet
  <2> QED BY <1>2, <1>3, <2>1, <2>2
<1> HIDE DEF c
<1>7. Miscount' = Wrap(Wrap(used_blocks + num) + (0 - (c + num)))
  BY <1>1, <1>2, <1>5, <1>6, WrapType, ConstantTypes DEF Miscount
<1>8. Wrap(Wrap(used_blocks + num) + (0 - (c + num))) = Wrap((used_blocks + num) + (0 - (c + num)))
  BY <1>1, <1>2, WrapEarlyOrLate
<1>9. (used_blocks + num) + (0 - (c + num)) = used_blocks - c BY <1>1, <1>2
<1> QED BY <1>7, <1>8, <1>9 DEF Miscount, c

LEMMA FreeCounts ==
  ASSUME IInv, NEW first \in Bits, NEW num \in Nat, Free(first, num)
  PROVE  Miscount' = Miscount
<1> DEFINE R == Run(first, num)
           c == Cardinality(bitmap)
<1>1. bitmap \subseteq Bits /\ used_blocks \in Int BY DEF IInv, TypeOK
<1>2. IsFiniteSet(bitmap) /\ c \in Nat BY <1>1, CountBits
<1>3. IsFiniteSet(R) /\ Cardinality(R) = num BY CountRun, ScannedInBitmap
<1>4. bitmap \cap R = R BY DEF Free, IInv, HeldAreMarked
<1>5. bitmap' = bitmap \ R /\ used_blocks' = Wrap(used_blocks - num)
  BY DEF Free, pmm_free_pages, mmap_unset_run
<1> HIDE DEF R
<1>6. Cardinality(bitmap \ R) = c - num
  <2>1. Cardinality(bitmap \ R) = c - Cardinality(bitmap \cap R) BY <1>2, FS_Difference
  <2> QED BY <1>3, <1>4, <2>1
<1> HIDE DEF c
<1>7. Miscount' = Wrap(Wrap(used_blocks - num) + (0 - (c - num)))
  BY <1>1, <1>2, <1>5, <1>6, WrapType, ConstantTypes DEF Miscount
<1>8. Wrap(Wrap(used_blocks - num) + (0 - (c - num))) = Wrap((used_blocks - num) + (0 - (c - num)))
  BY <1>1, <1>2, WrapEarlyOrLate
<1>9. (used_blocks - num) + (0 - (c - num)) = used_blocks - c BY <1>1, <1>2
<1> QED BY <1>7, <1>8, <1>9 DEF Miscount, c

(* What used_blocks is wrong by is decided by the region calls: allocating  *)
(* and freeing move it exactly with the bitmap, modulo 2^32.               *)
THEOREM AccountingIsExact == Spec => AccountingExact
<1>1. ASSUME IInv, [Next]_pmmVars, held' # held PROVE Miscount' = Miscount
  <2>1. CASE Alloc
    BY <1>1, <2>1, AllocGivesOrRefuses, GivenCounts DEF Refused
  <2>2. ASSUME NEW r \in Regions, PassRegion(r) PROVE FALSE
    BY <1>1, <2>2 DEF PassRegion, pmm_init_region, pmm_deinit_region
  <2>3. ASSUME NEW first \in Bits, NEW num \in 1 .. MaxRequest, Free(first, num)
        PROVE  Miscount' = Miscount
    <3>1. num \in Nat BY ConstantTypes
    <3> QED BY <1>1, <2>3, <3>1, FreeCounts
  <2> QED BY <1>1, <2>1, <2>2, <2>3 DEF Next, pmmVars
<1>2. IInv /\ [Next]_pmmVars => [held' # held => Miscount' = Miscount]_pmmVars
  BY <1>1
<1> QED BY Invariance, <1>2, PTL DEF Spec, AccountingExact
-----------------------------------------------------------------------------
(* The loops of the scans, PmmScan, return what the closed forms say.      *)
(* Their recursive functions exist because a bit is always followed by a   *)
(* later one; that they agree with the closed forms is shown from the last *)
(* bit down, by the latest bit at which they might not.                    *)
LEMMA ScanEndType ==
  /\ ScanEnd \in Nat /\ Scanned = 0 .. ScanEnd - 1 /\ FreeBits \subseteq 0 .. ScanEnd - 1
  /\ WordBits \in Nat \ {0}
<1>1. max_blocks \div WordBits \in Nat BY MaxBlocksType, ConstantTypes, DivType
<1> HIDE DEF max_blocks
<1>2. ScanEnd \in Nat BY <1>1, ConstantTypes DEF ScanEnd
<1>3. Scanned = 0 .. ScanEnd - 1 BY DEF ScanEnd, Scanned
<1> QED BY <1>2, <1>3, ConstantTypes DEF FreeBits

(* A word that begins below the end of the scan ends there, too. *)
LEMMA WordInside ==
  ASSUME NEW k \in Nat, NEW w \in Nat \ {0}, NEW b \in Nat, b % w = 0, b < k * w
  PROVE  b + w <= k * w
<1> DEFINE q == b \div w
<1>1. q \in Nat /\ b = q * w OBVIOUS
<1> HIDE DEF q
<1>2. q < k
  <2> SUFFICES ASSUME k <= q PROVE FALSE BY <1>1
  <2>1. PICK d \in Nat : q = k + d
    <3>1. q - k \in Nat /\ q = k + (q - k) BY <1>1
    <3> QED BY <3>1
  <2>2. q * w = k * w + d * w BY <2>1
  <2>3. d * w \in Nat /\ k * w \in Nat OBVIOUS
  <2> QED BY <1>1, <2>2, <2>3
<1>3. PICK d \in Nat : k = q + 1 + d
  <2>1. k - q - 1 \in Nat /\ k = q + 1 + (k - q - 1) BY <1>1, <1>2
  <2> QED BY <2>1
<1>4. k * w = q * w + w + d * w BY <1>1, <1>3
<1>5. d * w \in Nat /\ q * w \in Nat BY <1>1
<1> QED BY <1>1, <1>4, <1>5

LEMMA FullWordInside ==
  ASSUME NEW b \in 0 .. ScanEnd, b # ScanEnd
  PROVE  /\ b + 1 \in 0 .. ScanEnd
         /\ FullWord(b) => /\ b + WordBits \in 0 .. ScanEnd
                           /\ \A x \in b .. b + WordBits - 1 : x \in bitmap
<1> DEFINE k == max_blocks \div WordBits
<1>1. k \in Nat BY MaxBlocksType, ConstantTypes, DivType
<1>2. ScanEnd = k * WordBits BY DEF ScanEnd
<1> HIDE DEF k
<1>3. b + 1 \in 0 .. ScanEnd BY ScanEndType
<1>4. ASSUME FullWord(b)
      PROVE  b + WordBits \in 0 .. ScanEnd
  <2>1. b % WordBits = 0 /\ b < k * WordBits /\ b \in Nat BY <1>2, <1>4, ScanEndType DEF FullWord
  <2>2. b + WordBits <= k * WordBits BY <2>1, <1>1, ScanEndType, WordInside
  <2> QED BY <2>1, <2>2, <1>2, ScanEndType
<1>5. ASSUME FullWord(b)
      PROVE  \A x \in b .. b + WordBits - 1 : x \in bitmap
  BY <1>5 DEF FullWord, Run
<1> QED BY <1>3, <1>4, <1>5

(* What mmap_find_free still finds from a bit on. *)
FreeFrom(b) == {x \in FreeBits : b <= x}
FirstFrom(b) == IF FreeFrom(b) = {} THEN 0 ELSE Least(FreeFrom(b))

LEMMA FirstFromBit ==
  ASSUME NEW b \in 0 .. ScanEnd
  PROVE  /\ b = ScanEnd => FirstFrom(b) = 0
         /\ b # ScanEnd /\ FullWord(b) => FirstFrom(b) = FirstFrom(b + WordBits)
         /\ b # ScanEnd /\ b \in bitmap => FirstFrom(b) = FirstFrom(b + 1)
         /\ b # ScanEnd /\ b \notin bitmap => FirstFrom(b) = b
<1>1. ASSUME b = ScanEnd PROVE FirstFrom(b) = 0
  <2>1. \A x \in FreeBits : ~(b <= x) BY <1>1, ScanEndType
  <2>2. FreeFrom(b) = {} BY <2>1 DEF FreeFrom
  <2> QED BY <2>2 DEF FirstFrom
<1>2. ASSUME b # ScanEnd, FullWord(b) PROVE FirstFrom(b) = FirstFrom(b + WordBits)
  <2>1. \A x \in FreeBits : x \in Int /\ x \notin bitmap BY ScanEndType DEF FreeBits
  <2>2. \A x \in b .. b + WordBits - 1 : x \in bitmap BY <1>2, FullWordInside
  <2>3. \A x \in FreeBits : b <= x <=> b + WordBits <= x BY <2>1, <2>2, ScanEndType
  <2>4. FreeFrom(b) = FreeFrom(b + WordBits) BY <2>3 DEF FreeFrom
  <2> QED BY <2>4 DEF FirstFrom
<1>3. ASSUME b # ScanEnd, b \in bitmap PROVE FirstFrom(b) = FirstFrom(b + 1)
  <2>1. \A x \in FreeBits : x \in Int /\ x # b BY <1>3, ScanEndType DEF FreeBits
  <2>2. \A x \in FreeBits : b <= x <=> b + 1 <= x BY <2>1, ScanEndType
  <2>3. FreeFrom(b) = FreeFrom(b + 1) BY <2>2 DEF FreeFrom
  <2> QED BY <2>3 DEF FirstFrom
<1>4. ASSUME b # ScanEnd, b \notin bitmap PROVE FirstFrom(b) = b
  <2>1. b \in FreeFrom(b) BY <1>4, ScanEndType DEF FreeFrom, FreeBits
  <2>2. FreeFrom(b) \in SUBSET Nat /\ \A x \in FreeFrom(b) : b <= x
    <3>1. FreeBits \subseteq Nat BY ScanEndType
    <3> QED BY <3>1 DEF FreeFrom
  <2>3. Least(FreeFrom(b)) \in FreeFrom(b) /\ Least(FreeFrom(b)) <= b
    BY <2>1, <2>2, LeastIn
  <2>4. Least(FreeFrom(b)) = b
    <3>1. Least(FreeFrom(b)) \in Nat /\ b <= Least(FreeFrom(b)) BY <2>2, <2>3
    <3> QED BY <2>3, <3>1, ScanEndType
  <2> QED BY <2>1, <2>4 DEF FirstFrom
<1> QED BY <1>1, <1>2, <1>3, <1>4

(* The loops of mmap_find_free find the first free bit. *)
LEMMA FreeScanIsFirst == scan_free = mmap_find_free
<1> DEFINE D == 0 .. ScanEnd
           Turn(f, bit) == IF bit = ScanEnd THEN 0
                           ELSE IF FullWord(bit) THEN f[bit + WordBits]
                           ELSE IF bit \in bitmap THEN f[bit + 1]
                           ELSE bit
           Is(f) == f = [bit \in D |-> Turn(f, bit)]
           from == CHOOSE f : Is(f)
           firsts == [bit \in D |-> FirstFrom(bit)]
<1>1. \A b \in D : firsts[b] = Turn(firsts, b)
  <2> TAKE b \in D
  <2>1. firsts[b] = FirstFrom(b) OBVIOUS
  <2>2. CASE b = ScanEnd BY <2>1, <2>2, FirstFromBit
  <2>3. CASE b # ScanEnd /\ FullWord(b)
    <3>1. b + WordBits \in D BY <2>3, FullWordInside
    <3>2. firsts[b + WordBits] = FirstFrom(b + WordBits) BY <3>1
    <3> QED BY <2>1, <2>3, <3>2, FirstFromBit
  <2>4. CASE b # ScanEnd /\ ~FullWord(b)
    <3>1. b + 1 \in D BY <2>4, FullWordInside
    <3>2. firsts[b + 1] = FirstFrom(b + 1) BY <3>1
    <3> QED BY <2>1, <2>4, <3>2, FirstFromBit
  <2> QED BY <2>2, <2>3, <2>4
<1>2. \E f : Is(f)
  <2>1. firsts = [bit \in D |-> firsts[bit]] OBVIOUS
  <2> HIDE DEF firsts
  <2>2. firsts = [bit \in D |-> Turn(firsts, bit)] BY <1>1, <2>1
  <2> QED BY <2>2
<1>3. Is(from)
  <2> HIDE DEF Is
  <2> QED BY <1>2
<1>4. scan_free = from[0] BY DEF scan_free
<1> HIDE DEF from
<1>5. \A b \in D : from[b] = Turn(from, b) BY <1>3
<1>6. \A b \in D : from[b] = FirstFrom(b)
  <2> DEFINE Off == {n \in D : from[ScanEnd - n] # FirstFrom(ScanEnd - n)}
  <2>1. ASSUME Off # {} PROVE FALSE
    <3>1. PICK n \in Off : \A y \in Off : n <= y
      <4>1. Off \in SUBSET Nat BY ScanEndType
      <4> HIDE DEF Off
      <4> QED BY <2>1, <4>1, LeastExists
    <3> DEFINE b == ScanEnd - n
    <3>2. n \in D /\ b \in D /\ from[b] # FirstFrom(b) BY <3>1, ScanEndType
    <3>3. \A c \in D : c > b => from[c] = FirstFrom(c)
      <4> TAKE c \in D
      <4> HAVE c > b
      <4>1. ScanEnd - c \in D /\ ScanEnd - c < n /\ ScanEnd - (ScanEnd - c) = c
        BY <3>2, ScanEndType
      <4>2. ScanEnd - c \notin Off
        <5> HIDE DEF Off
        <5>1. n \in Int /\ ScanEnd - c \in Int BY <3>2, <4>1, ScanEndType
        <5> QED BY <3>1, <4>1, <5>1
      <4> QED BY <4>1, <4>2
    <3>4. from[b] = Turn(from, b) BY <3>2, <1>5
    <3> HIDE DEF b, Off
    <3>5. CASE b = ScanEnd BY <3>2, <3>4, <3>5, FirstFromBit
    <3>6. CASE b # ScanEnd /\ FullWord(b)
      <4>1. b + WordBits \in D /\ b + WordBits > b BY <3>2, <3>6, FullWordInside, ScanEndType
      <4>2. from[b + WordBits] = FirstFrom(b + WordBits) BY <3>3, <4>1
      <4> QED BY <3>2, <3>4, <3>6, <4>2, FirstFromBit
    <3>7. CASE b # ScanEnd /\ ~FullWord(b)
      <4>1. b + 1 \in D /\ b + 1 > b BY <3>2, <3>7, FullWordInside, ScanEndType
      <4>2. from[b + 1] = FirstFrom(b + 1) BY <3>3, <4>1
      <4> QED BY <3>2, <3>4, <3>7, <4>2, FirstFromBit
    <3> QED BY <3>5, <3>6, <3>7
  <2> SUFFICES ASSUME NEW b \in D PROVE from[b] = FirstFrom(b) OBVIOUS
  <2>2. ScanEnd \in Nat /\ b \in Nat /\ b <= ScanEnd BY ScanEndType
  <2>3. ScanEnd - b \in D /\ ScanEnd - (ScanEnd - b) = b BY <2>2
  <2> QED BY <2>1, <2>3
<1>7. from[0] = FirstFrom(0)
  <2>1. 0 \in D BY ScanEndType
  <2> QED BY <1>6, <2>1
<1>8. FreeFrom(0) = FreeBits
  <2>1. \A x \in FreeBits : 0 <= x BY ScanEndType
  <2> QED BY <2>1 DEF FreeFrom
<1> QED BY <1>4, <1>7, <1>8 DEF FirstFrom, mmap_find_free

(* The locals of mmap_find_free_frame when it is at a bit: the free bits   *)
(* counted are the last before it, with a used bit, or none, before them;  *)
(* first is the first of them, except that bit 0 cannot be told from none; *)
(* and there are too few of them, here as at any bit before.               *)
Counting(at, num) ==
  /\ at.count <= at.bit
  /\ \A x \in at.bit - at.count .. at.bit - 1 : x \in FreeBits
  /\ at.bit - at.count = 0 \/ at.bit - at.count - 1 \notin FreeBits
  /\ at.first = IF at.count = 0 THEN 0
                ELSE IF at.count = at.bit THEN IF at.count = 1 THEN 0 ELSE 1
                ELSE at.bit - at.count
  /\ at.count < num
  /\ \A s \in FreeRuns(num) : s + num > at.bit

(* Behind a used bit, or a word of them, the count starts anew. *)
LEMMA CountsAnew ==
  ASSUME NEW at \in ScanLocals, NEW num \in Nat, Counting(at, num),
         NEW b \in Nat, at.bit < b, \A x \in at.bit .. b - 1 : x \notin FreeBits
  PROVE  Counting(NoRun(b), num)
<1> DEFINE a == at.bit
<1>1. a \in Nat BY ScanEndType DEF ScanLocals
<1>2. num > 0 /\ \A s \in FreeRuns(num) : s + num > a
  BY ScanEndType DEF Counting, ScanLocals
<1>3. a < b /\ \A x \in a .. b - 1 : x \notin FreeBits OBVIOUS
<1> HIDE DEF a
<1>4. ASSUME NEW s \in FreeRuns(num) PROVE s + num > b
  <2>1. s \in Nat /\ Run(s, num) \subseteq FreeBits /\ s + num > a
    BY <1>2, ScanEndType DEF FreeRuns
  <2>2. s + num - 1 \in FreeBits BY <2>1, <1>2 DEF Run
  <2> QED BY <1>1, <1>2, <1>3, <2>1, <2>2
<1>5. b - 1 \notin FreeBits BY <1>1, <1>3
<1> QED BY <1>2, <1>4, <1>5 DEF Counting, NoRun

(* A free bit is counted, and the run is as long as asked, or too short. *)
LEMMA CountsFree ==
  ASSUME NEW at \in ScanLocals, NEW num \in Nat, Counting(at, num), at.bit \in FreeBits
  PROVE  LET next == [bit |-> at.bit + 1, first |-> IF at.first = 0 THEN at.bit ELSE at.first,
                      count |-> at.count + 1]
         IN  /\ next.count # num => Counting(next, num)
             /\ next.count = num => next.first = mmap_find_free_frame(num)
<1> DEFINE b == at.bit
           c == at.count
           f == IF at.first = 0 THEN at.bit ELSE at.first
           s == b - c
           next == [bit |-> b + 1, first |-> f, count |-> c + 1]
<1>1. b \in Nat /\ c \in Nat /\ at.first \in Nat BY ScanEndType DEF ScanLocals
<1>2. /\ c <= b /\ c < num /\ b \in FreeBits
      /\ \A x \in s .. b - 1 : x \in FreeBits
      /\ s = 0 \/ s - 1 \notin FreeBits
      /\ \A r \in FreeRuns(num) : r + num > b
      /\ at.first = IF c = 0 THEN 0 ELSE IF c = b THEN IF c = 1 THEN 0 ELSE 1 ELSE s
  BY DEF Counting
<1>3. f = IF c + 1 = b + 1 THEN IF c + 1 = 1 THEN 0 ELSE 1 ELSE s
  BY <1>1, <1>2
<1>4. next.bit = b + 1 /\ next.first = f /\ next.count = c + 1 OBVIOUS
<1> HIDE DEF b, c, f, next
<1>5. s \in Nat /\ (\A x \in s .. b : x \in FreeBits) /\ b + 1 - (c + 1) = s
  BY <1>1, <1>2
<1>6. FreeBits \subseteq Nat BY ScanEndType
<1>7. ASSUME c + 1 # num PROVE Counting(next, num)
  <2>1. ASSUME NEW r \in FreeRuns(num) PROVE r + num > b + 1
    <3> SUFFICES ASSUME r + num <= b + 1 PROVE FALSE BY <1>1, <1>6 DEF FreeRuns
    <3>1. r \in Nat /\ Run(r, num) \subseteq FreeBits BY <1>6 DEF FreeRuns
    <3>2. s - 1 \in Run(r, num) BY <1>1, <1>2, <1>5, <1>7, <3>1 DEF Run
    <3>3. s # 0 BY <3>2, <3>1 DEF Run
    <3> QED BY <1>2, <3>1, <3>2, <3>3
  <2>2. next.count < num /\ next.count <= next.bit BY <1>1, <1>2, <1>4, <1>7
  <2>3. next.bit - next.count = s /\ next.bit - 1 = b BY <1>1, <1>4, <1>5
  <2>4. next.first = IF next.count = 0 THEN 0
                     ELSE IF next.count = next.bit THEN IF next.count = 1 THEN 0 ELSE 1 ELSE s
    BY <1>1, <1>3, <1>4
  <2>5. \A r \in FreeRuns(num) : r + num > next.bit BY <1>4, <2>1
  <2> HIDE DEF s
  <2> QED BY <1>2, <1>5, <2>2, <2>3, <2>4, <2>5 DEF Counting
<1>8. ASSUME c + 1 = num PROVE f = mmap_find_free_frame(num)
  <2>1. s \in FreeRuns(num)
    <3>1. Run(s, num) = s .. b BY <1>1, <1>5, <1>8 DEF Run
    <3>2. s \in FreeBits BY <1>1, <1>2, <1>5
    <3> QED BY <1>5, <3>1, <3>2 DEF FreeRuns
  <2>2. \A r \in FreeRuns(num) : s <= r
    <3> TAKE r \in FreeRuns(num)
    <3>1. r \in Nat /\ r + num > b BY <1>2, <1>6 DEF FreeRuns
    <3> QED BY <1>1, <1>5, <1>8, <3>1
  <2>3. FreeRuns(num) \in SUBSET Nat BY <1>6 DEF FreeRuns
  <2>4. Least(FreeRuns(num)) = s
    <3>1. Least(FreeRuns(num)) \in FreeRuns(num) /\ Least(FreeRuns(num)) <= s
      BY <2>1, <2>3, LeastIn
    <3>2. s <= Least(FreeRuns(num)) /\ Least(FreeRuns(num)) \in Nat BY <2>2, <2>3, <3>1
    <3> QED BY <1>5, <3>1, <3>2
  <2>5. num # 0 /\ FreeRuns(num) # {} BY <1>1, <1>8, <2>1
  <2>6. mmap_find_free_frame(num) = IF s = 0 /\ num > 1 THEN 1 ELSE s
    BY <2>4, <2>5 DEF mmap_find_free_frame
  <2> HIDE DEF s
  <2>7. s = 0 <=> c = b BY <1>1, <1>2 DEF s
  <2> QED BY <1>1, <1>3, <1>5, <1>8, <2>6, <2>7
<1>9. ASSUME next.count # num PROVE Counting(next, num) BY <1>4, <1>7, <1>9
<1>10. ASSUME next.count = num PROVE next.first = mmap_find_free_frame(num)
  BY <1>4, <1>8, <1>10
<1> QED BY <1>9, <1>10 DEF next, b, c, f

(* At the end of the scan there was no run. *)
LEMMA NoRunAtTheEnd ==
  ASSUME NEW at \in ScanLocals, NEW num \in Nat, Counting(at, num), at.bit = ScanEnd
  PROVE  mmap_find_free_frame(num) = 0
<1>1. num > 0 /\ \A s \in FreeRuns(num) : s + num > ScanEnd
  BY ScanEndType DEF Counting, ScanLocals
<1>2. ASSUME NEW s \in FreeRuns(num) PROVE FALSE
  <2>1. s \in Nat /\ Run(s, num) \subseteq FreeBits BY ScanEndType DEF FreeRuns
  <2>2. s + num - 1 \in FreeBits BY <1>1, <2>1 DEF Run
  <2>3. s + num - 1 \in 0 .. ScanEnd - 1 BY <2>2, ScanEndType
  <2> QED BY <1>1, <1>2, <2>1, <2>3, ScanEndType
<1>3. FreeRuns(num) = {} BY <1>2
<1> QED BY <1>3 DEF mmap_find_free_frame

(* Every turn of the loops of mmap_find_free_frame goes to a later bit. *)
LEMMA ScanGoesOn ==
  ASSUME NEW at \in ScanLocals, at.bit # ScanEnd
  PROVE  /\ FullWord(at.bit) => /\ NoRun(at.bit + WordBits) \in ScanLocals
                                /\ NoRun(at.bit + WordBits).bit > at.bit
         /\ ScanBit(at) \in ScanLocals /\ ScanBit(at).bit > at.bit
<1>1. /\ at.bit \in 0 .. ScanEnd /\ at.bit \in Nat /\ at.first \in Nat /\ at.count \in Nat
      /\ WordBits \in Nat \ {0}
  BY ScanEndType DEF ScanLocals
<1>2. at.bit + 1 \in 0 .. ScanEnd BY <1>1, FullWordInside
<1>3. ASSUME FullWord(at.bit)
      PROVE  /\ NoRun(at.bit + WordBits) \in ScanLocals
             /\ NoRun(at.bit + WordBits).bit > at.bit
  <2>1. at.bit + WordBits \in 0 .. ScanEnd BY <1>1, <1>3, FullWordInside
  <2> QED BY <1>1, <2>1 DEF NoRun, ScanLocals
<1>4. ScanBit(at) \in ScanLocals /\ ScanBit(at).bit > at.bit
  BY <1>1, <1>2 DEF ScanBit, NoRun, ScanLocals
<1> QED BY <1>3, <1>4

(* The loops of mmap_find_free_frame find the first run of free bits. *)
LEMMA FrameScanIsFirst ==
  ASSUME NEW num \in Nat
  PROVE  scan_free_frame(num) = mmap_find_free_frame(num)
<1> DEFINE Turn(f, at) == IF at.bit = ScanEnd THEN 0
                          ELSE IF FullWord(at.bit) THEN f[NoRun(at.bit + WordBits)]
                          ELSE IF ScanBit(at).count = num THEN ScanBit(at).first
                          ELSE f[ScanBit(at)]
           Is(f) == f = [at \in ScanLocals |-> Turn(f, at)]
           from == CHOOSE f : Is(f)
<1>1. \E f : Is(f)
  <2> DEFINE Ends(f, n) == \A at \in ScanLocals :
                             f[at] = IF at.bit + n >= ScanEnd THEN Turn(f, at) ELSE 0
             Without == {n \in 0 .. ScanEnd : \A f \in [ScanLocals -> Nat] : ~Ends(f, n)}
  <2>1. ASSUME Without # {} PROVE FALSE
    <3>1. PICK n \in Without : \A y \in Without : n <= y
      <4>1. Without \in SUBSET Nat BY ScanEndType
      <4> HIDE DEF Without
      <4> QED BY <2>1, <4>1, LeastExists
    <3>2. n \in 0 .. ScanEnd /\ n \in Nat BY <3>1, ScanEndType
    <3>3. CASE n = 0
      <4> DEFINE f == [at \in ScanLocals |-> 0]
      <4>1. f \in [ScanLocals -> Nat] OBVIOUS
      <4>2. Ends(f, 0)
        <5> SUFFICES ASSUME NEW at \in ScanLocals
                     PROVE  f[at] = IF at.bit + 0 >= ScanEnd THEN Turn(f, at) ELSE 0
          OBVIOUS
        <5>1. at.bit \in 0 .. ScanEnd BY DEF ScanLocals
        <5>2. at.bit + 0 >= ScanEnd => at.bit = ScanEnd BY <5>1, ScanEndType
        <5> QED BY <5>2
      <4> HIDE DEF f, Ends
      <4> QED BY <3>1, <3>3, <4>1, <4>2
    <3>4. CASE n # 0
      <4>1. n - 1 \in 0 .. ScanEnd /\ n - 1 < n BY <3>2, <3>4, ScanEndType
      <4>2. n - 1 \notin Without
        <5>1. n \in Int /\ n - 1 \in Int BY <3>2
        <5> HIDE DEF Without
        <5> QED BY <3>1, <4>1, <5>1
      <4>3. PICK f \in [ScanLocals -> Nat] : Ends(f, n - 1)
        <5> HIDE DEF Ends
        <5> QED BY <4>1, <4>2
      <4> DEFINE g == [at \in ScanLocals |->
                         IF at.bit + n >= ScanEnd THEN Turn(f, at) ELSE 0]
      <4>4. g \in [ScanLocals -> Nat]
        <5> SUFFICES ASSUME NEW at \in ScanLocals
                     PROVE  (IF at.bit + n >= ScanEnd THEN Turn(f, at) ELSE 0) \in Nat
          OBVIOUS
        <5>1. ASSUME at.bit # ScanEnd PROVE ScanBit(at).first \in Nat
          BY <5>1, ScanGoesOn DEF ScanLocals
        <5>2. ASSUME at.bit # ScanEnd PROVE f[ScanBit(at)] \in Nat
          BY <5>2, ScanGoesOn
        <5>3. ASSUME at.bit # ScanEnd, FullWord(at.bit)
              PROVE  f[NoRun(at.bit + WordBits)] \in Nat
          BY <5>3, ScanGoesOn
        <5> QED BY <5>1, <5>2, <5>3
      <4>5. ASSUME NEW at \in ScanLocals, NEW to \in ScanLocals, to.bit > at.bit,
                   at.bit + n >= ScanEnd
            PROVE  g[to] = f[to]
        <5>1. at.bit \in Nat /\ to.bit \in Nat BY ScanEndType DEF ScanLocals
        <5>2. to.bit + n >= ScanEnd /\ to.bit + (n - 1) >= ScanEnd
          BY <3>2, <4>5, <5>1, ScanEndType
        <5>3. f[to] = Turn(f, to) BY <4>3, <5>2
        <5>4. g[to] = Turn(f, to) BY <5>2
        <5> QED BY <5>3, <5>4
      <4> HIDE DEF g
      <4>6. Ends(g, n)
        <5> SUFFICES ASSUME NEW at \in ScanLocals
                     PROVE  g[at] = IF at.bit + n >= ScanEnd THEN Turn(g, at) ELSE 0
          OBVIOUS
        <5>1. g[at] = IF at.bit + n >= ScanEnd THEN Turn(f, at) ELSE 0 BY DEF g
        <5>2. CASE ~(at.bit + n >= ScanEnd) BY <5>1, <5>2
        <5>3. CASE at.bit + n >= ScanEnd /\ at.bit = ScanEnd BY <5>1, <5>3
        <5>4. CASE at.bit + n >= ScanEnd /\ at.bit # ScanEnd
          <6>1. g[ScanBit(at)] = f[ScanBit(at)] BY <4>5, <5>4, ScanGoesOn
          <6>2. ASSUME FullWord(at.bit)
                PROVE  g[NoRun(at.bit + WordBits)] = f[NoRun(at.bit + WordBits)]
            BY <4>5, <5>4, <6>2, ScanGoesOn
          <6>3. Turn(g, at) = Turn(f, at) BY <6>1, <6>2
          <6> HIDE DEF Turn
          <6> QED BY <5>1, <5>4, <6>3
        <5> QED BY <5>2, <5>3, <5>4
      <4> HIDE DEF Ends
      <4> QED BY <3>1, <4>4, <4>6
    <3> QED BY <3>3, <3>4
  <2>2. PICK f \in [ScanLocals -> Nat] : Ends(f, ScanEnd)
    <3>1. ScanEnd \in 0 .. ScanEnd BY ScanEndType
    <3> HIDE DEF Ends
    <3> QED BY <2>1, <3>1
  <2>3. \A at \in ScanLocals : f[at] = Turn(f, at)
    <3> TAKE at \in ScanLocals
    <3>1. at.bit + ScanEnd >= ScanEnd BY ScanEndType DEF ScanLocals
    <3> HIDE DEF Turn
    <3> QED BY <2>2, <3>1
  <2>4. f = [at \in ScanLocals |-> f[at]] OBVIOUS
  <2>5. Is(f)
    <3> HIDE DEF Turn
    <3> QED BY <2>3, <2>4
  <2> HIDE DEF Is
  <2> QED BY <2>5
<1>2. Is(from)
  <2> HIDE DEF Is
  <2> QED BY <1>1
<1>3. scan_free_frame(num) = from[NoRun(0)] BY DEF scan_free_frame
<1> HIDE DEF from
<1>4. \A at \in ScanLocals : from[at] = Turn(from, at) BY <1>2
<1> DEFINE Agrees(at) == num = 0 \/ Counting(at, num) => from[at] = mmap_find_free_frame(num)
<1>5. \A at \in ScanLocals : Agrees(at)
  <2> DEFINE Off == {n \in 0 .. ScanEnd : \E at \in ScanLocals :
                                            at.bit = ScanEnd - n /\ ~Agrees(at)}
  <2>1. ASSUME Off # {} PROVE FALSE
    <3>1. PICK n \in Off : \A y \in Off : n <= y
      <4>1. Off \in SUBSET Nat BY ScanEndType
      <4> HIDE DEF Off
      <4> QED BY <2>1, <4>1, LeastExists
    <3>2. PICK at \in ScanLocals : at.bit = ScanEnd - n /\ ~Agrees(at)
      <4> HIDE DEF Agrees
      <4> QED BY <3>1
    <3>3. n \in 0 .. ScanEnd /\ n \in Nat /\ at.bit \in 0 .. ScanEnd
      BY <3>1, ScanEndType DEF ScanLocals
    <3>4. ASSUME NEW to \in ScanLocals, to.bit > at.bit PROVE Agrees(to)
      <4> DEFINE m == ScanEnd - to.bit
      <4>1. to.bit \in 0 .. ScanEnd BY DEF ScanLocals
      <4>2. m \in 0 .. ScanEnd /\ m < n /\ to.bit = ScanEnd - m
        BY <3>2, <3>3, <3>4, <4>1, ScanEndType
      <4> HIDE DEF m
      <4>3. m \notin Off
        <5>1. n \in Int /\ m \in Int BY <3>3, <4>2, ScanEndType
        <5> HIDE DEF Off
        <5> QED BY <3>1, <4>2, <5>1
      <4> HIDE DEF Agrees
      <4> QED BY <4>2, <4>3
    <3>5. from[at] = Turn(from, at) BY <1>4
    <3>6. (num = 0 \/ Counting(at, num)) /\ from[at] # mmap_find_free_frame(num) BY <3>2
    <3>7. num = 0 => mmap_find_free_frame(num) = 0 BY DEF mmap_find_free_frame
    <3>8. CASE at.bit = ScanEnd BY <3>5, <3>6, <3>7, <3>8, NoRunAtTheEnd
    <3>9. CASE at.bit # ScanEnd /\ FullWord(at.bit)
      <4> DEFINE to == NoRun(at.bit + WordBits)
      <4>1. to \in ScanLocals /\ to.bit > at.bit BY <3>9, ScanGoesOn
      <4>2. ASSUME Counting(at, num) PROVE Counting(to, num)
        <5>1. \A x \in at.bit .. at.bit + WordBits - 1 : x \notin FreeBits
          BY <3>3, <3>9, FullWordInside DEF FreeBits
        <5>2. at.bit + WordBits \in Nat /\ at.bit < at.bit + WordBits BY <3>3, ScanEndType
        <5>3. PICK b \in Nat : b = at.bit + WordBits BY <5>2
        <5>4. at.bit < b /\ \A x \in at.bit .. b - 1 : x \notin FreeBits
          <6>1. at.bit < b BY <5>2, <5>3
          <6>2. at.bit .. b - 1 = at.bit .. at.bit + WordBits - 1 BY <5>3, <3>3, ScanEndType
          <6> QED BY <5>1, <6>1, <6>2
        <5>5. Counting(NoRun(b), num) BY <4>2, <5>4, CountsAnew
        <5> QED BY <5>3, <5>5
      <4>3. from[at] = from[to] BY <3>5, <3>9
      <4> HIDE DEF to
      <4> QED BY <3>4, <3>6, <4>1, <4>2, <4>3
    <3>10. CASE at.bit # ScanEnd /\ ~FullWord(at.bit) /\ at.bit \in bitmap
      <4> DEFINE to == NoRun(at.bit + 1)
      <4>1. ScanBit(at) = to BY <3>10 DEF ScanBit
      <4>2. to \in ScanLocals /\ to.bit > at.bit BY <3>10, <4>1, ScanGoesOn
      <4>3. ASSUME Counting(at, num) PROVE Counting(to, num)
        <5>1. \A x \in at.bit .. at.bit + 1 - 1 : x \notin FreeBits
          BY <3>3, <3>10 DEF FreeBits
        <5>2. at.bit + 1 \in Nat /\ at.bit < at.bit + 1 BY <3>3
        <5>3. PICK b \in Nat : b = at.bit + 1 BY <5>2
        <5>4. at.bit < b /\ \A x \in at.bit .. b - 1 : x \notin FreeBits
          <6>1. at.bit < b BY <5>2, <5>3
          <6>2. at.bit .. b - 1 = at.bit .. at.bit + 1 - 1 BY <5>3, <3>3, ScanEndType
          <6> QED BY <5>1, <6>1, <6>2
        <5>5. Counting(NoRun(b), num) BY <4>3, <5>4, CountsAnew
        <5> QED BY <5>3, <5>5
      <4>4. to.count = 0 /\ to.first = 0 BY DEF NoRun
      <4>5. from[at] = IF 0 = num THEN 0 ELSE from[to] BY <3>5, <3>10, <4>1, <4>4
      <4> HIDE DEF to
      <4> QED BY <3>4, <3>6, <3>7, <4>2, <4>3, <4>5
    <3>11. CASE at.bit # ScanEnd /\ ~FullWord(at.bit) /\ at.bit \notin bitmap
      <4> DEFINE to == [bit |-> at.bit + 1,
                        first |-> IF at.first = 0 THEN at.bit ELSE at.first,
                        count |-> at.count + 1]
      <4>1. ScanBit(at) = to BY <3>11 DEF ScanBit
      <4>2. to \in ScanLocals /\ to.bit > at.bit BY <3>11, <4>1, ScanGoesOn
      <4>3. at.bit \in FreeBits BY <3>3, <3>11, ScanEndType DEF FreeBits
      <4>4. ASSUME Counting(at, num)
            PROVE  /\ to.count # num => Counting(to, num)
                   /\ to.count = num => to.first = mmap_find_free_frame(num)
        BY <4>3, <4>4, CountsFree
      <4>5. num = 0 => to.count # num BY DEF ScanLocals
      <4>6. from[at] = IF to.count = num THEN to.first ELSE from[to] BY <3>5, <3>11, <4>1
      <4> HIDE DEF to
      <4> QED BY <3>4, <3>6, <4>2, <4>4, <4>5, <4>6
    <3> QED BY <3>8, <3>9, <3>10, <3>11
  <2> SUFFICES ASSUME NEW at \in ScanLocals PROVE Agrees(at) OBVIOUS
  <2>2. ScanEnd - at.bit \in 0 .. ScanEnd /\ at.bit = ScanEnd - (ScanEnd - at.bit)
    BY ScanEndType DEF ScanLocals
  <2> HIDE DEF Agrees
  <2> QED BY <2>1, <2>2
<1>6. NoRun(0) \in ScanLocals BY ScanEndType DEF NoRun, ScanLocals
<1>7. num # 0 => Counting(NoRun(0), num)
  <2>1. \A s \in FreeRuns(num) : s \in Nat BY ScanEndType DEF FreeRuns
  <2> QED BY <2>1 DEF NoRun, Counting
<1> QED BY <1>3, <1>5, <1>6, <1>7

(* Whatever the bitmap, the loops of the two scans return the first free   *)
(* block and the first free run, as Pmm says of them in closed form.       *)
THEOREM ScansFindTheFirst == ScanSpec => []ScansAreClosedForms
<1>1. ScansAreClosedForms
  <2>1. \A num \in 0 .. max_blocks + 1 : num \in Nat BY MaxBlocksType
  <2> QED BY <2>1, FreeScanIsFirst, FrameScanIsFirst DEF ScansAreClosedForms
<1> QED BY <1>1, PTL
=============================================================================
