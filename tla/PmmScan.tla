------------------------------ MODULE PmmScan ------------------------------
(***************************************************************************)
(* The two scans of pmm.c, loop by loop: over words, skipping the full     *)
(* ones, then over the bits of a word.  Pmm states what they return in     *)
(* closed form and its proofs use that form; here every bitmap is reached  *)
(* one bit at a time, and the loops are compared with the closed forms.    *)
(***************************************************************************)
EXTENDS Pmm

ScanEnd == (max_blocks \div WordBits) * WordBits

(* A word that the loops skip begins at bit. *)
FullWord(bit) == bit % WordBits = 0 /\ Run(bit, WordBits) \subseteq bitmap

scan_free_unended ==
  LET from[bit \in 0 .. ScanEnd] ==
        IF bit = ScanEnd THEN 0
        ELSE IF FullWord(bit) THEN from[bit + WordBits]
        ELSE IF bit \in bitmap \/ from[bit + 1] # 0 THEN from[bit + 1]
        ELSE bit
  IN  from[0]

(* What the loops of mmap_find_free return once they are at a bit. *)
scan_free ==
  LET from[bit \in 0 .. ScanEnd] ==
        IF bit = ScanEnd THEN 0
        ELSE IF FullWord(bit) THEN from[bit + WordBits]
        ELSE IF bit \in bitmap THEN from[bit + 1]
        ELSE bit
  IN  from[0]

(* The locals of mmap_find_free_frame. *)
ScanLocals == [bit : 0 .. ScanEnd, first : Nat, count : Nat]
NoRun(bit) == [bit |-> bit, first |-> 0, count |-> 0]

(* The innermost loop, at a bit. *)
ScanBitCarried(at) ==
  IF at.bit \in bitmap THEN [at EXCEPT !.bit = @ + 1]
  ELSE [bit |-> at.bit + 1, first |-> IF at.first = 0 THEN at.bit ELSE at.first,
        count |-> at.count + 1]

ScanBit(at) ==
  IF at.bit \in bitmap THEN NoRun(at.bit + 1)
  ELSE [bit |-> at.bit + 1, first |-> IF at.first = 0 THEN at.bit ELSE at.first,
        count |-> at.count + 1]

scan_free_frame(frame_size) ==
  LET from[at \in ScanLocals] ==
        IF at.bit = ScanEnd THEN 0
        ELSE IF FullWord(at.bit) THEN from[NoRun(at.bit + WordBits)]
        ELSE IF ScanBit(at).count = frame_size THEN ScanBit(at).first
        ELSE from[ScanBit(at)]
  IN  from[NoRun(0)]
-----------------------------------------------------------------------------
(* One bit at a time; a set bit is not set again, so that used_blocks stays *)
(* where the bitmap puts it and only the bitmaps are enumerated.           *)
mmap_set(bit) == bit \notin bitmap /\ mmap_set_run(bit, 1)

mmap_unset(bit) == bit \in bitmap /\ mmap_unset_run(bit, 1)

ScanNext ==
  /\ \E bit \in Bits : mmap_set(bit) \/ mmap_unset(bit)
  /\ UNCHANGED <<report, held, todo, usable>>

ScanSpec == Init /\ [][ScanNext]_pmmVars
-----------------------------------------------------------------------------
(* The loops return what the closed forms of Pmm say, on every bitmap and  *)
(* for every size up to one more than there are blocks: the first bit or   *)
(* the first run there is, across words and behind a full one.             *)
ScansAreClosedForms ==
  /\ scan_free = mmap_find_free
  /\ \A num \in 0 .. max_blocks + 1 : scan_free_frame(num) = mmap_find_free_frame(num)
=============================================================================
