----------------------------- MODULE FrameScan -----------------------------
(***************************************************************************)
(* The search of src/memory/memory.c for free physical frames: the loop of *)
(* find_free_phys_page (Need = 1, First = 0x800) and the one alloc_sequen- *)
(* tial runs for Need adjacent frames (First = 0x1000), both over the      *)
(* bitmap pmem_used, a byte of eight frames at a time when it is full.     *)
(* One step is one iteration of the outer loop.                            *)
(***************************************************************************)
EXTENDS Integers

CONSTANTS
  NFrames,  \* frames of the bitmap: 0x100000
  First,    \* where the loop starts: 0x800 or 0x1000
  Need      \* adjacent frames wanted

\* Frames whose bits share a byte of pmem_used.
ByteFrames == 8

ASSUME ScanAssumption ==
  /\ NFrames \in Nat /\ Need \in Nat \ {0}
  /\ First \in 1 .. NFrames
  /\ First % ByteFrames = 0 /\ NFrames % ByteFrames = 0

VARIABLES
  pmem_used,  \* the claimed frames; the search does not change them
  k,          \* the loop's counter
  result      \* None while it runs, then the first frame found, or 0

scanVars == <<pmem_used, k, result>>

Frames == 0 .. NFrames - 1
None == -1

\* check_page_cluster(f) == 255
ClusterFull(f) ==
  \A g \in Frames : g \div ByteFrames = f \div ByteFrames => g \in pmem_used

\* check_phys_page on the frames from f on; what lies past the end of the
\* bitmap may read as anything.
ReadsFree(f) == \A g \in f .. f + Need - 1 : g \in Frames => g \notin pmem_used
InBitmap(f) == f + Need <= NFrames

ScanInit ==
  /\ \E S \in SUBSET (First .. NFrames - 1) : pmem_used = S \cup 0 .. First - 1
  /\ k = First
  /\ result = None

Running == result = None /\ k < NFrames

\* Slip: k += 8 besides the loop's k++.
SkipCluster_NineOn ==
  /\ Running /\ ClusterFull(k)
  /\ k' = k + ByteFrames + 1
  /\ UNCHANGED <<pmem_used, result>>

\* k += 7, and the loop's k++
SkipCluster ==
  /\ Running /\ ClusterFull(k)
  /\ k' = k + ByteFrames
  /\ UNCHANGED <<pmem_used, result>>

Found ==
  /\ Running /\ ~ClusterFull(k) /\ ReadsFree(k)
  /\ result' = k
  /\ UNCHANGED <<pmem_used, k>>

NextFrame ==
  /\ Running /\ ~ClusterFull(k)
  /\ ~(ReadsFree(k) /\ InBitmap(k))
  /\ k' = k + 1
  /\ UNCHANGED <<pmem_used, result>>

NotFound ==
  /\ result = None /\ k >= NFrames
  /\ result' = 0
  /\ UNCHANGED <<pmem_used, k>>

ScanNext == SkipCluster \/ Found \/ NextFrame \/ NotFound

ScanSpec == ScanInit /\ [][ScanNext]_scanVars

----------------------------------------------------------------------------
ScanTypeOK ==
  /\ pmem_used \subseteq Frames
  /\ k \in Nat
  /\ result \in {None, 0} \cup First .. NFrames - 1

\* A run of Need free frames the bitmap has.
FreeRun(f) == InBitmap(f) /\ ReadsFree(f)

\* What alloc_page, map_page_to and alloc_sequential rely on: the search
\* returns frames that are free, the lowest there are, and 0 only if there are
\* none, however it skips full bytes.
LowestFound ==
  /\ result > 0 => /\ ReadsFree(result)
                   /\ \A f \in First .. result - 1 : ~FreeRun(f)
  /\ result = 0 => \A f \in First .. NFrames - 1 : ~FreeRun(f)

\* The search keeps its types and its promise.
SearchSound == ScanTypeOK /\ LowestFound
=============================================================================
