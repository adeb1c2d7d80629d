---------------------------- MODULE MCAllocators ----------------------------
(* The search for frames and the heap share nothing: each is run with the   *)
(* other at rest, so that their states add up and do not multiply.          *)
EXTENDS FrameScan, Heap

HeapAtRest == Init /\ pc = "idle"
ScanAtRest == pmem_used = 0 .. First - 1 /\ k = First /\ result = None

AllocatorsInit == ScanInit /\ Init /\ (HeapAtRest \/ ScanAtRest)
AllocatorsNext ==
  \/ HeapAtRest /\ ScanNext /\ UNCHANGED vars
  \/ ScanAtRest /\ Next /\ UNCHANGED scanVars
AllocatorsSpec ==
  AllocatorsInit /\ [][AllocatorsNext]_<<scanVars, vars>> /\ WF_vars(MallocStep)
=============================================================================
