--------------------------- MODULE MCPageManager ---------------------------
(* Instances of PageManager for TLC.                                       *)
EXTENDS PageManager, TLC

\* Frame 3 is a hole in the memory map; page 2 of kernel space is mapped at
\* boot, so that free runs of kernel space are broken by it.
MCReserved == {0, 1, 3}
MCBootMap == 2 :> 1
=============================================================================
