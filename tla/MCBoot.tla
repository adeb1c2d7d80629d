------------------------------- MODULE MCBoot -------------------------------
(* Six tables of six pages, pages of two units: 4 GB is address 72, 8 MB is   *)
(* address 24.                                                               *)
EXTENDS Boot

Region(addr, len, type) == [addr |-> addr, len |-> len, type |-> type]

\* Low memory, three regions above 8 MB (the second of them starts on the last
\* page of the first and is reserved, the third ends inside a page), one that
\* starts inside a page, one at the end of memory, one beyond 4 GB that wraps
\* to 8 MB, and a reserved one at 0.
Regions ==
  {Region(0, 24, 1), Region(24, 20, 1), Region(42, 6, 2), Region(44, 9, 1),
   Region(53, 3, 1), Region(60, 12, 1), Region(98, 6, 1), Region(0, 4, 2)}

MCMemoryMaps ==
  {[entries |-> m, count |-> n] :
     m \in UNION {[1 .. k -> Regions] : k \in 1 .. 3}, n \in 1 .. 3}

MCMaps ==
  {m \in MCMemoryMaps :
     /\ m.count <= Len(m.entries)
     /\ \A j, k \in 1 .. m.count : j < k => Disjoint(m.entries[j], m.entries[k])}
=============================================================================
