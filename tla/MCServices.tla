----------------------------- MODULE MCServices -----------------------------
(* What the kernel offers to its callers: the table of disk handlers, an     *)
(* AHCI port, whose driver is one of several to the table, and the string    *)
(* routines.  They share nothing: each is run with the others at rest, so    *)
(* that their states add up and do not multiply.                            *)
EXTENDS Disk, Ahci, StringCalls

PortAtRest ==
  /\ Init /\ ~abar /\ ~error /\ ~busy
  /\ cap = 0 /\ tables = [s \in Slots |-> Blank(0)]

ServicesInit == DiskInit /\ Init /\ CallsInit
ServicesNext ==
  \/ PortAtRest /\ CallsInit /\ DiskNext /\ UNCHANGED <<vars, callsvars>>
  \/ DiskInit /\ CallsInit /\ Next /\ UNCHANGED <<diskVars, callsvars>>
  \/ DiskInit /\ PortAtRest /\ CallsNext /\ UNCHANGED <<diskVars, vars>>
ServicesSpec ==
  /\ ServicesInit /\ [][ServicesNext]_<<diskVars, vars, callsvars>>
  /\ WF_vars(Driver) /\ WF_vars(Controller)
=============================================================================
