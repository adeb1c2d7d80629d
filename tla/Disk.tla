-------------------------------- MODULE Disk --------------------------------
(***************************************************************************)
(* The table of disk handlers of src/drivers/disk/disk.c: drivers register *)
(* and unregister, callers read and write sectors by drive numbers whose   *)
(* upper half is a handler's id, and walk the handlers with                *)
(* next_disk_handler.                                                      *)
(*                                                                         *)
(* A driver is a model value and stands for its two functions; what they   *)
(* do is a driver's own affair (Ahci has one).  A call is one step, for    *)
(* the kernel has one thread; a walk takes one step per call, so that      *)
(* drivers come and go between them.                                       *)
(***************************************************************************)
EXTENDS Integers

CONSTANTS
  Drivers,     \* what registers
  NHandlers,   \* entries of handlers, and the id that says "none": 255
  NDrives,     \* drive numbers of one handler: 65536
  NoDriver     \* not a driver

ASSUME DiskAssumption ==
  NHandlers \in Nat \ {0} /\ NDrives \in Nat \ {0} /\ NoDriver \notin Drivers

Ids == 0 .. NHandlers - 1

\* A handler's id is one byte: NHandlers and itself are all its values.
IdSpan == NHandlers + 1
DriveNumbers == 0 .. 2 * IdSpan * NDrives - 1

VARIABLES
  handlers,   \* id |-> the driver registered, or NoDriver
  answered,   \* the last sector call: who answered it, for which drive of his
  walk,       \* the id next_disk_handler returned last; a walk starts from 0
  \* Ghosts.
  owns,       \* driver |-> the ids it was given and has not given back
  stayed,     \* the handlers used ever since the walk began
  visited     \* the ids the walk returned

diskVars == <<handlers, answered, walk, owns, stayed, visited>>
walking == <<walk, stayed, visited>>

Used == {i \in Ids : handlers[i] # NoDriver}
Lowest(S) == CHOOSE i \in S : \A j \in S : i <= j

DiskInit ==
  /\ handlers = [i \in Ids |-> NoDriver]
  /\ answered = [driver |-> NoDriver, drive |-> 0, number |-> 0]
  /\ walk = NHandlers /\ stayed = {} /\ visited = {}
  /\ owns = [d \in Drivers |-> {}]

\* Slip: the last entry is taken, used or not.
Place_Last(i, d) ==
  handlers' = [handlers EXCEPT ![NHandlers - 1] = d]

Place(i, d) == handlers' = [handlers EXCEPT ![i] = d]

\* The first entry not used, or 255 and nothing done.
register_disk_handler(d) ==
  /\ IF Used = Ids
     THEN UNCHANGED <<handlers, owns>>
     ELSE LET i == Lowest(Ids \ Used)
          IN  Place(i, d) /\ owns' = [owns EXCEPT ![d] = @ \cup {i}]
  /\ UNCHANGED <<answered, walking>>

\* Slip: used stays true.
unregister_disk_handler_StaysUsed(d, id) ==
  /\ id \in owns[d] \cup {NHandlers}
  /\ owns' = [owns EXCEPT ![d] = @ \ {id}]
  /\ stayed' = stayed \ {id}
  /\ UNCHANGED <<handlers, answered, walk, visited>>

\* A driver gives its id back; the id 255 of a failed registration is ignored.
unregister_disk_handler(d, id) ==
  /\ id \in owns[d] \cup {NHandlers}
  /\ handlers' = [i \in Ids |-> IF i = id THEN NoDriver ELSE handlers[i]]
  /\ owns' = [owns EXCEPT ![d] = @ \ {id}]
  /\ stayed' = stayed \ {id}
  /\ UNCHANGED <<answered, walk, visited>>

\* (uint8_t)(drive_num >> 16)
IdOf(number) == (number \div NDrives) % IdSpan

Refused(id) == id = NHandlers \/ id \notin Used

DriveOf(number) == number % NDrives

\* disk_read_sectors and disk_write_sectors: the driver's function takes a
\* 16-bit drive number.
disk_sectors(number) ==
  /\ LET id == IdOf(number)
     IN  answered' = IF Refused(id)
                     THEN [driver |-> NoDriver, drive |-> 0, number |-> number]
                     ELSE [driver |-> handlers[id], drive |-> DriveOf(number),
                           number |-> number]
  /\ UNCHANGED <<handlers, owns, walking>>

\* A caller walks the handlers from id 0 on, which is the lowest argument
\* there is.
StartWalk ==
  /\ walk = NHandlers
  /\ walk' = 0 /\ stayed' = Used /\ visited' = {}
  /\ UNCHANGED <<handlers, answered, owns>>

\* Slip: two steps at once.
After_Skip(id) == {i \in Used : i > id + 1}

After(id) == {i \in Used : i > id}

next_disk_handler ==
  /\ walk # NHandlers
  /\ walk' = IF After(walk) = {} THEN NHandlers ELSE Lowest(After(walk))
  /\ visited' = visited \cup {walk'}
  /\ UNCHANGED <<handlers, answered, owns, stayed>>

DiskNext ==
  \/ \E d \in Drivers : register_disk_handler(d)
  \/ \E d \in Drivers, id \in Ids \cup {NHandlers} : unregister_disk_handler(d, id)
  \/ \E number \in DriveNumbers : disk_sectors(number)
  \/ StartWalk \/ next_disk_handler

DiskSpec == DiskInit /\ [][DiskNext]_diskVars

----------------------------------------------------------------------------
\* Properties.

DiskTypeOK ==
  /\ handlers \in [Ids -> Drivers \cup {NoDriver}]
  /\ answered \in [driver : Drivers \cup {NoDriver}, drive : 0 .. NDrives - 1,
                   number : DriveNumbers]
  /\ walk \in Ids \cup {NHandlers}
  /\ owns \in [Drivers -> SUBSET Ids]
  /\ stayed \subseteq Ids /\ visited \subseteq Ids \cup {NHandlers}

\* A driver's entry is its own from registration to unregistration, whoever
\* else registers, fails to, or gives an id back (disk.c:12-34).
EntriesKept ==
  /\ DiskTypeOK
  /\ \A d \in Drivers : \A i \in owns[d] : handlers[i] = d
  /\ \A i \in Used : \E d \in Drivers : i \in owns[d]

\* A sector call reaches the driver that holds the id in its drive number, and
\* none if nobody holds it (disk.c:49-71).  Of drive numbers of more than 24
\* bits only the lower 24 count.
AnswersItsOwner ==
  [][answered' # answered /\ answered'.number < IdSpan * NDrives =>
       \A d \in Drivers :
         answered'.driver = d <=> answered'.number \div NDrives \in owns[d]]_diskVars

\* A walk meets every handler that was there all the while, whatever comes and
\* goes, but for handler 0, which no argument of next_disk_handler leads to
\* (disk.c:40-47).
WalkMeetsAll == walk = NHandlers => stayed \ {0} \subseteq visited
=============================================================================
