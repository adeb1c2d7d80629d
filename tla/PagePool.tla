------------------------------ MODULE PagePool ------------------------------
(***************************************************************************)
(* What the page manager promises, without bitmap and tables: every frame  *)
(* of the pool has one owner, every page owns at most one frame, and a     *)
(* frame passes from one page to another only by being free in between.    *)
(***************************************************************************)
EXTENDS Integers

CONSTANTS Pool,   \* the frames to hand out
          Pages   \* the pages that may own one, numbers from 0 up

Free == -1   \* the frame may be handed out
Lost == -2   \* the frame is claimed, but no page maps it

VARIABLE owner   \* frame |-> the page that maps it, Free or Lost

Owners == Pages \cup {Free, Lost}

\* own is the owner of each frame.
OnePerPage(own) == \A f, g \in Pool : own[f] = own[g] /\ own[f] \in Pages => f = g

Init == owner = [f \in Pool |-> Free]

\* What one call may do to a frame that was before's and is after's.
Keep(before, after) == after = before
Grant(before, after) == before = Free /\ after \in Pages
Reclaim(before, after) == before \in Pages /\ after = Free
Lose(before, after) == before \in Pages /\ after = Lost

\* A call may grant, reclaim and lose several frames.
Call(own, own2) ==
  /\ own2 \in [Pool -> Owners]
  /\ OnePerPage(own2)
  /\ \A f \in Pool : \/ Keep(own[f], own2[f])
                     \/ Grant(own[f], own2[f])
                     \/ Reclaim(own[f], own2[f])
                     \/ Lose(own[f], own2[f])

Next == Call(owner, owner')

Spec == Init /\ [][Next]_owner
=============================================================================
