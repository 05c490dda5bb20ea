------------------------------ MODULE CausalLog -------------------------------
(***************************************************************************)
(* What track() of the TypeScript SDK promises about the events it links   *)
(* by itself: an event whose parent the SDK chose continues an event that  *)
(* the log holds at that time, logged through the same context.  A caller  *)
(* that names a parent itself is not restricted.  An erasure takes events  *)
(* away and leaves the ones they caused, without a parent.                 *)
(***************************************************************************)
EXTENDS Naturals

CONSTANT None       \* no context, no parent

VARIABLE events     \* records with id, parent, chain (the context) and inferred

Ids(set) == {e.id : e \in set}

\* e may be recorded after the events there are.
Continues(e) ==
    /\ e.id \notin Ids(events)
    /\ e.inferred /\ e.parent # None =>
          \E f \in events : f.id = e.parent /\ f.chain = e.chain

Init == events = {}

Record ==
    \E e \in events' :
       /\ e \notin events
       /\ events' = events \cup {e}
       /\ Continues(e)

Erase ==
    \E gone \in SUBSET events :
       events' = {[e EXCEPT !.parent = IF @ \in Ids(gone) THEN None ELSE @] :
                    e \in events \ gone}

Spec == Init /\ [][Record \/ Erase]_events
=============================================================================
