----------------------------- MODULE DeployLife -----------------------------
(***************************************************************************)
(* The life of a Deployment row as its readers rely on it ("the small,     *)
(* legible state model", app/models/deployment.py): it is queued, then     *)
(* building, and ends READY or ERROR for good; a marketplace install is    *)
(* recorded once its stack is up.  Removing an app deletes its marketplace *)
(* history, whatever state those rows are in.                              *)
(* The console's log stream, quota and image retention all read this.      *)
(***************************************************************************)
CONSTANT Ids

VARIABLE status

InFlight == {"queued", "building"}

LifeInit == status = [d \in Ids |-> "absent"]

Becomes(d, from, to) ==
    /\ status[d] \in from
    /\ status' = [status EXCEPT ![d] = to]

\* One deployment moves, or a removal drops some rows.
Move(d) ==
    \/ Becomes(d, {"absent"}, "queued")
    \/ Becomes(d, {"absent"}, "ready")
    \/ Becomes(d, {"queued"}, "building")
    \/ Becomes(d, {"building"}, "ready")
    \/ Becomes(d, InFlight, "error")

Drop ==
    \E gone \in SUBSET Ids :
        status' = [d \in Ids |-> IF d \in gone THEN "absent" ELSE status[d]]

LifeNext == (\E d \in Ids : Move(d)) \/ Drop

LifeSpec == LifeInit /\ [][LifeNext]_status
=============================================================================
