----------------------------- MODULE AppDeploys -----------------------------
(***************************************************************************)
(* The apps of one tenant: git deploys, redeploys, rollbacks, marketplace  *)
(* installs and removals (app/modules/deploys/service.py and               *)
(* app/modules/apps/service.py), the background task behind each           *)
(* deployment, the quota rows they share (app/services/quota.py) and the   *)
(* compose stacks docker runs for them.                                    *)
(*                                                                         *)
(* A step is one transaction or one docker command: everything between two *)
(* awaits that commit or run something.  The process may restart at any    *)
(* point: its background tasks are asyncio tasks kept in a Python set and  *)
(* are gone, open transactions roll back, database and docker stay.        *)
(* Statements inside check_and_reserve are in QuotaReserve, previews and   *)
(* images have modules of their own.                                       *)
(***************************************************************************)
EXTENDS Naturals, FiniteSets

CONSTANTS
    Ids,            \* deployments and installs; each id is used once
    Projects,       \* compose project names
    Removers,       \* removal requests that may be under way at once
    MaxApps,        \* max_apps of the tenant's plan
    MaxFaults,      \* bound: restarts and failures of an error handler
    NoId            \* no stack, nobody holds the lock, no rollback target

ASSUME DeploysAssumption ==
    /\ IsFiniteSet(Ids)
    /\ MaxApps \in Nat
    /\ MaxFaults \in Nat
    /\ NoId \notin Ids

VARIABLES
    job,        \* what each id does: kind, project, rollback target, and
                \* whether its row is marketplace history (builder = "app")
    status,     \* its Deployment row; "absent" before it is committed
    task,       \* where its request or its background task is
    rows,       \* committed reservation rows, named by the id that made them
    lock,       \* the tenant's advisory lock
    stack,      \* the deployment whose containers each compose project runs
    removing,   \* the project each removal took down and has yet to delete
    faults

vars == <<job, status, task, rows, lock, stack, removing, faults>>

Kinds    == {"deploy", "redeploy", "rollback", "install"}
Statuses == {"absent", "queued", "building", "ready", "error"}
InFlight == {"queued", "building"}

Waiting == {"reserve", "installing", "committing"}              \* a request
Running == {"queued", "building", "starting", "up", "failing"}  \* a task
Live    == Waiting \cup Running \cup {"releasing"}
Tasks   == Live \cup {"idle", "done", "dead"}

NoJob == [kind |-> "deploy", project |-> NoId, target |-> NoId, app |-> FALSE]

TypeOK ==
    /\ job \in [Ids -> [kind : Kinds, project : Projects \cup {NoId},
                        target : Ids \cup {NoId}, app : BOOLEAN]]
    /\ status \in [Ids -> Statuses]
    /\ task \in [Ids -> Tasks]
    /\ rows \subseteq Ids
    /\ lock \in Ids \cup {NoId}
    /\ stack \in [Projects -> Ids \cup {NoId}]
    /\ removing \in [Removers -> Projects \cup {NoId}]
    /\ faults \in 0..MaxFaults

RowsOf(p) == {d \in rows : job[d].project = p}

\* _count_apps: every row, and every in-flight deployment of a project that
\* has none.
CountApps ==
    LET uncovered == {d \in Ids : status[d] \in InFlight /\ RowsOf(job[d].project) = {}}
    IN  Cardinality(rows) + Cardinality(uncovered)

Init ==
    /\ job = [d \in Ids |-> NoJob]
    /\ status = [d \in Ids |-> "absent"]
    /\ task = [d \in Ids |-> "idle"]
    /\ rows = {}
    /\ lock = NoId
    /\ stack = [p \in Projects |-> NoId]
    /\ removing = [x \in Removers |-> NoId]
    /\ faults = 0

Goto(d, stage) == task' = [task EXCEPT ![d] = stage]

\* The request commits a new Deployment row.
CreateRow(d, s) == status' = [status EXCEPT ![d] = s]

\* _set: a row that was deleted in the meantime is left alone.
SetStatus(d, s) ==
    status' = IF status[d] = "absent" THEN status ELSE [status EXCEPT ![d] = s]

Accept(d, kind, p, target, app) ==
    /\ task[d] = "idle"
    /\ job' = [job EXCEPT ![d] =
                 [kind |-> kind, project |-> p, target |-> target, app |-> app]]

-----------------------------------------------------------------------------
(* Requests *)

\* A deploy or an install of a name the tenant does not use yet (else 409).
StartNew(d, kind, p) ==
    /\ Accept(d, kind, p, NoId, kind = "install")
    /\ RowsOf(p) = {}
    /\ Goto(d, "reserve")
    /\ UNCHANGED <<status, rows, lock, stack, removing, faults>>

\* check_and_reserve under the advisory lock.  A deploy commits its row and
\* its queued Deployment at once and spawns the task; an install keeps the
\* transaction, and the lock, while docker runs.
Reserve(d) ==
    /\ task[d] = "reserve"
    /\ lock = NoId
    /\ \/ /\ CountApps + 1 > MaxApps        \* QuotaExceeded, 402
          /\ Goto(d, "done")
          /\ UNCHANGED <<status, rows, lock>>
       \/ /\ CountApps + 1 <= MaxApps
          /\ job[d].kind = "deploy"
          /\ rows' = rows \cup {d}
          /\ CreateRow(d, "queued")
          /\ Goto(d, "queued")
          /\ UNCHANGED lock
       \/ /\ CountApps + 1 <= MaxApps
          /\ job[d].kind = "install"
          /\ lock' = d
          /\ Goto(d, "installing")
          /\ UNCHANGED <<status, rows>>
    /\ UNCHANGED <<job, stack, removing, faults>>

\* install_for_tenant: deploy_stack returned.
InstallUp(d) ==
    /\ task[d] = "installing"
    /\ stack' = [stack EXCEPT ![job[d].project] = d]
    /\ Goto(d, "committing")
    /\ UNCHANGED <<job, status, rows, lock, removing, faults>>

\* The request's transaction commits the row and the READY history entry.
InstallCommit(d) ==
    /\ task[d] = "committing"
    /\ rows' = rows \cup {d}
    /\ CreateRow(d, "ready")
    /\ lock' = NoId
    /\ Goto(d, "done")
    /\ UNCHANGED <<job, stack, removing, faults>>

\* compose up failed: it may have replaced some containers before it did.
Disturb(d) == stack' \in {stack, [stack EXCEPT ![job[d].project] = d]}

\* deploy_stack raised: the reservation is released and the transaction
\* rolled back.
InstallFails(d) ==
    /\ task[d] = "installing"
    /\ Disturb(d)
    /\ lock' = NoId
    /\ Goto(d, "done")
    /\ UNCHANGED <<job, status, rows, removing, faults>>

\* redeploy_for_tenant (webhook push or manual): the app must hold a row.
StartRedeploy(d, p) ==
    /\ Accept(d, "redeploy", p, NoId, FALSE)
    /\ RowsOf(p) # {}
    /\ CreateRow(d, "queued")
    /\ Goto(d, "queued")
    /\ UNCHANGED <<rows, lock, stack, removing, faults>>

\* rollback_for_tenant: a READY deployment with an image (an install's row
\* has one too: the template slug) of an app that still holds a row.  The new
\* row copies the target's builder.
StartRollback(d, t) ==
    /\ status[t] = "ready"
    /\ Accept(d, "rollback", job[t].project, t, job[t].app)
    /\ RowsOf(job[t].project) # {}
    /\ CreateRow(d, "queued")
    /\ Goto(d, "queued")
    /\ UNCHANGED <<rows, lock, stack, removing, faults>>

\* remove_for_tenant: `compose down` for an app the tenant holds ...
RemoveStack(x, p) ==
    /\ removing[x] = NoId
    /\ RowsOf(p) # {}
    /\ stack' = [stack EXCEPT ![p] = NoId]
    /\ removing' = [removing EXCEPT ![x] = p]
    /\ UNCHANGED <<job, status, task, rows, lock, faults>>

\* ... then whatever reservation and marketplace history the project has by
\* now are deleted.
RemoveRows(x) ==
    /\ removing[x] # NoId
    /\ rows' = rows \ RowsOf(removing[x])
    /\ status' = [d \in Ids |-> IF job[d].project = removing[x] /\ job[d].app
                                THEN "absent" ELSE status[d]]
    /\ removing' = [removing EXCEPT ![x] = NoId]
    /\ UNCHANGED <<job, task, lock, stack, faults>>

-----------------------------------------------------------------------------
(* The background task of a deployment: _run_deploy and _run_rollback *)

TaskBegins(d) ==
    /\ task[d] = "queued"
    /\ SetStatus(d, "building")
    /\ Goto(d, "building")
    /\ UNCHANGED <<job, rows, lock, stack, removing, faults>>

\* The image is built and recorded, or found or pulled for a rollback.
ImageReady(d) ==
    /\ task[d] = "building"
    /\ Goto(d, "starting")
    /\ UNCHANGED <<job, status, rows, lock, stack, removing, faults>>

StackUp(d) ==
    /\ task[d] = "starting"
    /\ stack' = [stack EXCEPT ![job[d].project] = d]
    /\ Goto(d, "up")
    /\ UNCHANGED <<job, status, rows, lock, removing, faults>>

\* Faulty variant: an error of the retention pass reaches the handlers.
RecordReadyThenRaise(d) ==
    /\ task[d] = "up"
    /\ SetStatus(d, "ready")
    /\ Goto(d, "failing")
    /\ UNCHANGED <<job, rows, lock, stack, removing, faults>>

\* After READY only notification and retention are left, and both swallow
\* every error.
RecordReady(d) ==
    /\ task[d] = "up"
    /\ SetStatus(d, "ready")
    /\ Goto(d, "done")
    /\ UNCHANGED <<job, rows, lock, stack, removing, faults>>

\* Faulty variant: an error outside BuildError and DockerEngineError escapes.
StepRaisesUncaught(d) ==
    /\ task[d] \in {"queued", "building", "starting", "up"}
    /\ IF task[d] = "starting" THEN Disturb(d) ELSE UNCHANGED stack
    /\ Goto(d, "done")
    /\ UNCHANGED <<job, status, rows, lock, removing, faults>>

\* Clone, build, pull, a database write or docker raises before READY.
StepRaises(d) ==
    /\ task[d] \in {"queued", "building", "starting", "up"}
    /\ IF task[d] = "starting" THEN Disturb(d) ELSE UNCHANGED stack
    /\ Goto(d, "failing")
    /\ UNCHANGED <<job, status, rows, lock, removing, faults>>

\* Faulty variant: the release is forgotten.
RecordErrorOnly(d) ==
    /\ task[d] = "failing"
    /\ SetStatus(d, "error")
    /\ Goto(d, "done")
    /\ UNCHANGED <<job, rows, lock, stack, removing, faults>>

\* The handler records ERROR; only _run_deploy goes on to release the slot.
RecordError(d) ==
    /\ task[d] = "failing"
    /\ SetStatus(d, "error")
    /\ Goto(d, IF job[d].kind = "rollback" THEN "done" ELSE "releasing")
    /\ UNCHANGED <<job, rows, lock, stack, removing, faults>>

\* QuotaService.release in a session of its own: every row of the project.
ReleaseSlot(d) ==
    /\ task[d] = "releasing"
    /\ rows' = rows \ RowsOf(job[d].project)
    /\ Goto(d, "done")
    /\ UNCHANGED <<job, status, lock, stack, removing, faults>>

-----------------------------------------------------------------------------
(* Faults *)

\* The process restarts.  Start-up (main.lifespan) looks at no deployment.
Restart ==
    /\ faults < MaxFaults
    /\ faults' = faults + 1
    /\ task' = [d \in Ids |-> IF task[d] \in Live THEN "dead" ELSE task[d]]
    /\ lock' = NoId
    /\ removing' = [x \in Removers |-> NoId]
    /\ UNCHANGED <<job, status, rows, stack>>

\* The error handler's own database write raises: the task is over.
HandlerRaises(d) ==
    /\ task[d] \in {"failing", "releasing"}
    /\ faults < MaxFaults
    /\ faults' = faults + 1
    /\ Goto(d, "dead")
    /\ UNCHANGED <<job, status, rows, lock, stack, removing>>

-----------------------------------------------------------------------------
Request(d) ==
    \/ \E p \in Projects :
         \/ StartNew(d, "deploy", p) \/ StartNew(d, "install", p)
         \/ StartRedeploy(d, p)
    \/ \E t \in Ids : StartRollback(d, t)

Install(d) == InstallUp(d) \/ InstallCommit(d) \/ InstallFails(d)

Background(d) ==
    \/ TaskBegins(d) \/ ImageReady(d) \/ StackUp(d) \/ RecordReady(d)
    \/ StepRaises(d) \/ RecordError(d) \/ ReleaseSlot(d)

Remove(x) == RemoveRows(x) \/ \E p \in Projects : RemoveStack(x, p)

Next ==
    \/ \E d \in Ids :
         \/ Request(d) \/ Reserve(d) \/ Install(d) \/ Background(d)
         \/ HandlerRaises(d)
    \/ \E x \in Removers : Remove(x)
    \/ Restart

Spec == Init /\ [][Next]_vars

\* asyncio runs every task on, docker and the builders end or fail, waiters
\* for the advisory lock are served in turn.  Users owe nothing.
Fairness ==
    /\ \A d \in Ids : /\ SF_vars(Reserve(d))
                      /\ WF_vars(Install(d))
                      /\ WF_vars(Background(d))
    /\ \A x \in Removers : WF_vars(RemoveRows(x))

FairSpec == Spec /\ Fairness

-----------------------------------------------------------------------------
\* The quota survives every interleaving of deploys, installs, redeploys,
\* failures, removals and restarts (check_and_reserve and release).
QuotaRespected == Cardinality(rows) <= MaxApps

\* A slot is held by a deployment that is under way or succeeded, or whose
\* release is still to come or was lost with the process: an install that
\* failed, or a deploy whose task is over in ERROR, holds none ("a failed
\* install leaves no orphan slot", install_for_tenant).
NoOrphanSlot ==
    \A d \in rows :
        \/ status[d] \in {"queued", "building", "ready"}
        \/ task[d] \in {"releasing", "dead"}

\* An in-flight row always has a task behind it, or had one the process lost:
\* no path through the handlers ends without a final status.
InFlightIsOwned ==
    \A d \in Ids : status[d] \in InFlight => task[d] \in Running \cup {"dead"}

\* A tenant whose deploy failed gets the slot back, unless the process went
\* down or the handler itself failed (_run_deploy's except branches).
FailureFreesSlot ==
    \A d \in Ids :
        (task[d] = "failing" /\ job[d].kind = "deploy")
            ~> (d \notin rows \/ faults > 0)

-----------------------------------------------------------------------------
\* What the proofs need: a row that is there is where its task left it ...
StatusFollowsTask ==
    \A d \in Ids :
        /\ task[d] \in Waiting \cup {"idle"} => status[d] = "absent"
        /\ status[d] # "absent" =>
             /\ task[d] = "queued" => status[d] = "queued"
             /\ task[d] \in {"building", "starting", "up"} => status[d] = "building"
             /\ task[d] = "failing" => status[d] \in InFlight
             /\ task[d] = "releasing" => status[d] = "error"

\* ... an install never runs as a background task, and its row is READY;
\* deploys and redeploys are not marketplace history ...
InstallsRunInRequest ==
    \A d \in Ids :
        /\ job[d].kind = "install" =>
             /\ status[d] \in {"absent", "ready"}
             /\ task[d] \notin Running \cup {"releasing"}
        /\ job[d].kind \in {"deploy", "redeploy"} => ~job[d].app

\* ... rows are made by deploys and installs past their request ...
RowsAreReservations ==
    \A d \in rows : /\ job[d].kind \in {"deploy", "install"}
                    /\ task[d] \notin Waiting \cup {"idle"}
                    /\ status[d] # "absent"

\* ... and an install that reserved holds the lock, with room for its row.
InstallHoldsLock ==
    \A d \in Ids : task[d] \in {"installing", "committing"} =>
                    /\ job[d].kind = "install" /\ lock = d
                    /\ Cardinality(rows) < MaxApps

DeploysInv ==
    /\ TypeOK /\ StatusFollowsTask /\ InstallsRunInRequest
    /\ RowsAreReservations /\ InstallHoldsLock
    /\ QuotaRespected /\ NoOrphanSlot /\ InFlightIsOwned

Life == INSTANCE DeployLife
ImplementsLife == Life!LifeSpec

\* "never leave a deployment stuck in building" (_run_deploy): every deployment
\* ends READY or ERROR, unless a fault took its task.  Start-up looks at no
\* deployment, so after a restart the row may stay in flight for ever.
Settles ==
    \A d \in Ids : (status[d] \in InFlight)
                       ~> (status[d] \notin InFlight \/ faults > 0)

Ledger == INSTANCE SlotLedger
            WITH taken <- rows, Slots <- Ids, PlatformScope <- FALSE
ImplementsLedger == Ledger!LedgerSpec
=============================================================================
