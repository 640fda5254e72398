--------------------------- MODULE ImageRetention ---------------------------
(***************************************************************************)
(* The images of one project of one tenant: builds push them               *)
(* (app/services/registry.py), rollbacks re-use or pull them, and every    *)
(* successful build ends with a retention pass, _prune_old_images in       *)
(* app/modules/deploys/service.py, that deletes the ones outside the       *)
(* rollback window.  The pass reads the rows in one transaction, closes    *)
(* it, and only then runs its docker and registry commands one by one.     *)
(*                                                                         *)
(* A ref is what a Deployment row records: the registry-qualified name of  *)
(* a commit's image, or the builder's bare name when the push failed.      *)
(* QUEUED and BUILDING are one status here: retention treats them alike.   *)
(* Deployments are numbered in created_at order.                           *)
(***************************************************************************)
EXTENDS Naturals, FiniteSets

CONSTANTS
    Commits,        \* commits the project's branch may be at
    Keep,           \* REGISTRY_KEEP_IMAGES
    MaxDeployments, \* bound on the deployments of a run
    NoRef           \* Deployment.image = ""

ASSUME RetentionAssumption ==
    /\ Keep \in Nat \ {0}
    /\ MaxDeployments \in Nat

Refs == [commit : Commits, pushed : BOOLEAN]
Pushed(c) == [commit |-> c, pushed |-> TRUE]
Bare(c)   == [commit |-> c, pushed |-> FALSE]

VARIABLES
    created,    \* how many Deployment rows there are
    status,     \* "none", "inflight", "ready" or "error"
    recorded,   \* Deployment.image
    task,       \* where each background task is
    ref,        \* the ref a task works with before and after it is recorded
    local,      \* refs docker has on the host
    remote,     \* commits whose tag the registry has
    foreign,    \* commits whose ref a row of another tenant records
    stale,      \* what a retention pass decided to delete
    toDelete,   \* what it has still to delete
    half,       \* the ref it has deleted locally and not yet in the registry
    disturbed   \* a row was created during a pass still under way

rows  == <<created, status, recorded>>
store == <<local, remote>>
prune == <<stale, toDelete, half>>
retentionVars == <<rows, task, ref, store, foreign, prune, disturbed>>

Deployments == 1..MaxDeployments

Tasks == {"none", "cloning", "built", "pushed", "starting", "checking",
          "restarting", "retention", "pruning", "done"}

RetentionTypeOK ==
    /\ created \in 0..MaxDeployments
    /\ status \in [Deployments -> {"none", "inflight", "ready", "error"}]
    /\ recorded \in [Deployments -> Refs \cup {NoRef}]
    /\ task \in [Deployments -> Tasks]
    /\ ref \in [Deployments -> Refs \cup {NoRef}]
    /\ local \subseteq Refs
    /\ remote \subseteq Commits
    /\ foreign \subseteq Commits
    /\ stale \in [Deployments -> SUBSET Refs]
    /\ toDelete \in [Deployments -> SUBSET Refs]
    /\ half \in [Deployments -> Refs \cup {NoRef}]
    /\ disturbed \in BOOLEAN

RetentionInit ==
    /\ created = 0
    /\ status = [d \in Deployments |-> "none"]
    /\ recorded = [d \in Deployments |-> NoRef]
    /\ task = [d \in Deployments |-> "none"]
    /\ ref = [d \in Deployments |-> NoRef]
    /\ local = {} /\ remote = {} /\ foreign = {}
    /\ stale = [d \in Deployments |-> {}]
    /\ toDelete = [d \in Deployments |-> {}]
    /\ half = [d \in Deployments |-> NoRef]
    /\ disturbed = FALSE

Goto(d, stage) == task' = [task EXCEPT ![d] = stage]

Pruning == \E d \in Deployments : task[d] = "pruning"

\* A new Deployment row; one created during a retention pass is what the
\* pass's own check of the rows can no longer see.
CreateRow(stage) ==
    /\ created < MaxDeployments
    /\ created' = created + 1
    /\ status' = [status EXCEPT ![created'] = "inflight"]
    /\ Goto(created', stage)
    /\ disturbed' = (disturbed \/ Pruning)

-----------------------------------------------------------------------------
(* Builds: _run_deploy *)

StartBuild(c) ==
    /\ CreateRow("cloning")
    /\ ref' = [ref EXCEPT ![created'] = Bare(c)]
    /\ UNCHANGED <<recorded, store, foreign, prune>>

\* build_from_git tags the image with the builder's bare name.
Build(d) ==
    /\ task[d] = "cloning"
    /\ local' = local \cup {ref[d]}
    /\ Goto(d, "built")
    /\ UNCHANGED <<rows, ref, remote, foreign, prune, disturbed>>

\* ImageRegistry.push: tag, push, drop the bare name, each of which may fail;
\* only a pushed image is used by its qualified name.
Push(d) ==
    LET c == ref[d].commit
        tagged == local \cup {Pushed(c)} IN
    /\ task[d] = "built"
    /\ \/ /\ local' \in {tagged, tagged \ {Bare(c)}}
          /\ remote' = remote \cup {c}
          /\ ref' = [ref EXCEPT ![d] = Pushed(c)]
       \/ /\ local' \in {local, tagged}
          /\ UNCHANGED <<remote, ref>>
    /\ Goto(d, "pushed")
    /\ UNCHANGED <<rows, foreign, prune, disturbed>>

\* "Persist the ref NOW (row still BUILDING)".
RecordRef(d) ==
    /\ task[d] = "pushed"
    /\ recorded' = [recorded EXCEPT ![d] = ref[d]]
    /\ Goto(d, "starting")
    /\ UNCHANGED <<created, status, ref, store, foreign, prune, disturbed>>

\* compose up finds the image on the host or pulls a qualified name.
Available(r) == r \in local \/ (r.pushed /\ r.commit \in remote)

GoLive(d, next) ==
    /\ Available(ref[d])
    /\ local' = local \cup {ref[d]}
    /\ status' = [status EXCEPT ![d] = "ready"]
    /\ recorded' = [recorded EXCEPT ![d] = ref[d]]
    /\ Goto(d, next)
    /\ UNCHANGED <<created, ref, remote, foreign, prune, disturbed>>

BuildReady(d) == task[d] = "starting" /\ GoLive(d, "retention")

\* Any step before READY may raise; the row keeps the ref it recorded.
TaskFails(d) ==
    /\ task[d] \in {"cloning", "built", "pushed", "starting", "checking", "restarting"}
    /\ status' = [status EXCEPT ![d] = "error"]
    /\ Goto(d, "done")
    /\ UNCHANGED <<created, recorded, ref, store, foreign, prune, disturbed>>

-----------------------------------------------------------------------------
(* Rollbacks: rollback_for_tenant and _run_rollback *)

\* The new row carries the target's image from the start.
StartRollback(t) ==
    /\ status[t] = "ready"
    /\ recorded[t] # NoRef
    /\ CreateRow("checking")
    /\ ref' = [ref EXCEPT ![created'] = recorded[t]]
    /\ recorded' = [recorded EXCEPT ![created'] = recorded[t]]
    /\ UNCHANGED <<store, foreign, prune>>

\* image_exists, else pull a qualified ref; a missing image fails the task.
FindImage(d) ==
    /\ task[d] = "checking"
    /\ Available(ref[d])
    /\ local' = local \cup {ref[d]}
    /\ Goto(d, "restarting")
    /\ UNCHANGED <<rows, ref, remote, foreign, prune, disturbed>>

RollbackReady(d) == task[d] = "restarting" /\ GoLive(d, "done")

-----------------------------------------------------------------------------
(* Retention: _prune_old_images *)

Ready(r) == {d \in Deployments : status[d] = "ready" /\ recorded[d] = r}
ReadyRefs == {r \in Refs : Ready(r) # {}}

\* r's most recent reference is newer than s's.
Newer(r, s) == \E d \in Ready(r) : \A e \in Ready(s) : d > e

\* The newest Keep DISTINCT images of READY deployments.
Window == {r \in ReadyRefs : Cardinality({s \in ReadyRefs : Newer(s, r)}) < Keep}

ErrorRefs == {r \in Refs : \E d \in Deployments : status[d] = "error" /\ recorded[d] = r}

\* Faulty variant: only builds whose ref is not recorded yet stop a pass.
InFlightUnrecorded ==
    {d \in Deployments : status[d] = "inflight" /\ recorded[d] = NoRef}

InFlight == {d \in Deployments : status[d] = "inflight"}

\* Faulty variant: other tenants' rows are not looked at.
NoneShared == {}

\* Refs a row of another tenant records too.
Shared == {Pushed(c) : c \in foreign}

\* One transaction: stand down if anything is in flight, else decide.
PruneRead(d) ==
    /\ task[d] = "retention"
    /\ IF InFlight # {}
         THEN Goto(d, "done") /\ UNCHANGED prune
         ELSE LET doomed == ((ReadyRefs \cup ErrorRefs) \ Window) \ Shared IN
              /\ stale' = [stale EXCEPT ![d] = doomed]
              /\ toDelete' = [toDelete EXCEPT ![d] = doomed]
              /\ Goto(d, "pruning")
              /\ UNCHANGED half
    /\ UNCHANGED <<rows, ref, store, foreign, disturbed>>

\* docker rmi; it refuses an image that a container uses.
RemoveLocal(d, r) ==
    /\ task[d] = "pruning" /\ half[d] = NoRef
    /\ r \in toDelete[d]
    /\ local' \in {local, local \ {r}}
    /\ toDelete' = [toDelete EXCEPT ![d] = @ \ {r}]
    /\ half' = [half EXCEPT ![d] = r]
    /\ UNCHANGED <<rows, task, ref, remote, foreign, stale, disturbed>>

\* delete_remote refuses local-only refs and is best effort.
DeleteRemote(d) ==
    /\ task[d] = "pruning" /\ half[d] # NoRef
    /\ remote' \in IF half[d].pushed THEN {remote, remote \ {half[d].commit}} ELSE {remote}
    /\ half' = [half EXCEPT ![d] = NoRef]
    /\ UNCHANGED <<rows, task, ref, local, foreign, stale, toDelete, disturbed>>

\* The refs it deleted are cleared off ERROR rows.
PruneDone(d) ==
    /\ task[d] = "pruning" /\ half[d] = NoRef /\ toDelete[d] = {}
    /\ recorded' = [e \in Deployments |->
                   IF status[e] = "error" /\ recorded[e] \in stale[d] THEN NoRef ELSE recorded[e]]
    /\ stale' = [stale EXCEPT ![d] = {}]
    /\ Goto(d, "done")
    /\ disturbed' = (disturbed /\ \E e \in Deployments \ {d} : task[e] = "pruning")
    /\ UNCHANGED <<created, status, ref, store, foreign, toDelete, half>>

-----------------------------------------------------------------------------
(* The rest of the host *)

\* Another tenant's project of the same name and commit: the same tag is
\* pushed, then recorded on its own row.
ForeignPush(c) ==
    /\ c \notin foreign
    /\ remote' = remote \cup {c}
    /\ UNCHANGED <<rows, task, ref, local, foreign, prune, disturbed>>

ForeignRecord(c) ==
    /\ c \in remote
    /\ foreign' = foreign \cup {c}
    /\ disturbed' = (disturbed \/ Pruning)
    /\ UNCHANGED <<rows, task, ref, store, prune>>

-----------------------------------------------------------------------------
BuildStep(d) == Build(d) \/ Push(d) \/ RecordRef(d) \/ BuildReady(d) \/ TaskFails(d)
RollbackStep(d) == FindImage(d) \/ RollbackReady(d)
PruneStep(d) ==
    \/ PruneRead(d) \/ (\E r \in Refs : RemoveLocal(d, r))
    \/ DeleteRemote(d) \/ PruneDone(d)

RetentionNext ==
    \/ \E c \in Commits : StartBuild(c) \/ ForeignPush(c) \/ ForeignRecord(c)
    \/ \E d \in Deployments :
         StartRollback(d) \/ BuildStep(d) \/ RollbackStep(d) \/ PruneStep(d)

RetentionSpec == RetentionInit /\ [][RetentionNext]_retentionVars

-----------------------------------------------------------------------------
\* The commits whose tag a step deletes from the registry.
Deleted == remote \ remote'

\* What a deletion must spare: the rollback window and whatever an in-flight
\* deployment has recorded ("skip this cycle rather than race it",
\* _prune_old_images).
Spared(c) ==
    \/ Pushed(c) \in Window
    \/ \E d \in InFlight : recorded[d] = Pushed(c)

\* Retention deletes nothing it must spare, as long as no row is created
\* while a pass is deleting: the one hole is the time between the pass's
\* transaction and its last command.
KeepsQuietWindow == [][\A c \in Deleted : Spared(c) => disturbed]_retentionVars

\* An image another tenant's row records is never deleted (ADR 0014), as
\* long as that row does not appear while a pass is deleting.
KeepsForeign == [][\A c \in Deleted : c \in foreign => disturbed]_retentionVars
=============================================================================
