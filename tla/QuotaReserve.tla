---------------------------- MODULE QuotaReserve ----------------------------
(***************************************************************************)
(* QuotaService.check_and_reserve and release (app/services/quota.py) at   *)
(* the granularity at which PostgreSQL interleaves them: one statement of  *)
(* one transaction per step, READ COMMITTED, for one tenant.  Every        *)
(* request runs at most once.                                              *)
(*                                                                         *)
(*   "deploy"    start_deploy_for_tenant: existence check, reservation and *)
(*               Deployment row, commit; then the background build         *)
(*   "install"   AppsService.install_for_tenant: the same reservation, but *)
(*               docker runs INSIDE the transaction (the lock is held)     *)
(*   "redeploy"  redeploy_for_tenant: needs a reservation, makes none; its *)
(*               background build releases on failure like a deploy's      *)
(*                                                                         *)
(* A reservation row is named by the request that inserted it, so that two *)
(* rows of one project (the index is not unique) stay apart.  A request's  *)
(* Deployment row is in flight from its commit to READY or ERROR.          *)
(***************************************************************************)
EXTENDS Naturals, FiniteSets

CONSTANTS
    Requests,       \* API requests of one tenant
    Projects,       \* project (stack) names
    MaxApps,        \* max_apps of the tenant's plan, constant here
    PlatformScope,  \* the operator's own tenant, exempt from the quota
    NoRequest       \* "nobody holds the advisory lock"

ASSUME QuotaAssumption ==
    /\ IsFiniteSet(Requests)
    /\ MaxApps \in Nat
    /\ PlatformScope \in BOOLEAN
    /\ NoRequest \notin Requests

Kinds == {"deploy", "install", "redeploy"}

VARIABLES
    kind,       \* what each request does
    project,    \* the project it names
    rows,       \* committed TenantResource app rows
    inflight,   \* requests whose Deployment row is queued or building
    lock,       \* holder of pg_advisory_xact_lock(hashtext(tenant))
    pc,         \* where each transaction or background task is
    seen,       \* _count_apps step 1: the rows this transaction read
    count       \* _count_apps: the slots in use as this transaction saw them

vars == <<kind, project, rows, inflight, lock, pc, seen, count>>

\* The steps a transaction takes while it holds the advisory lock.
Locked == {"rows", "inflight", "decide", "insert"}

Ended  == {"refused", "ready", "failed"}
Stages == Locked \cup Ended \cup {"begin", "lock", "build", "release"}

TypeOK ==
    /\ kind \in [Requests -> Kinds]
    /\ project \in [Requests -> Projects]
    /\ rows \subseteq Requests
    /\ inflight \subseteq Requests
    /\ lock \in Requests \cup {NoRequest}
    /\ pc \in [Requests -> Stages]
    /\ seen \in [Requests -> SUBSET Requests]
    /\ count \in [Requests -> Nat]

RowsOf(p, rs) == {r \in rs : project[r] = p}

Init ==
    /\ kind \in [Requests -> Kinds]
    /\ project \in [Requests -> Projects]
    /\ rows = {}
    /\ inflight = {}
    /\ lock = NoRequest
    /\ pc = [r \in Requests |-> "begin"]
    /\ seen = [r \in Requests |-> {}]
    /\ count = [r \in Requests |-> 0]

Goto(r, stage) == pc' = [pc EXCEPT ![r] = stage]

-----------------------------------------------------------------------------
\* The existence check of a deploy or an install.  It runs before the lock
\* is taken; 409 when the tenant already has a row of this name.
CheckExisting(r) ==
    /\ pc[r] = "begin" /\ kind[r] # "redeploy"
    /\ Goto(r, IF RowsOf(project[r], rows) = {} THEN "lock" ELSE "refused")
    /\ UNCHANGED <<kind, project, rows, inflight, lock, seen, count>>

\* A redeploy needs a row (else 404) and commits its Deployment row.
StartRedeploy(r) ==
    /\ pc[r] = "begin" /\ kind[r] = "redeploy"
    /\ IF RowsOf(project[r], rows) = {}
         THEN Goto(r, "refused") /\ UNCHANGED inflight
         ELSE Goto(r, "build") /\ inflight' = inflight \cup {r}
    /\ UNCHANGED <<kind, project, rows, lock, seen, count>>

\* Faulty variant: the lock does not block (what SQLite's no-op does).
NoBlockingLock(r) ==
    /\ pc[r] = "lock"
    /\ lock' = r
    /\ Goto(r, "rows")
    /\ UNCHANGED <<kind, project, rows, inflight, seen, count>>

\* _acquire_tenant_lock: blocks until the previous holder's transaction ends.
AcquireTenantLock(r) ==
    /\ pc[r] = "lock"
    /\ lock = NoRequest
    /\ lock' = r
    /\ Goto(r, "rows")
    /\ UNCHANGED <<kind, project, rows, inflight, seen, count>>

\* _count_apps step 1: the committed reservation rows.
ReadRows(r) ==
    /\ pc[r] = "rows"
    /\ seen' = [seen EXCEPT ![r] = rows]
    /\ Goto(r, "inflight")
    /\ UNCHANGED <<kind, project, rows, inflight, lock, count>>

\* In-flight deployments whose project is not among the rows read in step 1.
Uncovered(r) == {q \in inflight : RowsOf(project[q], seen[r]) = {}}

\* _count_apps step 2, a second statement with a snapshot of its own.
ReadInflight(r) ==
    /\ pc[r] = "inflight"
    /\ count' = [count EXCEPT ![r] = Cardinality(seen[r]) + Cardinality(Uncovered(r))]
    /\ Goto(r, "decide")
    /\ UNCHANGED <<kind, project, rows, inflight, lock, seen>>

\* Faulty variant: off by one, compares the count before the new app.
OverQuotaByOne(r) == ~PlatformScope /\ count[r] > MaxApps

\* current_apps + 1 > max_apps raises QuotaExceeded: the transaction rolls back.
OverQuota(r) == ~PlatformScope /\ count[r] + 1 > MaxApps

Decide(r) ==
    /\ pc[r] = "decide"
    /\ IF OverQuota(r)
         THEN Goto(r, "refused") /\ lock' = NoRequest
         ELSE Goto(r, "insert") /\ UNCHANGED lock
    /\ UNCHANGED <<kind, project, rows, inflight, seen, count>>

\* The flushed row becomes visible when its transaction commits, which also
\* frees the lock.  A deploy's transaction adds the queued Deployment; an
\* install commits after docker brought the stack up.
CommitReservation(r) ==
    /\ pc[r] = "insert"
    /\ rows' = rows \cup {r}
    /\ lock' = NoRequest
    /\ IF kind[r] = "deploy"
         THEN Goto(r, "build") /\ inflight' = inflight \cup {r}
         ELSE Goto(r, "ready") /\ UNCHANGED inflight
    /\ UNCHANGED <<kind, project, seen, count>>

\* An exception between the flush and the commit (docker failing an install,
\* a lost connection): everything this transaction wrote is rolled back.
AbortReservation(r) ==
    /\ pc[r] = "insert"
    /\ lock' = NoRequest
    /\ Goto(r, "refused")
    /\ UNCHANGED <<kind, project, rows, inflight, seen, count>>

\* _run_deploy ends in READY: the reservation stays.
BuildReady(r) ==
    /\ pc[r] = "build"
    /\ inflight' = inflight \ {r}
    /\ Goto(r, "ready")
    /\ UNCHANGED <<kind, project, rows, lock, seen, count>>

\* _run_deploy ends in ERROR; the release is a later transaction.
BuildFailed(r) ==
    /\ pc[r] = "build"
    /\ inflight' = inflight \ {r}
    /\ Goto(r, "release")
    /\ UNCHANGED <<kind, project, rows, lock, seen, count>>

\* QuotaService.release: deletes EVERY row of the project, takes no lock.
Release(r) ==
    /\ pc[r] = "release"
    /\ rows' = rows \ RowsOf(project[r], rows)
    /\ Goto(r, "failed")
    /\ UNCHANGED <<kind, project, inflight, lock, seen, count>>

\* AppsService.remove_for_tenant: an app that has a row is removed with it.
RemoveApp(p) ==
    /\ RowsOf(p, rows) # {}
    /\ rows' = rows \ RowsOf(p, rows)
    /\ UNCHANGED <<kind, project, inflight, lock, pc, seen, count>>

-----------------------------------------------------------------------------
\* The statements between taking the advisory lock and giving it back.
HoldLock(r) ==
    \/ ReadRows(r) \/ ReadInflight(r) \/ Decide(r)
    \/ CommitReservation(r) \/ AbortReservation(r)

Background(r) == BuildReady(r) \/ BuildFailed(r) \/ Release(r)

Next ==
    \/ \E r \in Requests :
          \/ CheckExisting(r) \/ StartRedeploy(r) \/ AcquireTenantLock(r)
          \/ HoldLock(r) \/ Background(r)
    \/ \E p \in Projects : RemoveApp(p)

Spec == Init /\ [][Next]_vars

-----------------------------------------------------------------------------
\* A tenant never holds more reservation rows than its plan allows, whatever
\* the interleaving of deploys, installs, failures and removals
\* (check_and_reserve: "must be race-free").
QuotaRespected == ~PlatformScope => Cardinality(rows) <= MaxApps

\* Whoever got past the check still has room when it inserts: no other
\* transaction took the slot between its count and its commit.
RoomAtInsert ==
    \A r \in Requests :
        pc[r] = "insert" /\ ~PlatformScope => Cardinality(rows) < MaxApps

\* A deploy whose build failed leaves no slot behind once its background task
\* is over ("so no orphan slot is left", _run_deploy).
NoOrphanSlot == \A r \in Requests : pc[r] = "failed" => r \notin rows

-----------------------------------------------------------------------------
\* Why the quota holds.  Only the lock's holder inserts; while it is held the
\* committed rows can only shrink, so the rows read stay an upper bound, and
\* so does the count, until the insert.
LockHeld == \A r \in Requests : pc[r] \in Locked => lock = r

RowsSeen ==
    \A r \in Requests : pc[r] = "inflight" => rows \subseteq seen[r]

CountCovers ==
    \A r \in Requests : pc[r] = "decide" => Cardinality(rows) <= count[r]

RowStage == \A r \in rows : pc[r] \in {"build", "release", "ready"}

QuotaInv ==
    /\ TypeOK /\ LockHeld /\ RowsSeen /\ CountCovers /\ RowStage
    /\ RoomAtInsert /\ QuotaRespected

Ledger == INSTANCE SlotLedger WITH taken <- rows, Slots <- Requests

\* The transactions implement the abstract ledger of slots.
ImplementsLedger == Ledger!LedgerSpec
=============================================================================
