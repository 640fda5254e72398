------------------------------ MODULE Previews ------------------------------
(***************************************************************************)
(* The preview environments of one hooked project.  GitHub tells of pushes *)
(* and of deleted branches by webhook (api_github_webhook in               *)
(* app/api/routes.py); a push deploys the branch as a stack of its own, a  *)
(* deletion tears it down (app/modules/deploys/service.py).  Webhook       *)
(* requests run concurrently, nothing locks the preview rows, and the      *)
(* build a push started knows nothing of a later teardown.                 *)
(*                                                                         *)
(* Events are numbered as GitHub sends them.  An event also names the      *)
(* request that handles it and, for a push, the preview row and the        *)
(* deployment that request makes.  A deleted branch is told of twice, by a *)
(* delete event and by a push with deleted=true, handled alike.            *)
(*                                                                         *)
(* The quota is left out: a preview reserves no slot.                      *)
(***************************************************************************)
EXTENDS Naturals, FiniteSets

CONSTANTS
    Branches,       \* branches other than the hook's own
    Stacks,         \* names of compose projects
    Slug,           \* preview_project_name: the stack of each branch
    MaxPreviews,    \* max_previews_per_project
    MaxEvents,      \* bound on the events
    MaxFaults       \* bound: restarts and failures of `compose down`

ASSUME PreviewsAssumption ==
    /\ IsFiniteSet(Branches)
    /\ Slug \in [Branches -> Stacks]
    /\ MaxPreviews \in Nat
    /\ MaxEvents \in Nat /\ MaxFaults \in Nat

Events == 1..MaxEvents
None   == 0

VARIABLES
    exists,     \* branches there are at GitHub
    sent,       \* how many events there have been
    event,      \* what each one tells
    request,    \* where its handling is
    seen,       \* the preview row the request read
    preview,    \* the PreviewEnv row of each branch, named by its maker
    build,      \* the Deployment of each push and its background task
    stack,      \* the deployment each compose project runs
    raced,      \* two pushes were between their count and their commit
    disordered, \* a branch's webhook was handled before an earlier one
    overtaken,  \* a preview was torn down while it was being built
    faults

webhooks == <<exists, sent, event>>
history  == <<raced, disordered, overtaken>>
vars == <<webhooks, request, seen, preview, build, stack, history, faults>>

Handling == {"sent", "checked", "found", "removing"}

\* "lost": in flight when the process went down.
InFlight == {"queued", "building", "up", "failing", "lost"}
Builds   == InFlight \cup {"absent", "ready", "error"}

NoEvent == [branch |-> None, kind |-> "push"]

TypeOK ==
    /\ exists \subseteq Branches
    /\ sent \in 0..MaxEvents
    /\ event \in [Events -> [branch : Branches \cup {None}, kind : {"push", "delete", "discard"}]]
    /\ request \in [Events -> Handling \cup {"none", "done"}]
    /\ seen \in [Events -> Events \cup {None}]
    /\ preview \in [Branches -> Events \cup {None}]
    /\ build \in [Events -> Builds]
    /\ stack \in [Stacks -> Events \cup {None}]
    /\ raced \in BOOLEAN /\ disordered \in BOOLEAN /\ overtaken \in BOOLEAN
    /\ faults \in 0..MaxFaults

Init ==
    /\ exists = {} /\ sent = 0
    /\ event = [n \in Events |-> NoEvent]
    /\ request = [n \in Events |-> "none"]
    /\ seen = [n \in Events |-> None]
    /\ preview = [b \in Branches |-> None]
    /\ build = [n \in Events |-> "absent"]
    /\ stack = [s \in Stacks |-> None]
    /\ raced = FALSE /\ disordered = FALSE /\ overtaken = FALSE
    /\ faults = 0

Goto(n, stage) == request' = [request EXCEPT ![n] = stage]
BuildIs(n, stage) == build' = [build EXCEPT ![n] = stage]

\* The branch and the stack an event is about.
BranchOf(n) == event[n].branch
StackOf(n)  == Slug[BranchOf(n)]

Held == {b \in Branches : preview[b] # None}

-----------------------------------------------------------------------------
(* GitHub and the console *)

\* New events for branch b, the first of them reading row r.
Tell(b, kind, count, r) ==
    LET new == sent + 1 .. sent + count IN
    /\ sent + count <= MaxEvents
    /\ sent' = sent + count
    /\ event' = [n \in Events |-> IF n \in new THEN [branch |-> b, kind |-> kind] ELSE event[n]]
    /\ request' = [n \in Events |-> IF n \in new THEN "sent" ELSE request[n]]
    /\ seen' = [n \in Events |-> IF n \in new THEN r ELSE seen[n]]
    /\ UNCHANGED <<preview, build, stack, history, faults>>

PushBranch(b) ==
    /\ exists' = exists \cup {b}
    /\ Tell(b, "push", 1, None)

DeleteBranch(b) ==
    /\ b \in exists
    /\ exists' = exists \ {b}
    /\ Tell(b, "delete", 2, None)

\* The owner deletes a preview by its id (console or CLI).
DiscardPreview(b) ==
    /\ preview[b] # None
    /\ Tell(b, "discard", 1, preview[b])
    /\ UNCHANGED exists

-----------------------------------------------------------------------------
(* deploy_preview_for_tenant *)

Webhook(n) == event[n].kind # "discard"
Handled(n) == request[n] \in {"removing", "done"}

\* Webhooks are handled in any order; one in turn follows the branch's
\* earlier ones.
InTurn(n) ==
    \A m \in 1..(n - 1) :
        Webhook(n) /\ Webhook(m) /\ BranchOf(m) = BranchOf(n) => Handled(m)

Begins(n) ==
    /\ request[n] = "sent"
    /\ disordered' = (disordered \/ ~InTurn(n))
    /\ UNCHANGED <<raced, overtaken>>

\* Faulty variant: one preview too many.
PushReadsOver(n) ==
    /\ Begins(n) /\ event[n].kind = "push"
    /\ seen' = [seen EXCEPT ![n] = preview[BranchOf(n)]]
    /\ Goto(n, IF preview[BranchOf(n)] # None \/ Cardinality(Held) <= MaxPreviews
                 THEN "checked" ELSE "done")
    /\ UNCHANGED <<webhooks, preview, build, stack, faults>>

\* The branch's row is looked up and, if there is none, the project's rows
\* are counted; at the cap the push is refused (409).
PushReads(n) ==
    /\ Begins(n) /\ event[n].kind = "push"
    /\ seen' = [seen EXCEPT ![n] = preview[BranchOf(n)]]
    /\ Goto(n, IF preview[BranchOf(n)] # None \/ Cardinality(Held) < MaxPreviews
                 THEN "checked" ELSE "done")
    /\ UNCHANGED <<webhooks, preview, build, stack, faults>>

\* The row (new, or the one read) and a queued Deployment are committed and
\* the build is spawned.
PushCommits(n) ==
    LET b == BranchOf(n) IN
    /\ request[n] = "checked"
    /\ preview[b] = seen[n]
    /\ preview' = [preview EXCEPT ![b] = IF seen[n] = None THEN n ELSE @]
    /\ raced' = (raced \/ (seen[n] = None /\
                    \E m \in Events \ {n} : request[m] = "checked" /\ seen[m] = None))
    /\ BuildIs(n, "queued")
    /\ Goto(n, "done")
    /\ UNCHANGED <<webhooks, seen, stack, disordered, overtaken, faults>>

\* Another push inserted the row first (unique constraint) or a teardown
\* deleted the one read (the update finds no row): 500, all rolled back.
PushFails(n) ==
    /\ request[n] = "checked"
    /\ preview[BranchOf(n)] # seen[n]
    /\ Goto(n, "done")
    /\ UNCHANGED <<webhooks, seen, preview, build, stack, history, faults>>

-----------------------------------------------------------------------------
(* teardown_preview_for_branch and delete_preview_for_tenant *)

BeingBuilt(b) == \E m \in Events : BranchOf(m) = b /\ build[m] \in InFlight

\* Faulty variant: a preview whose build has not ended is left for later.
TeardownReadsSettled(n) ==
    LET b == BranchOf(n)
        row == IF BeingBuilt(b) THEN None ELSE preview[b] IN
    /\ Begins(n) /\ event[n].kind # "push"
    /\ seen' = [seen EXCEPT ![n] = row]
    /\ Goto(n, IF row = None THEN "done" ELSE "found")
    /\ UNCHANGED <<webhooks, preview, build, stack, faults>>

\* The row of the branch, or the row with the id given, if it is still there.
TeardownReads(n) ==
    LET b == BranchOf(n)
        row == IF event[n].kind = "discard" /\ preview[b] # seen[n] THEN None ELSE preview[b] IN
    /\ Begins(n) /\ event[n].kind # "push"
    /\ seen' = [seen EXCEPT ![n] = row]
    /\ Goto(n, IF row = None THEN "done" ELSE "found")
    /\ UNCHANGED <<webhooks, preview, build, stack, faults>>

\* Faulty variant: the row is found again by the name of its stack.
TeardownCommitsByStack(n) ==
    /\ request[n] = "found"
    /\ preview' = [c \in Branches |-> IF Slug[c] = StackOf(n) THEN None ELSE preview[c]]
    /\ overtaken' = (overtaken \/ BeingBuilt(BranchOf(n)))
    /\ Goto(n, "removing")
    /\ UNCHANGED <<webhooks, seen, build, stack, raced, disordered, faults>>

\* The delete is committed; a row that another teardown deleted is no error.
TeardownCommits(n) ==
    LET b == BranchOf(n) IN
    /\ request[n] = "found"
    /\ preview' = [preview EXCEPT ![b] = IF @ = seen[n] THEN None ELSE @]
    /\ overtaken' = (overtaken \/ BeingBuilt(BranchOf(n)))
    /\ Goto(n, "removing")
    /\ UNCHANGED <<webhooks, seen, build, stack, raced, disordered, faults>>

\* Faulty variant: `compose down` for previews that became READY only.
RemoveStackReady(n) ==
    /\ request[n] = "removing"
    /\ stack' = [stack EXCEPT ![StackOf(n)] =
                   IF @ # None /\ build[@] = "ready" THEN None ELSE @]
    /\ Goto(n, "done")
    /\ UNCHANGED <<webhooks, seen, preview, build, history, faults>>

\* _remove_preview: `compose down` ...
RemoveStack(n) ==
    /\ request[n] = "removing"
    /\ stack' = [stack EXCEPT ![StackOf(n)] = None]
    /\ Goto(n, "done")
    /\ UNCHANGED <<webhooks, seen, preview, build, history, faults>>

\* ... and any docker error is taken to mean that the stack is already gone.
RemoveStackFails(n) ==
    /\ request[n] = "removing"
    /\ faults < MaxFaults
    /\ faults' = faults + 1
    /\ Goto(n, "done")
    /\ UNCHANGED <<webhooks, seen, preview, build, stack, history>>

-----------------------------------------------------------------------------
(* _run_deploy of a preview (env_project given) *)

TaskBegins(n) ==
    /\ build[n] = "queued"
    /\ BuildIs(n, "building")
    /\ UNCHANGED <<webhooks, request, seen, preview, stack, history, faults>>

StackUp(n) ==
    /\ build[n] = "building"
    /\ stack' = [stack EXCEPT ![StackOf(n)] = n]
    /\ BuildIs(n, "up")
    /\ UNCHANGED <<webhooks, request, seen, preview, history, faults>>

RecordReady(n) ==
    /\ build[n] = "up"
    /\ BuildIs(n, "ready")
    /\ UNCHANGED <<webhooks, request, seen, preview, stack, history, faults>>

\* Any step raises; a failing `compose up` may have started containers.
TaskRaises(n) ==
    /\ build[n] \in {"queued", "building", "up"}
    /\ stack' \in IF build[n] = "building"
                    THEN {stack, [stack EXCEPT ![StackOf(n)] = n]} ELSE {stack}
    /\ BuildIs(n, "failing")
    /\ UNCHANGED <<webhooks, request, seen, preview, history, faults>>

\* The handler records ERROR (and releases a slot the preview does not have).
RecordError(n) ==
    /\ build[n] = "failing"
    /\ BuildIs(n, "error")
    /\ UNCHANGED <<webhooks, request, seen, preview, stack, history, faults>>

-----------------------------------------------------------------------------
(* The rest of the process *)

\* Requests and tasks are gone; nothing looks for them at start-up.
Restart ==
    /\ faults < MaxFaults
    /\ faults' = faults + 1
    /\ request' = [n \in Events |-> IF request[n] \in Handling \ {"sent"} THEN "done" ELSE request[n]]
    /\ build' = [n \in Events |-> IF build[n] \in InFlight THEN "lost" ELSE build[n]]
    /\ UNCHANGED <<webhooks, seen, preview, stack, history>>

-----------------------------------------------------------------------------
Handle(n) ==
    \/ PushReads(n) \/ PushCommits(n) \/ PushFails(n)
    \/ TeardownReads(n) \/ TeardownCommits(n) \/ RemoveStack(n)

Background(n) ==
    \/ TaskBegins(n) \/ StackUp(n) \/ RecordReady(n)
    \/ TaskRaises(n) \/ RecordError(n)

Next ==
    \/ \E b \in Branches : PushBranch(b) \/ DeleteBranch(b) \/ DiscardPreview(b)
    \/ \E n \in Events : Handle(n) \/ Background(n) \/ RemoveStackFails(n)
    \/ Restart

Spec == Init /\ [][Next]_vars

-----------------------------------------------------------------------------
\* "capped per project instead (max_previews_per_project)" (PreviewEnv).
PreviewCap == Cardinality(Held) <= MaxPreviews

\* The cap holds as long as no two pushes of new branches overlap.
CapUnlessRaced == ~raced => PreviewCap

\* With a branch's webhooks handled in the order they were sent, the rows
\* come to agree with GitHub: neither the two events of one deletion nor a
\* running build bring back a deleted branch's row ("deleting the branch
\* tears it down", PreviewEnv), and a branch whose last event is a push that
\* was accepted has one ("GitHub sends both a `delete` event and a `push` with
\* deleted=true; teardown is idempotent so handling both is safe",
\* api_github_webhook).
AllHandled(b) == \A n \in 1..sent : BranchOf(n) = b => Handled(n)
DeletedBranchHasNoRow ==
    \A b \in Branches \ exists : AllHandled(b) => preview[b] = None
LastPushHasPreview ==
    \A n \in 1..sent :
        /\ event[n].kind = "push" /\ build[n] # "absent"
        /\ AllHandled(BranchOf(n))
        /\ \A m \in Events : BranchOf(m) = BranchOf(n) => Webhook(m) /\ m <= n
        => preview[BranchOf(n)] # None
RowsFollowBranches ==
    ~disordered /\ faults = 0 => DeletedBranchHasNoRow /\ LastPushHasPreview

\* A preview that was torn down does not run: "deleting the branch tears it
\* down" (PreviewEnv).
Idle ==
    /\ \A n \in Events : request[n] \in {"none", "done"}
    /\ \A n \in Events : build[n] \in {"absent", "ready", "error"}
NoOrphanPreview ==
    Idle /\ faults = 0 =>
        \A s \in Stacks : stack[s] # None => \E b \in Held : Slug[b] = s

\* It does not, as long as no preview is torn down while it is being built:
\* no ready, failed or half-started preview is left behind.
NoOrphanUnlessOvertaken == ~overtaken => NoOrphanPreview
=============================================================================
