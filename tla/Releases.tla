------------------------------ MODULE Releases ------------------------------
(***************************************************************************)
(* How a commit gets to the containers of its app: the push webhook and    *)
(* the deploy hooks (app/api/routes.py), the build in the project's work   *)
(* directory (app/services/builder.py), the deployment's task and the      *)
(* environment it injects (app/modules/deploys/service.py), the routing    *)
(* labels (app/services/edge.py) and the compose stack.                    *)
(*                                                                         *)
(* Nothing serialises two deployments of a name: they share the work       *)
(* directory, the image tags and the stack.  A name is one app's within    *)
(* its tenant only (start_deploy_for_tenant looks among the tenant's own), *)
(* so the apps of two tenants may share all of these too.                  *)
(***************************************************************************)
EXTENDS Naturals, FiniteSetsExt

CONSTANTS Projects,     \* apps, each of its tenant
          Name,         \* what each is called
          MaxDeploys, MaxCommits, MaxEdits,    \* bounds
          None

Ids == 1..MaxDeploys
Commits == 1..MaxCommits
Nothing == 0
Names == {Name[p] : p \in Projects}

\* Apps are built from repositories of their own.
Code == Projects \X Commits

VARIABLES
    head,       \* the last commit of each app's branch at GitHub
    hook,       \* apps that have a deploy hook
    pushed,     \* pushes whose webhook has not been handled
    accepted,   \* the newest commit whose webhook was answered 202
    app,        \* apps that hold their reservation
    request,    \* the removal or install of each app that is under way
    dir,        \* the code in the work directory of each name
    image,      \* what each image tetra-<name>:<sha> was built from
    env,        \* how often each app's variables were changed
    dep,        \* the deployments, in the order they were made
    stack,      \* what the compose project of each name runs
    met,        \* the newest deployment of a name that was begun while
                \* another one was under way
    gone        \* the newest deployment there was when a removal or an
                \* install last replaced the stack of a name

NoDep == [pc |-> "none", project |-> None, from |-> Nothing, tag |-> None,
          env |-> 0, hosts |-> {}]
NoStack == [by |-> Nothing, code |-> None, env |-> 0, hosts |-> {}]

ReleasesInit ==
    /\ head = [p \in Projects |-> 1]
    /\ hook = Projects /\ pushed = {} /\ app = {}
    /\ accepted = [p \in Projects |-> Nothing]
    /\ request = [p \in Projects |-> "none"]
    /\ dir = [n \in Names |-> None]
    /\ image = [n \in Names |-> [k \in Code |-> None]]
    /\ env = [p \in Projects |-> 0]
    /\ dep = [d \in Ids |-> NoDep]
    /\ stack = [n \in Names |-> NoStack]
    /\ met = [n \in Names |-> Nothing]
    /\ gone = [n \in Names |-> Nothing]

Begun == {d \in Ids : dep[d].pc # "none"}
NameOf(d) == Name[dep[d].project]
Of(n) == {d \in Begun : NameOf(d) = n}
Running(d) == dep[d].pc \notin {"none", "ready", "error", "lost"}
Underway(n) == {d \in Of(n) : Running(d)}
Ready(n) == {d \in Of(n) : dep[d].pc = "ready"}
At(d, pc) == dep[d].pc = pc
Goto(d, pc) == dep' = [dep EXCEPT ![d].pc = pc]

-----------------------------------------------------------------------------
(* What is asked for *)

Start(p, from, tag) ==
    LET d == Cardinality(Begun) + 1
    IN  /\ d \in Ids
        /\ dep' = [dep EXCEPT ![d] = [pc |-> "queued", project |-> p, from |-> from,
                                      tag |-> tag, env |-> 0, hosts |-> {}]]
        /\ met' = IF Underway(Name[p]) # {} THEN [met EXCEPT ![Name[p]] = d] ELSE met

\* A commit is pushed; GitHub calls the hook the project has.
Push(p) ==
    /\ head[p] < MaxCommits
    /\ head' = [head EXCEPT ![p] = @ + 1]
    /\ pushed' = IF p \in hook THEN pushed \cup {<<p, head[p] + 1>>} ELSE pushed
    /\ UNCHANGED <<hook, accepted, app, request, dir, image, env, dep, stack, met, gone>>

\* create_hook_for_tenant and delete_hook_for_tenant
Toggled(p) == IF p \in hook THEN hook \ {p} ELSE hook \cup {p}

\* api_create_deploy_hook and api_delete_deploy_hook
SetHook(p) ==
    /\ hook' = Toggled(p)
    /\ UNCHANGED <<head, pushed, accepted, app, request, dir, image, env, dep, stack, met, gone>>

\* start_deploy_for_tenant: a name the tenant does not use, else 409.  What
\* other tenants use is not looked at.  An install that is under way has the
\* tenant's advisory lock.
Deploy(p) ==
    /\ p \notin app /\ app' = app \cup {p}
    /\ request[p] = "none"
    /\ Start(p, Nothing, None)
    /\ UNCHANGED <<head, hook, pushed, accepted, request, dir, image, env, stack, gone>>

\* api_github_webhook, in any order: 404 without the hook or the app.
Webhook(p, c) ==
    /\ <<p, c>> \in pushed /\ pushed' = pushed \ {<<p, c>>}
    /\ IF p \in hook \cap app
       THEN /\ Start(p, Nothing, None)
            /\ accepted' = [accepted EXCEPT ![p] = IF @ < c THEN c ELSE @]
       ELSE UNCHANGED <<dep, met, accepted>>
    /\ UNCHANGED <<head, hook, app, request, dir, image, env, stack, gone>>

\* rollback_for_tenant: to a READY deployment of an app that is there.
Rollback(d) ==
    /\ At(d, "ready") /\ dep[d].project \in app
    /\ Start(dep[d].project, d, dep[d].tag)
    /\ UNCHANGED <<head, hook, pushed, accepted, app, request, dir, image, env, stack, gone>>

\* set_env_for_tenant and delete_env_for_tenant
Edited(p) == [env EXCEPT ![p] = @ + 1]

\* api_set_deploy_env and api_delete_deploy_env
SetEnv(p) ==
    /\ env[p] < MaxEdits /\ env' = Edited(p)
    /\ UNCHANGED <<head, hook, pushed, accepted, app, request, dir, image, dep, stack, met, gone>>

-----------------------------------------------------------------------------
(* Removals, and installs of a template's own containers.  The row of an   *)
(* install is not a deployment here.                                       *)

\* _ensure_app_access, or the 409 of install_for_tenant
Ask(p) ==
    /\ request[p] = "none"
    /\ request' = [request EXCEPT ![p] = IF p \in app THEN "remove" ELSE "install"]
    /\ UNCHANGED <<head, hook, pushed, accepted, app, dir, image, env, dep, stack, met, gone>>

Asked(p) == request[p] \in {"remove", "install"}
Displaced(p) ==
    /\ stack' = [stack EXCEPT ![Name[p]] = NoStack]
    /\ gone' = [gone EXCEPT ![Name[p]] = Cardinality(Begun)]

\* remove_stack and deploy_stack
Replace(p) ==
    /\ Asked(p) /\ Displaced(p)
    /\ request' = [request EXCEPT ![p] = IF @ = "remove" THEN "removed" ELSE "installed"]
    /\ UNCHANGED <<head, hook, pushed, accepted, app, dir, image, env, dep, met>>

\* docker fails, with the containers replaced or not: the transaction is
\* rolled back, the reservation of an install with it.
ReplaceFails(p) ==
    /\ Asked(p) /\ (Displaced(p) \/ UNCHANGED <<stack, gone>>)
    /\ request' = [request EXCEPT ![p] = "none"]
    /\ UNCHANGED <<head, hook, pushed, accepted, app, dir, image, env, dep, met>>

\* The transaction of the request commits.
Conclude(p) ==
    /\ request[p] \in {"removed", "installed"}
    /\ app' = IF request[p] = "removed" THEN app \ {p} ELSE app \cup {p}
    /\ request' = [request EXCEPT ![p] = "none"]
    /\ UNCHANGED <<head, hook, pushed, accepted, dir, image, env, dep, stack, met, gone>>

-----------------------------------------------------------------------------
(* Builder.build_from_git *)

Dest(p) == Name[p]
DirOf(d) == dir[Dest(dep[d].project)]
SetDir(d, k) == dir' = [dir EXCEPT ![Dest(dep[d].project)] = k]
HeadOf(d) == <<dep[d].project, head[dep[d].project]>>
building == <<head, hook, pushed, accepted, app, request, env, stack, met, gone>>

\* Faulty variant: a directory that is there is taken as it is.
CloneOnce(d) ==
    /\ At(d, "queued") /\ dep[d].from = Nothing
    /\ SetDir(d, IF DirOf(d) = None THEN HeadOf(d) ELSE DirOf(d))
    /\ Goto(d, "cloned")
    /\ UNCHANGED <<image, building>>

\* rm -rf, and git clone takes what the branch has now.  What another build
\* finds in between makes it fail, as any step may.
Clone(d) ==
    /\ At(d, "queued") /\ dep[d].from = Nothing
    /\ SetDir(d, HeadOf(d)) /\ Goto(d, "cloned")
    /\ UNCHANGED <<image, building>>

\* Faulty variant: the image is named for the branch's head.
RevParseRemote(d) ==
    /\ At(d, "cloned")
    /\ dep' = [dep EXCEPT ![d].pc = "named", ![d].tag = HeadOf(d)]
    /\ UNCHANGED <<dir, image, building>>

\* git rev-parse HEAD names the image.
RevParse(d) ==
    /\ At(d, "cloned")
    /\ dep' = [dep EXCEPT ![d].pc = "named", ![d].tag = DirOf(d)]
    /\ UNCHANGED <<dir, image, building>>

\* docker build or nixpacks build, of what the directory holds by then.
Build(d) ==
    /\ At(d, "named")
    /\ image' = [image EXCEPT ![NameOf(d)][dep[d].tag] = DirOf(d)]
    /\ Goto(d, "built")
    /\ UNCHANGED <<dir, building>>

-----------------------------------------------------------------------------
(* _run_deploy and _run_rollback *)

\* The image is there, or pulled.
FindImage(d) ==
    /\ At(d, "queued") /\ dep[d].from # Nothing
    /\ Goto(d, "built")
    /\ UNCHANGED <<dir, image, building>>

\* Faulty variant: a rollback brings back the variables its target had.
ConfigureAsBefore(d, hosts) ==
    /\ At(d, "built")
    /\ dep' = [dep EXCEPT ![d].pc = "set", ![d].hosts = hosts, ![d].env =
                  IF dep[d].from = Nothing THEN env[dep[d].project] ELSE dep[dep[d].from].env]
    /\ UNCHANGED <<dir, image, building>>

\* env_map_for_deploy and _custom_hosts: the variables and the verified
\* hostnames as they are now, the latter put into the labels by apply_edge.
Configure(d, hosts) ==
    /\ At(d, "built")
    /\ dep' = [dep EXCEPT ![d].pc = "set", ![d].hosts = hosts, ![d].env = env[dep[d].project]]
    /\ UNCHANGED <<dir, image, building>>

Runs(d) == [by |-> d, code |-> image[NameOf(d)][dep[d].tag],
            env |-> dep[d].env, hosts |-> dep[d].hosts]
SetStack(d) == stack' = [stack EXCEPT ![NameOf(d)] = Runs(d)]

\* Faulty variant: READY before `compose up` has returned.
UpEarly(d) ==
    /\ At(d, "set")
    /\ Goto(d, "ready") /\ (SetStack(d) \/ UNCHANGED stack)
    /\ UNCHANGED <<head, hook, pushed, accepted, app, request, dir, image, env, met, gone>>

\* deploy_stack: `docker compose up -d`
Up(d) ==
    /\ At(d, "set")
    /\ SetStack(d) /\ Goto(d, "up")
    /\ UNCHANGED <<head, hook, pushed, accepted, app, request, dir, image, env, met, gone>>

RecordReady(d) ==
    /\ At(d, "up") /\ Goto(d, "ready")
    /\ UNCHANGED <<dir, image, building>>

\* Any step raises.  A failed `compose up` may have replaced containers, and
\* a failed build gives up the app's reservation.
Fails(d) ==
    /\ Running(d) /\ Goto(d, "error")
    /\ IF At(d, "set") THEN SetStack(d) \/ UNCHANGED stack ELSE UNCHANGED stack
    /\ app' = IF dep[d].from = Nothing THEN app \ {dep[d].project} ELSE app
    /\ UNCHANGED <<head, hook, pushed, accepted, request, dir, image, env, met, gone>>

\* The process restarts: tasks and requests are gone, work directories not.
Restart ==
    /\ dep' = [d \in Ids |-> IF Running(d) THEN [dep[d] EXCEPT !.pc = "lost"] ELSE dep[d]]
    /\ request' = [p \in Projects |-> "none"]
    /\ UNCHANGED <<head, hook, pushed, accepted, app, dir, image, env, stack, met, gone>>

ReleasesAsked ==
    \/ \E p \in Projects : Push(p) \/ SetHook(p) \/ Deploy(p) \/ SetEnv(p) \/ Ask(p)
    \/ \E d \in Ids : Rollback(d)
    \/ Restart

ReleasesStep ==
    \/ \E p \in Projects, c \in Commits : Webhook(p, c)
    \/ \E p \in Projects : Replace(p) \/ ReplaceFails(p) \/ Conclude(p)
    \/ \E d \in Ids : \/ Clone(d) \/ RevParse(d) \/ Build(d)
                      \/ FindImage(d) \/ Up(d) \/ RecordReady(d) \/ Fails(d)

-----------------------------------------------------------------------------
\* "an immutable tetra-<project>:<sha> image" (build_from_git): the image holds
\* the commit it is named for, and rollbacks count on it, whosever builds
\* share the name, unless two of them were under way at once.
TagNamesCode ==
    \A n \in Names : met[n] = Nothing => \A k \in Code : image[n][k] \in {None, k}

\* When no deployment of a name is under way, its stack runs the last one
\* that became READY, or what a later one left that failed: of whichever
\* tenant, as the stack is named for no tenant.  It is said of the last
\* success if no other deployment of the name was under way with it, and
\* neither a removal nor an install has replaced the stack since it was begun.
Settled == {n \in Names : /\ Underway(n) = {} /\ Ready(n) # {}
                          /\ Max(Ready(n)) > met[n] /\ Max(Ready(n)) > gone[n]}
LatestIsLive ==
    \A n \in Settled : LET last == Max(Ready(n))  by == stack[n].by IN
       /\ by >= last /\ by \in {last} \cup (Of(n) \ Ready(n))
       /\ dep[by].from = Nothing \/ met[n] = Nothing => stack[n].code = dep[by].tag

\* A push that was answered 202 is live, or a newer one of the same app, when
\* the last deployment of the name is a build of that app and became READY
\* alone: pushes may have been handled in any order and earlier deployments
\* may have overlapped; the clone of the last one takes the branch's head.
PushIsLive ==
    \A n \in Settled : LET last == Max(Of(n))  p == dep[last].project IN
       At(last, "ready") /\ dep[last].from = Nothing =>
          stack[n].code \in {<<p, c>> : c \in accepted[p]..MaxCommits}
=============================================================================
