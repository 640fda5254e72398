# A TLA+ model of Tetra Host

Tetra Host is a multi-tenant hosting panel: a FastAPI process, a database
(PostgreSQL here; section 7 says what SQLite changes), the docker host it runs
on, and a dozen providers behind it. Tenants
deploy git repositories and marketplace apps, roll back, get a preview per
branch, keep mail, DNS, databases, buckets and domains, schedule jobs, watch
their sites, and pay for metered AI calls from a prepaid wallet. This directory
holds specifications of the parts whose correctness depends on what happens
*between* two statements: requests and background tasks interleave at every
`await`, transactions run at READ COMMITTED, docker and the providers are slow
and fail, webhooks come twice and out of order, and the process may restart at
any moment.

## 1. The system

| Component | State | Operations | Talks to |
|---|---|---|---|
| Quota (`services/quota.py`) | one `TenantResource` row per app | `check_and_reserve`, `release`, `_count_apps` | a per-tenant advisory lock; reads in-flight `Deployment` rows |
| Deploys (`modules/deploys/service.py`) | `Deployment` rows, an asyncio task each, compose stacks | start, redeploy, rollback, their tasks | quota, builder, registry, docker |
| Marketplace apps (`modules/apps/service.py`) | the same rows and stacks | install (inside the request), remove, start/stop | quota, docker |
| Builds and routing (`services/builder.py`, `services/edge.py`) | a work directory per project, image tags, stacks, environment rows | clone, name, build, configure, bring up | GitHub, docker, custom domains |
| Images (`services/registry.py`, `_prune_old_images`) | refs on the host, tags in the registry, `Deployment.image` | push, find or pull, the retention pass | deploys |
| Previews (deploys service, webhook route) | `PreviewEnv` rows, their stacks and deployments | push, two kinds of branch deletion, delete by id | GitHub, deploys |
| Prepaid credit (`modules/billing/credits.py`, `modules/reseller/ai_service.py`) | wallet row, transaction log | balance check, settle, top-up | the AI provider |
| Team, signup, staff review, SSO (`modules/team`, `auth`, `sso`) | tenants, people, invites, SSO configuration | invite, accept, change role, sign up, approve, log in through a provider | identity providers |
| Second factor and API tokens (`modules/auth/service.py`, `services/totp.py`, `api_tokens.py`) | `totp_*` columns, backup codes, token rows | set up, enable, disable, log in, use, revoke | |
| OIDC provider (`modules/oidc`) | a cookie, codes and tokens in the cache | launch, authorize, token, userinfo | the webmail |
| Custom domains (`modules/domains`) | `Domain` rows | claim, verify, delete | DNS, Cloudflare |
| Provider resources (`services/tenant_resources.py`, `services/http.py`, the services of mail, sites, databases, DNS, storage, keys) | rows of `tenant_resources` | create, change, delete, assign, each checked against the rows | Mailcow, Coolify, Cloudflare, R2, OpenRouter |
| Cache and listings (`cache.py`, the provider clients) | entries with a time to live | list, refresh, write-and-clear | every provider |
| Rate limiter (`rate_limit.py`) | a bucket of times per key | check | the routes |
| Scheduler, cron, jobs (`services/scheduler.py`, `cron.py`, `modules/jobs`) | job and run rows, one loop | a pass each minute; create, edit, delete | the tenants' URLs |
| Uptime and notifications (`services/uptime.py`, `notifications.py`) | monitor and channel rows | a pass, a check on demand, a test, deliveries | the tenants' sites and hooks |
| Start-up, tenants, plan (`db/session.py`, `main.py`, `modules/plans`) | the schema, tenants' standing, the plan, the operator's account | upgrade, seed, backfill, edit the plan | |
| Log streaming; prices and charges; reports; servers; the console, CLI and API shell | (see section 8) | | |

What makes each hard, and what must hold:

* **Quota.** The count and the insert are separate statements; only
  `pg_advisory_xact_lock` keeps two requests apart. A tenant must never hold
  more apps than its plan allows, and a failure must give the slot back.
* **Deployments.** The request commits a row and goes; a task in a Python set
  does the rest. Every row must end, and one that is gone must not come back.
* **Builds.** Deployments of a name share a directory, a tag and a stack, and
  nothing serialises them; the apps of two tenants may have one name. An image
  must hold the commit it is named for, the last accepted push must be what runs,
  with the configuration of now.
* **Images.** Retention decides in one transaction and deletes after it, while
  rollbacks and other tenants go on using the registry.
* **Previews.** Nothing locks the rows, and a build knows nothing of its
  teardown. Rows must follow GitHub's branches, the cap must hold, no stack may
  run without a row.
* **Credit.** Read, add in Python, write back; and the check is made before a
  call whose price is known after it.
* **Accounts and sign-in.** A handler reads rows, decides, and writes columns
  back: a tenant must keep an owner, an invite or a backup code must let one
  in, and nobody may be asked for codes of a secret they never had.
* **Domains.** DNS and Cloudflare answer long after the row was read. The edge
  may serve only hostnames their holder has proven.
* **Provider resources.** The provider acts at once, the row is committed later
  or not at all, and a lost answer is retried. Rows must match what exists, and
  no name made anew may fall to its former holder.
* **Cache, codes, limits.** A list fetched during a write is stored after it;
  withdrawn access must end; no window may hold more calls than the limit.
* **Scheduler and uptime.** One loop, one transaction around many requests, the
  wall clock; rows locked in the order they come.
* **Start-up.** Schema changes commit one by one, backfills run again at every
  start, over rows that staff have edited.

`PROJECT.json` lists the hazards at their lines, with the property that would
catch each.

## 2. The modules

| Module | Models | State ↔ code |
|---|---|---|
| `SlotLedger` | the promise of the quota: slots are taken while there is room and given back | `taken` = the reservation rows |
| `QuotaReserve` | `check_and_reserve` and `release`, one SQL statement a step | `rows` committed rows, `inflight` the deployments `_count_apps` adds, `lock`, and `pc`, `seen`, `count` the locals of a transaction |
| `DeployLife` | the promise of a `Deployment` row: queued → building → ready or error, or dropped | `status` |
| `AppDeploys` | deploys, redeploys, rollbacks, installs, removals, their tasks, restarts | `job` what a row is, `status` its column, `task` where the coroutine is, `rows`, `lock`, `stack`, `removing` a removal between docker and its DELETE |
| `ImageRetention` | push, record, rollback and the retention pass of one project | `recorded` = `Deployment.image`, `local`/`remote` = docker's and the registry's images, `stale`, `toDelete`, `half` = the loop of the pass, `foreign` = other tenants' rows, `disturbed` = a row was created during a pass under way |
| `Previews` | webhooks, preview rows, builds and teardowns of one project | `event` what GitHub or the console said, `request` where its handler is, `seen` the row it read, `preview`, `build`, `stack` |
| `CreditWallet` | the check before, the settlement after, top-ups | `wallet`, `balance`, `logged` = committed row and log, `stage`, `delta`, `seen` = the request, `writer` = the row lock |
| `Accounts` | people, roles, invites, signup, the staff's review of tenants, SSO | `tenant`, `account`, `invite`, `sso` = the rows, `request` = what each handler read and will write |
| `SignIn` | the second factor and personal tokens of one account | `account` = the `totp_*` columns, `token`, `req` = the row as read and as it will be written, `scanned` = the user's authenticator |
| `Cron` | `cron_matches` on parsed expressions, and what crontab means by them | operators only |
| `Scheduler` | the loop, its passes, jobs and their edits, the clock, restarts | `job` with its committed runs, `loop` = where `scheduler_loop` is, `now` |
| `Uptime` | the pass and checks on demand, with row locks, alerts, deliveries, deletions | `status`, `channel` = committed rows, `checker` = a transaction's reads, writes and locks, `told` = the last alert |
| `Hosting` | every kind of provider resource: who may do what, the provider's calls and retries, the rows | `exists`, `given` = the providers, `rows` = `tenant_resources`, `req` = the requests |
| `TTLCache`, `Listings` | `app/cache.py`; each client's keys, what its reads fill and its writes clear | `cache`, `now`; `world` = each source's version, `call` = the requests |
| `RateLimiter` | `app/rate_limit.py` | the bucket is a sequence of times |
| `Oidc` | launch, authorize, token, userinfo, withdrawal of a mailbox | `owned` = the rows, `cookie`, `auth` = a request to authorize, codes and tokens in `cache` |
| `Platform` | a start's upgrade, seeding, backfills and operator account; signup, tenants' standing; plan edits and shares | `tenants`, `slugged`, `people`, `free` = the plan, `edits` = its updates, `shares`, `bookings` = reservations from the share they read to their commit, `column` = `tenant_id` is there, `start` = the process |
| `AppState` | composes the five above: what one process keeps in memory, and what it makes of the database at its start | `part`, `bucket`, `admitted` |
| `Domains` | claims, verification, registration and deletion of hostnames | `claim` = the rows, `published` = DNS, `registered` = Cloudflare, `call` = the requests |
| `Releases` | webhooks, hooks, deploys, rollbacks: from a commit to the containers | `head`, `pushed` = GitHub, `hook`, `app`, `env` = rows, `request` = removals and installs under way, `dep` = the deployments; by name `dir` = the work directories, `image`, `stack` |
| `Serving` | composes `Releases` and `Domains`: a deployment routes the hostnames verified when it reads them | both, and `touched` |

`MC…` modules instantiate the specifications for TLC; `…_proofs` modules hold
theorems. `QuotaReserve` and `AppDeploys` instantiate `SlotLedger`, `AppDeploys`
instantiates `DeployLife`: the two abstract specifications are what the rest of
the panel relies on. `Serving` instantiates two modules that share the verified
hostnames; `AppState` extends modules that share the cache and its clock.

**What a step is.** In `AppDeploys`, `ImageRetention`, `Previews`, `Releases`
and `Platform` a step is one transaction or one command: between two awaits the
event loop runs nothing else, and a transaction of these parts inserts, updates
by key or deletes by predicate. `QuotaReserve` and `CreditWallet`, where the
statements of one transaction can be separated by another's commit, have a step
per statement; `Uptime` one per flush, because a flush takes a lock that is held
to the end. In `Accounts`, `SignIn`, `Hosting` and `Domains` a request is two
or more steps, one that reads and decides and one that writes, with the
provider's calls between them. What a failed `docker compose up` leaves behind
is a choice: nothing, or some of the new containers.

**Faulty variants** stand next to some definitions (their comment says so).
They are plausible mistakes, used by no action, and are put in the place of the
real definition to see that a property notices.

**History variables** record that two actors met in a way the code does not
guard against; no guard reads them. Some properties have such a condition, and
the condition is part of what they say. It is not that the hazard it names is
caught: the code is exposed to it, as section 6 says. A passing run says that
meeting it is the *only* way the unconditional property can fail, with
everything else the run does in between.

| Condition | True once |
|---|---|
| `raced`, `disordered`, `overtaken` (`Previews`) | two pushes counted before either inserted; a branch's webhooks were handled out of order; a preview was torn down while being built |
| `raced`, `overlapped` (`CreditWallet`) | two changes of the wallet read the same balance; two calls were under way |
| `late`, `races` (`Accounts`) | a commit came between what a request read and its own commit; such a request committed |
| `stale` (`SignIn`) | a change was written over a row that had changed |
| `muddled` (`Uptime`) | checks of a monitor overlapped, or one that had alerted was rolled back |
| `doubtful` (`Hosting`) | an answer or a transaction about the resource was lost, or two requests were about it at once, or it was assigned out of turn, or its deletion left another tenant's row |
| `rewound`, `overrun`, `lost` (`Scheduler`) | the wall clock showed the minute twice; the minute began while the loop was busy; the pass failed at its commit |
| `met`, `gone` (`Releases`) | for each name, the newest deployment that began while another of the name was under way; the newest there was when a removal or an install last replaced the stack. What is said of a name is said again from the next deployment on |
| `touched` (`Serving`) | how many deployments were older than the last change of an app's variables or hostnames |
| `cut`, `raced`, `unlike` (`Platform`) | a start was cut between the tables and the rows; two updates of the plan overlapped; an app of the tenant has a share that was read from the plan before its last change, whether its row was committed before the change or after it |

## 3. What the runs check

| Run | Instance | Shows |
|---|---|---|
| `quota` | 4 deploys, installs or redeploys, 2 names, room for 2 apps | the quota in every interleaving of statements (`QuotaRespected`), and that transactions implement `SlotLedger` |
| `deploys` | 3 deployments of one name, 1 removal, room for 1, 1 fault; fair | an in-flight row has a task behind it, statuses follow `DeployLife`, without a fault deployments end (`Settles`) and a failed one's slot comes back (`FailureFreesSlot`) |
| `retention` | 3 deployments, 2 commits, a window of 1 | a pass spares the rollback window, in-flight deployments and other tenants' images unless a row appears during the pass |
| `previews` | 4 events, 2 branches whose stacks share a name, cap 1, 1 fault | the cap unless pushes race; rows agree with GitHub if a branch's webhooks are handled in order; no stack without a row unless it was torn down while being built |
| `wallet` | 2 calls, 2 top-ups, costs 0–2, 1 restart; fair | the balance is the sum of the log unless updates race; the overdraft is under one call unless calls overlap; an answered call is billed |
| `accounts` | a tenant with 2 owners, 2 more people, 2 invites, 3 requests of any kind, 1 tenant may wait for review | an invite accepted is one account; a tenant that has an owner keeps one |
| `scheduler` | 2 jobs, 3 minutes around the midnight from Saturday January 31 to Sunday February 1, 2 upsets | each minute is served once, and skipped only if the loop was busy; what was sent is recorded unless its pass failed; jobs of the documented forms fire when crontab would |
| `cron_forms` | 1 job and the same minutes; a violation | an expression of a form that `cron.py` documents, `6-7` in the day of the week, does not fire on a Sunday (`DocumentedFire`) |
| `uptime` | 2 monitors, 1 channel, the pass and one request, 4 checks or cuts; fair | alerts take turns and agree with the stored status, unless muddled; every check ends, although locks form circles |
| `hosting` | 2 tenants and the platform, a mail domain with a mailbox, a bucket, 2 keys, a zone with a paid plan, another zone and a bucket that stood before the panel; 3 requests, 2 at once, 2 attempts each | rows match what the providers have, a resource has one holder, the provider acts for its holder, unless an answer was lost or requests met |
| `appstate` | one of: 3 calls of one client by 2 callers, time to live 1; 1 mailbox, 2 codes, 3 tokens; a limit of 2 in 2 ticks; 2 starts of a new or older database, with 2 reservations at once and updates of the plan before, between and within them; or 7 sign-in requests, 2 at once, 2 secrets, 2 sets of 2 codes, 1 token | a listing shows one's own answered writes and is recent; webmail access ends after withdrawal; no window exceeds the limit; operators are in platform scope; a start undoes no edit; shares fit the plan; a backup code lets one login in and an enabled secret is a proven one, unless a row was written over; a revoked token stays so |
| `serving` | the apps of 2 tenants under 1 name, 3 deployments, 3 commits, removals and installs, 1 change of variables, 1 hostname claimed twice, 2 domain requests at once | images hold the commit they are named for; a success of a name that no other deployment overlapped, and the push it built, are live whatever overlapped, failed or restarted before it, until a removal or an install replaces them; a stack has its app's variables and hostnames of now unless they changed after its deployment was asked for; the edge vouches only for proven hostnames |

`cron_forms` is there for what `cron.py` says of itself and does not do. Each
property of a passing run is violated by a faulty variant of a definition
it depends on, so none holds by the shape of its model.

### Bounds and why they are enough

Interference in these models is pairwise: two requests for the last slot, two
updates of a wallet, two owners who demote each other, two requests about one
domain or one resource, a build and its teardown. Each instance has the two,
plus what it takes to set them up: four quota requests fill the plan and fight
for a slot another gives back; three deployments are two that meet and the one
they replace, or a build, a rollback to it and one that fails; three commits let
webhooks come in either order after a first build; two apps of one name are
those of two tenants, whose deployments may follow one another or overlap; four
preview events are a push, the two events of a deletion and a push of the branch
made anew; seven
sign-in requests set up, enable, disable, set up and enable again, with two to
spare for logins; three hosting requests let a name be made, deleted and made by
another. Two commits and a window of one let an image leave the window, be
rolled back to and be rebuilt. The calendar has a day-of-week written as 7, a
first of the month, a minute list and a range on both sides of midnight. Time in
`appstate` runs to 4, past a code, its token and two windows.

`MaxFaults = 1` suffices for restarts because a restart leaves no task, no lock
and no request: a second acts on states like those the first one made. Budgets
in `serving` and `appstate` are pairs or triples so that the sum of what is
asked stays small while each kind has its own maximum. The parts of `appstate`
share no key, so one behaviour is about one part (`MCAppState` sets `SignIn`
beside the parts of `AppState`); the clock of that module ticks only while the
calls under way are within their time (`CallsInTime`, `AuthorizeInTime`), which is
what the clients' timeouts ensure.

Most of these bounds are removed by the theorems of section 5. Symmetry is
used in runs without liveness properties, over values nothing tells apart.
Deadlock checking is off: the models are of a bounded number of requests, after
which nothing is left to do.

## 4. Fairness

Three runs check liveness, each under what the code justifies.

* `deploys`: weak fairness for the steps of a task or handler that has begun
  (asyncio schedules every ready coroutine; that docker and git return, with an
  error or without, is assumed: neither runner has a timeout,
  `docker_engine.py:94`, `builder.py:117`, and a command that hangs keeps its
  deployment BUILDING, and an install the lock, for ever), strong fairness for `Reserve`, because
  PostgreSQL queues those who wait for the advisory lock.
* `wallet`: weak fairness for reading and committing, strong for the write,
  which waits for a row lock that others take in turns.
* `uptime`: weak fairness for a checker's steps. PostgreSQL breaks a circle of
  row locks by failing one of them, which is such a step.

No fairness for requests a user may or may not make, and none for faults.

## 5. What is proved

The proofs are checked by TLAPS for every value of the constants that the
modules' named assumptions allow (finite sets of rows and requests, natural
bounds).

* `Limits_proofs`, the quota — `QuotaInv` is inductive, hence the quota, no
  orphan slot, and the refinement of `SlotLedger`. `QuotaRespected` alone is not
  inductive: only the holder of the lock may be past the lock, and the rows it
  read must be a superset of the rows committed now. Releases shrink the rows
  and all inserts are the holder's, so the stale count is an upper bound.
* `Limits_proofs`, the wallet — `WalletInv` is inductive, hence
  `BalanceUnlessRaced` and `SoftCapUnlessOverlapped`. Without a race, whoever
  has read the wallet read its present value (`ReadersAreCurrent`); without
  overlap, the one call under way was admitted on a balance that is still
  positive (`OneCallInCredit`), so it costs less than the overdraft allowed.
* `AppDeploys_proofs` — `DeploysInv` is inductive, hence the quota, no orphan
  slot, owned in-flight rows, and the refinements of `SlotLedger` and
  `DeployLife`. The strengthening ties each status to where its task is
  (`StatusFollowsTask`), says who may own a row (`RowsAreReservations`) and
  that an install between its reservation and its commit holds the lock with
  room to spare (`InstallHoldsLock`): its row is not committed, so it is the
  lock that keeps the room. That install is the one who can keep others
  waiting, and it always lets go.
* `Previews_proofs` — `PreviewsInv` is inductive, hence all three properties of
  the run. The cap needs to know who has counted and not committed
  (`RoomAtCommit`); the agreement with GitHub, that a branch's events are
  handled in the order of their numbers, so a row belongs to the last push that
  no handled deletion follows (`Ordered`, `LastHolds`, `DeletedLast`); and the
  absence of orphans, that a build whose row is gone was torn down under way
  (`BuiltIsHeld`, `StacksHeld`, `Torn`).
* `Accounts_proofs` — a request that no commit has made late would pass its own
  guard again (`Fresh`). From it follow `KeepsAnOwner`, the cap on tenants that
  wait for review, that only a tenant under review is rejected, and that single
  sign-on makes accounts only where it is on. `InviteInv` adds who came in by
  which invite: an invite that a timely request is about to accept is open
  (`OpenToIt`), one that is open has let nobody in and one that is accepted one
  (`JoinedByOne`), and a tenant has one open invite for an address
  (`OneIsOpen`). Hence `InviteJoinsOne`.
* `AppState_proofs`, sign-in — a commit that does not make a row stale was made
  from the row as it is now (`CleanCommit`), hence `SecretIsProven`; with what
  is known of codes already spent (`CodesFresh`), `CodesOnceUnlessStale`; and
  `RevokedStaysRevoked` without a condition.
* `AppState_proofs`, the limiter — the bucket is the end of the sequence of all
  calls let in, and what precedes it there has left the window (`LimiterInv`),
  hence `WithinLimit` for every window, not only for those that end now.
* `AppState_proofs`, listings — everything a call holds or the cache stores is
  from after the call that fetched it was sent (`CallOk`, `ReadOk`, `EntryOk`),
  and each write clears every key whose content it changes (`WritesClear`).
  Hence `ReadYourWrites` and `RecentEnough`, for every time to live and every
  number of callers.
* `AppState_proofs`, webmail — a request to authorize was checked within a
  request's time, and what is in a code's or token's entry of a mailbox since
  withdrawn runs out by the withdrawal plus what may be left of the chain
  (`OidcInv`). Hence `AccessEnds`. Listings and the webmail share the cache and
  no key (`ListingsKeepTheirKeys`): their key prefixes differ, which
  `AppStateAssumption` says and the configurations meet.
* `AppState_proofs`, start-up — every account is a row of this database or of
  the older one (`OfTheRows`), operators of a tenant are in platform scope
  (`OperatorsScoped`), and an account without a tenant waits for the rest of
  the start that added the column, unless that start was cut (`Housed`). Hence
  `OperatorsSeeAll`. From the same invariant,
  `StartsKeepEdits`: no step of a start changes the plan or a recorded share, or
  suspends a tenant that was not switched off before tenants had a status.
* `Scheduler_proofs`, the loop — `SchedulerInv`: an idle loop wakes in this
  minute or the next (`LoopInv`), and what was sent for the current tick is not
  recorded, or the clock showed the minute twice (`SentInv`). Hence
  `MinutesServedOnce` and `RunsAreKept`. On expressions in plain form (the
  documented forms, without a range or a step of days that ends in 7) the
  matcher is proved to be what crontab means by them (`MatchesAsCrontab`, from
  what it does with one value, `OneValue`, and with a Sunday, `OnSundays`),
  hence `DueByCrontab`.
* `Scheduler_proofs`, the checks — `UptimeInv` ties each checker's place to its
  locks and reads (`Phase`, `Holds`) and says that a monitor not muddled is
  read by one checker at a time (`OneReader`), which will tell what it writes
  (`Agreed`). Hence `AlertsTakeTurns` and `StatusWasTold`.
* `Hosting_proofs` — `HostingInv` says what a request holds between the
  provider's answer and its commit (`Held`), and that two requests that meet at
  a resource have made it doubtful (`Apart`). For the others: a row names what
  exists (`RowsExist`), its tenant is the one who made the resource or was
  assigned it (`Sole`, `Makers`), what staff's request to assign or release
  found is still so (`Staff`), and a request that is past its check acts for
  whoever holds the resource (`Holds`). Hence `RowsMatchProviders`, `OneHolder` and
  `ActsForHolder`, for every set of tenants, resources and requests.
* `Serving_proofs`, releases and domains — `ServingInv` is inductive over both
  halves, hence all five properties of the run. A deployment that is
  newer than `met` of its name is the newest there is while it is under way, and
  the only one (`Serial`): so what the directory holds at each place is its own
  (`Working`), what runs is no older than what was recorded READY and not
  replaced since (`Shown`), and the commit of a build that is the last of its
  name is no older than any push accepted for its app (`Fresh`: the webhook is
  answered after the push and before the clone). Who else has the name does not
  matter to any of it. The image that a rollback finds is as sure only if no two
  deployments of the name ever met (`Sure`), since a build of any app of the
  name may have made it.
  `Configured` is the same for variables and hostnames, counted by `touched`.
  `Proven` needs every request that is about to mark a row verified to be about
  a row whose token was seen.
* `Serving_proofs`, retention — `RetentionInv`: nothing was in flight when an
  undisturbed pass chose what to delete, and no row has appeared since, so what
  it still means to delete is outside the window and in no other tenant's rows
  (`Chosen`, `Safe`). Hence `KeepsQuietWindow` and `KeepsForeign`.

* `AppState_proofs`, the plan — `PlanInv`: unless two updates overlapped, what an
  update under way will write makes a coherent plan, although it writes only the
  fields that differ from what it read (`OneEditor`); and a tenant none of whose
  rows is from under another plan has at most `apps` of them, none above a share
  (`Fits`); what is booked was read from the plan as it is, unless it is marked
  `old`, and whoever has counted has the room to commit, as only the holder of
  the tenant's lock has (`Sized`, `Booked`). Hence `SharesFit`, with the bound on
  the sum by `TotalBound` and on the share by `AllocationFacts` (coherence is
  needed where the floor of the default applies).

The provers cannot use the induction theorems of the library, which take an
operator. What needs induction is proved from the well-foundedness of the
natural numbers, by the least number of a set: that a set of deployments has a
newest (`GreatestExists`), that a bucket with an entry in the window has an
oldest such (`LeastOf`), and that the recursive function in `Total` exists
(`SumExists`) and is bounded (`TotalBound`).

Every safety invariant and every action property of the passing runs is stated by
a theorem. Only model-checked are the liveness properties `Settles`,
`FailureFreesSlot`, `AnsweredIsBilled` and `ChecksEnd`, since the prover does
not handle fairness and ENABLED.

## 6. Where the code and what it says differ

Met while modelling; where a model reaches the state, the condition of a
property names it.

* **One row per name.** A deploy checks that the name is free before it takes
  the tenant's lock and not again after (`deploys/service.py:184`): two deploys
  of one new name both reserve a slot. `QuotaReserve` reaches two rows.
* **A failed redeploy** runs the release written for a failed first deploy
  (`deploys/service.py:330`): the app that is still serving loses its slot.
  `AppDeploys` and `Releases` have it; a rollback does not release.
* **A restart** leaves a deployment BUILDING for ever: start-up (`main.py:36-60`)
  looks at none and its task was only in memory (`deploys/service.py:58`).
  `Settles` therefore excludes faults.
* **An install as the target of a rollback**: any READY row is accepted
  (`deploys/service.py:620`), and an install's `image` is a template slug
  (`apps/service.py:181-190`).
* **Previews**: a build that outlives its teardown brings up a stack no row
  names (`deploys/service.py:786`); two pushes can pass the cap (`:725`).
* **Deployments of one name that overlap** share a directory, a tag and a stack
  (`builder.py:197`): an "immutable" image may hold another commit than its tag
  says, the older deployment may be the one that stays, and it may bring older
  variables and hostnames back (it read them before they changed, and came up
  after the newer one).
* **Names are one tenant's only for that tenant.** A deploy or install looks for
  the name among the tenant's own apps (`deploys/service.py:184-193`,
  `apps/service.py:141-150`); the work directory (`builder.py:197`), the image
  tag (`:201`) and the compose project (`docker_engine.py:133`) are named by it
  alone. Another tenant's deploy of a used name is accepted and its containers
  replace the first's, whose row stays READY; its removal or install takes them
  down or replaces them; the two apps' builds make images of the same tags if
  they are of the same repository, and remove each other's directory. The
  comment at `deploys/service.py:414` knows it of images. `Releases` has it:
  `LatestIsLive` is about names, whosever deployment was last.
* **The plan** is read for an app's share before the tenant's lock is waited for
  (`deploys/service.py:200`), and an install commits after docker is done
  (`apps/service.py:161-178`): after an edit in between, the app has the old
  plan's share under the new plan, and the sum may exceed it. `Platform` marks
  such tenants `unlike`.
* **The wallet** loses one of two overlapping changes, both of which are logged
  (`credits.py:43`).
* **Backup codes**: "a spent backup code is consumed" (`auth/service.py:133-134`)
  fails if two logins overlap; so does "a code is minted once per launch"
  (`oidc/service.py:127`) if a browser sends its cookie twice.
* **Domains**: a failed registration with Cloudflare is "retried on next verify"
  (`domains/service.py:140`, `:149`), but a verified row is returned before that
  point (`:125`). A hostname that is deleted stays in the labels of the running
  stack until the next deployment.
* **Cron**: a day-of-week of `7` means Sunday, but it is replaced as text
  (`cron.py:47`), on Sundays only: a range such as `5-7` becomes `5-0` and does
  not fire on a Sunday, nor does `*/7`. This contradicts "`a-b` ranges [...] (0
  or 7 = Sunday)" (`cron.py:3-4`): the run `cron_forms` and the finding. Of what
  `cron.py` does not document but `is_valid_cron` accepts (`:57-71`), a stepped
  range such as `1-5/2` is never matched (`:26-32`: the hyphen makes it a range,
  and `int("5/2")` fails), so its job is enabled and never runs; neither are
  `*` in a list, `1/2`, an empty part or `5-`; `7-3` becomes `0-3` on Sundays
  and is empty on other days; numbers above 7 are accepted; `*/n` among days of
  the month and months counts from 0; and both day fields must match where
  crontab(5) takes either. `Fires` has crontab's meaning of all of these, and
  `Documented` and `Plain` say which expressions the properties are about.
* **Rate limiter**: the advised wait is truncated (`rate_limit.py:27`), so a
  caller who waits exactly that long may be refused again.
* **Refresh**: `list_databases` and `list_servers` take `refresh` and ignore it
  (`databases/service.py:76`, `servers/service.py:18`); a refreshed list of
  applications still shows the cached map of projects (`coolify.py:445`), which
  is why `RecentEnough` allows it twice the time.
* **Buckets**: whoever deletes a bucket drops only their own row
  (`reseller/storage_service.py:125-141`). When the platform's own tenant, which
  may touch any, deletes a tenant's, that tenant's row stays, and lets it into a
  bucket of the same name that someone makes later. `Hosting` counts such a
  bucket as doubtful; it was the proof of `OneHolder` that asked for it.
* **Start-up**: `_backfill_task14`, called idempotent, suspends again a tenant
  whose legacy `is_active` is 0 although staff have since reactivated it
  (`db/session.py:288-296`); a start cut after `tenant_id` was added (`:134`)
  never adopts the admins of the older database (`:190`).
* **Providers**: only the first page of Cloudflare's lists is read
  (`per_page`, no paging); a website in Umami or a project in GlitchTip is looked
  for and then created, and GlitchTip's is found by a slug made of the app's
  name, so two tenants' apps of one name share a project that
  `errors/service.py:5` calls tenant-isolated; a numeric `Retry-After` is
  slept without a bound (`http.py:65-67`); an error while a zone's plan is read
  looks like the free plan (`reseller/service.py:120`).

## 7. Abstractions

* *The database* is PostgreSQL. The default is SQLite (`config.py:14`,
  `.env.example:7`, which the installer starts from), and what is said of locks
  does not carry over: `_acquire_tenant_lock` does nothing there
  (`quota.py:164-177`), so two requests may both count before either inserts.
  The faulty variant `NoBlockingLock` of `QuotaReserve` is that, and breaks
  `QuotaRespected`; `SharesFit` and `InstallHoldsLock` rest on the lock too, and
  the settlements of `CreditWallet` and the checks of `Uptime` on row locks that
  SQLite has as one lock of the whole file.
* *Deployments.* The platform operator's own tenant is exempt from the quota:
  `QuotaReserve` and `SlotLedger` have it as a constant, `AppDeploys` models a
  billed tenant. `Previews` leaves the quota out: a preview reserves nothing, though
  while it is built `_count_apps` counts it as an app (`quota.py:97`).
* *Serving.* The edge is enabled and Cloudflare for SaaS configured; a commit's
  id always parses; `rm -rf` and the clone are one step, and what another build
  finds in between is one of its failures; a rollback's image is found or
  pulled; a project has one hook; apps are built from repositories of their own,
  so two apps' tags of one name are different; previews, which have stacks of
  their own, and the READY row of an install as the target of a rollback are
  left to `Previews` and `AppDeploys`, and the requests of one tenant that
  overlap about one name to `QuotaReserve`; the environment is a number that
  counts its changes; the push to the registry is best effort and
  left to `ImageRetention`.
* *Accounts and sign-in.* The identity provider's protocol, password hashes,
  sessions, and the time windows of codes and tokens are left out; every
  decision that depends on them may go either way.
* *Hosting.* A row is a pair, so duplicates, which the readers do not tell
  apart, are one. Deleting a mail domain takes its mailboxes, as the code
  assumes. `delete_site_for_tenant` has no route. Mail DNS records, relay hosts
  and prices are not modelled, and the billing of zones is taken as enabled.
* *Cache.* A source's content is its version. What no listing shows
  (environment variables, backups, zone settings) changes none.
* *Scheduler.* The request a job sends is an outcome.
* *Start-up.* The upgrade runs as on SQLite, where each DDL statement commits;
  the tables of other components and Alembic's stamp are left out; there is one
  plan, since no route changes a tenant's. Its numbers are natural: the update
  accepts negative ones (`api/contracts.py:782-792`), under which nothing can be
  reserved.

## 8. What is not modelled

* Log streaming (`deploys/service.py`): a poll over a growing text with no state
  of its own.
* The shape of compose files, ports, limits, Dockerfile generation, Nixpacks;
  start and stop of an app; the registry's HTTP protocol and garbage collection;
  the HMAC of webhooks.
* Prices and charges (look-ups and append-only rows), and
  `CreditService.adjust`, which has no caller.
* Error, build and analytics reports: they classify text and read from
  providers, where they make a project or a website on first use and keep no row
  of it. Servers: read-only lists, whose cache is in `Listings`.
* `services/tenants.py`, an older bootstrap and sync that nothing imports.
* Routing, validation, rendering, the console's pages, the CLI and the MCP
  client. The handlers that change state are in the modules above; the pages'
  additional gate on roles is not.
