------------------------------- MODULE Uptime -------------------------------
(***************************************************************************)
(* Uptime monitors and the notification channels their alerts go to:       *)
(* app/services/uptime.py, app/services/notifications.py and the monitor   *)
(* and notification routes.                                                *)
(*                                                                         *)
(* A checker probes monitors one after another in one transaction: the     *)
(* scheduler's pass over every enabled monitor, and a request of a tenant  *)
(* to check one monitor now.  A flush writes a row and locks it until the  *)
(* transaction ends; what was read before is not read again.  Alerts leave *)
(* the process at once, whatever becomes of the transaction.               *)
(***************************************************************************)
EXTENDS Naturals, FiniteSets

CONSTANTS Monitors,     \* rows of uptime_monitors
          Channels,     \* rows of notification_channels, all subscribed
          Owner,        \* the tenant of each monitor and of each channel
          Pass,         \* the scheduler's checker
          Requests,     \* requests that check one monitor, or test a channel
          MaxChecks,    \* bound on checks started and connections lost
          None

ASSUME UptimeAssumption ==
    /\ IsFiniteSet(Monitors) /\ IsFiniteSet(Channels)
    /\ Pass \notin Requests /\ None \notin Monitors \cup Channels
    /\ Monitors \cap Channels = {}
    /\ \A r \in Monitors \cup Channels : r \in DOMAIN Owner
    /\ MaxChecks \in Nat

VARIABLES status,       \* committed status of each monitor, "gone" once deleted
          channel,      \* channels that exist
          checker,      \* what each checker has read, written and has to do
          told,         \* the last alert sent for each monitor
          repeated,     \* monitors an alert was sent for twice in a row
          muddled,      \* monitors whose checks overlapped or were rolled back
          checks        \* how much of that bound is left

vars == <<status, channel, checker, told, repeated, muddled, checks>>

Checkers == {Pass} \cup Requests
Known == {"unknown", "up", "down"}

\* at: the row whose flush or probe is next; to: channels still to deliver to
Check == [pc : {"idle", "probe", "flush", "deliver", "record"},
          todo : SUBSET Monitors,
          read : [Monitors -> Known \cup {"gone"}],
          got : [Monitors -> Known \cup {"gone"}],
          at : Monitors \cup Channels \cup {None},
          to : SUBSET Channels,
          alerted : SUBSET Monitors,
          locks : SUBSET (Monitors \cup Channels)]
Gone == [mo \in Monitors |-> "gone"]
Idle == [pc |-> "idle", todo |-> {}, read |-> Gone, got |-> Gone, at |-> None,
         to |-> {}, alerted |-> {}, locks |-> {}]

Init ==
    /\ status = [mo \in Monitors |-> "unknown"]
    /\ channel = Channels
    /\ checker = [c \in Checkers |-> Idle]
    /\ told = [mo \in Monitors |-> "nothing"]
    /\ repeated = {} /\ muddled = {} /\ checks = MaxChecks

Is(c, pc) == checker[c].pc = pc
Free(row, c) == \A d \in Checkers \ {c} : row \notin checker[d].locks
Exists(row) == IF row \in Monitors THEN status[row] # "gone" ELSE row \in channel
Reading(c) == {mo \in Monitors : checker[c].read[mo] # "gone"}

\* The end of a transaction that is rolled back.  What was alerted stays so.
RollBack(c) ==
    /\ checker' = [checker EXCEPT ![c] = Idle]
    /\ muddled' = muddled \cup checker[c].alerted
    /\ UNCHANGED <<status, channel, told, repeated>>

(***************************************************************************)
(* Checks.                                                                 *)
(***************************************************************************)
Starts(c, ms) ==
    /\ Is(c, "idle") /\ checks > 0 /\ ms # {}
    /\ checks' = checks - 1
    /\ checker' = [checker EXCEPT ![c] =
            [Idle EXCEPT !.pc = "probe", !.todo = ms,
                         !.read = [mo \in Monitors |-> IF mo \in ms THEN status[mo] ELSE "gone"]]]
    /\ muddled' = muddled \cup UNION {ms \cap Reading(d) : d \in Checkers}
    /\ UNCHANGED <<status, channel, told, repeated>>

\* run_all_due loads every enabled monitor before it probes the first.
StartPass == Starts(Pass, {mo \in Monitors : status[mo] # "gone"})

\* api_check_monitor
StartCheck(c, mo) == c # Pass /\ status[mo] # "gone" /\ Starts(c, {mo})

\* api_test_notification delivers one event to one channel.
StartTest(c, ch) ==
    /\ c # Pass /\ Is(c, "idle") /\ checks > 0 /\ ch \in channel
    /\ checks' = checks - 1
    /\ checker' = [checker EXCEPT ![c] = [Idle EXCEPT !.pc = "deliver", !.to = {ch}]]
    /\ UNCHANGED <<status, channel, told, repeated, muddled>>

\* probe: 2xx and 3xx are up; anything else, and any transport error, is down.
Probe(c, mo) ==
    /\ Is(c, "probe") /\ mo \in checker[c].todo
    /\ \E s \in {"up", "down"} :
          checker' = [checker EXCEPT ![c].pc = "flush", ![c].at = mo,
                                     ![c].todo = @ \ {mo}, ![c].got[mo] = s]
    /\ UNCHANGED <<status, channel, told, repeated, muddled, checks>>

\* A URL that httpx will not parse raises through probe.
ProbeRaises(c) == /\ Is(c, "probe") /\ checker[c].todo # {}
                  /\ RollBack(c) /\ UNCHANGED checks

\* Every check that finds a monitor down alerts.
AlertWhileDown(previous, current) == "down" \in {previous, current}

\* Nobody is told of a recovery.
AlertOnDown(previous, current) == current # previous /\ current = "down"

\* unknown -> up is "came online", nothing was wrong
ShouldAlert(previous, current) ==
    current # previous /\ ~ (previous = "unknown" /\ current = "up")

\* The status columns are flushed, which locks the row, and then the change,
\* against the status that was read, is dispatched to the tenant's channels.
Flush(c) ==
    LET mo == checker[c].at
        now == checker[c].got[mo]
        to == {ch \in channel : Owner[ch] = Owner[mo]}
        alert == ShouldAlert(checker[c].read[mo], now)
    IN  /\ Is(c, "flush") /\ Free(mo, c) /\ Exists(mo)
        /\ checker' = [checker EXCEPT
                ![c].locks = @ \cup {mo}, ![c].at = None,
                ![c].pc = IF alert THEN "deliver" ELSE "probe",
                ![c].to = IF alert THEN to ELSE {},
                ![c].alerted = IF alert THEN @ \cup {mo} ELSE @]
        /\ told' = IF alert THEN [told EXCEPT ![mo] = now] ELSE told
        /\ repeated' = IF alert /\ told[mo] = now THEN repeated \cup {mo} ELSE repeated
        /\ UNCHANGED <<status, channel, muddled, checks>>

\* deliver: the event is posted to a channel, or fails to be.
Deliver(c, ch) ==
    /\ Is(c, "deliver") /\ ch \in checker[c].to
    /\ checker' = [checker EXCEPT ![c].pc = "record", ![c].at = ch, ![c].to = @ \ {ch}]
    /\ UNCHANGED <<status, channel, told, repeated, muddled, checks>>

\* last_delivered_at and last_status are flushed, which locks the channel.
Record(c) ==
    /\ Is(c, "record") /\ Free(checker[c].at, c) /\ Exists(checker[c].at)
    /\ checker' = [checker EXCEPT ![c].pc = "deliver", ![c].at = None,
                                  ![c].locks = @ \cup {checker[c].at}]
    /\ UNCHANGED <<status, channel, told, repeated, muddled, checks>>

Delivered(c) ==
    /\ Is(c, "deliver") /\ checker[c].to = {}
    /\ checker' = [checker EXCEPT ![c].pc = "probe"]
    /\ UNCHANGED <<status, channel, told, repeated, muddled, checks>>

\* Only the monitor's own row may be missing.
StaleMonitor(c) ==
    /\ Is(c, "flush") /\ Free(checker[c].at, c) /\ ~Exists(checker[c].at)
    /\ RollBack(c) /\ UNCHANGED checks

\* The UPDATE of a row deleted in the meantime: StaleDataError.
Stale(c) ==
    /\ checker[c].pc \in {"flush", "record"}
    /\ Free(checker[c].at, c) /\ ~Exists(checker[c].at)
    /\ RollBack(c) /\ UNCHANGED checks

\* A status that did not change is not in the UPDATE.
Written(c, mo) == checker[c].got[mo] # "gone" /\ checker[c].got[mo] # checker[c].read[mo]

Commit(c) ==
    /\ Is(c, "probe") /\ checker[c].todo = {}
    /\ status' = [mo \in Monitors |-> IF Written(c, mo) THEN checker[c].got[mo] ELSE status[mo]]
    /\ checker' = [checker EXCEPT ![c] = Idle]
    /\ UNCHANGED <<channel, told, repeated, muddled, checks>>

(***************************************************************************)
(* The database, the process and the tenant.                               *)
(***************************************************************************)
Awaits(c) == IF checker[c].pc \in {"flush", "record"}
             THEN {d \in Checkers \ {c} : checker[c].at \in checker[d].locks}
             ELSE {}

\* Checkers that wait for each other in a circle.
Circle(S) == /\ S # {}
             /\ \A c \in S : (\E d \in S : d \in Awaits(c)) /\ (\E d \in S : c \in Awaits(d))

\* PostgreSQL's deadlock detector fails one of them; its transaction is over.
Deadlock(c) == /\ \E S \in SUBSET Checkers : c \in S /\ Circle(S)
               /\ RollBack(c) /\ UNCHANGED checks

\* The scheduler is cancelled or a connection drops.
Cut(c) == ~Is(c, "idle") /\ checks > 0 /\ checks' = checks - 1 /\ RollBack(c)

DeleteMonitor(mo) ==
    /\ status[mo] # "gone" /\ \A c \in Checkers : mo \notin checker[c].locks
    /\ status' = [status EXCEPT ![mo] = "gone"]
    /\ UNCHANGED <<channel, checker, told, repeated, muddled, checks>>

DeleteChannel(ch) ==
    /\ ch \in channel /\ \A c \in Checkers : ch \notin checker[c].locks
    /\ channel' = channel \ {ch}
    /\ UNCHANGED <<status, checker, told, repeated, muddled, checks>>

CheckSteps(c) ==
    \/ \E mo \in Monitors : Probe(c, mo)
    \/ \E ch \in Channels : Deliver(c, ch)
    \/ Flush(c) \/ Record(c) \/ Delivered(c) \/ Stale(c) \/ Commit(c) \/ Deadlock(c)

Next ==
    \/ StartPass
    \/ \E c \in Checkers :
          \/ CheckSteps(c) \/ ProbeRaises(c) \/ Cut(c)
          \/ \E mo \in Monitors : StartCheck(c, mo)
          \/ \E ch \in Channels : StartTest(c, ch)
    \/ \E mo \in Monitors : DeleteMonitor(mo)
    \/ \E ch \in Channels : DeleteChannel(ch)

\* Probes and deliveries end within their timeouts and the database answers.
Spec == Init /\ [][Next]_vars /\ \A c \in Checkers : WF_vars(CheckSteps(c))

-----------------------------------------------------------------------------
\* The state has the shape the code gives it.
TypeOK ==
    /\ status \in [Monitors -> Known \cup {"gone"}]
    /\ channel \subseteq Channels
    /\ checker \in [Checkers -> Check]
    /\ told \in [Monitors -> {"nothing", "up", "down"}]
    /\ repeated \subseteq Monitors /\ muddled \subseteq Monitors
    /\ checks \in 0..MaxChecks

\* "on a state transition": app.down and app.up take turns, unless two checks
\* of the monitor overlapped or one that had alerted was rolled back.
AlertsTakeTurns == repeated \subseteq muddled

\* The committed status is the one the tenant was told last, on the same
\* condition and while no check is under way: a monitor that is down has been
\* reported down, and one that is up is not believed to be down.
StatusWasTold ==
    \A mo \in Monitors \ muddled :
       (\A c \in Checkers : mo \notin Reading(c)) =>
          /\ status[mo] = "down" => told[mo] = "down"
          /\ status[mo] \in {"unknown", "up"} => told[mo] # "down"

\* A row is locked by one transaction at a time, and the circles the locks of
\* monitors and channels can form are broken: every check ends.
ChecksEnd == \A c \in Checkers : ~Is(c, "idle") ~> Is(c, "idle")
=============================================================================
