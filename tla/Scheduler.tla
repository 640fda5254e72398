----------------------------- MODULE Scheduler ------------------------------
(***************************************************************************)
(* The in-process scheduler (app/services/scheduler.py) and the scheduled  *)
(* jobs it runs (app/modules/jobs/service.py, app/models/job.py, the       *)
(* /jobs routes).                                                          *)
(*                                                                         *)
(* One asyncio task sleeps to the minute, loads the enabled jobs that are  *)
(* due, sends their requests one after another and commits their runs in   *)
(* one transaction, then probes the uptime monitors (Uptime.tla) and       *)
(* sleeps again.  Meanwhile tenants create, edit and delete jobs, time     *)
(* goes on, the wall clock may be set back and the process may restart.    *)
(***************************************************************************)
EXTENDS Cron, Sequences

CONSTANTS Jobs,         \* rows of scheduled_jobs, each created at most once
          Calendar,     \* the minutes of the run: wall-clock times in order
          Crons,        \* expressions jobs are given
          MaxUpsets     \* bound on restarts, clock changes and updates of jobs

ASSUME SchedulerAssumption ==
    /\ MaxUpsets \in Nat
    /\ Calendar \in Seq(Times) /\ Calendar # <<>>
    /\ Crons # {} /\ \A e \in Crons : IsExpression(e)

VARIABLES job,      \* row of each job, and its job_runs as they were committed
          loop,     \* where scheduler_loop is
          now,      \* the current minute, an index of Calendar
          sent,     \* requests sent: <<job, minute>>
          again,    \* requests sent although they had been sent before
          rewound,  \* minutes the wall clock showed a second time
          overrun,  \* minutes that began while the loop was not asleep
          ticked,   \* minutes the loop loaded jobs for
          lost,     \* requests whose runs a failed pass took with it
          left      \* how many upsets may still come

rows == <<job, loop>>
history == <<sent, again, rewound, overrun, ticked, lost>>
schedulerVars == <<rows, now, history, left>>

Minutes == 1..Len(Calendar)
Outcomes == {"ok", "error"}

\* httpx refuses some URLs that start with http:// by raising InvalidURL,
\* which is not an httpx.HTTPError.
Urls == {"good", "unparsable"}

Row == [life : {"new", "there", "deleted"}, enabled : BOOLEAN, cron : Crons,
        url : Urls, last : {""} \cup Outcomes, runs : Seq(Minutes \X Outcomes)]
Blank == [life |-> "new", enabled |-> TRUE, cron |-> CHOOSE e \in Crons : TRUE,
          url |-> "good", last |-> "", runs |-> <<>>]
There(j) == job[j].life = "there"

Asleep(wake) == [pc |-> "asleep", wake |-> wake, tick |-> 0,
                 due |-> {}, bad |-> {}, done |-> {}]

SchedulerInit ==
    /\ job = [j \in Jobs |-> Blank]
    /\ loop = Asleep(2) /\ now = 1
    /\ sent = {} /\ again = {} /\ rewound = {} /\ overrun = {} /\ ticked = {}
    /\ lost = {}
    /\ left = MaxUpsets

(***************************************************************************)
(* The loop.  It keeps the tick it serves, the jobs that are due, those of *)
(* them whose URL will not parse, and the outcomes so far.                 *)
(***************************************************************************)
LoadAt(tick, due) ==
    /\ loop.pc = "asleep" /\ now >= loop.wake
    /\ loop' = [loop EXCEPT !.pc = "pass", !.tick = tick, !.due = due,
                            !.bad = {j \in due : job[j].url = "unparsable"}]
    /\ ticked' = ticked \cup {tick}
    /\ UNCHANGED <<job, now, sent, again, rewound, overrun, lost, left>>

\* Disabled jobs are loaded too.
LoadDisabled ==
    LoadAt(now, {j \in Jobs : There(j) /\ CronMatches(job[j].cron, Calendar[now])})

\* The tick loads the enabled jobs and keeps those whose expression matches.
Load ==
    LoadAt(now, {j \in Jobs : /\ There(j) /\ job[j].enabled
                              /\ CronMatches(job[j].cron, Calendar[now])})

Done(j) == \E o \in Outcomes : <<j, o>> \in loop.done

\* _execute: the request of one due job, as its row was when it was loaded;
\* it ends within 30 s, with a status below 400 or with an error.
Fire(j) ==
    /\ loop.pc = "pass" /\ j \in loop.due \ loop.bad /\ ~Done(j)
    /\ \E o \in Outcomes : loop' = [loop EXCEPT !.done = @ \cup {<<j, o>>}]
    /\ sent' = sent \cup {<<j, loop.tick>>}
    /\ again' = again \cup ({<<j, loop.tick>>} \cap sent)
    /\ UNCHANGED <<job, now, rewound, overrun, ticked, lost, left>>

Outcome(j) == CHOOSE o \in Outcomes : <<j, o>> \in loop.done

\* The pass commits a row for every job it ran, if they are all still there.
CommitRows(written) ==
    /\ loop.pc = "pass" /\ \A j \in loop.due : Done(j) /\ There(j)
    /\ job' = [j \in Jobs |-> IF j \in loop.due THEN written[j] ELSE job[j]]
    /\ loop' = [loop EXCEPT !.pc = "probing"]
    /\ UNCHANGED <<now, history, left>>

\* Only failures are kept as runs.
CommitPassErrors ==
    CommitRows([j \in loop.due |-> [job[j] EXCEPT
        !.runs = IF Outcome(j) = "ok" THEN @ ELSE Append(@, <<loop.tick, Outcome(j)>>),
        !.last = Outcome(j)]])

\* The end of run_due_jobs: the runs and the jobs' last status, in one
\* transaction; only the assigned columns are written.
CommitPass ==
    CommitRows([j \in loop.due |->
        [job[j] EXCEPT !.runs = Append(@, <<loop.tick, Outcome(j)>>), !.last = Outcome(j)]])

\* What ends a pass without a commit: a URL that cannot be requested at all,
\* or the UPDATE of a job that was deleted under it (StaleDataError).
Fails == \/ loop.bad # {}
         \/ /\ \A j \in loop.due : Done(j)
            /\ \E j \in loop.due : ~There(j)

Unrecorded == IF loop.pc = "pass" THEN {<<d[1], loop.tick>> : d \in loop.done} ELSE {}

\* "a scheduler error must never kill the loop"
AbandonPass ==
    /\ loop.pc = "pass" /\ Fails
    /\ loop' = [loop EXCEPT !.pc = "probing"]
    /\ lost' = lost \cup Unrecorded
    /\ UNCHANGED <<job, now, sent, again, rewound, overrun, ticked, left>>

SleepUntil(wake) ==
    /\ loop.pc = "probing"
    /\ loop' = Asleep(wake)
    /\ UNCHANGED <<job, now, history, left>>

\* The sleep takes a minute and a little more.
SleepTooLong == SleepUntil(now + 2)

\* run_uptime_checks is over; sleep(max(1.0, 60 - now.second - ...)) ends in
\* the next minute, also when it begins in the last second of this one.
Sleep == SleepUntil(now + 1)

(***************************************************************************)
(* Time and the process.                                                   *)
(***************************************************************************)

\* A minute passes.  A sleeping loop has its turn in the minute it wakes in.
MinutePasses ==
    /\ now < Len(Calendar)
    /\ loop.pc = "asleep" => now < loop.wake
    /\ now' = now + 1
    /\ overrun' = IF loop.pc = "asleep" THEN overrun ELSE overrun \cup {now + 1}
    /\ UNCHANGED <<rows, sent, again, rewound, ticked, lost, left>>

\* The wall clock is set back into the previous minute, or the sleep, which
\* runs on the monotonic clock, ends just before the minute does.
Slip ==
    /\ left > 0 /\ now > 1
    /\ left' = left - 1
    /\ now' = now - 1
    /\ rewound' = rewound \cup {now - 1, now}
    /\ loop' = IF loop.pc = "asleep" THEN [loop EXCEPT !.wake = @ - 1] ELSE loop
    /\ UNCHANGED <<job, sent, again, overrun, ticked, lost>>

\* The process restarts: stop_scheduler cancels the task, start_scheduler
\* creates it anew.
Restart ==
    /\ left > 0
    /\ left' = left - 1
    /\ loop' = Asleep(now + 1)
    /\ lost' = lost \cup Unrecorded
    /\ overrun' = overrun \cup {now}
    /\ UNCHANGED <<job, now, sent, again, rewound, ticked>>

(***************************************************************************)
(* JobsService, for the tenant that owns the job.                          *)
(***************************************************************************)

\* create checks only that the URL starts with http:// or https://.
Create(j, e, u) ==
    /\ job[j].life = "new"
    /\ job' = [job EXCEPT ![j].life = "there", ![j].cron = e, ![j].url = u]
    /\ UNCHANGED <<loop, now, history, left>>

Update(j, e, on, u) ==
    /\ There(j) /\ left > 0
    /\ left' = left - 1
    /\ job' = [job EXCEPT ![j].cron = e, ![j].enabled = on, ![j].url = u]
    /\ UNCHANGED <<loop, now, history>>

\* Deletes the runs, then the job.
Delete(j) ==
    /\ There(j)
    /\ job' = [job EXCEPT ![j] = [Blank EXCEPT !.life = "deleted"]]
    /\ UNCHANGED <<loop, now, history, left>>

SchedulerNext ==
    \/ Load \/ CommitPass \/ AbandonPass \/ Sleep
    \/ MinutePasses \/ Slip \/ Restart
    \/ \E j \in Jobs :
          \/ Fire(j) \/ Delete(j)
          \/ \E e \in Crons, u \in Urls :
                Create(j, e, u) \/ \E on \in BOOLEAN : Update(j, e, on, u)

SchedulerSpec == SchedulerInit /\ [][SchedulerNext]_schedulerVars

-----------------------------------------------------------------------------
\* The state has the shape the code gives it.
SchedulerTypeOK ==
    /\ job \in [Jobs -> Row]
    /\ loop \in [pc : {"asleep", "pass", "probing"}, wake : 0..(Len(Calendar) + 2),
                 tick : 0..Len(Calendar), due : SUBSET Jobs, bad : SUBSET Jobs,
                 done : SUBSET (Jobs \X Outcomes)]
    /\ now \in Minutes
    /\ sent \subseteq Jobs \X Minutes /\ again \subseteq sent /\ lost \subseteq sent
    /\ rewound \cup overrun \cup ticked \subseteq Minutes
    /\ left \in 0..MaxUpsets

\* "fires due ScheduledJobs at each minute boundary": the request of a job
\* goes out at most once for a minute, unless the wall clock showed it twice,
\* and scheduler_loop serves every minute that begins while it is asleep: one
\* is skipped only if a pass was under way when it began, the process
\* restarted in it or the clock was set back.
OncePerMinute == \A s \in again : s[2] \in rewound
SkipsOnlyWhenBusy ==
    \A m \in 2..now : \/ m \in ticked \cup overrun \cup rewound
                      \/ m = now /\ loop.pc = "asleep" /\ loop.wake = now
MinutesServedOnce == OncePerMinute /\ SkipsOnlyWhenBusy

\* A request that was sent has its JobRun as long as the job exists, but for
\* the requests of a pass that failed as a whole or is still under way.
RunsAreKept ==
    \A s \in sent :
       \/ s \in lost \cup Unrecorded
       \/ ~There(s[1])
       \/ \E i \in 1..Len(job[s[1]].runs) : job[s[1]].runs[i][1] = s[2]

\* run_due_jobs picks exactly the enabled jobs that crontab would fire, on
\* Sundays written as 7 too, where the expression is Plain: of the forms that
\* cron.py documents, and without a range or step of days that ends in 7.
DueByCrontab ==
    [][loop.pc = "asleep" /\ loop'.pc = "pass" =>
         \A j \in Jobs : Plain(job[j].cron) =>
            (j \in loop'.due <=> There(j) /\ job[j].enabled
                                 /\ Fires(job[j].cron, Calendar[now]))]_schedulerVars

\* What cron.py:3-4 promises: "``a-b`` ranges [...] Day-of-week is cron-style
\* (0 or 7 = Sunday)".  Every job's expression of a documented form matches
\* the minute on the clock exactly when crontab fires it.
DocumentedFire ==
    \A j \in Jobs : There(j) /\ Documented(job[j].cron) =>
       (CronMatches(job[j].cron, Calendar[now]) <=> Fires(job[j].cron, Calendar[now]))
=============================================================================
