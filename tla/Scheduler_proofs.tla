-------------------------- MODULE Scheduler_proofs --------------------------
(***************************************************************************)
(* What the scheduler's task does every minute, proved for any jobs,       *)
(* expressions, calendar, monitors, channels and requests.                 *)
(*                                                                         *)
(* Scheduled jobs: every minute is served once, what was sent has its run, *)
(* and the jobs picked are those crontab would fire.  SchedulerInv is      *)
(* inductive.                                                              *)
(*                                                                         *)
(* Uptime checks: what a tenant is told of a monitor takes turns, and once *)
(* its check is over agrees with the status recorded, unless checks of it  *)
(* overlapped or one that had alerted was rolled back.  UptimeInv is       *)
(* inductive.                                                              *)
(***************************************************************************)
EXTENDS Scheduler, Uptime, TLAPS

(***************************************************************************)
(* Cron expressions.  On what Plain describes the matcher and crontab      *)
(* agree, field by field.                                                  *)
(***************************************************************************)
LEMMA ExpressionFields ==
    ASSUME NEW e, IsExpression(e)
    PROVE  \A f \in FieldNames : \A p \in e[f] :
              /\ p.kind \in {"any", "step", "range", "stepped", "num", "junk"}
              /\ p.lo \in Nat /\ p.hi \in Nat
              /\ p = [kind |-> p.kind, lo |-> p.lo, hi |-> p.hi, by |-> p.by]
              /\ p.kind = "any" => p = Star
              /\ p.kind \in {"step", "num"} => p.lo = p.hi
  BY DEF IsExpression, IsPart

\* A field of which the reference tries one value.
LEMMA OneValue ==
    ASSUME NEW e, IsExpression(e), Plain(e), NEW f \in FieldNames, NEW t,
           t[f] \in Nat, Values(t, f) = {t[f]}
    PROVE  MatchField(e[f], t[f]) <=> Fits(e, t, f)
<1>. USE ExpressionFields
<1>1. Fits(e, t, f) <=> \E p \in e[f] : Covers(p, f, t[f])
  BY DEF Fits
<1>2. CASE e[f] = {Star}
  <2>1. Covers(Star, f, t[f])
    BY DEF Covers, Star
  <2>. QED  BY <1>1, <1>2, <2>1 DEF MatchField
<1>3. CASE Star \notin e[f]
  <2>1. ASSUME NEW p \in e[f]
        PROVE  Covers(p, f, t[f]) <=>
                  CASE p.kind = "step"  -> p.lo > 0 /\ t[f] % p.lo = 0
                    [] p.kind = "range" -> p.lo <= t[f] /\ t[f] <= p.hi
                    [] p.kind = "num"   -> p.lo = t[f]
                    [] OTHER            -> FALSE
    <3>1. p.kind \in {"step", "range", "num"}
      BY <1>3, <2>1 DEF Plain, Documented
    <3>2. CASE p.kind = "step"
      <4>1. f \notin {"dom", "month"}
        BY <2>1, <3>2 DEF Plain, Documented
      <4>2. First(f) = 0 /\ t[f] - First(f) = t[f]
        BY <4>1 DEF First
      <4>. QED  BY <3>2, <4>2 DEF Covers
    <3>3. CASE p.kind \in {"range", "num"}
      BY <3>3 DEF Covers
    <3>. QED  BY <2>1, <3>1, <3>2, <3>3
  <2>2. e[f] # {Star}
    BY <1>3
  <2>. QED  BY <1>1, <2>1, <2>2 DEF MatchField
<1>. QED  BY <1>2, <1>3 DEF Plain, Documented

\* Sundays are 0, and 7 in the reference: the matcher writes 0 for 7.
LEMMA OnSundays ==
    ASSUME NEW e, IsExpression(e), Plain(e), NEW t, t["dow"] = 0
    PROVE  MatchField(SevenAsZero(e.dow), 0) <=> Fits(e, t, "dow")
<1>. DEFINE z(n) == IF n = 7 THEN 0 ELSE n
            zero(p) == [p EXCEPT !.lo = z(p.lo), !.hi = z(p.hi)]
            Meets(p) == CASE p.kind = "step"  -> p.lo > 0 /\ 0 % p.lo = 0
                          [] p.kind = "range" -> p.lo <= 0 /\ 0 <= p.hi
                          [] p.kind = "num"   -> p.lo = 0
                          [] OTHER            -> FALSE
<1>1. SevenAsZero(e.dow) = {zero(p) : p \in e["dow"]}
  BY DEF SevenAsZero
<1>2. Fits(e, t, "dow") <=> \E p \in e["dow"] : Covers(p, "dow", 0) \/ Covers(p, "dow", 7)
  BY DEF Fits, Values
<1>3. CASE e["dow"] = {Star}
  <2>1. zero(Star) = Star
    BY DEF Star
  <2>2. SevenAsZero(e.dow) = {Star}
    BY <1>1, <1>3, <2>1
  <2>3. Covers(Star, "dow", 0)
    BY DEF Covers, Star
  <2>. QED  BY <1>2, <1>3, <2>2, <2>3 DEF MatchField
<1>4. CASE Star \notin e["dow"]
  <2>1. ASSUME NEW p \in e["dow"]
        PROVE  /\ zero(p).kind = p.kind /\ zero(p).lo = z(p.lo) /\ zero(p).hi = z(p.hi)
               /\ p.kind # "any"
               /\ Meets(zero(p)) <=> Covers(p, "dow", 0) \/ Covers(p, "dow", 7)
    <3>1. /\ p.kind \in {"step", "range", "num"}
          /\ p.lo \in Nat /\ p.hi \in Nat
          /\ p = [kind |-> p.kind, lo |-> p.lo, hi |-> p.hi, by |-> p.by]
          /\ p.kind \in {"step", "num"} => p.lo = p.hi
          /\ p.lo <= p.hi /\ p.hi <= 7 /\ (p.hi = 7 => p.kind = "num")
      BY <1>4, <2>1, ExpressionFields DEF FieldNames, Plain, Documented
    <3>. HIDE DEF z
    <3>2. zero(p).kind = p.kind /\ zero(p).lo = z(p.lo) /\ zero(p).hi = z(p.hi)
      BY <3>1
    <3>. USE DEF z
    <3>3. First("dow") = 0
      BY DEF First
    <3>4. CASE p.kind = "step"
      <4>1. z(p.lo) = p.lo /\ p.lo # 7
        BY <3>1, <3>4
      <4>2. p.lo > 0 => 0 % p.lo = 0 /\ (0 - First("dow")) % p.lo = 0
        BY <3>1, <3>3
      <4>. HIDE DEF zero, z
      <4>3. Meets(zero(p)) <=> p.lo > 0
        BY <3>2, <3>4, <4>1, <4>2
      <4>4. Covers(p, "dow", 0) <=> p.lo > 0
        BY <3>4, <4>2 DEF Covers
      <4>5. Covers(p, "dow", 7) => p.lo > 0
        BY <3>4 DEF Covers
      <4>. QED  BY <3>2, <3>4, <4>3, <4>4, <4>5
    <3>5. CASE p.kind = "range"
      <4>1. z(p.lo) = p.lo /\ z(p.hi) = p.hi /\ p.hi < 7
        BY <3>1, <3>5
      <4>. HIDE DEF zero, z
      <4>2. Meets(zero(p)) <=> p.lo <= 0 /\ 0 <= p.hi
        BY <3>2, <3>5, <4>1
      <4>. QED  BY <3>1, <3>2, <3>5, <4>1, <4>2 DEF Covers
    <3>6. CASE p.kind = "num"
      <4>1. z(p.lo) = 0 <=> p.lo = 0 \/ p.lo = 7
        BY <3>1
      <4>. HIDE DEF zero, z
      <4>2. Meets(zero(p)) <=> z(p.lo) = 0
        BY <3>2, <3>6
      <4>. QED  BY <3>1, <3>2, <3>6, <4>1, <4>2 DEF Covers
    <3>. QED  BY <3>1, <3>4, <3>5, <3>6
  <2>. HIDE DEF zero, z, Meets
  <2>2. SevenAsZero(e.dow) # {Star}
    <3>1. \A p \in e["dow"] : zero(p) # Star
      BY <2>1 DEF Star
    <3>. QED  BY <1>1, <3>1
  <2>3. MatchField(SevenAsZero(e.dow), 0) <=> \E p \in SevenAsZero(e.dow) : Meets(p)
    BY <2>2 DEF MatchField, Meets
  <2>. QED  BY <1>1, <1>2, <2>1, <2>3
<1>. QED  BY <1>3, <1>4 DEF Plain, Documented, FieldNames

\* cron_matches against crontab, for every plain expression and minute.
LEMMA MatchesAsCrontab ==
    ASSUME NEW e, IsExpression(e), Plain(e), NEW t \in Times
    PROVE  CronMatches(e, t) <=> Fires(e, t)
<1>1. \A f \in FieldNames : t[f] \in Nat
  BY DEF Times, FieldNames
<1>2. \A f \in FieldNames \ {"dow"} : MatchField(e[f], t[f]) <=> Fits(e, t, f)
  <2>. SUFFICES ASSUME NEW f \in FieldNames \ {"dow"}
                PROVE  MatchField(e[f], t[f]) <=> Fits(e, t, f)
    OBVIOUS
  <2>1. Values(t, f) = {t[f]}
    BY DEF Values
  <2>. QED  BY <1>1, <2>1, OneValue
<1>3. MatchField(IF t.dow = 0 THEN SevenAsZero(e.dow) ELSE e.dow, t.dow) <=> Fits(e, t, "dow")
  <2>1. CASE t["dow"] = 0
    BY <2>1, OnSundays
  <2>2. CASE t["dow"] # 0
    <3>1. Values(t, "dow") = {t["dow"]}
      BY <2>2 DEF Values
    <3>. QED  BY <1>1, <2>2, <3>1, OneValue DEF FieldNames
  <2>. QED  BY <2>1, <2>2
<1>4. CronMatches(e, t) <=> \A f \in FieldNames : Fits(e, t, f)
  BY <1>2, <1>3 DEF CronMatches, FieldNames
<1>5. Fires(e, t) <=> \A f \in FieldNames : Fits(e, t, f)
  BY DEF Fires, Plain, Documented, FieldNames
<1>. QED  BY <1>4, <1>5

-----------------------------------------------------------------------------
(***************************************************************************)
(* The loop.  The minute it wakes for is this one or the next; what it has *)
(* sent belongs to minutes it ticked for, and of those only one the wall   *)
(* clock showed again is ahead of it.                                      *)
(***************************************************************************)
Recorded(s) == \E i \in 1..Len(job[s[1]].runs) : job[s[1]].runs[i][1] = s[2]

LoopInv ==
    /\ loop.pc = "asleep" => now <= loop.wake /\ loop.wake <= now + 1 /\ loop.done = {}
    /\ loop.pc = "pass" => loop.tick \in ticked
    /\ \A d \in loop.done : d[1] \in loop.due
    /\ \A j \in loop.due : job[j].life # "new"

SentInv ==
    /\ \A s \in sent : s[2] \in ticked /\ job[s[1]].life # "new"
    /\ Unrecorded \subseteq sent
    /\ loop.pc = "pass" =>
          \A s \in sent : s[2] = loop.tick => s \in Unrecorded \/ s[2] \in rewound
    /\ \A m \in ticked : /\ m <= now \/ m \in rewound
                         /\ loop.pc = "asleep" => m < loop.wake \/ m \in rewound

SchedulerInv ==
    /\ SchedulerTypeOK /\ LoopInv /\ SentInv
    /\ MinutesServedOnce /\ RunsAreKept

LEMMA CalendarLength == Len(Calendar) \in Nat \ {0}
  BY SchedulerAssumption

LEMMA LoopFields ==
    ASSUME SchedulerTypeOK
    PROVE  /\ loop = [pc |-> loop.pc, wake |-> loop.wake, tick |-> loop.tick,
                      due |-> loop.due, bad |-> loop.bad, done |-> loop.done]
           /\ loop.pc \in {"asleep", "pass", "probing"}
           /\ loop.wake \in 0..(Len(Calendar) + 2) /\ loop.wake \in Nat
           /\ loop.tick \in 0..Len(Calendar)
           /\ loop.due \subseteq Jobs /\ loop.bad \subseteq Jobs
           /\ loop.done \subseteq Jobs \X Outcomes
           /\ now \in Minutes /\ now \in Nat
           /\ rewound \subseteq Minutes /\ overrun \subseteq Minutes /\ ticked \subseteq Minutes
           /\ Minutes \subseteq Nat
  BY CalendarLength DEF SchedulerTypeOK, Minutes

LEMMA JobFields ==
    ASSUME SchedulerTypeOK, NEW j \in Jobs
    PROVE  /\ job[j] = [life |-> job[j].life, enabled |-> job[j].enabled, cron |-> job[j].cron,
                        url |-> job[j].url, last |-> job[j].last, runs |-> job[j].runs]
           /\ job[j].life \in {"new", "there", "deleted"} /\ job[j].enabled \in BOOLEAN
           /\ job[j].cron \in Crons /\ job[j].url \in Urls
           /\ job[j].last \in {""} \cup Outcomes
           /\ job[j].runs \in Seq(Minutes \X Outcomes)
  BY DEF SchedulerTypeOK, Row

\* A run that is appended, and those that were there, are among the runs.
LEMMA Appended ==
    ASSUME NEW q \in Seq(Minutes \X Outcomes), NEW d \in Minutes \X Outcomes,
           NEW r, r = Append(q, d)
    PROVE  /\ r \in Seq(Minutes \X Outcomes)
           /\ \E i \in 1..Len(r) : r[i] = d
           /\ \A k \in 1..Len(q) : \E i \in 1..Len(r) : r[i] = q[k]
<1>1. r \in Seq(Minutes \X Outcomes) /\ Len(r) = Len(q) + 1
  OBVIOUS
<1>2. Len(q) + 1 \in 1..Len(r) /\ r[Len(q) + 1] = d
  BY <1>1
<1>3. \A k \in 1..Len(q) : k \in 1..Len(r) /\ r[k] = q[k]
  BY <1>1
<1>. QED  BY <1>1, <1>2, <1>3

\* What is written to one row.
LEMMA RowWritten ==
    ASSUME SchedulerTypeOK, NEW k \in Jobs, NEW x \in Row, job' = [job EXCEPT ![k] = x]
    PROVE  job' \in [Jobs -> Row] /\ job'[k] = x /\ \A j \in Jobs \ {k} : job'[j] = job[j]
<1>1. job \in [Jobs -> Row]
  BY DEF SchedulerTypeOK
<1>. PICK f \in [Jobs -> Row] : f = job
  BY <1>1
<1>2. /\ [f EXCEPT ![k] = x] \in [Jobs -> Row] /\ [f EXCEPT ![k] = x][k] = x
      /\ \A j \in Jobs \ {k} : [f EXCEPT ![k] = x][j] = f[j]
  OBVIOUS
<1>3. job' = [f EXCEPT ![k] = x]
  OBVIOUS
<1>. QED  BY <1>2, <1>3

LEMMA BlankType == Blank \in Row /\ Blank.life = "new" /\ Blank.runs = <<>>
<1>1. (CHOOSE e \in Crons : TRUE) \in Crons
  BY SchedulerAssumption
<1>. QED  BY <1>1 DEF Blank, Row, Urls

LEMMA SchedulerStarts == SchedulerInit => SchedulerInv
<1>. SUFFICES ASSUME SchedulerInit PROVE SchedulerInv
  OBVIOUS
<1>1. Asleep(2) \in [pc : {"asleep", "pass", "probing"}, wake : 0..(Len(Calendar) + 2),
                     tick : 0..Len(Calendar), due : SUBSET Jobs, bad : SUBSET Jobs,
                     done : SUBSET (Jobs \X Outcomes)]
  BY CalendarLength DEF Asleep
<1>2. now = 1 /\ 1 \in Minutes /\ left \in 0..MaxUpsets
  BY CalendarLength, SchedulerAssumption DEF SchedulerInit, Minutes
<1>3. SchedulerTypeOK
  BY <1>1, <1>2, BlankType DEF SchedulerInit, SchedulerTypeOK
<1>4. loop.pc = "asleep" /\ loop.wake = 2 /\ loop.due = {} /\ loop.done = {}
  BY DEF SchedulerInit, Asleep
<1>5. LoopInv /\ SentInv
  BY <1>2, <1>4 DEF SchedulerInit, LoopInv, SentInv, Unrecorded
<1>6. MinutesServedOnce
  BY <1>2 DEF SchedulerInit, MinutesServedOnce, OncePerMinute, SkipsOnlyWhenBusy
<1>. QED  BY <1>3, <1>5, <1>6 DEF SchedulerInv, RunsAreKept, SchedulerInit

\* A step that leaves the jobs, what was sent and the minutes alone.
LEMMA LoadKeeps ==
    ASSUME SchedulerInv, Load
    PROVE  SchedulerInv'
<1>. USE LoopFields DEF SchedulerInv
<1>. DEFINE due == {j \in Jobs : /\ There(j) /\ job[j].enabled
                                 /\ CronMatches(job[j].cron, Calendar[now])}
            bad == {j \in due : job[j].url = "unparsable"}
<1>1. /\ loop.pc = "asleep" /\ loop.wake <= now
      /\ loop' = [loop EXCEPT !.pc = "pass", !.tick = now, !.due = due, !.bad = bad]
      /\ ticked' = ticked \cup {now}
      /\ UNCHANGED <<job, now, sent, again, rewound, overrun, lost, left>>
  BY DEF Load, LoadAt
<1>2. due \subseteq Jobs /\ bad \subseteq Jobs /\ \A j \in due : job[j].life = "there"
  BY DEF There
<1>. HIDE DEF due, bad
<1>3. /\ loop'.pc = "pass" /\ loop'.tick = now /\ loop'.due = due /\ loop'.done = {}
      /\ loop' \in [pc : {"asleep", "pass", "probing"}, wake : 0..(Len(Calendar) + 2),
                    tick : 0..Len(Calendar), due : SUBSET Jobs, bad : SUBSET Jobs,
                    done : SUBSET (Jobs \X Outcomes)]
  <2>1. loop' = [pc |-> "pass", wake |-> loop.wake, tick |-> now, due |-> due, bad |-> bad,
                 done |-> loop.done]
    BY <1>1
  <2>2. loop.done = {} /\ now \in 0..Len(Calendar)
    BY <1>1, CalendarLength DEF LoopInv, Minutes
  <2>. QED  BY <1>2, <2>1, <2>2
<1>4. SchedulerTypeOK'
  BY <1>1, <1>3 DEF SchedulerTypeOK
<1>5. LoopInv'
  BY <1>1, <1>2, <1>3 DEF LoopInv
<1>6. Unrecorded = {} /\ Unrecorded' = {}
  BY <1>1, <1>3 DEF Unrecorded
<1>7. SentInv'
  BY <1>1, <1>3, <1>6 DEF SentInv
<1>8. MinutesServedOnce'
  BY <1>1 DEF MinutesServedOnce, OncePerMinute, SkipsOnlyWhenBusy
<1>9. RunsAreKept'
  BY <1>1, <1>6 DEF RunsAreKept, There
<1>. QED  BY <1>4, <1>5, <1>7, <1>8, <1>9

LEMMA FireKeeps ==
    ASSUME SchedulerInv, NEW k \in Jobs, Fire(k)
    PROVE  SchedulerInv'
<1>. USE LoopFields DEF SchedulerInv
<1>. PICK o \in Outcomes : loop' = [loop EXCEPT !.done = @ \cup {<<k, o>>}]
  BY DEF Fire
<1>1. /\ loop.pc = "pass" /\ k \in loop.due /\ \A x \in Outcomes : <<k, x>> \notin loop.done
      /\ sent' = sent \cup {<<k, loop.tick>>}
      /\ again' = again \cup ({<<k, loop.tick>>} \cap sent)
      /\ UNCHANGED <<job, now, rewound, overrun, ticked, lost, left>>
      /\ job[k].life # "new" /\ loop.tick \in ticked
  BY DEF Fire, Done, LoopInv
<1>2. /\ loop'.pc = "pass" /\ loop'.tick = loop.tick /\ loop'.due = loop.due
      /\ loop'.done = loop.done \cup {<<k, o>>}
      /\ loop' \in [pc : {"asleep", "pass", "probing"}, wake : 0..(Len(Calendar) + 2),
                    tick : 0..Len(Calendar), due : SUBSET Jobs, bad : SUBSET Jobs,
                    done : SUBSET (Jobs \X Outcomes)]
  BY <1>1 DEF LoopInv, Minutes
<1>3. SchedulerTypeOK'
  BY <1>1, <1>2 DEF SchedulerTypeOK
<1>4. LoopInv'
  BY <1>1, <1>2 DEF LoopInv
<1>5. Unrecorded' = Unrecorded \cup {<<k, loop.tick>>}
  <2>1. /\ Unrecorded = {<<d[1], loop.tick>> : d \in loop.done}
        /\ Unrecorded' = {<<d[1], loop.tick>> : d \in loop.done \cup {<<k, o>>}}
    BY <1>1, <1>2 DEF Unrecorded
  <2>2. <<k, o>>[1] = k
    OBVIOUS
  <2>. QED  BY ONLY <2>1, <2>2
<1>6. SentInv'
  BY <1>1, <1>2, <1>5 DEF SentInv
<1>7. <<k, loop.tick>> \notin Unrecorded
  BY <1>1 DEF Unrecorded
<1>8. <<k, loop.tick>> \in sent => loop.tick \in rewound
  BY <1>1, <1>7 DEF SentInv
<1>9. MinutesServedOnce'
  BY <1>1, <1>2, <1>8 DEF MinutesServedOnce, OncePerMinute, SkipsOnlyWhenBusy
<1>10. RunsAreKept'
  BY <1>1, <1>5 DEF RunsAreKept, There
<1>. QED  BY <1>3, <1>4, <1>6, <1>9, <1>10

LEMMA CommitKeeps ==
    ASSUME SchedulerInv, CommitPass
    PROVE  SchedulerInv'
<1>. USE LoopFields DEF SchedulerInv
<1>1. /\ loop.pc = "pass"
      /\ \A j \in loop.due : Done(j) /\ There(j)
      /\ loop' = [loop EXCEPT !.pc = "probing"]
      /\ UNCHANGED <<now, sent, again, rewound, overrun, ticked, lost, left>>
  BY DEF CommitPass, CommitRows, history
<1>2. \A j \in loop.due : Outcome(j) \in Outcomes
  BY <1>1 DEF Done, Outcome
<1>3. ASSUME NEW j \in Jobs
      PROVE  /\ job'[j] \in Row /\ job'[j].life = job[j].life
             /\ j \notin loop.due => job'[j] = job[j]
             /\ j \in loop.due => job'[j].runs = Append(job[j].runs, <<loop.tick, Outcome(j)>>)
  <2>. DEFINE w == [job[j] EXCEPT !.runs = Append(@, <<loop.tick, Outcome(j)>>),
                                  !.last = Outcome(j)]
  <2>1. CASE j \in loop.due
    <3>1. job'[j] = w
      BY <2>1 DEF CommitPass, CommitRows
    <3>2. <<loop.tick, Outcome(j)>> \in Minutes \X Outcomes
      BY <1>1, <1>2, <2>1 DEF LoopInv
    <3>3. job[j] \in Row /\ job[j].runs \in Seq(Minutes \X Outcomes)
      BY JobFields DEF SchedulerTypeOK
    <3>4. Append(job[j].runs, <<loop.tick, Outcome(j)>>) \in Seq(Minutes \X Outcomes)
      BY <3>2, <3>3, Appended
    <3>5. /\ w \in Row /\ w.life = job[j].life
          /\ w.runs = Append(job[j].runs, <<loop.tick, Outcome(j)>>)
      <4>. PICK q \in Seq(Minutes \X Outcomes) : q = Append(job[j].runs, <<loop.tick, Outcome(j)>>)
        BY <3>4
      <4>. PICK o \in Outcomes : o = Outcome(j)
        BY <1>2, <2>1
      <4>1. \A x \in Row : LET y == [x EXCEPT !.runs = q, !.last = o]
                           IN  y \in Row /\ y.life = x.life /\ y.runs = q
        BY ONLY o \in Outcomes, q \in Seq(Minutes \X Outcomes) DEF Row
      <4>2. w = [job[j] EXCEPT !.runs = q, !.last = o]
        OBVIOUS
      <4>. HIDE DEF w
      <4>. QED  BY <3>3, <4>1, <4>2
    <3>. QED  BY <2>1, <3>1, <3>5
  <2>2. CASE j \notin loop.due
    BY <2>2 DEF CommitPass, CommitRows, SchedulerTypeOK
  <2>. QED  BY <2>1, <2>2
<1>4. SchedulerTypeOK'
  <2>1. job' \in [Jobs -> Row]
    BY <1>3 DEF CommitPass, CommitRows
  <2>. QED  BY <1>1, <2>1 DEF SchedulerTypeOK
<1>5. /\ loop'.pc = "probing" /\ loop'.due = loop.due /\ loop'.done = loop.done
      /\ Unrecorded' = {}
  BY <1>1 DEF Unrecorded
<1>6. LoopInv'
  BY <1>3, <1>5 DEF LoopInv
<1>7. SentInv'
  <2>1. \A s \in sent : s[1] \in Jobs
    BY DEF SchedulerTypeOK
  <2>. QED  BY <1>1, <1>3, <1>5, <2>1 DEF SentInv
<1>8. MinutesServedOnce'
  BY <1>1, <1>5 DEF MinutesServedOnce, OncePerMinute, SkipsOnlyWhenBusy
<1>9. ASSUME NEW s \in sent', s \notin lost', There(s[1])'
      PROVE  Recorded(s)'
  <2>0. s \in sent /\ s[1] \in Jobs /\ There(s[1]) /\ s = <<s[1], s[2]>>
    <3>1. s \in sent /\ s \in Jobs \X Minutes
      BY <1>1 DEF SchedulerTypeOK
    <3>2. s[1] \in Jobs /\ s = <<s[1], s[2]>>
      BY <3>1
    <3>3. There(s[1])
      BY <1>3, <1>9, <3>2 DEF There
    <3>. QED  BY <3>1, <3>2, <3>3
  <2>. PICK j \in Jobs : j = s[1]
    BY <2>0
  <2>1. ASSUME j \in loop.due
        PROVE  /\ job'[j].runs = Append(job[j].runs, <<loop.tick, Outcome(j)>>)
               /\ \E i \in 1..Len(job'[j].runs) : job'[j].runs[i] = <<loop.tick, Outcome(j)>>
               /\ \A k \in 1..Len(job[j].runs) :
                     \E i \in 1..Len(job'[j].runs) : job'[j].runs[i] = job[j].runs[k]
    <3>1. job'[j].runs = Append(job[j].runs, <<loop.tick, Outcome(j)>>)
      BY <1>3, <2>1
    <3>2. <<loop.tick, Outcome(j)>> \in Minutes \X Outcomes
      BY <1>1, <1>2, <2>1 DEF LoopInv
    <3>3. job[j].runs \in Seq(Minutes \X Outcomes)
      BY JobFields
    <3>. PICK q \in Seq(Minutes \X Outcomes) : q = job[j].runs
      BY <3>3
    <3>. PICK d \in Minutes \X Outcomes : d = <<loop.tick, Outcome(j)>>
      BY <3>2
    <3>4. /\ \E i \in 1..Len(job'[j].runs) : job'[j].runs[i] = d
          /\ \A k \in 1..Len(q) : \E i \in 1..Len(job'[j].runs) : job'[j].runs[i] = q[k]
      <4>1. \A r : r = Append(q, d) => /\ \E i \in 1..Len(r) : r[i] = d
                                      /\ \A k \in 1..Len(q) : \E i \in 1..Len(r) : r[i] = q[k]
        BY ONLY Appended, q \in Seq(Minutes \X Outcomes), d \in Minutes \X Outcomes
      <4>2. job'[j].runs = Append(q, d)
        BY <3>1
      <4>. QED  BY ONLY <4>1, <4>2
    <3>. QED  BY <3>1, <3>4
  <2>2. CASE s \in Unrecorded
    <3>1. j \in loop.due /\ s[2] = loop.tick
      BY <2>2, <1>1 DEF Unrecorded, LoopInv
    <3>2. PICK i \in 1..Len(job'[j].runs) : job'[j].runs[i] = <<loop.tick, Outcome(j)>>
      BY <2>1, <3>1
    <3>3. job'[j].runs[i][1] = s[2]
      BY <3>1, <3>2
    <3>. QED  BY <3>3 DEF Recorded
  <2>3. CASE Recorded(s)
    <3>1. PICK k \in 1..Len(job[j].runs) : job[j].runs[k][1] = s[2]
      BY <2>3 DEF Recorded
    <3>2. CASE j \in loop.due
      <4>1. PICK i \in 1..Len(job'[j].runs) : job'[j].runs[i] = job[j].runs[k]
        BY <2>1, <3>1, <3>2
      <4>2. job'[j].runs[i][1] = s[2]
        BY <3>1, <4>1
      <4>. QED  BY <4>2 DEF Recorded
    <3>3. CASE j \notin loop.due
      BY <1>3, <2>3, <3>3 DEF Recorded
    <3>. QED  BY <3>2, <3>3
  <2>. QED  BY <1>1, <1>9, <2>0, <2>2, <2>3 DEF RunsAreKept, Recorded
<1>10. RunsAreKept'
  BY <1>9 DEF RunsAreKept, Recorded
<1>. QED  BY <1>4, <1>6, <1>7, <1>8, <1>10

\* The loop gives up a pass, goes to sleep, or is started anew.
LEMMA RestKeeps ==
    ASSUME SchedulerInv, AbandonPass \/ Sleep \/ Restart
    PROVE  SchedulerInv'
<1>. USE LoopFields DEF SchedulerInv
<1>1. /\ UNCHANGED <<job, now, sent, again, rewound, ticked>>
      /\ overrun \subseteq overrun' /\ overrun' \subseteq Minutes
      /\ lost' = lost \cup Unrecorded
      /\ left' \in 0..MaxUpsets
  <2>1. CASE AbandonPass
    BY <2>1 DEF AbandonPass, SchedulerTypeOK
  <2>2. CASE Sleep
    <3>1. Unrecorded = {}
      BY <2>2 DEF Sleep, SleepUntil, Unrecorded
    <3>. QED  BY <2>2, <3>1 DEF Sleep, SleepUntil, history, SchedulerTypeOK
  <2>3. CASE Restart
    <3>1. left - 1 \in 0..MaxUpsets
      <4>1. left \in 0..MaxUpsets /\ left > 0 /\ MaxUpsets \in Nat
        BY <2>3, SchedulerAssumption DEF Restart, SchedulerTypeOK
      <4>. QED  BY <4>1
    <3>. QED  BY <2>3, <3>1 DEF Restart
  <2>. QED  BY <2>1, <2>2, <2>3
<1>2. /\ loop' \in [pc : {"asleep", "pass", "probing"}, wake : 0..(Len(Calendar) + 2),
                    tick : 0..Len(Calendar), due : SUBSET Jobs, bad : SUBSET Jobs,
                    done : SUBSET (Jobs \X Outcomes)]
      /\ \/ loop'.pc = "probing" /\ loop.pc = "pass" /\ loop'.due = loop.due /\ loop'.done = loop.done
         \/ loop'.pc = "asleep" /\ loop'.wake = now + 1 /\ loop'.due = {} /\ loop'.done = {}
  <2>1. CASE AbandonPass
    BY <2>1 DEF AbandonPass
  <2>2. CASE Sleep \/ Restart
    <3>1. loop' = Asleep(now + 1)
      BY <2>2 DEF Sleep, SleepUntil, Restart
    <3>2. now + 1 \in 0..(Len(Calendar) + 2)
      BY CalendarLength DEF Minutes
    <3>. QED  BY <3>1, <3>2, CalendarLength DEF Asleep
  <2>. QED  BY <2>1, <2>2
<1>3. SchedulerTypeOK'
  <2>1. Unrecorded \subseteq sent
    BY DEF SentInv
  <2>. QED  BY <1>1, <1>2, <2>1 DEF SchedulerTypeOK
<1>4. Unrecorded' = {}
  BY <1>2 DEF Unrecorded
<1>5. LoopInv'
  BY <1>1, <1>2 DEF LoopInv
<1>6. SentInv'
  BY <1>1, <1>2, <1>4 DEF SentInv
<1>7. MinutesServedOnce'
  <2>1. loop.pc # "asleep" \/ now \in overrun'
    BY DEF AbandonPass, Sleep, SleepUntil, Restart
  <2>. QED  BY <1>1, <2>1 DEF MinutesServedOnce, OncePerMinute, SkipsOnlyWhenBusy
<1>8. RunsAreKept'
  BY <1>1, <1>4 DEF RunsAreKept, There
<1>. QED  BY <1>3, <1>5, <1>6, <1>7, <1>8

LEMMA TimeKeeps ==
    ASSUME SchedulerInv, MinutePasses \/ Slip
    PROVE  SchedulerInv'
<1>. USE LoopFields DEF SchedulerInv
<1>1. CASE MinutePasses
  <2>1. /\ now < Len(Calendar) /\ (loop.pc = "asleep" => now < loop.wake)
        /\ now' = now + 1 /\ now' \in Minutes
        /\ overrun' = IF loop.pc = "asleep" THEN overrun ELSE overrun \cup {now + 1}
        /\ UNCHANGED <<job, loop, sent, again, rewound, ticked, lost, left>>
    BY <1>1, CalendarLength DEF MinutePasses, rows, Minutes
  <2>2. Unrecorded' = Unrecorded
    BY <2>1 DEF Unrecorded
  <2>3. SchedulerTypeOK'
    BY <2>1 DEF SchedulerTypeOK
  <2>4. LoopInv'
    BY <2>1 DEF LoopInv
  <2>5. SentInv'
    BY <2>1, <2>2 DEF SentInv
  <2>6. OncePerMinute' /\ RunsAreKept'
    BY <2>1, <2>2 DEF MinutesServedOnce, OncePerMinute, RunsAreKept, There
  <2>7. SkipsOnlyWhenBusy'
    <3>. SUFFICES ASSUME NEW m \in 2..now'
                  PROVE  \/ m \in (ticked \cup overrun \cup rewound)'
                         \/ m = now' /\ loop.pc = "asleep" /\ loop.wake = now'
      BY <2>1 DEF SkipsOnlyWhenBusy
    <3>1. CASE m = now'
      BY <2>1, <3>1 DEF LoopInv
    <3>2. CASE m # now'
      <4>1. m \in 2..now
        BY <2>1, <3>2
      <4>. QED  BY <2>1, <4>1 DEF MinutesServedOnce, SkipsOnlyWhenBusy
    <3>. QED  BY <3>1, <3>2
  <2>. QED  BY <2>3, <2>4, <2>5, <2>6, <2>7 DEF MinutesServedOnce
<1>2. CASE Slip
  <2>1. /\ now > 1 /\ now' = now - 1 /\ now' \in Minutes
        /\ rewound' = rewound \cup {now - 1, now}
        /\ left' \in 0..MaxUpsets
        /\ UNCHANGED <<job, sent, again, overrun, ticked, lost>>
    BY <1>2, SchedulerAssumption DEF Slip, Minutes, SchedulerTypeOK
  <2>2. /\ loop' \in [pc : {"asleep", "pass", "probing"}, wake : 0..(Len(Calendar) + 2),
                      tick : 0..Len(Calendar), due : SUBSET Jobs, bad : SUBSET Jobs,
                      done : SUBSET (Jobs \X Outcomes)]
        /\ loop'.pc = loop.pc /\ loop'.tick = loop.tick /\ loop'.due = loop.due
        /\ loop'.done = loop.done
        /\ loop.pc = "asleep" => loop'.wake = loop.wake - 1
    <3>1. CASE loop.pc = "asleep"
      <4>1. loop' = [loop EXCEPT !.wake = @ - 1]
        BY <1>2, <3>1 DEF Slip
      <4>2. loop.wake - 1 \in 0..(Len(Calendar) + 2)
        BY <2>1, <3>1, CalendarLength DEF LoopInv
      <4>. QED  BY <4>1, <4>2
    <3>2. CASE loop.pc # "asleep"
      BY <1>2, <3>2 DEF Slip, SchedulerTypeOK
    <3>. QED  BY <3>1, <3>2
  <2>3. Unrecorded' = Unrecorded
    BY <2>2 DEF Unrecorded
  <2>4. SchedulerTypeOK'
    BY <2>1, <2>2 DEF SchedulerTypeOK
  <2>5. LoopInv'
    BY <2>1, <2>2 DEF LoopInv
  <2>6. SentInv'
    <3>1. \A m \in ticked : /\ m <= now' \/ m \in rewound'
                            /\ loop'.pc = "asleep" => m < loop'.wake \/ m \in rewound'
      <4>. SUFFICES ASSUME NEW m \in ticked, m \notin rewound'
                    PROVE  m <= now' /\ (loop'.pc = "asleep" => m < loop'.wake)
        OBVIOUS
      <4>1. m \notin rewound /\ m # now /\ m # now - 1 /\ m \in Nat /\ m <= now
        BY <2>1 DEF SentInv
      <4>. QED  BY <2>1, <2>2, <4>1 DEF SentInv, LoopInv
    <3>. QED  BY <2>1, <2>2, <2>3, <3>1 DEF SentInv
  <2>7. MinutesServedOnce'
    <3>1. \A m \in 2..now' : m \in 2..now /\ m # now
      BY <2>1
    <3>. QED  BY <2>1, <2>2, <3>1 DEF MinutesServedOnce, OncePerMinute, SkipsOnlyWhenBusy
  <2>8. RunsAreKept'
    BY <2>1, <2>3 DEF RunsAreKept, There
  <2>. QED  BY <2>4, <2>5, <2>6, <2>7, <2>8
<1>. QED  BY <1>1, <1>2

\* A tenant creates, edits or deletes a job.
LEMMA JobsKeep ==
    ASSUME SchedulerInv, NEW k \in Jobs,
           \/ Delete(k)
           \/ \E e \in Crons, u \in Urls : \/ Create(k, e, u)
                                           \/ \E on \in BOOLEAN : Update(k, e, on, u)
    PROVE  SchedulerInv'
<1>. USE LoopFields DEF SchedulerInv
<1>1. /\ UNCHANGED <<loop, now, sent, again, rewound, overrun, ticked, lost>>
      /\ left' \in 0..MaxUpsets
      /\ \A j \in Jobs \ {k} : job'[j] = job[j]
      /\ job' \in [Jobs -> Row]
      /\ job'[k].life # "new"
      /\ \/ job[k].life = "new"
         \/ job'[k].life = "deleted"
         \/ job'[k].life = "there" /\ There(k) /\ job'[k].runs = job[k].runs
  <2>1. CASE Delete(k)
    <3>1. job' = [job EXCEPT ![k] = [Blank EXCEPT !.life = "deleted"]]
      BY <2>1 DEF Delete
    <3>2. [Blank EXCEPT !.life = "deleted"] \in Row /\ [Blank EXCEPT !.life = "deleted"].life = "deleted"
      BY BlankType DEF Row
    <3>. QED  BY <2>1, <3>1, <3>2 DEF Delete, history, SchedulerTypeOK
  <2>2. ASSUME NEW e \in Crons, NEW u \in Urls, Create(k, e, u)
        PROVE  /\ UNCHANGED <<loop, now, sent, again, rewound, overrun, ticked, lost>>
               /\ left' \in 0..MaxUpsets
               /\ \A j \in Jobs \ {k} : job'[j] = job[j]
               /\ job' \in [Jobs -> Row]
               /\ job'[k].life # "new"
               /\ \/ job[k].life = "new"
                  \/ job'[k].life = "deleted"
                  \/ job'[k].life = "there" /\ There(k) /\ job'[k].runs = job[k].runs
    <3>1. job' = [job EXCEPT ![k] = [job[k] EXCEPT !.life = "there", !.cron = e, !.url = u]]
      BY <2>2 DEF Create, SchedulerTypeOK
    <3>2. /\ [job[k] EXCEPT !.life = "there", !.cron = e, !.url = u] \in Row
          /\ [job[k] EXCEPT !.life = "there", !.cron = e, !.url = u].life = "there"
      <4>1. \A x \in Row : /\ [x EXCEPT !.life = "there", !.cron = e, !.url = u] \in Row
                           /\ [x EXCEPT !.life = "there", !.cron = e, !.url = u].life = "there"
        BY ONLY <2>2 DEF Row
      <4>2. job[k] \in Row
        BY DEF SchedulerTypeOK
      <4>. QED  BY ONLY <4>1, <4>2
    <3>. QED  BY <2>2, <3>1, <3>2, RowWritten DEF Create, history, SchedulerTypeOK
  <2>3. ASSUME NEW e \in Crons, NEW u \in Urls, NEW on \in BOOLEAN, Update(k, e, on, u)
        PROVE  /\ UNCHANGED <<loop, now, sent, again, rewound, overrun, ticked, lost>>
               /\ left' \in 0..MaxUpsets
               /\ \A j \in Jobs \ {k} : job'[j] = job[j]
               /\ job' \in [Jobs -> Row]
               /\ job'[k].life # "new"
               /\ \/ job[k].life = "new"
                  \/ job'[k].life = "deleted"
                  \/ job'[k].life = "there" /\ There(k) /\ job'[k].runs = job[k].runs
    <3>1. job' = [job EXCEPT ![k] = [job[k] EXCEPT !.cron = e, !.enabled = on, !.url = u]]
      BY <2>3 DEF Update, SchedulerTypeOK
    <3>2. /\ [job[k] EXCEPT !.cron = e, !.enabled = on, !.url = u] \in Row
          /\ [job[k] EXCEPT !.cron = e, !.enabled = on, !.url = u].life = job[k].life
          /\ [job[k] EXCEPT !.cron = e, !.enabled = on, !.url = u].runs = job[k].runs
      <4>1. \A x \in Row : /\ [x EXCEPT !.cron = e, !.enabled = on, !.url = u] \in Row
                           /\ [x EXCEPT !.cron = e, !.enabled = on, !.url = u].life = x.life
                           /\ [x EXCEPT !.cron = e, !.enabled = on, !.url = u].runs = x.runs
        BY ONLY <2>3 DEF Row
      <4>2. job[k] \in Row
        BY DEF SchedulerTypeOK
      <4>. QED  BY ONLY <4>1, <4>2
    <3>3. left - 1 \in 0..MaxUpsets
      <4>1. left \in 0..MaxUpsets /\ left > 0 /\ MaxUpsets \in Nat
        BY <2>3, SchedulerAssumption DEF Update, SchedulerTypeOK
      <4>. QED  BY <4>1
    <3>. QED  BY <2>3, <3>1, <3>2, <3>3, RowWritten DEF Update, There, history
  <2>. QED  BY <2>1, <2>2, <2>3
<1>2. Unrecorded' = Unrecorded
  BY <1>1 DEF Unrecorded
<1>3. SchedulerTypeOK'
  BY <1>1 DEF SchedulerTypeOK
<1>4. LoopInv'
  BY <1>1 DEF LoopInv
<1>5. \A s \in sent : s[1] \in Jobs /\ job[s[1]].life # "new"
  BY DEF SchedulerTypeOK, SentInv
<1>6. SentInv'
  BY <1>1, <1>2, <1>5 DEF SentInv
<1>7. MinutesServedOnce'
  BY <1>1 DEF MinutesServedOnce, OncePerMinute, SkipsOnlyWhenBusy
<1>8. ASSUME NEW s \in sent, s \notin lost, s \notin Unrecorded, job'[s[1]].life = "there"
      PROVE  \E i \in 1..Len(job'[s[1]].runs) : job'[s[1]].runs[i][1] = s[2]
  <2>1. s[1] \in Jobs /\ job[s[1]].life # "new"
    BY <1>5
  <2>2. job[s[1]].life = "there" /\ job'[s[1]].runs = job[s[1]].runs
    BY <1>1, <1>8, <2>1 DEF There
  <2>. QED  BY <1>8, <2>2 DEF RunsAreKept, There
<1>9. RunsAreKept'
  BY <1>1, <1>2, <1>8 DEF RunsAreKept, There
<1>. QED  BY <1>3, <1>4, <1>6, <1>7, <1>9

LEMMA SchedulerKeeps ==
    ASSUME SchedulerInv, [SchedulerNext]_schedulerVars
    PROVE  SchedulerInv'
<1>1. CASE UNCHANGED schedulerVars
  BY <1>1 DEF schedulerVars, rows, history, SchedulerInv, SchedulerTypeOK, LoopInv, SentInv,
              Unrecorded, MinutesServedOnce, OncePerMinute, SkipsOnlyWhenBusy, RunsAreKept, There
<1>. QED  BY <1>1, LoadKeeps, FireKeeps, CommitKeeps, RestKeeps, TimeKeeps, JobsKeep
          DEF SchedulerNext

THEOREM SchedulerInvariance == SchedulerSpec => []SchedulerInv
  BY SchedulerStarts, SchedulerKeeps, PTL DEF SchedulerSpec

THEOREM SchedulerTypes == SchedulerSpec => []SchedulerTypeOK
<1>1. SchedulerInv => SchedulerTypeOK
  BY DEF SchedulerInv
<1>. QED  BY SchedulerInvariance, <1>1, PTL

\* Every minute the loop sleeps through is served, and no job twice for one
\* (scheduler_loop), for any jobs, calendar and number of upsets.
THEOREM EveryMinuteOnce == SchedulerSpec => []MinutesServedOnce
<1>1. SchedulerInv => MinutesServedOnce
  BY DEF SchedulerInv
<1>. QED  BY SchedulerInvariance, <1>1, PTL

\* What was sent has its run (run_due_jobs), whatever tenants do meanwhile.
THEOREM RunsStay == SchedulerSpec => []RunsAreKept
<1>1. SchedulerInv => RunsAreKept
  BY DEF SchedulerInv
<1>. QED  BY SchedulerInvariance, <1>1, PTL

\* The jobs a tick picks are those crontab would fire (cron_matches), for any
\* plain expressions and any wall-clock times.
THEOREM DueAsCrontab == SchedulerSpec => DueByCrontab
<1>. DEFINE A == loop.pc = "asleep" /\ loop'.pc = "pass" =>
                    \A j \in Jobs : Plain(job[j].cron) =>
                       (j \in loop'.due <=> There(j) /\ job[j].enabled
                                            /\ Fires(job[j].cron, Calendar[now]))
<1>1. ASSUME SchedulerInv, [SchedulerNext]_schedulerVars
      PROVE  A
  <2>. SUFFICES ASSUME loop.pc = "asleep", loop'.pc = "pass", NEW j \in Jobs,
                       Plain(job[j].cron)
                PROVE  j \in loop'.due <=> There(j) /\ job[j].enabled
                                           /\ Fires(job[j].cron, Calendar[now])
    OBVIOUS
  <2>1. SchedulerTypeOK
    BY <1>1 DEF SchedulerInv
  <2>2. loop' # loop
    OBVIOUS
  <2>5. ~ CommitPass /\ ~ AbandonPass /\ ~ Sleep /\ \A k \in Jobs : ~ Fire(k)
    BY DEF CommitPass, CommitRows, AbandonPass, Sleep, SleepUntil, Fire
  <2>6. ~ MinutePasses /\ ~ UNCHANGED schedulerVars
    BY <2>2 DEF MinutePasses, schedulerVars, rows
  <2>7. ~ Slip
    BY <2>1, LoopFields DEF Slip
  <2>8. ~ Restart
    BY DEF Restart, Asleep
  <2>9. \A k \in Jobs : ~ Delete(k) /\ \A e \in Crons, u \in Urls :
           ~ Create(k, e, u) /\ \A on \in BOOLEAN : ~ Update(k, e, on, u)
    BY <2>2 DEF Delete, Create, Update
  <2>10. Load
    BY <1>1, <2>5, <2>6, <2>7, <2>8, <2>9 DEF SchedulerNext
  <2>3. j \in loop'.due <=> There(j) /\ job[j].enabled
                            /\ CronMatches(job[j].cron, Calendar[now])
    BY <2>1, <2>10, LoopFields DEF Load, LoadAt
  <2>4. IsExpression(job[j].cron) /\ Calendar[now] \in Times
    <3>1. job[j].cron \in Crons /\ now \in 1..Len(Calendar)
      BY <2>1, JobFields, LoopFields DEF Minutes
    <3>. QED  BY <3>1, SchedulerAssumption
  <2>. QED  BY <2>3, <2>4, MatchesAsCrontab
<1>2. SchedulerInv /\ [SchedulerNext]_schedulerVars => [A]_schedulerVars
  BY <1>1
<1>. QED  BY <1>2, SchedulerInvariance, PTL DEF SchedulerSpec, DueByCrontab

-----------------------------------------------------------------------------
(***************************************************************************)
(* Uptime checks.                                                          *)
(***************************************************************************)
Answers == {"up", "down"}

\* A monitor being read is to be probed, being flushed, or flushed and locked.
Phase(c) ==
    /\ checker[c].todo \subseteq Reading(c) /\ checker[c].locks \cap Monitors \subseteq Reading(c)
    /\ checker[c].todo \cap checker[c].locks = {}
    /\ checker[c].alerted \subseteq checker[c].locks
    /\ \A mo \in Reading(c) : mo \notin checker[c].todo => checker[c].got[mo] \in Answers
    /\ \A mo \in Monitors \ Reading(c) : checker[c].got[mo] = "gone"
    /\ \A mo \in Reading(c) : \/ mo \in checker[c].todo \cup checker[c].locks
                              \/ Is(c, "flush") /\ mo = checker[c].at
    /\ Is(c, "flush") => checker[c].at \in Reading(c) \ (checker[c].todo \cup checker[c].locks)
    /\ Is(c, "record") => checker[c].at \in Channels
    /\ Is(c, "idle") => Reading(c) = {}

\* A locked monitor is there; one being read has the status that was read, or
\* was deleted.
Holds(c) ==
    \A mo \in Monitors :
        /\ mo \in checker[c].locks => status[mo] # "gone"
        /\ mo \in Reading(c) \ muddled => status[mo] \in {checker[c].read[mo], "gone"}

OneReader ==
    \A c, d \in Checkers : c # d => Reading(c) \cap Reading(d) \subseteq muddled

\* What the tenant was told last is what the status says.
Agrees(s, last) == (s = "down" => last = "down") /\ (s \in {"unknown", "up"} => last # "down")

\* What a check found is what was told, once it is flushed; until one alerts,
\* what was told is what is recorded.
Agreed(mo) ==
    /\ \A c \in Checkers : mo \in checker[c].locks => Agrees(checker[c].got[mo], told[mo])
    /\ (\A c \in Checkers : mo \notin checker[c].alerted) => Agrees(status[mo], told[mo])

UptimeInv ==
    /\ TypeOK /\ AlertsTakeTurns
    /\ \A c \in Checkers : Phase(c) /\ Holds(c)
    /\ OneReader
    /\ \A mo \in Monitors \ muddled : Agreed(mo)

-----------------------------------------------------------------------------
(***************************************************************************)
(* The shape of the state.  A step changes one checker, one field at a     *)
(* time; each lemma says what becomes of a checker's fields.               *)
(***************************************************************************)
LEMMA CheckFields ==
    ASSUME NEW f \in [Checkers -> Check], NEW c \in Checkers
    PROVE  /\ f[c] \in Check
           /\ f[c].pc \in {"idle", "probe", "flush", "deliver", "record"}
           /\ f[c].todo \subseteq Monitors
           /\ f[c].read \in [Monitors -> Known \cup {"gone"}]
           /\ f[c].got \in [Monitors -> Known \cup {"gone"}]
           /\ f[c].at \in Monitors \cup Channels \cup {None}
           /\ f[c].to \subseteq Channels
           /\ f[c].alerted \subseteq Monitors
           /\ f[c].locks \subseteq Monitors \cup Channels
<1>1. f[c] \in Check
  OBVIOUS
<1> QED
  BY <1>1 DEF Check

-----------------------------------------------------------------------------
(***************************************************************************)
(* The steps, by what they do to the monitors.                             *)
(***************************************************************************)
Others(c) == \A d \in Checkers \ {c} : checker'[d] = checker[d]

\* A step that only concerns channels.
Quiet(c) ==
    /\ checker' \in [Checkers -> Check] /\ Others(c)
    /\ checker'[c].todo = checker[c].todo /\ checker'[c].read = checker[c].read
    /\ checker'[c].got = checker[c].got /\ checker'[c].alerted = checker[c].alerted
    /\ checker'[c].locks \cap Monitors = checker[c].locks \cap Monitors
    /\ checker[c].pc # "flush" /\ checker'[c].pc \notin {"idle", "flush"}
    /\ checker'[c].pc = "record" => checker'[c].at \in Channels
    /\ UNCHANGED <<status, channel, told, repeated, muddled>>

\* The sets the fields of a check range over, by name.
PCs == {"idle", "probe", "flush", "deliver", "record"}
Views == [Monitors -> Known \cup {"gone"}]
Rows == Monitors \cup Channels \cup {None}

LEMMA CheckShape ==
    Check = [pc : PCs, todo : SUBSET Monitors, read : Views, got : Views, at : Rows,
             to : SUBSET Channels, alerted : SUBSET Monitors,
             locks : SUBSET (Monitors \cup Channels)]
BY DEF Check, PCs, Views, Rows

LEMMA IdleFields ==
    /\ Idle \in Check
    /\ Idle.pc = "idle" /\ Idle.todo = {} /\ Idle.read = Gone /\ Idle.got = Gone
    /\ Idle.alerted = {} /\ Idle.locks = {}
<1>1. Gone \in [Monitors -> Known \cup {"gone"}]
  BY DEF Gone
<1> HIDE DEF Gone
<1> QED
  BY <1>1 DEF Idle, Check

LEMMA DeliverQuiet ==
    ASSUME TypeOK, NEW c \in Checkers, NEW ch \in Channels, Deliver(c, ch)
    PROVE  Quiet(c)
<1> DEFINE f1 == [checker EXCEPT ![c].pc = "record"]
           f2 == [f1 EXCEPT ![c].at = ch]
           v == f2[c].to \ {ch}
           f3 == [f2 EXCEPT ![c].to = v]
<1>1. checker \in [Checkers -> Check] /\ checker[c].pc = "deliver"
  BY DEF TypeOK, Deliver, Is
<1>2. checker' = f3 /\ UNCHANGED <<status, channel, told, repeated, muddled>>
  BY DEF Deliver
<1>3. /\ f1 \in [Checkers -> Check] /\ f1[c].pc = "record"
      /\ f1[c].todo = checker[c].todo /\ f1[c].read = checker[c].read
      /\ f1[c].got = checker[c].got /\ f1[c].alerted = checker[c].alerted
      /\ f1[c].locks = checker[c].locks
      /\ \A d \in Checkers \ {c} : f1[d] = checker[d]
  BY <1>1, CheckShape DEF PCs, Rows
<1> HIDE DEF f1
<1>4. /\ f2 \in [Checkers -> Check] /\ f2[c].pc = "record" /\ f2[c].at = ch
      /\ f2[c].todo = f1[c].todo /\ f2[c].read = f1[c].read
      /\ f2[c].got = f1[c].got /\ f2[c].alerted = f1[c].alerted
      /\ f2[c].locks = f1[c].locks
      /\ \A d \in Checkers \ {c} : f2[d] = f1[d]
  BY <1>3, CheckShape DEF PCs, Rows
<1> HIDE DEF f2
<1>5. v \in SUBSET Channels
  BY <1>4, CheckFields
<1> HIDE DEF v
<1>6. /\ f3 \in [Checkers -> Check] /\ f3[c].pc = "record" /\ f3[c].at = ch
      /\ f3[c].todo = f2[c].todo /\ f3[c].read = f2[c].read
      /\ f3[c].got = f2[c].got /\ f3[c].alerted = f2[c].alerted
      /\ f3[c].locks = f2[c].locks
      /\ \A d \in Checkers \ {c} : f3[d] = f2[d]
  BY <1>4, <1>5, CheckShape DEF PCs, Rows
<1> HIDE DEF f3
<1> QED
  BY <1>1, <1>2, <1>3, <1>4, <1>6 DEF Quiet, Others

LEMMA RecordQuiet ==
    ASSUME TypeOK, NEW c \in Checkers, Phase(c), Record(c)
    PROVE  Quiet(c)
<1> DEFINE f1 == [checker EXCEPT ![c].pc = "deliver"]
           f2 == [f1 EXCEPT ![c].at = None]
           v == f2[c].locks \cup {checker[c].at}
           f3 == [f2 EXCEPT ![c].locks = v]
<1>1. /\ checker \in [Checkers -> Check] /\ checker[c].pc = "record"
      /\ checker[c].at \in Channels /\ checker[c].at \notin Monitors
  BY UptimeAssumption DEF TypeOK, Record, Is, Phase
<1>2. checker' = f3 /\ UNCHANGED <<status, channel, told, repeated, muddled>>
  BY DEF Record
<1>3. /\ f1 \in [Checkers -> Check] /\ f1[c].pc = "deliver"
      /\ f1[c].todo = checker[c].todo /\ f1[c].read = checker[c].read
      /\ f1[c].got = checker[c].got /\ f1[c].alerted = checker[c].alerted
      /\ f1[c].locks = checker[c].locks
      /\ \A d \in Checkers \ {c} : f1[d] = checker[d]
  BY <1>1, CheckShape DEF PCs, Rows
<1> HIDE DEF f1
<1>4. /\ f2 \in [Checkers -> Check] /\ f2[c].pc = "deliver"
      /\ f2[c].todo = f1[c].todo /\ f2[c].read = f1[c].read
      /\ f2[c].got = f1[c].got /\ f2[c].alerted = f1[c].alerted
      /\ f2[c].locks = f1[c].locks
      /\ \A d \in Checkers \ {c} : f2[d] = f1[d]
  BY <1>3, CheckShape DEF PCs, Rows
<1> HIDE DEF f2
<1>5. v \in SUBSET (Monitors \cup Channels)
  BY <1>1, <1>4, CheckFields
<1>7. v \cap Monitors = checker[c].locks \cap Monitors
  BY <1>1, <1>3, <1>4
<1> HIDE DEF v
<1>6. /\ f3 \in [Checkers -> Check] /\ f3[c].pc = "deliver"
      /\ f3[c].todo = f2[c].todo /\ f3[c].read = f2[c].read
      /\ f3[c].got = f2[c].got /\ f3[c].alerted = f2[c].alerted
      /\ f3[c].locks = v
      /\ \A d \in Checkers \ {c} : f3[d] = f2[d]
  BY <1>4, <1>5, CheckShape DEF PCs, Rows
<1> HIDE DEF f3
<1> QED
  BY <1>1, <1>2, <1>3, <1>4, <1>6, <1>7 DEF Quiet, Others

LEMMA DeliveredQuiet ==
    ASSUME TypeOK, NEW c \in Checkers, Delivered(c)
    PROVE  Quiet(c)
<1>1. checker \in [Checkers -> Check] /\ checker[c].pc = "deliver"
  BY DEF TypeOK, Delivered, Is
<1> DEFINE f1 == [checker EXCEPT ![c].pc = "probe"]
<1>2. checker' = f1 /\ UNCHANGED <<status, channel, told, repeated, muddled>>
  BY DEF Delivered
<1>3. /\ f1 \in [Checkers -> Check] /\ f1[c].pc = "probe"
      /\ f1[c].todo = checker[c].todo /\ f1[c].read = checker[c].read
      /\ f1[c].got = checker[c].got /\ f1[c].alerted = checker[c].alerted
      /\ f1[c].locks = checker[c].locks
      /\ \A d \in Checkers \ {c} : f1[d] = checker[d]
  BY <1>1, CheckShape DEF PCs, Rows
<1> HIDE DEF f1
<1> QED
  BY <1>1, <1>2, <1>3 DEF Quiet, Others

\* An idle checker has read nothing.
LEMMA IdleKnowsNothing ==
    ASSUME TypeOK, NEW c \in Checkers, Phase(c), Is(c, "idle")
    PROVE  /\ checker[c].todo = {} /\ checker[c].read = Gone /\ checker[c].got = Gone
           /\ checker[c].alerted = {} /\ checker[c].locks \cap Monitors = {}
<1> USE DEF TypeOK
<1>1. Reading(c) = {}
  BY DEF Phase
<1>2. checker[c].read \in [Monitors -> Known \cup {"gone"}] /\ checker[c].alerted \subseteq Monitors
      /\ checker[c].got \in [Monitors -> Known \cup {"gone"}]
  BY CheckFields
<1>3. \A mo \in Monitors : checker[c].read[mo] = "gone" /\ checker[c].got[mo] = "gone"
  BY <1>1 DEF Phase, Reading
<1>4. checker[c].read = Gone /\ checker[c].got = Gone
  BY <1>2, <1>3 DEF Gone
<1>5. checker[c].todo = {} /\ checker[c].locks \cap Monitors = {} /\ checker[c].alerted = {}
  BY <1>1, <1>2 DEF Phase
<1> QED
  BY <1>4, <1>5

LEMMA TestQuiet ==
    ASSUME TypeOK, NEW c \in Checkers, NEW ch \in Channels, Phase(c), StartTest(c, ch)
    PROVE  Quiet(c)
<1> DEFINE i1 == [Idle EXCEPT !.pc = "deliver"]
           i2 == [i1 EXCEPT !.to = {ch}]
<1>1. checker \in [Checkers -> Check] /\ Is(c, "idle") /\ checker[c].pc = "idle"
  BY DEF TypeOK, StartTest, Is
<1>2. checker' = [checker EXCEPT ![c] = i2] /\ UNCHANGED <<status, channel, told, repeated, muddled>>
  BY DEF StartTest
<1>3. /\ i1 \in Check /\ i1.pc = "deliver" /\ i1.todo = {} /\ i1.read = Gone /\ i1.got = Gone
      /\ i1.alerted = {} /\ i1.locks = {}
  BY IdleFields, CheckShape DEF PCs, Rows
<1> HIDE DEF i1
<1>4. /\ i2 \in Check /\ i2.pc = "deliver" /\ i2.todo = {} /\ i2.read = Gone /\ i2.got = Gone
      /\ i2.alerted = {} /\ i2.locks = {}
  BY <1>3, CheckShape DEF PCs, Rows
<1> HIDE DEF i2
<1>5. /\ checker' \in [Checkers -> Check] /\ checker'[c] = i2
      /\ \A d \in Checkers \ {c} : checker'[d] = checker[d]
  BY <1>1, <1>2, <1>4
<1> QED
  BY <1>1, <1>2, <1>4, <1>5, IdleKnowsNothing DEF Quiet, Others

\* What a probe and a flush do to the fields of their checker.
LEMMA ProbeFields ==
    ASSUME TypeOK, NEW c \in Checkers, NEW mo \in Monitors, Probe(c, mo)
    PROVE  /\ checker' \in [Checkers -> Check] /\ Others(c)
           /\ checker[c].pc = "probe" /\ mo \in checker[c].todo
           /\ checker'[c].pc = "flush" /\ checker'[c].at = mo
           /\ checker'[c].todo = checker[c].todo \ {mo} /\ checker'[c].read = checker[c].read
           /\ \E s \in Answers : checker'[c].got = [checker[c].got EXCEPT ![mo] = s]
           /\ checker'[c].alerted = checker[c].alerted
           /\ checker'[c].locks = checker[c].locks
           /\ UNCHANGED <<status, channel, told, repeated, muddled>>
<1>1. PICK s \in {"up", "down"} :
         checker' = [checker EXCEPT ![c].pc = "flush", ![c].at = mo,
                                    ![c].todo = @ \ {mo}, ![c].got[mo] = s]
  BY DEF Probe
<1> DEFINE f1 == [checker EXCEPT ![c].pc = "flush"]
           f2 == [f1 EXCEPT ![c].at = mo]
           v == f2[c].todo \ {mo}
           f3 == [f2 EXCEPT ![c].todo = v]
           w == [f3[c].got EXCEPT ![mo] = s]
           f4 == [f3 EXCEPT ![c].got = w]
<1>2. checker \in [Checkers -> Check] /\ checker[c].pc = "probe" /\ mo \in checker[c].todo
  BY DEF TypeOK, Probe, Is
<1>3. checker' = f4
  BY <1>1
<1>4. /\ f1 \in [Checkers -> Check] /\ f1[c].pc = "flush"
      /\ f1[c].todo = checker[c].todo /\ f1[c].read = checker[c].read
      /\ f1[c].got = checker[c].got /\ f1[c].alerted = checker[c].alerted
      /\ f1[c].locks = checker[c].locks
      /\ \A d \in Checkers \ {c} : f1[d] = checker[d]
  BY <1>2, CheckShape DEF PCs, Rows
<1> HIDE DEF f1
<1>5. /\ f2 \in [Checkers -> Check] /\ f2[c].pc = "flush" /\ f2[c].at = mo
      /\ f2[c].todo = f1[c].todo /\ f2[c].read = f1[c].read
      /\ f2[c].got = f1[c].got /\ f2[c].alerted = f1[c].alerted
      /\ f2[c].locks = f1[c].locks
      /\ \A d \in Checkers \ {c} : f2[d] = f1[d]
  BY <1>4, CheckShape DEF PCs, Rows
<1> HIDE DEF f2
<1>6. v \in SUBSET Monitors /\ v = checker[c].todo \ {mo}
  BY <1>4, <1>5, CheckFields
<1> HIDE DEF v
<1>7. /\ f3 \in [Checkers -> Check] /\ f3[c].pc = "flush" /\ f3[c].at = mo
      /\ f3[c].todo = v /\ f3[c].read = f2[c].read
      /\ f3[c].got = f2[c].got /\ f3[c].alerted = f2[c].alerted
      /\ f3[c].locks = f2[c].locks
      /\ \A d \in Checkers \ {c} : f3[d] = f2[d]
  BY <1>5, <1>6, CheckShape DEF PCs, Rows
<1> HIDE DEF f3
<1>8. w \in [Monitors -> Known \cup {"gone"}] /\ w = [checker[c].got EXCEPT ![mo] = s]
  BY <1>4, <1>5, <1>7, CheckFields DEF Known
<1> HIDE DEF w
<1>9. /\ f4 \in [Checkers -> Check] /\ f4[c].pc = "flush" /\ f4[c].at = mo
      /\ f4[c].todo = f3[c].todo /\ f4[c].read = f3[c].read
      /\ f4[c].got = w /\ f4[c].alerted = f3[c].alerted
      /\ f4[c].locks = f3[c].locks
      /\ \A d \in Checkers \ {c} : f4[d] = f3[d]
  <2> DEFINE k == [f3[c] EXCEPT !.got = w]
  <2>1. f3[c] \in Check
    BY <1>7
  <2>2. /\ k \in Check
        /\ k.pc = f3[c].pc /\ k.at = f3[c].at /\ k.todo = f3[c].todo /\ k.read = f3[c].read
        /\ k.got = w /\ k.alerted = f3[c].alerted /\ k.locks = f3[c].locks
    BY <2>1, <1>8, CheckShape DEF Views
  <2>3. f4 = [f3 EXCEPT ![c] = k]
    OBVIOUS
  <2> HIDE DEF k, f4
  <2> QED
    BY <1>7, <2>2, <2>3
<1> HIDE DEF f4
<1>10. UNCHANGED <<status, channel, told, repeated, muddled>>
  BY DEF Probe
<1>11. \E x \in Answers : f4[c].got = [checker[c].got EXCEPT ![mo] = x]
  BY <1>8, <1>9 DEF Answers
<1> QED
  BY <1>2, <1>3, <1>4, <1>5, <1>6, <1>7, <1>9, <1>10, <1>11 DEF Others

LEMMA FlushFields ==
    ASSUME TypeOK, NEW c \in Checkers, Phase(c), Flush(c)
    PROVE  LET mo == checker[c].at
               seen == checker[c].got[mo]
               alert == ShouldAlert(checker[c].read[mo], seen)
           IN  /\ checker' \in [Checkers -> Check] /\ Others(c)
               /\ checker[c].pc = "flush" /\ mo \in Monitors
               /\ checker'[c].pc \in {"deliver", "probe"}
               /\ checker'[c].todo = checker[c].todo /\ checker'[c].read = checker[c].read
               /\ checker'[c].got = checker[c].got
               /\ checker'[c].locks = checker[c].locks \cup {mo}
               /\ alert => /\ checker'[c].alerted = checker[c].alerted \cup {mo}
                           /\ told' = [told EXCEPT ![mo] = seen]
               /\ ~alert => checker'[c].alerted = checker[c].alerted /\ told' = told
               /\ repeated' = IF alert /\ told[mo] = seen THEN repeated \cup {mo} ELSE repeated
               /\ Free(mo, c) /\ status[mo] # "gone"
               /\ UNCHANGED <<status, channel, muddled>>
<1> DEFINE mo == checker[c].at
           seen == checker[c].got[mo]
           to == {ch \in channel : Owner[ch] = Owner[mo]}
           alert == ShouldAlert(checker[c].read[mo], seen)
           v1 == checker[c].locks \cup {mo}
           f1 == [checker EXCEPT ![c].locks = v1]
           f2 == [f1 EXCEPT ![c].at = None]
           v3 == IF alert THEN "deliver" ELSE "probe"
           f3 == [f2 EXCEPT ![c].pc = v3]
           v4 == IF alert THEN to ELSE {}
           f4 == [f3 EXCEPT ![c].to = v4]
           v5 == IF alert THEN f4[c].alerted \cup {mo} ELSE f4[c].alerted
           f5 == [f4 EXCEPT ![c].alerted = v5]
<1>1. checker' = f5
  BY ZenonT(60) DEF Flush
<1>2. /\ checker \in [Checkers -> Check] /\ checker[c].pc = "flush" /\ mo \in Monitors
      /\ channel \subseteq Channels
  BY DEF TypeOK, Flush, Is, Phase, Reading
<1>3. /\ told' = IF alert THEN [told EXCEPT ![mo] = seen] ELSE told
      /\ repeated' = IF alert /\ told[mo] = seen THEN repeated \cup {mo} ELSE repeated
      /\ Free(mo, c) /\ Exists(mo)
      /\ UNCHANGED <<status, channel, muddled>>
  BY DEF Flush
<1>4. status[mo] # "gone"
  BY <1>2, <1>3 DEF Exists
<1>5. v1 \in SUBSET (Monitors \cup Channels) /\ v3 \in {"deliver", "probe"} /\ v4 \in SUBSET Channels
  BY <1>2, CheckFields
<1> HIDE DEF v1, v3, v4
<1>6. /\ f1 \in [Checkers -> Check]
      /\ f1[c].todo = checker[c].todo /\ f1[c].read = checker[c].read
      /\ f1[c].got = checker[c].got /\ f1[c].alerted = checker[c].alerted
      /\ f1[c].locks = v1
      /\ \A d \in Checkers \ {c} : f1[d] = checker[d]
  BY <1>2, <1>5, CheckShape DEF PCs, Rows
<1> HIDE DEF f1
<1>7. /\ f2 \in [Checkers -> Check]
      /\ f2[c].todo = f1[c].todo /\ f2[c].read = f1[c].read
      /\ f2[c].got = f1[c].got /\ f2[c].alerted = f1[c].alerted
      /\ f2[c].locks = f1[c].locks
      /\ \A d \in Checkers \ {c} : f2[d] = f1[d]
  BY <1>6, CheckShape DEF PCs, Rows
<1> HIDE DEF f2
<1>8. /\ f3 \in [Checkers -> Check] /\ f3[c].pc = v3
      /\ f3[c].todo = f2[c].todo /\ f3[c].read = f2[c].read
      /\ f3[c].got = f2[c].got /\ f3[c].alerted = f2[c].alerted
      /\ f3[c].locks = f2[c].locks
      /\ \A d \in Checkers \ {c} : f3[d] = f2[d]
  BY <1>5, <1>7, CheckShape DEF PCs, Rows
<1> HIDE DEF f3
<1>9. /\ f4 \in [Checkers -> Check] /\ f4[c].pc = v3
      /\ f4[c].todo = f3[c].todo /\ f4[c].read = f3[c].read
      /\ f4[c].got = f3[c].got /\ f4[c].alerted = f3[c].alerted
      /\ f4[c].locks = f3[c].locks
      /\ \A d \in Checkers \ {c} : f4[d] = f3[d]
  BY <1>5, <1>8, CheckShape DEF PCs, Rows
<1> HIDE DEF f4
<1>10. v5 \in SUBSET Monitors
  BY <1>2, <1>9, CheckFields
<1>11. v5 = IF alert THEN checker[c].alerted \cup {mo} ELSE checker[c].alerted
  BY <1>6, <1>7, <1>8, <1>9
<1> HIDE DEF v5
<1>12. /\ f5 \in [Checkers -> Check] /\ f5[c].pc = v3
       /\ f5[c].todo = f4[c].todo /\ f5[c].read = f4[c].read
       /\ f5[c].got = f4[c].got /\ f5[c].alerted = v5
       /\ f5[c].locks = f4[c].locks
       /\ \A d \in Checkers \ {c} : f5[d] = f4[d]
  BY <1>9, <1>10, CheckShape DEF PCs, Rows
<1> HIDE DEF f5
<1>13. Others(c)
  BY <1>1, <1>6, <1>7, <1>8, <1>9, <1>12 DEF Others
<1>14. /\ checker' \in [Checkers -> Check] /\ checker'[c].pc \in {"deliver", "probe"}
       /\ checker'[c].todo = checker[c].todo /\ checker'[c].read = checker[c].read
       /\ checker'[c].got = checker[c].got
       /\ checker'[c].locks = checker[c].locks \cup {mo}
       /\ checker'[c].alerted = v5
  BY <1>1, <1>5, <1>6, <1>7, <1>8, <1>9, <1>12 DEF v1
<1> QED
  BY <1>2, <1>3, <1>4, <1>11, <1>13, <1>14

\* A transaction that ends, by a commit or not, leaves its checker idle.
LEMMA EndFields ==
    ASSUME TypeOK, NEW c \in Checkers, checker' = [checker EXCEPT ![c] = Idle]
    PROVE  /\ checker' \in [Checkers -> Check] /\ Others(c) /\ checker'[c] = Idle
BY IdleFields DEF TypeOK, Others

LEMMA StartFields ==
    ASSUME TypeOK, NEW c \in Checkers, NEW ms \in SUBSET Monitors, Starts(c, ms)
    PROVE  /\ checker' \in [Checkers -> Check] /\ Others(c)
           /\ checker'[c].pc = "probe" /\ checker'[c].todo = ms
           /\ checker'[c].read = [mo \in Monitors |-> IF mo \in ms THEN status[mo] ELSE "gone"]
           /\ checker'[c].got = Gone /\ checker'[c].alerted = {} /\ checker'[c].locks = {}
           /\ Is(c, "idle")
           /\ muddled' = muddled \cup UNION {ms \cap Reading(d) : d \in Checkers}
           /\ UNCHANGED <<status, channel, told, repeated>>
<1> DEFINE r == [mo \in Monitors |-> IF mo \in ms THEN status[mo] ELSE "gone"]
           i1 == [Idle EXCEPT !.pc = "probe"]
           i2 == [i1 EXCEPT !.todo = ms]
           i3 == [i2 EXCEPT !.read = r]
<1>1. r \in [Monitors -> Known \cup {"gone"}]
  BY DEF TypeOK
<1>2. checker' = [checker EXCEPT ![c] = i3] /\ Is(c, "idle")
  BY DEF Starts
<1> HIDE DEF r
<1>3. /\ i1 \in Check /\ i1.pc = "probe" /\ i1.todo = {} /\ i1.got = Gone
      /\ i1.alerted = {} /\ i1.locks = {}
  BY IdleFields, CheckShape DEF PCs, Rows
<1> HIDE DEF i1
<1>4. /\ i2 \in Check /\ i2.pc = "probe" /\ i2.todo = ms /\ i2.got = Gone
      /\ i2.alerted = {} /\ i2.locks = {}
  BY <1>3, CheckShape DEF PCs, Rows
<1> HIDE DEF i2
<1>5. /\ i3 \in Check /\ i3.pc = "probe" /\ i3.todo = ms /\ i3.got = Gone /\ i3.read = r
      /\ i3.alerted = {} /\ i3.locks = {}
  BY <1>1, <1>4, CheckShape DEF Views
<1> HIDE DEF i3
<1>6. checker' \in [Checkers -> Check] /\ Others(c) /\ checker'[c] = i3
  BY <1>2, <1>5 DEF TypeOK, Others
<1>7. /\ muddled' = muddled \cup UNION {ms \cap Reading(d) : d \in Checkers}
      /\ UNCHANGED <<status, channel, told, repeated>>
  BY DEF Starts
<1> QED
  BY <1>2, <1>5, <1>6, <1>7 DEF r

-----------------------------------------------------------------------------
(***************************************************************************)
(* Every step keeps UptimeInv.                                             *)
(***************************************************************************)
LEMMA InvType ==
    ASSUME UptimeInv
    PROVE  /\ status \in [Monitors -> Known \cup {"gone"}] /\ checker \in [Checkers -> Check]
           /\ told \in [Monitors -> {"nothing", "up", "down"}]
           /\ channel \subseteq Channels /\ repeated \subseteq muddled
           /\ repeated \subseteq Monitors /\ muddled \subseteq Monitors
           /\ checks \in 0..MaxChecks
           /\ \A c \in Checkers :
                 /\ Reading(c) \subseteq Monitors
                 /\ checker[c].alerted \subseteq Reading(c) \cap checker[c].locks
<1>1. TypeOK /\ AlertsTakeTurns /\ \A c \in Checkers : Phase(c)
  BY DEF UptimeInv
<1>2. /\ status \in [Monitors -> Known \cup {"gone"}] /\ checker \in [Checkers -> Check]
      /\ told \in [Monitors -> {"nothing", "up", "down"}]
      /\ channel \subseteq Channels /\ repeated \subseteq muddled
      /\ repeated \subseteq Monitors /\ muddled \subseteq Monitors
      /\ checks \in 0..MaxChecks
  BY <1>1 DEF TypeOK, AlertsTakeTurns
<1>3. ASSUME NEW c \in Checkers
      PROVE  /\ Reading(c) \subseteq Monitors
             /\ checker[c].alerted \subseteq Reading(c) \cap checker[c].locks
  <2>1. checker[c].alerted \subseteq Monitors
    BY <1>2, CheckFields
  <2> QED
    BY <1>1, <2>1 DEF Phase, Reading
<1> QED
  BY <1>2, <1>3

\* A checker that takes no step keeps what is known of it, while the rows it
\* reads or has locked stay as they are.
LEMMA OtherPhase ==
    ASSUME NEW d \in Checkers, checker'[d] = checker[d], Phase(d)
    PROVE  Phase(d)' /\ Reading(d)' = Reading(d)
BY DEF Phase, Reading, Is

LEMMA OtherHolds ==
    ASSUME NEW d \in Checkers, checker'[d] = checker[d], Holds(d),
           muddled \subseteq muddled',
           \A mo \in Monitors :
              \/ status'[mo] = status[mo]
              \/ status'[mo] = "gone" /\ mo \notin checker[d].locks
              \/ status'[mo] # "gone" /\ mo \notin Reading(d)
    PROVE  Holds(d)'
<1>1. Reading(d)' = Reading(d)
  BY DEF Reading
<1> SUFFICES ASSUME NEW mo \in Monitors
             PROVE  /\ mo \in checker[d].locks => status'[mo] # "gone"
                    /\ mo \in Reading(d) \ muddled' => status'[mo] \in {checker[d].read[mo], "gone"}
  BY <1>1 DEF Holds
<1> QED
  BY DEF Holds

LEMMA QuietKeepsInv ==
    ASSUME UptimeInv, NEW c \in Checkers, Quiet(c), checks' \in 0..MaxChecks
    PROVE  UptimeInv'
<1>1. /\ checker' \in [Checkers -> Check] /\ \A d \in Checkers \ {c} : checker'[d] = checker[d]
      /\ checker'[c].todo = checker[c].todo /\ checker'[c].read = checker[c].read
      /\ checker'[c].got = checker[c].got /\ checker'[c].alerted = checker[c].alerted
      /\ checker'[c].locks \cap Monitors = checker[c].locks \cap Monitors
      /\ checker[c].pc # "flush" /\ checker'[c].pc \notin {"idle", "flush"}
      /\ checker'[c].pc = "record" => checker'[c].at \in Channels
      /\ status' = status /\ channel' = channel /\ told' = told
      /\ repeated' = repeated /\ muddled' = muddled
  BY DEF Quiet, Others
<1>2. Reading(c)' = Reading(c)
  BY <1>1 DEF Reading
<1>3. TypeOK' /\ AlertsTakeTurns'
  BY <1>1 DEF UptimeInv, TypeOK, AlertsTakeTurns
<1>4. /\ checker[c].todo \subseteq Monitors /\ checker[c].alerted \subseteq Monitors
      /\ Reading(c) \subseteq Monitors
  BY CheckFields DEF UptimeInv, TypeOK, Reading
<1>5. Phase(c)'
  <2>1. Phase(c)
    BY DEF UptimeInv
  <2>2. /\ checker'[c].todo \subseteq Reading(c) /\ checker'[c].locks \cap Monitors \subseteq Reading(c)
        /\ checker'[c].todo \cap checker'[c].locks = {}
        /\ checker'[c].alerted \subseteq checker'[c].locks
    BY <1>1, <1>4, <2>1 DEF Phase
  <2>3. /\ \A mo \in Reading(c) : mo \notin checker'[c].todo => checker'[c].got[mo] \in Answers
        /\ \A mo \in Monitors \ Reading(c) : checker'[c].got[mo] = "gone"
    BY <1>1, <2>1 DEF Phase
  <2>4. \A mo \in Reading(c) : mo \in checker'[c].todo \cup checker'[c].locks
    BY <1>1, <1>4, <2>1 DEF Phase, Is
  <2> QED
    BY <1>1, <1>2, <2>2, <2>3, <2>4 DEF Phase, Is
<1>6. Holds(c)'
  BY <1>1, <1>2 DEF UptimeInv, Holds
<1>7. \A d \in Checkers : Phase(d)' /\ Holds(d)' /\ Reading(d)' = Reading(d)
  BY <1>1, <1>2, <1>5, <1>6, OtherPhase, OtherHolds DEF UptimeInv
<1>8. OneReader'
  BY <1>1, <1>7 DEF UptimeInv, OneReader
<1>9. ASSUME NEW mo \in Monitors \ muddled'
      PROVE  Agreed(mo)'
  <2>1. /\ Agreed(mo)
        /\ \A d \in Checkers : /\ checker'[d].got = checker[d].got
                               /\ mo \in checker'[d].locks <=> mo \in checker[d].locks
                               /\ mo \in checker'[d].alerted <=> mo \in checker[d].alerted
    BY <1>1 DEF UptimeInv
  <2> QED
    BY <1>1, <2>1 DEF Agreed
<1> QED
  BY <1>3, <1>7, <1>8, <1>9 DEF UptimeInv

LEMMA ProbeKeepsInv ==
    ASSUME UptimeInv, NEW c \in Checkers, NEW mo \in Monitors, Probe(c, mo)
    PROVE  UptimeInv'
<1>0. TypeOK
  BY DEF UptimeInv
<1>1. /\ checker' \in [Checkers -> Check] /\ \A d \in Checkers \ {c} : checker'[d] = checker[d]
      /\ checker[c].pc = "probe" /\ mo \in checker[c].todo
      /\ checker'[c].pc = "flush" /\ checker'[c].at = mo
      /\ checker'[c].todo = checker[c].todo \ {mo} /\ checker'[c].read = checker[c].read
      /\ \E s \in Answers : checker'[c].got = [checker[c].got EXCEPT ![mo] = s]
      /\ checker'[c].alerted = checker[c].alerted
      /\ checker'[c].locks = checker[c].locks
      /\ status' = status /\ channel' = channel /\ told' = told
      /\ repeated' = repeated /\ muddled' = muddled
  BY <1>0, ProbeFields DEF Others
<1>2. Reading(c)' = Reading(c) /\ Reading(c) \subseteq Monitors
  BY <1>1 DEF Reading
<1>3. TypeOK' /\ AlertsTakeTurns'
  <2>1. checks' = checks
    BY DEF Probe
  <2> QED
    BY <1>1, <2>1 DEF UptimeInv, TypeOK, AlertsTakeTurns
<1>4. /\ Phase(c) /\ mo \in Reading(c) /\ mo \notin checker[c].locks
      /\ checker[c].got \in [Monitors -> Known \cup {"gone"}]
  BY <1>0, <1>1, CheckFields DEF UptimeInv, TypeOK, Phase
<1>5. /\ checker'[c].got[mo] \in Answers
      /\ \A m \in Monitors \ {mo} : checker'[c].got[m] = checker[c].got[m]
  BY <1>1, <1>4
<1>6. Phase(c)'
  <2>1. /\ checker'[c].todo \subseteq Reading(c) /\ checker'[c].locks \cap Monitors \subseteq Reading(c)
        /\ checker'[c].todo \cap checker'[c].locks = {}
        /\ checker'[c].alerted \subseteq checker'[c].locks
        /\ checker'[c].at \in Reading(c) \ (checker'[c].todo \cup checker'[c].locks)
    BY <1>1, <1>4 DEF Phase
  <2>2. /\ \A m \in Reading(c) : m \notin checker'[c].todo => checker'[c].got[m] \in Answers
        /\ \A m \in Monitors \ Reading(c) : checker'[c].got[m] = "gone"
    BY <1>1, <1>2, <1>4, <1>5 DEF Phase
  <2>3. \A m \in Reading(c) : m \in checker'[c].todo \cup checker'[c].locks \/ m = checker'[c].at
    BY <1>1, <1>4 DEF Phase, Is
  <2> QED
    BY <1>1, <1>2, <2>1, <2>2, <2>3 DEF Phase, Is
<1>7. Holds(c)'
  BY <1>1, <1>2 DEF UptimeInv, Holds
<1>8. \A d \in Checkers : Phase(d)' /\ Holds(d)' /\ Reading(d)' = Reading(d)
  BY <1>1, <1>2, <1>6, <1>7, OtherPhase, OtherHolds DEF UptimeInv
<1>9. OneReader'
  BY <1>1, <1>8 DEF UptimeInv, OneReader
<1>10. ASSUME NEW m \in Monitors \ muddled'
       PROVE  Agreed(m)'
  <2>1. /\ Agreed(m)
        /\ \A d \in Checkers : /\ m \in checker'[d].locks => checker'[d].got[m] = checker[d].got[m]
                               /\ m \in checker'[d].locks <=> m \in checker[d].locks
                               /\ m \in checker'[d].alerted <=> m \in checker[d].alerted
    BY <1>1, <1>4, <1>5 DEF UptimeInv
  <2> QED
    BY <1>1, <2>1 DEF Agreed
<1> QED
  BY <1>3, <1>8, <1>9, <1>10 DEF UptimeInv

LEMMA FlushKeepsInv ==
    ASSUME UptimeInv, NEW c \in Checkers, Flush(c)
    PROVE  UptimeInv'
<1> DEFINE mo == checker[c].at
           seen == checker[c].got[mo]
           was == checker[c].read[mo]
           alert == ShouldAlert(was, seen)
<1>0. TypeOK /\ Phase(c)
  BY DEF UptimeInv
<1>1. /\ checker' \in [Checkers -> Check] /\ \A d \in Checkers \ {c} : checker'[d] = checker[d]
      /\ checker[c].pc = "flush" /\ mo \in Monitors
      /\ checker'[c].pc \in {"deliver", "probe"}
      /\ checker'[c].todo = checker[c].todo /\ checker'[c].read = checker[c].read
      /\ checker'[c].got = checker[c].got
      /\ checker'[c].locks = checker[c].locks \cup {mo}
      /\ alert => /\ checker'[c].alerted = checker[c].alerted \cup {mo}
                  /\ told' = [told EXCEPT ![mo] = seen]
      /\ ~alert => checker'[c].alerted = checker[c].alerted /\ told' = told
      /\ repeated' = IF alert /\ told[mo] = seen THEN repeated \cup {mo} ELSE repeated
      /\ Free(mo, c) /\ status[mo] # "gone"
      /\ status' = status /\ channel' = channel /\ muddled' = muddled
  BY <1>0, FlushFields DEF Others
<1>2. Reading(c)' = Reading(c) /\ Reading(c) \subseteq Monitors
  BY <1>1 DEF Reading
<1>3. /\ mo \in Reading(c) /\ mo \notin checker[c].todo /\ mo \notin checker[c].locks
      /\ seen \in Answers /\ was \in Known
  BY <1>0, <1>1, CheckFields DEF Phase, TypeOK, Is, Reading, Known
<1>4. \A d \in Checkers : mo \notin checker[d].locks /\ mo \notin checker[d].alerted
  BY <1>1, <1>3, InvType DEF Free
<1>5. mo \notin muddled => status[mo] = was /\ Agrees(was, told[mo])
  BY <1>1, <1>3, <1>4 DEF UptimeInv, Holds, Agreed
<1>6. mo \notin muddled => ~(alert /\ told[mo] = seen) /\ (~alert => Agrees(seen, told[mo]))
  BY <1>3, <1>5 DEF ShouldAlert, Agrees, Answers, Known
<1>7. TypeOK' /\ AlertsTakeTurns'
  <2>1. checks' = checks
    BY DEF Flush
  <2>2. told' \in [Monitors -> {"nothing", "up", "down"}]
    BY <1>0, <1>1, <1>3 DEF TypeOK, Answers
  <2>3. repeated' \subseteq muddled /\ muddled \subseteq Monitors
    BY <1>1, <1>6, InvType
  <2> QED
    BY <1>0, <1>1, <2>1, <2>2, <2>3 DEF TypeOK, AlertsTakeTurns
<1>8. Phase(c)'
  <2>1. /\ checker'[c].todo \subseteq Reading(c) /\ checker'[c].locks \cap Monitors \subseteq Reading(c)
        /\ checker'[c].todo \cap checker'[c].locks = {}
    BY <1>0, <1>1, <1>3 DEF Phase
  <2>2. checker'[c].alerted \subseteq checker'[c].locks
    BY <1>0, <1>1 DEF Phase
  <2>3. /\ \A m \in Reading(c) : m \notin checker'[c].todo => checker'[c].got[m] \in Answers
        /\ \A m \in Monitors \ Reading(c) : checker'[c].got[m] = "gone"
    BY <1>0, <1>1 DEF Phase
  <2>4. \A m \in Reading(c) : m \in checker'[c].todo \cup checker'[c].locks
    BY <1>0, <1>1 DEF Phase, Is
  <2> QED
    BY <1>1, <1>2, <2>1, <2>2, <2>3, <2>4 DEF Phase, Is
<1>9. Holds(c)'
  BY <1>1, <1>2 DEF UptimeInv, Holds
<1>10. \A d \in Checkers : Phase(d)' /\ Holds(d)' /\ Reading(d)' = Reading(d)
  BY <1>1, <1>2, <1>8, <1>9, OtherPhase, OtherHolds DEF UptimeInv
<1>11. OneReader'
  BY <1>1, <1>10 DEF UptimeInv, OneReader
<1>12. ASSUME NEW m \in Monitors \ muddled'
       PROVE  Agreed(m)'
  <2>1. Agreed(m)
    BY <1>1 DEF UptimeInv
  <2>2. CASE m = mo
    <3>1. told'[m] = IF alert THEN seen ELSE told[m]
      BY <1>0, <1>1, <2>2 DEF TypeOK
    <3>2. Agrees(seen, told'[m])
      BY <1>1, <1>3, <1>6, <2>2, <3>1 DEF Agrees, Answers
    <3>3. \A d \in Checkers : m \in checker'[d].locks => checker'[d].got[m] = seen
      BY <1>1, <1>4, <2>2
    <3>4. alert => m \in checker'[c].alerted
      BY <1>1, <2>2
    <3>5. ~alert => Agrees(status[m], told'[m])
      BY <1>1, <1>5, <2>2, <3>1
    <3> QED
      BY <1>1, <3>2, <3>3, <3>4, <3>5 DEF Agreed
  <2>3. CASE m # mo
    <3>1. told'[m] = told[m]
      BY <1>0, <1>1, <2>3 DEF TypeOK
    <3>2. \A d \in Checkers : /\ checker'[d].got = checker[d].got
                              /\ m \in checker'[d].locks <=> m \in checker[d].locks
                              /\ m \in checker'[d].alerted <=> m \in checker[d].alerted
      BY <1>1, <2>3
    <3> QED
      BY <1>1, <2>1, <3>1, <3>2 DEF Agreed
  <2> QED
    BY <2>2, <2>3
<1> QED
  BY <1>7, <1>10, <1>11, <1>12 DEF UptimeInv

\* A checker that is idle has nothing under way.
LEMMA IdleShape ==
    ASSUME NEW c \in Checkers, checker'[c] = Idle
    PROVE  /\ Phase(c)' /\ Holds(c)' /\ Reading(c)' = {}
           /\ checker'[c].locks = {} /\ checker'[c].alerted = {}
<1>1. /\ checker'[c].pc = "idle" /\ checker'[c].todo = {} /\ checker'[c].read = Gone
      /\ checker'[c].got = Gone /\ checker'[c].alerted = {} /\ checker'[c].locks = {}
  BY IdleFields
<1>2. \A mo \in Monitors : checker'[c].read[mo] = "gone" /\ checker'[c].got[mo] = "gone"
  BY <1>1 DEF Gone
<1>3. Reading(c)' = {}
  BY <1>2 DEF Reading
<1> QED
  BY <1>1, <1>2, <1>3 DEF Phase, Holds, Is

LEMMA RollBackKeepsInv ==
    ASSUME UptimeInv, NEW c \in Checkers, RollBack(c), checks' \in 0..MaxChecks
    PROVE  UptimeInv'
<1>0. TypeOK
  BY DEF UptimeInv
<1>1. /\ checker' = [checker EXCEPT ![c] = Idle] /\ muddled' = muddled \cup checker[c].alerted
      /\ status' = status /\ channel' = channel /\ told' = told /\ repeated' = repeated
  BY DEF RollBack
<1>2. /\ checker' \in [Checkers -> Check] /\ \A d \in Checkers \ {c} : checker'[d] = checker[d]
      /\ checker'[c] = Idle
  BY <1>0, <1>1, EndFields DEF Others
<1>3. checker[c].alerted \subseteq Monitors
  BY <1>0, CheckFields DEF TypeOK
<1>4. TypeOK' /\ AlertsTakeTurns'
  BY <1>1, <1>2, <1>3 DEF UptimeInv, TypeOK, AlertsTakeTurns
<1>5. \A d \in Checkers \ {c} : Phase(d)' /\ Holds(d)' /\ Reading(d)' = Reading(d)
  BY <1>1, <1>2, OtherPhase, OtherHolds DEF UptimeInv
<1>6. /\ Phase(c)' /\ Holds(c)' /\ Reading(c)' = {}
      /\ checker'[c].locks = {} /\ checker'[c].alerted = {}
  BY <1>2, IdleShape
<1>7. OneReader'
  BY <1>1, <1>5, <1>6 DEF UptimeInv, OneReader
<1>8. ASSUME NEW mo \in Monitors \ muddled'
      PROVE  Agreed(mo)'
  <2>1. Agreed(mo) /\ mo \notin checker[c].alerted
    BY <1>1 DEF UptimeInv
  <2>2. \A d \in Checkers : mo \in checker'[d].locks =>
            mo \in checker[d].locks /\ checker'[d].got = checker[d].got
    BY <1>2, <1>6
  <2>3. (\A d \in Checkers : mo \notin checker'[d].alerted) =>
            \A d \in Checkers : mo \notin checker[d].alerted
    BY <1>2, <2>1
  <2> QED
    BY <1>1, <2>1, <2>2, <2>3 DEF Agreed
<1> QED
  BY <1>4, <1>5, <1>6, <1>7, <1>8 DEF UptimeInv

LEMMA CommitKeepsInv ==
    ASSUME UptimeInv, NEW c \in Checkers, Commit(c)
    PROVE  UptimeInv'
<1>0. TypeOK /\ Phase(c) /\ Holds(c)
  BY DEF UptimeInv
<1>1. /\ checker' = [checker EXCEPT ![c] = Idle] /\ muddled' = muddled
      /\ channel' = channel /\ told' = told /\ repeated' = repeated /\ checks' = checks
      /\ status' = [mo \in Monitors |-> IF Written(c, mo) THEN checker[c].got[mo] ELSE status[mo]]
      /\ checker[c].pc = "probe" /\ checker[c].todo = {}
  BY DEF Commit, Is
<1>2. /\ checker' \in [Checkers -> Check] /\ \A d \in Checkers \ {c} : checker'[d] = checker[d]
      /\ checker'[c] = Idle
  BY <1>0, <1>1, EndFields DEF Others
<1>3. checker[c].got \in [Monitors -> Known \cup {"gone"}]
  BY <1>0, CheckFields DEF TypeOK
<1>4. TypeOK' /\ AlertsTakeTurns'
  <2>1. status' \in [Monitors -> Known \cup {"gone"}]
    BY <1>0, <1>1, <1>3 DEF TypeOK
  <2> QED
    BY <1>1, <1>2, <2>1 DEF UptimeInv, TypeOK, AlertsTakeTurns
\* What the check read is flushed by now; the rest is not written.
<1>5. \A mo \in Reading(c) : mo \in checker[c].locks /\ checker[c].got[mo] \in Answers
  BY <1>0, <1>1 DEF Phase, Is
<1>6. \A mo \in Monitors \ Reading(c) : status'[mo] = status[mo] /\ mo \notin checker[c].locks
  BY <1>0, <1>1 DEF Phase, Written
<1>7. \A mo \in Monitors : \/ status'[mo] = status[mo]
                           \/ status'[mo] # "gone" /\ mo \in Reading(c)
  BY <1>1, <1>6 DEF Written
<1>8. \A mo \in Reading(c) \ muddled : status'[mo] = checker[c].got[mo]
  <2> SUFFICES ASSUME NEW mo \in Reading(c) \ muddled
               PROVE  status'[mo] = checker[c].got[mo]
    OBVIOUS
  <2>1. mo \in Monitors /\ checker[c].got[mo] # "gone"
    BY <1>5 DEF Reading, Answers
  <2>2. status[mo] = checker[c].read[mo]
    BY <1>0, <1>5, <2>1 DEF Holds
  <2> QED
    BY <1>1, <2>1, <2>2 DEF Written
<1>9. /\ Phase(c)' /\ Holds(c)' /\ Reading(c)' = {}
      /\ checker'[c].locks = {} /\ checker'[c].alerted = {}
  BY <1>2, IdleShape
<1>10. ASSUME NEW d \in Checkers \ {c}
       PROVE  Phase(d)' /\ Holds(d)' /\ Reading(d)' = Reading(d)
  <2>1. Phase(d)' /\ Reading(d)' = Reading(d)
    BY <1>2, OtherPhase DEF UptimeInv
  <2>2. Reading(c) \cap Reading(d) \subseteq muddled
    BY DEF UptimeInv, OneReader
  <2>3. Holds(d)'
    <3> SUFFICES ASSUME NEW mo \in Monitors
                 PROVE  /\ mo \in checker[d].locks => status'[mo] # "gone"
                        /\ mo \in Reading(d) \ muddled => status'[mo] \in {checker[d].read[mo], "gone"}
      BY <1>1, <1>2, <2>1 DEF Holds
    <3>1. Holds(d)
      BY DEF UptimeInv
    <3> QED
      BY <1>6, <1>7, <2>2, <3>1 DEF Holds
  <2> QED
    BY <2>1, <2>3
<1>11. OneReader'
  BY <1>1, <1>9, <1>10 DEF UptimeInv, OneReader
<1>12. ASSUME NEW mo \in Monitors \ muddled'
       PROVE  Agreed(mo)'
  <2>1. Agreed(mo) /\ mo \notin muddled
    BY <1>1 DEF UptimeInv
  <2>2. \A d \in Checkers : mo \in checker'[d].locks =>
            mo \in checker[d].locks /\ checker'[d].got = checker[d].got
    BY <1>2, <1>9
  <2>3. ASSUME \A d \in Checkers : mo \notin checker'[d].alerted
        PROVE  Agrees(status'[mo], told[mo])
    <3>1. CASE mo \in Reading(c)
      <4>1. Agrees(checker[c].got[mo], told[mo])
        BY <1>5, <2>1, <3>1 DEF Agreed
      <4> QED
        BY <1>8, <2>1, <3>1, <4>1
    <3>2. CASE mo \notin Reading(c)
      <4>1. \A d \in Checkers : mo \notin checker[d].alerted
        BY <1>2, <2>3, <3>2, InvType
      <4> QED
        BY <1>6, <2>1, <3>2, <4>1 DEF Agreed
    <3> QED
      BY <3>1, <3>2
  <2> QED
    BY <1>1, <2>1, <2>2, <2>3 DEF Agreed
<1> QED
  BY <1>4, <1>9, <1>10, <1>11, <1>12 DEF UptimeInv

LEMMA StartKeepsInv ==
    ASSUME UptimeInv, NEW c \in Checkers, NEW ms \in SUBSET Monitors, Starts(c, ms),
           \A mo \in ms : status[mo] # "gone"
    PROVE  UptimeInv'
<1>0. TypeOK /\ Phase(c)
  BY DEF UptimeInv
<1>1. /\ checker' \in [Checkers -> Check] /\ \A d \in Checkers \ {c} : checker'[d] = checker[d]
      /\ checker'[c].pc = "probe" /\ checker'[c].todo = ms
      /\ checker'[c].read = [mo \in Monitors |-> IF mo \in ms THEN status[mo] ELSE "gone"]
      /\ checker'[c].got = Gone /\ checker'[c].alerted = {} /\ checker'[c].locks = {}
      /\ Is(c, "idle")
      /\ muddled' = muddled \cup UNION {ms \cap Reading(d) : d \in Checkers}
      /\ status' = status /\ channel' = channel /\ told' = told /\ repeated' = repeated
  BY <1>0, StartFields DEF Others
<1>2. /\ muddled \subseteq muddled' /\ muddled' \subseteq Monitors
      /\ \A d \in Checkers : ms \cap Reading(d) \subseteq muddled'
  BY <1>0, <1>1 DEF TypeOK
<1>3. TypeOK' /\ AlertsTakeTurns'
  <2>1. checks' \in 0..MaxChecks
    BY <1>0, UptimeAssumption DEF Starts, TypeOK
  <2> QED
    BY <1>1, <1>2, <2>1 DEF UptimeInv, TypeOK, AlertsTakeTurns
<1>4. Reading(c)' = ms /\ \A mo \in ms : checker'[c].read[mo] = status[mo]
  BY <1>1 DEF Reading
<1>5. \A mo \in Monitors : checker'[c].got[mo] = "gone"
  BY <1>1 DEF Gone
<1>6. Phase(c)'
  BY <1>1, <1>4, <1>5 DEF Phase, Is
<1>7. Holds(c)'
  BY <1>1, <1>4 DEF Holds
<1>8. \A d \in Checkers \ {c} : Phase(d)' /\ Holds(d)' /\ Reading(d)' = Reading(d)
  BY <1>1, <1>2, OtherPhase, OtherHolds DEF UptimeInv
<1>9. OneReader'
  <2> SUFFICES ASSUME NEW d \in Checkers, NEW e \in Checkers, d # e
               PROVE  Reading(d)' \cap Reading(e)' \subseteq muddled'
    BY DEF OneReader
  <2>1. Reading(d) \cap Reading(e) \subseteq muddled
    BY DEF UptimeInv, OneReader
  <2> QED
    BY <1>2, <1>4, <1>8, <2>1
<1>10. ASSUME NEW mo \in Monitors \ muddled'
       PROVE  Agreed(mo)'
  <2>1. Agreed(mo) /\ mo \notin checker[c].alerted
    BY <1>0, <1>1, <1>2, IdleKnowsNothing DEF UptimeInv
  <2>2. \A d \in Checkers : mo \in checker'[d].locks =>
            mo \in checker[d].locks /\ checker'[d].got = checker[d].got
    BY <1>1
  <2>3. (\A d \in Checkers : mo \notin checker'[d].alerted) =>
            \A d \in Checkers : mo \notin checker[d].alerted
    BY <1>1, <2>1
  <2> QED
    BY <1>1, <2>1, <2>2, <2>3 DEF Agreed
<1> QED
  BY <1>3, <1>6, <1>7, <1>8, <1>9, <1>10 DEF UptimeInv

LEMMA DeleteKeepsInv ==
    ASSUME UptimeInv, NEW mo \in Monitors, DeleteMonitor(mo)
    PROVE  UptimeInv'
<1>0. TypeOK
  BY DEF UptimeInv
<1>1. /\ status' = [status EXCEPT ![mo] = "gone"] /\ \A c \in Checkers : mo \notin checker[c].locks
      /\ channel' = channel /\ checker' = checker /\ told' = told /\ repeated' = repeated
      /\ muddled' = muddled /\ checks' = checks
  BY DEF DeleteMonitor
<1>2. TypeOK' /\ AlertsTakeTurns'
  BY <1>1 DEF UptimeInv, TypeOK, AlertsTakeTurns
<1>3. \A m \in Monitors : status'[m] = IF m = mo THEN "gone" ELSE status[m]
  BY <1>0, <1>1 DEF TypeOK
<1>4. \A d \in Checkers : Phase(d)' /\ Holds(d)' /\ Reading(d)' = Reading(d)
  BY <1>1, <1>3, OtherPhase, OtherHolds DEF UptimeInv
<1>5. OneReader'
  BY <1>1, <1>4 DEF UptimeInv, OneReader
<1>6. \A m \in Monitors \ muddled' : Agreed(m)'
  BY <1>1, <1>3 DEF UptimeInv, Agreed, Agrees
<1> QED
  BY <1>2, <1>4, <1>5, <1>6 DEF UptimeInv

\* What only concerns the channels that exist.
LEMMA SameKeepsInv ==
    ASSUME UptimeInv, channel' \subseteq Channels,
           UNCHANGED <<status, checker, told, repeated, muddled, checks>>
    PROVE  UptimeInv'
<1>1. TypeOK' /\ AlertsTakeTurns'
  BY DEF UptimeInv, TypeOK, AlertsTakeTurns
<1>2. \A d \in Checkers : Phase(d)' /\ Holds(d)' /\ Reading(d)' = Reading(d)
  BY OtherPhase, OtherHolds DEF UptimeInv
<1>3. OneReader'
  BY <1>2 DEF UptimeInv, OneReader
<1>4. \A m \in Monitors \ muddled' : Agreed(m)'
  BY DEF UptimeInv, Agreed
<1> QED
  BY <1>1, <1>2, <1>3, <1>4 DEF UptimeInv

-----------------------------------------------------------------------------
\* UptimeInv holds of a fresh database and no step breaks it.
LEMMA UptimeInvInit == Init => UptimeInv
<1> SUFFICES ASSUME Init PROVE UptimeInv
  OBVIOUS
<1>1. /\ status = [mo \in Monitors |-> "unknown"] /\ channel = Channels
      /\ checker = [c \in Checkers |-> Idle]
      /\ told = [mo \in Monitors |-> "nothing"]
      /\ repeated = {} /\ muddled = {} /\ checks = MaxChecks
  BY DEF Init
<1>2. checks \in 0..MaxChecks
  BY <1>1, UptimeAssumption
<1>3. TypeOK /\ AlertsTakeTurns
  BY <1>1, <1>2, IdleFields DEF TypeOK, AlertsTakeTurns, Known
<1>4. \A c \in Checkers : /\ checker[c].pc = "idle" /\ checker[c].todo = {}
                          /\ checker[c].read = Gone /\ checker[c].got = Gone
                          /\ checker[c].alerted = {} /\ checker[c].locks = {}
  BY <1>1, IdleFields
<1>5. \A c \in Checkers, mo \in Monitors : checker[c].read[mo] = "gone" /\ checker[c].got[mo] = "gone"
  BY <1>4 DEF Gone
<1>6. \A c \in Checkers : Reading(c) = {}
  BY <1>5 DEF Reading
<1>7. \A c \in Checkers : Phase(c) /\ Holds(c)
  BY <1>4, <1>5, <1>6 DEF Phase, Holds, Is
<1>8. OneReader
  BY <1>6 DEF OneReader
<1>9. \A mo \in Monitors : Agreed(mo)
  BY <1>1, <1>4 DEF Agreed, Agrees
<1> QED
  BY <1>3, <1>7, <1>8, <1>9 DEF UptimeInv

LEMMA UptimeInvStep == UptimeInv /\ [Next]_vars => UptimeInv'
<1> SUFFICES ASSUME UptimeInv, [Next]_vars PROVE UptimeInv'
  OBVIOUS
<1>0. TypeOK /\ checks \in 0..MaxChecks /\ MaxChecks \in Nat /\ \A c \in Checkers : Phase(c)
  BY UptimeAssumption DEF UptimeInv, TypeOK
<1>1. ASSUME StartPass PROVE UptimeInv'
  <2>1. Pass \in Checkers
    BY DEF Checkers
  <2> QED
    BY <1>1, <2>1, StartKeepsInv DEF StartPass
<1>2. ASSUME NEW c \in Checkers, CheckSteps(c) PROVE UptimeInv'
  <2>1. ASSUME NEW mo \in Monitors, Probe(c, mo) PROVE UptimeInv'
    BY <2>1, ProbeKeepsInv
  <2>2. ASSUME NEW ch \in Channels, Deliver(c, ch) PROVE UptimeInv'
    <3>1. Quiet(c) /\ checks' = checks
      BY <1>0, <2>2, DeliverQuiet DEF Deliver
    <3> QED
      BY <1>0, <3>1, QuietKeepsInv
  <2>3. CASE Flush(c)
    BY <2>3, FlushKeepsInv
  <2>4. CASE Record(c)
    <3>1. Quiet(c) /\ checks' = checks
      BY <1>0, <2>4, RecordQuiet DEF Record
    <3> QED
      BY <1>0, <3>1, QuietKeepsInv
  <2>5. CASE Delivered(c)
    <3>1. Quiet(c) /\ checks' = checks
      BY <1>0, <2>5, DeliveredQuiet DEF Delivered
    <3> QED
      BY <1>0, <3>1, QuietKeepsInv
  <2>6. CASE Stale(c)
    BY <1>0, <2>6, RollBackKeepsInv DEF Stale
  <2>7. CASE Commit(c)
    BY <2>7, CommitKeepsInv
  <2>8. CASE Deadlock(c)
    BY <1>0, <2>8, RollBackKeepsInv DEF Deadlock
  <2> QED
    BY <1>2, <2>1, <2>2, <2>3, <2>4, <2>5, <2>6, <2>7, <2>8 DEF CheckSteps
<1>3. ASSUME NEW c \in Checkers, ProbeRaises(c) PROVE UptimeInv'
  BY <1>0, <1>3, RollBackKeepsInv DEF ProbeRaises
<1>4. ASSUME NEW c \in Checkers, Cut(c) PROVE UptimeInv'
  <2>1. RollBack(c) /\ checks' = checks - 1 /\ checks > 0
    BY <1>4 DEF Cut
  <2>2. checks' \in 0..MaxChecks
    BY <1>0, <2>1
  <2> QED
    BY <2>1, <2>2, RollBackKeepsInv
<1>5. ASSUME NEW c \in Checkers, NEW mo \in Monitors, StartCheck(c, mo) PROVE UptimeInv'
  BY <1>5, StartKeepsInv DEF StartCheck
<1>6. ASSUME NEW c \in Checkers, NEW ch \in Channels, StartTest(c, ch) PROVE UptimeInv'
  <2>1. Quiet(c) /\ checks' = checks - 1 /\ checks > 0
    BY <1>0, <1>6, TestQuiet DEF StartTest
  <2>2. checks' \in 0..MaxChecks
    BY <1>0, <2>1
  <2> QED
    BY <2>1, <2>2, QuietKeepsInv
<1>7. ASSUME NEW mo \in Monitors, DeleteMonitor(mo) PROVE UptimeInv'
  BY <1>7, DeleteKeepsInv
<1>8. ASSUME NEW ch \in Channels, DeleteChannel(ch) PROVE UptimeInv'
  BY <1>0, <1>8, SameKeepsInv DEF DeleteChannel, TypeOK
<1>9. CASE UNCHANGED vars
  BY <1>0, <1>9, SameKeepsInv DEF vars, TypeOK
<1> QED
  BY <1>1, <1>2, <1>3, <1>4, <1>5, <1>6, <1>7, <1>8, <1>9 DEF Next

\* In every state the program reaches, UptimeInv holds.
THEOREM Invariance == Spec => []UptimeInv
<1>1. Init => UptimeInv
  BY UptimeInvInit
<1>2. UptimeInv /\ [Next]_vars => UptimeInv'
  BY UptimeInvStep
<1> QED
  BY <1>1, <1>2, PTL DEF Spec

\* uptime.py _should_alert: for any monitors, checkers and channels, a tenant
\* is not told twice in a row that a monitor is down, nor that it is up.
THEOREM TurnsAreTaken == Spec => []AlertsTakeTurns
<1>1. UptimeInv => AlertsTakeTurns
  BY DEF UptimeInv
<1> QED
  BY <1>1, Invariance, PTL

\* uptime.py check_one: what the tenant was told last is what is recorded.
THEOREM StatusIsTold == Spec => []StatusWasTold
<1>1. UptimeInv => StatusWasTold
  <2> SUFFICES ASSUME UptimeInv, NEW mo \in Monitors \ muddled,
                      \A c \in Checkers : mo \notin Reading(c)
               PROVE  Agrees(status[mo], told[mo])
    BY DEF StatusWasTold, Agrees
  <2>1. \A c \in Checkers : mo \notin checker[c].alerted
    BY InvType
  <2> QED
    BY <2>1 DEF UptimeInv, Agreed
<1> QED
  BY <1>1, Invariance, PTL
=============================================================================
