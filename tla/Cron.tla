-------------------------------- MODULE Cron --------------------------------
(***************************************************************************)
(* app/services/cron.py: when a five-field cron expression fires.          *)
(*                                                                         *)
(* An expression is a record of five fields; a field is the set of its     *)
(* comma-separated parts; a part says what the text says: "*", "*/n",      *)
(* "a-b", "a-b/n", "a", or something crontab refuses (an empty part, "5-", *)
(* "1/2").  is_valid_cron accepts all of them.                             *)
(***************************************************************************)
EXTENDS Integers, FiniteSets

Star             == [kind |-> "any",     lo |-> 0, hi |-> 0, by |-> 0]
Step(n)          == [kind |-> "step",    lo |-> n, hi |-> n, by |-> 0]
Between(a, b)    == [kind |-> "range",   lo |-> a, hi |-> b, by |-> 0]
Stepped(a, b, n) == [kind |-> "stepped", lo |-> a, hi |-> b, by |-> n]
Just(n)          == [kind |-> "num",     lo |-> n, hi |-> n, by |-> 0]
Junk             == [kind |-> "junk",    lo |-> 0, hi |-> 0, by |-> 0]

FieldNames == {"minute", "hour", "dom", "month", "dow"}

\* What a part, an expression and a minute of the wall clock may be.
IsPart(p) ==
    /\ p \in [kind : {"any", "step", "range", "stepped", "num", "junk"},
              lo : Nat, hi : Nat, by : Nat]
    /\ p.kind = "any" => p = Star
    /\ p.kind \in {"step", "num"} => p.lo = p.hi
IsExpression(e) == DOMAIN e = FieldNames /\ \A f \in FieldNames : \A p \in e[f] : IsPart(p)
Times == [minute : Nat, hour : Nat, dom : Nat, month : Nat, dow : 0..6]

\* _match_field: "*" alone matches anything, but is skipped in a list; the
\* hyphen of "a-b/n" takes it to the range branch, where int("b/n") fails and
\* the part is skipped.
MatchField(spec, value) ==
    \/ spec = {Star}
    \/ \E p \in spec :
          CASE p.kind = "step"  -> p.lo > 0 /\ value % p.lo = 0
            [] p.kind = "range" -> p.lo <= value /\ value <= p.hi
            [] p.kind = "num"   -> p.lo = value
            [] OTHER            -> FALSE

\* dow.replace("7", "0"), on the one-digit numbers of a day-of-week field
SevenAsZero(spec) ==
    LET z(n) == IF n = 7 THEN 0 ELSE n
    IN  {[p EXCEPT !.lo = z(p.lo), !.hi = z(p.hi)] : p \in spec}

\* The 7 is left as it is.
MatchesWithoutSeven(e, t) == \A f \in FieldNames : MatchField(e[f], t[f])

\* cron_matches; t.dow is isoweekday() % 7, so Sunday is 0
CronMatches(e, t) ==
    LET dow == IF t.dow = 0 THEN SevenAsZero(e.dow) ELSE e.dow
    IN  /\ \A f \in FieldNames \ {"dow"} : MatchField(e[f], t[f])
        /\ MatchField(dow, t.dow)

(***************************************************************************)
(* Reference: crontab(5).  A step counts from the first value of its       *)
(* field, or of its range, 7 is Sunday wherever a day of the week may      *)
(* stand, and when both day fields are restricted one of them suffices.    *)
(***************************************************************************)
First(f) == IF f \in {"dom", "month"} THEN 1 ELSE 0

Covers(p, f, v) ==
    CASE p.kind = "any"   -> TRUE
      [] p.kind = "step"  -> p.lo > 0 /\ (v - First(f)) % p.lo = 0
      [] p.kind = "range" -> p.lo <= v /\ v <= p.hi
      [] p.kind = "stepped" ->
            p.lo <= v /\ v <= p.hi /\ p.by > 0 /\ (v - p.lo) % p.by = 0
      [] p.kind = "num"   -> p.lo = v
      [] OTHER            -> FALSE

Values(t, f) == {t[f]} \cup (IF f = "dow" /\ t[f] = 0 THEN {7} ELSE {})
Fits(e, t, f) == \E p \in e[f] : \E v \in Values(t, f) : Covers(p, f, v)
Restricted(e, f) == Star \notin e[f]

Fires(e, t) ==
    /\ \A f \in {"minute", "hour", "month"} : Fits(e, t, f)
    /\ IF Restricted(e, "dom") /\ Restricted(e, "dow")
       THEN Fits(e, t, "dom") \/ Fits(e, t, "dow")
       ELSE Fits(e, t, "dom") /\ Fits(e, t, "dow")

\* The forms the docstring of cron.py names, in every field "*", "*/step",
\* "a-b" and lists of them, Sunday being 0 or 7: no "*" in a list, no step in
\* a field that starts at 1, no number above 7 and no range backwards among the
\* days of the week, at most one day field restricted, and no part that it does
\* not name.
Documented(e) ==
    /\ \A f \in FieldNames : \A p \in e[f] : p.kind \notin {"stepped", "junk"}
    /\ \A f \in FieldNames : Star \in e[f] => e[f] = {Star}
    /\ \A f \in {"dom", "month"} : \A p \in e[f] : p.kind # "step"
    /\ \A p \in e.dow : p.lo <= p.hi /\ p.hi <= 7
    /\ ~ (Restricted(e, "dom") /\ Restricted(e, "dow"))

\* Those of them that keep clear of a range or a step ending in 7.
Plain(e) ==
    /\ Documented(e)
    /\ \A p \in e.dow : p.hi = 7 => p.kind = "num"
=============================================================================
