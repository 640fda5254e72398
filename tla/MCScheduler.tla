---------------------------- MODULE MCScheduler -----------------------------
(***************************************************************************)
(* Scheduler over the minutes around the midnight between Saturday,        *)
(* January 31, 2026 and Sunday, February 1.                                *)
(***************************************************************************)
EXTENDS Scheduler, TLC

CONSTANTS j1, j2

At(mi, h, dom, month, dow) ==
    [minute |-> mi, hour |-> h, dom |-> dom, month |-> month, dow |-> dow]
Midnight == <<At(59, 23, 31, 1, 6), At(0, 0, 1, 2, 0), At(1, 0, 1, 2, 0)>>

Expr(mi, dom, dow) ==
    [minute |-> mi, hour |-> {Star}, dom |-> dom, month |-> {Star}, dow |-> dow]
Sunday == Expr({Step(15), Just(1)}, {Star}, {Just(7), Just(6)})
First1 == Expr({Between(0, 9)}, {Just(1)}, {Star})
Some == {Sunday, First1}

\* Forms that are accepted and do not fire when crontab would.
Weekend == Expr({Star}, {Star}, {Between(6, 7)})
Odd == Expr({Stepped(0, 58, 2), Junk}, {Star}, {Star})
Accepted == {Sunday, Weekend, Odd}

Symm == Permutations(Jobs)
=============================================================================
