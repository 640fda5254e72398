---------------------------- MODULE CreditWallet ----------------------------
(***************************************************************************)
(* A tenant's prepaid credit: the TenantCredit row, the CreditTransaction  *)
(* log, the metered AI calls that check the one before and settle after    *)
(* (app/modules/reseller/ai_service.py) and the administrator's top-ups    *)
(* (app/modules/billing/credits.py).  Each runs in a request's transaction *)
(* at the database's default isolation: it reads the committed balance,    *)
(* computes the new one in Python and writes that value; the row is locked *)
(* from the write to the commit only.                                      *)
(*                                                                         *)
(* Amounts are small numbers of micro-USD.  Of the log only the sum of its *)
(* deltas is kept.  CreditService.adjust has no caller.                    *)
(***************************************************************************)
EXTENDS Integers, FiniteSets

CONSTANTS
    Calls,      \* chat_for_tenant requests
    Topups,     \* top-up requests
    Costs,      \* what a call may be billed
    Amounts,    \* what may be topped up
    MaxCost,    \* the largest of Costs
    MaxFaults,  \* bound on the restarts
    Nobody      \* the row lock is free

ASSUME WalletAssumption ==
    /\ Costs \subseteq Nat /\ MaxCost \in Costs \ {0}
    /\ \A c \in Costs : c <= MaxCost
    /\ Amounts \subseteq Nat \ {0}
    /\ MaxFaults \in Nat
    /\ Calls \cap Topups = {} /\ Nobody \notin Calls \cup Topups

Ops == Calls \cup Topups

VARIABLES
    wallet,     \* the row has been committed
    balance,    \* its balance, 0 while there is no row
    logged,     \* sum of the committed CreditTransaction deltas
    stage,      \* where each request is
    delta,      \* what it adds to the balance
    read,       \* the balance it read, and whether there was a row
    writer,     \* whose uncommitted write locks the row
    overlapped, \* two calls were under way at once
    raced,      \* a write was committed between another's read and commit
    faults

row  == <<wallet, balance, logged>>
walletVars == <<row, stage, delta, read, writer, overlapped, raced, faults>>

UnderWay == {"calling", "settling", "read", "written"}

WalletTypeOK ==
    /\ wallet \in BOOLEAN
    /\ balance \in Int /\ logged \in Int
    /\ stage \in [Ops -> UnderWay \cup {"idle", "refused", "billed", "failed", "lost"}]
    /\ delta \in [Ops -> Int]
    /\ read \in [Ops -> [balance : Int, row : BOOLEAN]]
    /\ writer \in Ops \cup {Nobody}
    /\ overlapped \in BOOLEAN /\ raced \in BOOLEAN
    /\ faults \in 0..MaxFaults

WalletInit ==
    /\ wallet = FALSE /\ balance = 0 /\ logged = 0
    /\ stage = [o \in Ops |-> "idle"]
    /\ delta = [o \in Ops |-> 0]
    /\ read = [o \in Ops |-> [balance |-> 0, row |-> FALSE]]
    /\ writer = Nobody
    /\ overlapped = FALSE /\ raced = FALSE
    /\ faults = 0

Proceed(o, s) == stage' = [stage EXCEPT ![o] = s]
Sees(o) == read' = [read EXCEPT ![o] = [balance |-> balance, row |-> wallet]]

-----------------------------------------------------------------------------
(* Requests *)

\* Faulty variant: a call may start on an empty wallet.
StartCallAtZero(c) ==
    /\ stage[c] = "idle"
    /\ Proceed(c, IF balance >= 0 THEN "calling" ELSE "refused")
    /\ overlapped' = (overlapped \/ (balance >= 0 /\ \E d \in Calls : stage[d] \in UnderWay))
    /\ Sees(c)
    /\ UNCHANGED <<row, delta, writer, raced, faults>>

\* "require a prepaid balance" (402 without), then call the provider.
StartCall(c) ==
    /\ stage[c] = "idle"
    /\ Proceed(c, IF balance > 0 THEN "calling" ELSE "refused")
    /\ overlapped' = (overlapped \/ (balance > 0 /\ \E d \in Calls : stage[d] \in UnderWay))
    /\ Sees(c)
    /\ UNCHANGED <<row, delta, writer, raced, faults>>

\* The provider answers and the cost is known ...
Answered(c) ==
    /\ stage[c] = "calling"
    /\ \E cost \in Costs : delta' = [delta EXCEPT ![c] = -cost]
    /\ Proceed(c, "settling")
    /\ UNCHANGED <<row, read, writer, overlapped, raced, faults>>

\* ... or the call raises and nothing is recorded.
CallFails(c) ==
    /\ stage[c] = "calling"
    /\ Proceed(c, "failed")
    /\ UNCHANGED <<row, delta, read, writer, overlapped, raced, faults>>

StartTopup(t) ==
    /\ stage[t] = "idle"
    /\ \E amount \in Amounts : delta' = [delta EXCEPT ![t] = amount]
    /\ Proceed(t, "settling")
    /\ UNCHANGED <<row, read, writer, overlapped, raced, faults>>

-----------------------------------------------------------------------------
(* CreditService._apply *)

\* Faulty variant: the row read by the balance check is used again.
ReadWalletCached(o) ==
    /\ stage[o] = "settling"
    /\ IF o \in Calls THEN UNCHANGED read ELSE Sees(o)
    /\ Proceed(o, "read")
    /\ UNCHANGED <<row, delta, writer, overlapped, raced, faults>>

\* Faulty variant: a debit that would overdraw the wallet is refused.
ReadWalletNoOverdraft(o) ==
    /\ stage[o] = "settling"
    /\ Sees(o)
    /\ Proceed(o, IF balance + delta[o] < 0 THEN "failed" ELSE "read")
    /\ UNCHANGED <<row, delta, writer, overlapped, raced, faults>>

\* _wallet: the row as committed now.  The one the check loaded is no longer
\* in the session (its identity map holds no unused object).
ReadWallet(o) ==
    /\ stage[o] = "settling"
    /\ Sees(o)
    /\ Proceed(o, "read")
    /\ UNCHANGED <<row, delta, writer, overlapped, raced, faults>>

\* The flush waits for the row; a row that somebody else created since the
\* read violates the primary key.  Nothing is written for a free call.
Write(o) ==
    /\ stage[o] = "read"
    /\ IF delta[o] = 0
         THEN Proceed(o, "written") /\ UNCHANGED writer
         ELSE /\ writer = Nobody
              /\ IF wallet /\ ~read[o].row
                   THEN Proceed(o, "failed") /\ UNCHANGED writer
                   ELSE Proceed(o, "written") /\ writer' = o
    /\ UNCHANGED <<row, delta, read, overlapped, raced, faults>>

\* The value computed in Python replaces the balance; the transaction row
\* (and the usage event of a call) is committed with it.
Commit(o) ==
    /\ stage[o] = "written"
    /\ wallet' = TRUE
    /\ balance' = IF delta[o] = 0 THEN balance ELSE read[o].balance + delta[o]
    /\ logged' = logged + delta[o]
    /\ raced' = (raced \/ \E p \in Ops \ {o} : stage[p] \in {"read", "written"})
    /\ writer' = IF writer = o THEN Nobody ELSE writer
    /\ Proceed(o, "billed")
    /\ UNCHANGED <<delta, read, overlapped, faults>>

\* The process goes down: transactions roll back, answered calls included.
Restart ==
    /\ faults < MaxFaults
    /\ faults' = faults + 1
    /\ stage' = [o \in Ops |-> IF stage[o] \in UnderWay THEN "lost" ELSE stage[o]]
    /\ writer' = Nobody
    /\ UNCHANGED <<row, delta, read, overlapped, raced>>

-----------------------------------------------------------------------------
Apply(o) == ReadWallet(o) \/ Write(o) \/ Commit(o)

WalletNext ==
    \/ \E c \in Calls : StartCall(c) \/ Answered(c) \/ CallFails(c)
    \/ \E t \in Topups : StartTopup(t)
    \/ \E o \in Ops : Apply(o)
    \/ Restart

WalletSpec == WalletInit /\ [][WalletNext]_walletVars

\* A request that has begun to settle runs on; waiters for the row are
\* served in turn.
Fairness == \A o \in Ops :
    /\ WF_walletVars(ReadWallet(o)) /\ SF_walletVars(Write(o)) /\ WF_walletVars(Commit(o))

FairSpec == WalletSpec /\ Fairness

-----------------------------------------------------------------------------
\* "Authoritative running balance; every change is also appended to
\* CreditTransaction" (TenantCredit): the balance is the sum of the log.
BalanceMatchesLog == balance = logged

\* It is as long as no two read-modify-writes overlap, restarts or not.
BalanceUnlessRaced == ~raced => BalanceMatchesLog

\* "the balance may dip slightly negative on the final call" (debit): by
\* less than one call.
SoftCap == balance > -MaxCost

\* It holds while calls are made one at a time and no write is lost: the
\* check before is then as good as one at settlement.
SoftCapUnlessOverlapped == ~overlapped /\ ~raced => SoftCap

\* "every metered call debits it" (credits.py): an answered call is billed,
\* even when it overdraws the wallet, unless the process goes down first.
AnsweredIsBilled ==
    \A c \in Calls : (stage[c] = "settling") ~> (stage[c] \in {"billed", "lost"})

-----------------------------------------------------------------------------
\* What the proofs need: with no race, whoever has read the row has its
\* committed value ...
ReadersAreCurrent ==
    ~raced => \A o \in Ops : stage[o] \in {"read", "written"} => read[o].balance = balance

\* ... amounts keep their signs ...
DeltasAreSigned ==
    \A o \in Ops : stage[o] \in {"settling", "read", "written"} =>
        IF o \in Calls THEN -MaxCost <= delta[o] /\ delta[o] <= 0 ELSE delta[o] > 0

\* ... and without overlap one call is under way, on a positive balance.
OneCallInCredit ==
    ~overlapped => \A c \in Calls : stage[c] \in UnderWay =>
        /\ \A d \in Calls : stage[d] \in UnderWay => d = c
        /\ ~raced => balance > 0

WalletInv ==
    /\ WalletTypeOK /\ ReadersAreCurrent /\ DeltasAreSigned /\ OneCallInCredit
    /\ BalanceUnlessRaced /\ SoftCapUnlessOverlapped
=============================================================================
