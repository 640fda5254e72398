------------------------------- MODULE SignIn -------------------------------
(***************************************************************************)
(* Signing in with a second factor, and personal API tokens:               *)
(* app/modules/auth/service.py, app/services/totp.py, api_tokens.py and    *)
(* the login, two-factor and token routes, for one account.                *)
(*                                                                         *)
(* A handler reads the row, decides on what it read, and its flush writes  *)
(* the columns it changed when its transaction commits: what happened to   *)
(* the row in between it neither sees nor, in other columns, undoes.       *)
(***************************************************************************)
EXTENDS Naturals

CONSTANTS Tokens,       \* rows of api_tokens the account can have
          Requests,     \* requests that can be under way at once
          CodesPerSet,  \* backup codes made at a time, 10 in the code
          MaxSecrets,   \* bound on setups
          MaxSets,      \* bound on sets of backup codes
          MaxRequests,  \* bound on requests
          None

SignInAssumption ==
    /\ CodesPerSet \in Nat /\ MaxSecrets \in Nat /\ MaxSets \in Nat /\ MaxRequests \in Nat
    /\ None \notin (1..MaxSecrets) \cup Tokens
ASSUME SignInAssumption

VARIABLES account,      \* totp_enabled, totp_secret, totp_backup_codes
          token,        \* each personal token: absent, live or revoked
          req,          \* what each request read and is about to write
          setups, sets, \* secrets and sets of codes made so far
          scanned,      \* secrets the user's authenticator has
          proven,       \* the secret whose code the last enabling was given
          spent,        \* how many logins each backup code has let in
          stale,        \* a change was written over a row that had changed
          asked         \* requests so far

vars == <<account, token, req, setups, sets, scanned, proven, spent, stale, asked>>

Secrets == (1..MaxSecrets) \cup {None}
Codes == (1..MaxSets) \X (1..CodesPerSet)
SetOf(n) == {n} \X (1..CodesPerSet)
Account == [enabled : BOOLEAN, secret : Secrets, codes : SUBSET Codes]
Off == [enabled |-> FALSE, secret |-> None, codes |-> {}]

Ops == {"login", "setup", "enable", "disable", "use", "revoke"}
\* about: the account, or a token; snap and new: its row when read and after.
Request == [op : Ops \cup {"none"}, snap : Account, new : Account,
            tok : Tokens \cup {None}, code : Codes \cup {<<0, 0>>}]
NoCode == <<0, 0>>
Idle == [op |-> "none", snap |-> Off, new |-> Off, tok |-> None, code |-> NoCode]

Init ==
    /\ account = Off
    /\ token = [k \in Tokens |-> "absent"]
    /\ req = [r \in Requests |-> Idle]
    /\ setups = 0 /\ sets = 0 /\ scanned = {} /\ proven = None
    /\ spent = [c \in Codes |-> 0]
    /\ stale = FALSE /\ asked = 0

Is(r, op) == req[r].op = op

\* An UPDATE names the columns whose value is not the one that was read.
Flush(snap, new) ==
    [c \in DOMAIN account |-> IF new[c] = snap[c] THEN account[c] ELSE new[c]]

Reads(r, op, new, code) ==
    /\ Is(r, "none") /\ asked < MaxRequests
    /\ asked' = asked + 1
    /\ req' = [req EXCEPT ![r] = [op |-> op, snap |-> account, new |-> new,
                                  tok |-> None, code |-> code]]
    /\ UNCHANGED <<account, token, scanned, proven, spent, stale>>

(***************************************************************************)
(* Signing in.  A wrong password or code changes nothing.                  *)
(***************************************************************************)
\* A code of the authenticator is good for the secret that is stored.
VerifyTotp == account.secret \in scanned

\* The code is good but stays on the list.
KeepBackupCode(code) == account.codes

ConsumeBackupCode(code) == account.codes \ {code}

LoginPassword(r) == ~account.enabled /\ Reads(r, "login", account, NoCode)
LoginTotp(r) == account.enabled /\ VerifyTotp /\ Reads(r, "login", account, NoCode)
LoginBackup(r, code) ==
    /\ account.enabled /\ account.secret # None /\ code \in account.codes
    /\ Reads(r, "login", [account EXCEPT !.codes = ConsumeBackupCode(code)], code)

Login(r) == /\ \/ LoginPassword(r) \/ LoginTotp(r) \/ \E c \in Codes : LoginBackup(r, c)
            /\ UNCHANGED <<setups, sets>>

(***************************************************************************)
(* Two-factor authentication on and off.                                   *)
(***************************************************************************)
\* Also while it is on.
SetupAnytime(r) ==
    /\ setups < MaxSecrets /\ setups' = setups + 1
    /\ Reads(r, "setup", [account EXCEPT !.secret = setups + 1], NoCode)
    /\ UNCHANGED sets

Setup(r) ==
    /\ ~account.enabled /\ setups < MaxSecrets /\ setups' = setups + 1
    /\ Reads(r, "setup", [account EXCEPT !.secret = setups + 1], NoCode)
    /\ UNCHANGED sets

Enable(r) ==
    /\ ~account.enabled /\ VerifyTotp /\ sets < MaxSets /\ sets' = sets + 1
    /\ Reads(r, "enable", [account EXCEPT !.enabled = TRUE, !.codes = SetOf(sets + 1)], NoCode)
    /\ UNCHANGED setups

Disable(r) == Reads(r, "disable", Off, NoCode) /\ UNCHANGED <<setups, sets>>

CommitAccount(r) ==
    LET was == req[r].snap
        new == req[r].new
    IN  /\ req[r].op \in {"login", "setup", "enable", "disable"}
        /\ account' = Flush(was, new)
        /\ stale' = (stale \/ (new # was /\ account # was))
        /\ scanned' = IF Is(r, "setup") THEN scanned \cup {new.secret} ELSE scanned
        /\ proven' = IF Is(r, "enable") THEN was.secret ELSE proven
        /\ spent' = IF req[r].code = NoCode THEN spent ELSE [spent EXCEPT ![req[r].code] = @ + 1]
        /\ req' = [req EXCEPT ![r] = Idle]
        /\ UNCHANGED <<token, setups, sets, asked>>

(***************************************************************************)
(* Personal API tokens.                                                    *)
(***************************************************************************)
CreateToken(k) ==
    /\ token[k] = "absent" /\ token' = [token EXCEPT ![k] = "live"]
    /\ UNCHANGED <<account, req, setups, sets, scanned, proven, spent, stale, asked>>

ReadsToken(r, op, k) ==
    /\ Is(r, "none") /\ asked < MaxRequests /\ token[k] = "live"
    /\ asked' = asked + 1
    /\ req' = [req EXCEPT ![r] = [Idle EXCEPT !.op = op, !.tok = k]]
    /\ UNCHANGED <<account, token, setups, sets, scanned, proven, spent, stale>>

\* authenticate records last_used_at; revoke sets revoked.
UseToken(r, k) == ReadsToken(r, "use", k)
RevokeToken(r, k) == ReadsToken(r, "revoke", k)

\* Using a token writes its whole row.
CommitTokenRow(r) ==
    /\ req[r].op \in {"use", "revoke"}
    /\ token' = [token EXCEPT ![req[r].tok] = IF Is(r, "revoke") THEN "revoked" ELSE "live"]
    /\ req' = [req EXCEPT ![r] = Idle]
    /\ UNCHANGED <<account, setups, sets, scanned, proven, spent, stale, asked>>

CommitToken(r) ==
    /\ req[r].op \in {"use", "revoke"}
    /\ token' = [token EXCEPT ![req[r].tok] = IF Is(r, "revoke") THEN "revoked" ELSE @]
    /\ req' = [req EXCEPT ![r] = Idle]
    /\ UNCHANGED <<account, setups, sets, scanned, proven, spent, stale, asked>>

\* The request is rolled back.
Fail(r) ==
    /\ ~Is(r, "none") /\ req' = [req EXCEPT ![r] = Idle]
    /\ UNCHANGED <<account, token, setups, sets, scanned, proven, spent, stale, asked>>

Next ==
    \/ \E r \in Requests :
          \/ Login(r) \/ Setup(r) \/ Enable(r) \/ Disable(r) \/ CommitAccount(r)
          \/ CommitToken(r) \/ Fail(r)
          \/ \E k \in Tokens : UseToken(r, k) \/ RevokeToken(r, k)
    \/ \E k \in Tokens : CreateToken(k)

Spec == Init /\ [][Next]_vars

-----------------------------------------------------------------------------
\* The state has the shape the code gives it.
TypeOK ==
    /\ account \in Account
    /\ token \in [Tokens -> {"absent", "live", "revoked"}]
    /\ req \in [Requests -> Request]
    /\ setups \in 0..MaxSecrets /\ sets \in 0..MaxSets
    /\ scanned \subseteq Secrets /\ proven \in Secrets
    /\ spent \in [Codes -> Nat] /\ stale \in BOOLEAN /\ asked \in 0..MaxRequests

\* "A spent backup code is consumed (removed) on success": it lets one login
\* in, and one of a set that was replaced none more, as long as no change was
\* written over a row that had changed.
CodesOnce == \A c \in Codes : spent[c] <= 1
CodesOnceUnlessStale == stale \/ CodesOnce

\* An account that asks for a second factor asks for codes of the secret its
\* user has proven to have: nobody is locked out by setting up again.
SecretIsProven == stale \/ (account.enabled => account.secret = proven)

\* Whatever the interleaving, a revoked token stays revoked: a call that was
\* authenticated before, and records the use after, does not bring it back.
RevokedStaysRevoked == [][\A k \in Tokens : token[k] = "revoked" => token'[k] = "revoked"]_vars
=============================================================================
