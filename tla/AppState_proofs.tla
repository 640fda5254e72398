--------------------------- MODULE AppState_proofs ---------------------------
(***************************************************************************)
(* What requests share in the row of an account and in the memory of the   *)
(* process, for any requests, keys, times and bounds.                      *)
(*                                                                         *)
(* Of SignIn: the second factor asks for a secret its user has proven to   *)
(* have and a backup code lets one login in, both unless a change was      *)
(* written over a changed row; and, without a condition, a revoked token   *)
(* stays revoked.                                                          *)
(*                                                                         *)
(* Of AppState: no window has more calls than the limit; a listing shows   *)
(* every write that was answered, and is recent; a mailbox that is lost is *)
(* soon vouched for no more; whenever requests are served the operators    *)
(* see everything; no start undoes what staff set; and what a tenant's     *)
(* apps were given fits the plan.                                          *)
(***************************************************************************)
EXTENDS SignIn, AppState, FiniteSetTheorems, SequenceTheorems, WellFoundedInduction, TLAPS

\* What a request will write, compared with the row it read.
Shape(x) ==
    /\ x.op = "login" => /\ x.new.enabled = x.snap.enabled /\ x.new.secret = x.snap.secret
                         /\ \/ x.code = NoCode /\ x.new.codes = x.snap.codes
                            \/ x.code \in x.snap.codes /\ x.new.codes = x.snap.codes \ {x.code}
    /\ x.op = "setup" => ~x.new.enabled /\ x.new.codes = x.snap.codes
    /\ x.op = "enable" => /\ ~x.snap.enabled /\ x.new.enabled
                          /\ x.new.secret = x.snap.secret
    /\ x.op = "disable" => x.new = Off
    /\ x.op # "login" => x.code = NoCode

SignInInv == TypeOK /\ \A r \in Requests : Shape(req[r])

\* A request is made: x is what it read and will write.
Asked(r, x) ==
    /\ x \in Request /\ Shape(x) /\ x.snap = account
    /\ req' = [req EXCEPT ![r] = x] /\ asked' \in 0..MaxRequests
    /\ UNCHANGED <<account, token, scanned, proven, spent, stale>>

-----------------------------------------------------------------------------
LEMMA Numbers ==
    ASSUME NEW n \in Nat, NEW m \in 0..n, m < n
    PROVE  m + 1 \in 0..n /\ m + 1 \in 1..n
OBVIOUS

\* Reads makes such a request of what it is given.
LEMMA ReadsAsks ==
    ASSUME TypeOK, NEW r \in Requests, NEW op \in Ops, NEW new \in Account,
           NEW code \in Codes \cup {NoCode}, Reads(r, op, new, code),
           Shape([op |-> op, snap |-> account, new |-> new, tok |-> None, code |-> code])
    PROVE  Asked(r, [op |-> op, snap |-> account, new |-> new, tok |-> None, code |-> code])
<1> DEFINE x == [op |-> op, snap |-> account, new |-> new, tok |-> None, code |-> code]
<1>1. x \in Request
  BY DEF TypeOK, Request, NoCode
<1>2. asked' \in 0..MaxRequests
  BY Numbers, SignInAssumption DEF TypeOK, Reads, SignInAssumption
<1> QED
  BY <1>1, <1>2 DEF Asked, Reads

LEMMA LoginAsks ==
    ASSUME TypeOK, NEW r \in Requests, Login(r)
    PROVE  \E x : x.op = "login" /\ Asked(r, x) /\ UNCHANGED <<setups, sets>>
<1> DEFINE x(new, code) ==
       [op |-> "login", snap |-> account, new |-> new, tok |-> None, code |-> code]
<1>1. account \in Account
  BY DEF TypeOK
<1>2. CASE Reads(r, "login", account, NoCode)
  <2>1. Shape(x(account, NoCode))
    BY DEF Shape
  <2>2. Asked(r, x(account, NoCode))
    BY <1>1, <1>2, <2>1, ReadsAsks DEF Ops
  <2> QED
    BY <2>2 DEF Login
<1>3. ASSUME NEW c \in Codes, LoginBackup(r, c)
      PROVE  \E y : y.op = "login" /\ Asked(r, y) /\ UNCHANGED <<setups, sets>>
  <2> DEFINE new == [account EXCEPT !.codes = ConsumeBackupCode(c)]
  <2>1. /\ new.enabled = account.enabled /\ new.secret = account.secret
        /\ new.codes = account.codes \ {c} /\ new \in Account
    BY <1>1 DEF Account, ConsumeBackupCode
  <2>2. Reads(r, "login", new, c) /\ c \in account.codes
    BY <1>3 DEF LoginBackup
  <2> HIDE DEF new
  <2>3. Shape(x(new, c))
    BY <2>1, <2>2 DEF Shape
  <2>4. Asked(r, x(new, c))
    BY <2>1, <2>2, <2>3, ReadsAsks DEF Ops
  <2> QED
    BY <2>4 DEF Login
<1> QED
  BY <1>2, <1>3 DEF Login, LoginPassword, LoginTotp

LEMMA SetupAsks ==
    ASSUME TypeOK, NEW r \in Requests, Setup(r)
    PROVE  /\ \E x : x.op = "setup" /\ Asked(r, x)
           /\ setups' \in 0..MaxSecrets /\ UNCHANGED sets
<1> DEFINE new == [account EXCEPT !.secret = setups + 1]
           x == [op |-> "setup", snap |-> account, new |-> new, tok |-> None, code |-> NoCode]
<1>1. account \in Account /\ setups \in 0..MaxSecrets /\ setups < MaxSecrets
  BY DEF TypeOK, Setup
<1>2. setups + 1 \in 0..MaxSecrets /\ setups + 1 \in Secrets
  BY <1>1, Numbers, SignInAssumption DEF SignInAssumption, Secrets
<1>3. new.enabled = account.enabled /\ new.codes = account.codes /\ new \in Account
  BY <1>1, <1>2 DEF Account
<1>4. Reads(r, "setup", new, NoCode) /\ ~account.enabled
  BY DEF Setup
<1> HIDE DEF new
<1>5. Shape(x)
  BY <1>3, <1>4 DEF Shape
<1>6. Asked(r, x)
  BY <1>3, <1>4, <1>5, ReadsAsks DEF Ops
<1> QED
  BY <1>2, <1>6 DEF Setup

LEMMA EnableAsks ==
    ASSUME TypeOK, NEW r \in Requests, Enable(r)
    PROVE  /\ \E x : x.op = "enable" /\ x.new.codes = SetOf(sets + 1) /\ Asked(r, x)
           /\ sets' = sets + 1 /\ sets' \in 0..MaxSets /\ UNCHANGED setups
<1> DEFINE new == [account EXCEPT !.enabled = TRUE, !.codes = SetOf(sets + 1)]
           x == [op |-> "enable", snap |-> account, new |-> new, tok |-> None, code |-> NoCode]
<1>1. account \in Account /\ sets \in 0..MaxSets /\ sets < MaxSets
  BY DEF TypeOK, Enable
<1>2. sets + 1 \in 0..MaxSets /\ sets + 1 \in 1..MaxSets
  BY <1>1, Numbers, SignInAssumption DEF SignInAssumption
<1>3. SetOf(sets + 1) \in SUBSET Codes
  BY <1>2 DEF SetOf, Codes
<1>4. /\ new.enabled /\ new.secret = account.secret
      /\ new.codes = SetOf(sets + 1) /\ new \in Account
  BY <1>1, <1>3 DEF Account
<1>5. Reads(r, "enable", new, NoCode) /\ ~account.enabled
  BY DEF Enable
<1> HIDE DEF new
<1>6. Shape(x)
  BY <1>4, <1>5 DEF Shape
<1>7. Asked(r, x)
  BY <1>4, <1>5, <1>6, ReadsAsks DEF Ops
<1> QED
  BY <1>2, <1>4, <1>7 DEF Enable

LEMMA DisableAsks ==
    ASSUME TypeOK, NEW r \in Requests, Disable(r)
    PROVE  \E x : x.op = "disable" /\ Asked(r, x) /\ UNCHANGED <<setups, sets>>
<1> DEFINE x == [op |-> "disable", snap |-> account, new |-> Off, tok |-> None, code |-> NoCode]
<1>1. Off \in Account
  BY DEF Off, Account, Secrets
<1>2. Shape(x)
  BY DEF Shape
<1>3. Asked(r, x)
  BY <1>1, <1>2, ReadsAsks DEF Disable, Ops
<1> QED
  BY <1>3 DEF Disable

\* The row after a commit that was not written over a changed one.
LEMMA CleanCommit ==
    ASSUME TypeOK, NEW r \in Requests, CommitAccount(r), ~stale'
    PROVE  /\ account' = IF req[r].new = req[r].snap THEN account ELSE req[r].new
           /\ req[r].new = req[r].snap \/ req[r].snap = account
<1> DEFINE was == req[r].snap
           new == req[r].new
<1>1. req[r] \in Request /\ account \in Account
  BY DEF TypeOK
<1>2. was \in Account /\ new \in Account
  BY <1>1 DEF Request
<1>3. account' = [c \in DOMAIN account |-> IF new[c] = was[c] THEN account[c] ELSE new[c]]
  BY DEF CommitAccount, Flush
<1>4. new = was \/ account = was
  BY DEF CommitAccount
<1>5. DOMAIN account = {"enabled", "secret", "codes"} /\ DOMAIN new = {"enabled", "secret", "codes"}
  BY <1>1, <1>2 DEF Account
<1>6. CASE new = was
  <2>1. account' = [c \in DOMAIN account |-> account[c]]
    BY <1>3, <1>6
  <2>2. account' = account
    BY <2>1, <1>1 DEF Account
  <2> QED
    BY <2>2, <1>6
<1>7. CASE account = was /\ new # was
  <2>1. account' = [c \in DOMAIN new |-> new[c]]
    BY <1>3, <1>5, <1>7
  <2>2. account' = new
    BY <2>1, <1>2 DEF Account
  <2> QED
    BY <2>2, <1>7
<1> QED
  BY <1>4, <1>6, <1>7

LEMMA FlushType ==
    ASSUME NEW was \in Account, NEW new \in Account, account \in Account
    PROVE  Flush(was, new) \in Account
<1> DEFINE f == Flush(was, new)
<1>1. DOMAIN account = {"enabled", "secret", "codes"}
  BY DEF Account
<1>2. f = [c \in {"enabled", "secret", "codes"} |-> IF new[c] = was[c] THEN account[c] ELSE new[c]]
  BY <1>1 DEF Flush
<1>3. f = [enabled |-> f["enabled"], secret |-> f["secret"], codes |-> f["codes"]]
  BY <1>2
<1>4. f["enabled"] \in BOOLEAN /\ f["secret"] \in Secrets /\ f["codes"] \in SUBSET Codes
  BY <1>2 DEF Account
<1> QED
  BY <1>3, <1>4 DEF Account

LEMMA IdleFits == Idle \in Request /\ Shape(Idle)
<1>1. Off \in Account
  BY DEF Off, Account, Secrets
<1>2. Idle \in Request
  BY <1>1 DEF Idle, Request, NoCode
<1>3. Shape(Idle)
  BY DEF Shape, Idle
<1> QED
  BY <1>2, <1>3

\* A request of that kind keeps the types and the shapes.
LEMMA AskedInv ==
    ASSUME SignInInv, NEW r \in Requests, NEW x, Asked(r, x),
           setups' \in 0..MaxSecrets, sets' \in 0..MaxSets
    PROVE  SignInInv'
<1>1. \A s \in Requests : req'[s] = IF s = r THEN x ELSE req[s]
  BY DEF SignInInv, TypeOK, Asked
<1>2. req' \in [Requests -> Request] /\ \A s \in Requests : Shape(req'[s])
  BY <1>1 DEF SignInInv, TypeOK, Asked
<1>3. \A s \in Requests : Shape(req[s])'
  BY <1>2 DEF Shape
<1>4. TypeOK'
  BY <1>2 DEF SignInInv, TypeOK, Asked
<1> QED
  BY <1>3, <1>4 DEF SignInInv

\* A step that leaves the requests alone but for r, which is done with.
Done(r) == req' = [req EXCEPT ![r] = Idle]

LEMMA DoneInv ==
    ASSUME SignInInv, NEW r \in Requests, Done(r)
    PROVE  /\ req' \in [Requests -> Request] /\ \A s \in Requests : Shape(req[s])'
           /\ \A s \in Requests : req'[s] = IF s = r THEN Idle ELSE req[s]
<1>1. \A s \in Requests : req'[s] = IF s = r THEN Idle ELSE req[s]
  BY DEF SignInInv, TypeOK, Done
<1>2. req' \in [Requests -> Request] /\ \A s \in Requests : Shape(req'[s])
  BY <1>1, IdleFits DEF SignInInv, TypeOK, Done
<1> QED
  BY <1>1, <1>2 DEF Shape

LEMMA CommitAccountInv ==
    ASSUME SignInInv, NEW r \in Requests, CommitAccount(r)
    PROVE  SignInInv'
<1>1. req[r] \in Request /\ account \in Account
  BY DEF SignInInv, TypeOK
<1>2. req[r].snap \in Account /\ req[r].new \in Account /\ req[r].code \in Codes \cup {NoCode}
  BY <1>1 DEF Request, NoCode
<1>3. account' \in Account
  BY <1>1, <1>2, FlushType DEF CommitAccount
<1>4. scanned' \subseteq Secrets
  BY <1>2 DEF CommitAccount, SignInInv, TypeOK, Account
<1>5. proven' \in Secrets
  BY <1>2 DEF CommitAccount, SignInInv, TypeOK, Account
<1>6. spent' \in [Codes -> Nat]
  BY <1>2 DEF CommitAccount, SignInInv, TypeOK
<1>7. stale' \in BOOLEAN
  BY DEF CommitAccount, SignInInv, TypeOK
<1>8. Done(r)
  BY DEF CommitAccount, Done
<1>9. TypeOK'
  BY <1>3, <1>4, <1>5, <1>6, <1>7, <1>8, DoneInv DEF CommitAccount, SignInInv, TypeOK
<1> QED
  BY <1>8, <1>9, DoneInv DEF SignInInv

LEMMA TokenInv ==
    ASSUME SignInInv
    PROVE  /\ \A k \in Tokens : CreateToken(k) => SignInInv'
           /\ \A r \in Requests, k \in Tokens : UseToken(r, k) \/ RevokeToken(r, k) => SignInInv'
           /\ \A r \in Requests : CommitToken(r) \/ Fail(r) => SignInInv'
<1>1. ASSUME NEW k \in Tokens, CreateToken(k) PROVE SignInInv'
  <2>1. TypeOK'
    BY <1>1 DEF CreateToken, SignInInv, TypeOK
  <2>2. \A s \in Requests : Shape(req[s])'
    BY <1>1 DEF CreateToken, SignInInv, Shape
  <2> QED
    BY <2>1, <2>2 DEF SignInInv
<1>2. ASSUME NEW r \in Requests, NEW k \in Tokens, NEW op \in {"use", "revoke"},
             ReadsToken(r, op, k)
      PROVE  SignInInv'
  <2> DEFINE x == [Idle EXCEPT !.op = op, !.tok = k]
  <2>1. x = [op |-> op, snap |-> Off, new |-> Off, tok |-> k, code |-> NoCode]
    <3> DEFINE y == [Idle EXCEPT !.op = op]
    <3>1. y = [op |-> op, snap |-> Off, new |-> Off, tok |-> None, code |-> NoCode]
      BY DEF Idle
    <3>2. x = [y EXCEPT !.tok = k]
      OBVIOUS
    <3> HIDE DEF x, y
    <3> QED
      BY <3>1, <3>2
  <2>2. req' = [req EXCEPT ![r] = x]
    BY <1>2 DEF ReadsToken
  <2> HIDE DEF x
  <2>3. x \in Request /\ Shape(x)
    <3>1. Off \in Account
      BY DEF Off, Account, Secrets
    <3>2. x \in Request
      BY <2>1, <3>1 DEF Request, NoCode, Ops
    <3>3. Shape(x)
      BY <2>1 DEF Shape
    <3> QED
      BY <3>2, <3>3
  <2>4. \A s \in Requests : req'[s] = IF s = r THEN x ELSE req[s]
    BY <2>2 DEF SignInInv, TypeOK
  <2>5. req' \in [Requests -> Request] /\ \A s \in Requests : Shape(req'[s])
    BY <2>2, <2>3, <2>4 DEF SignInInv, TypeOK
  <2>6. \A s \in Requests : Shape(req[s])'
    BY <2>5 DEF Shape
  <2>7. asked' \in 0..MaxRequests
    BY <1>2, Numbers, SignInAssumption DEF SignInInv, TypeOK, ReadsToken, SignInAssumption
  <2>8. TypeOK'
    BY <1>2, <2>5, <2>7 DEF ReadsToken, SignInInv, TypeOK
  <2> QED
    BY <2>6, <2>8 DEF SignInInv
<1>3. ASSUME NEW r \in Requests, CommitToken(r) PROVE SignInInv'
  <2>1. Done(r)
    BY <1>3 DEF CommitToken, Done
  <2>2. token' \in [Tokens -> {"absent", "live", "revoked"}]
    BY <1>3 DEF CommitToken, SignInInv, TypeOK
  <2>3. TypeOK'
    BY <1>3, <2>1, <2>2, DoneInv DEF CommitToken, SignInInv, TypeOK
  <2> QED
    BY <2>1, <2>3, DoneInv DEF SignInInv
<1>4. ASSUME NEW r \in Requests, Fail(r) PROVE SignInInv'
  <2>1. Done(r)
    BY <1>4 DEF Fail, Done
  <2>2. TypeOK'
    BY <1>4, <2>1, DoneInv DEF Fail, SignInInv, TypeOK
  <2> QED
    BY <2>1, <2>2, DoneInv DEF SignInInv
<1> QED
  BY <1>1, <1>2, <1>3, <1>4 DEF UseToken, RevokeToken

LEMMA InitInv == Init => SignInInv
<1> SUFFICES ASSUME Init PROVE SignInInv
  OBVIOUS
<1>1. Off \in Account /\ None \in Secrets
  BY DEF Off, Account, Secrets
<1>2. TypeOK
  <2>1. req \in [Requests -> Request] /\ spent \in [Codes -> Nat]
    BY IdleFits DEF Init
  <2>2. 0 \in 0..MaxSecrets /\ 0 \in 0..MaxSets /\ 0 \in 0..MaxRequests
    BY SignInAssumption DEF SignInAssumption
  <2> QED
    BY <1>1, <2>1, <2>2 DEF Init, TypeOK
<1>3. \A r \in Requests : Shape(req[r])
  BY IdleFits DEF Init
<1> QED
  BY <1>2, <1>3 DEF SignInInv

LEMMA StutterInv == SignInInv /\ UNCHANGED vars => SignInInv'
<1> SUFFICES ASSUME SignInInv, UNCHANGED vars PROVE SignInInv'
  OBVIOUS
<1>1. TypeOK'
  BY DEF SignInInv, TypeOK, vars
<1>2. \A s \in Requests : Shape(req[s])'
  BY DEF SignInInv, Shape, vars
<1> QED
  BY <1>1, <1>2 DEF SignInInv

LEMMA NextInv == SignInInv /\ [Next]_vars => SignInInv'
<1> SUFFICES ASSUME SignInInv, [Next]_vars PROVE SignInInv'
  OBVIOUS
<1>0. TypeOK /\ sets \in 0..MaxSets /\ setups \in 0..MaxSecrets
  BY DEF SignInInv, TypeOK
<1>1. ASSUME NEW r \in Requests, Login(r) PROVE SignInInv'
  BY <1>0, <1>1, LoginAsks, AskedInv
<1>2. ASSUME NEW r \in Requests, Setup(r) PROVE SignInInv'
  BY <1>0, <1>2, SetupAsks, AskedInv
<1>3. ASSUME NEW r \in Requests, Enable(r) PROVE SignInInv'
  BY <1>0, <1>3, EnableAsks, AskedInv
<1>4. ASSUME NEW r \in Requests, Disable(r) PROVE SignInInv'
  BY <1>0, <1>4, DisableAsks, AskedInv
<1> QED
  BY <1>1, <1>2, <1>3, <1>4, CommitAccountInv, TokenInv, StutterInv DEF Next

\* The state keeps the shape the code gives it, and every request writes only
\* what it is for.
THEOREM TypeCorrect == Spec => []TypeOK
<1>1. Init => SignInInv
  BY InitInv
<1>2. SignInInv /\ [Next]_vars => SignInInv'
  BY NextInv
<1>3. SignInInv => TypeOK
  BY DEF SignInInv
<1> QED
  BY <1>1, <1>2, <1>3, PTL DEF Spec

-----------------------------------------------------------------------------
(***************************************************************************)
(* The secret asked for is the one proven.                                 *)
(***************************************************************************)
SecretInv == SignInInv /\ SecretIsProven

LEMMA CommitSecret ==
    ASSUME SecretInv, NEW r \in Requests, CommitAccount(r)
    PROVE  SecretIsProven'
<1> SUFFICES ASSUME ~stale', account'.enabled PROVE account'.secret = proven'
  BY DEF SecretIsProven
<1>1. TypeOK /\ Shape(req[r]) /\ SecretIsProven
  BY DEF SecretInv, SignInInv
<1>2. /\ account' = IF req[r].new = req[r].snap THEN account ELSE req[r].new
      /\ req[r].new = req[r].snap \/ req[r].snap = account
  BY <1>1, CleanCommit
<1>3. ~stale /\ (account.enabled => account.secret = proven)
  BY <1>1 DEF CommitAccount, SecretIsProven, TypeOK
<1>4. req[r].op \in {"login", "setup", "enable", "disable"}
  BY DEF CommitAccount
<1>5. CASE Is(r, "enable")
  <2>1. /\ req[r].new # req[r].snap /\ req[r].new.secret = req[r].snap.secret
    BY <1>1, <1>5 DEF Shape, Is
  <2> QED
    BY <1>2, <1>5, <2>1 DEF CommitAccount
<1>6. CASE ~Is(r, "enable")
  <2>1. proven' = proven
    BY <1>6 DEF CommitAccount
  <2>2. CASE req[r].new = req[r].snap
    BY <1>2, <1>3, <2>1, <2>2
  <2>3. CASE req[r].new # req[r].snap /\ Is(r, "login")
    BY <1>1, <1>2, <1>3, <2>1, <2>3 DEF Shape, Is
  <2>4. CASE req[r].new # req[r].snap /\ (Is(r, "setup") \/ Is(r, "disable"))
    BY <1>1, <1>2, <2>4 DEF Shape, Is, Off
  <2> QED
    BY <1>4, <1>6, <2>2, <2>3, <2>4 DEF Is
<1> QED
  BY <1>5, <1>6

LEMMA NextSecret == SecretInv /\ [Next]_vars => SecretInv'
<1> SUFFICES ASSUME SecretInv, [Next]_vars PROVE SecretInv'
  OBVIOUS
<1>0. SignInInv'
  BY NextInv DEF SecretInv
<1>1. TypeOK
  BY DEF SecretInv, SignInInv
<1>2. CASE UNCHANGED <<account, proven, stale>>
  BY <1>0, <1>2 DEF SecretInv, SecretIsProven
<1>3. ASSUME NEW r \in Requests, CommitAccount(r) PROVE SecretInv'
  BY <1>0, <1>3, CommitSecret DEF SecretInv
<1>4. ASSUME NEW r \in Requests, Login(r) \/ Setup(r) \/ Enable(r) \/ Disable(r)
      PROVE  UNCHANGED <<account, proven, stale>>
  BY <1>1, <1>4, LoginAsks, SetupAsks, EnableAsks, DisableAsks DEF Asked
<1>5. ASSUME NEW r \in Requests, CommitToken(r) \/ Fail(r)
      PROVE  UNCHANGED <<account, proven, stale>>
  BY <1>5 DEF CommitToken, Fail
<1>6. ASSUME NEW r \in Requests, NEW k \in Tokens, UseToken(r, k) \/ RevokeToken(r, k)
      PROVE  UNCHANGED <<account, proven, stale>>
  BY <1>6 DEF UseToken, RevokeToken, ReadsToken
<1>7. ASSUME NEW k \in Tokens, CreateToken(k) PROVE UNCHANGED <<account, proven, stale>>
  BY <1>7 DEF CreateToken
<1> QED
  BY <1>2, <1>3, <1>4, <1>5, <1>6, <1>7 DEF Next, vars

\* An account that asks for a second factor asks for codes of the secret its
\* user has proven to have (auth/service.py, setup_totp and enable_totp), in
\* every interleaving that writes no change over a row that had changed.
THEOREM SecretAlwaysProven == Spec => []SecretIsProven
<1>1. Init => SecretInv
  BY InitInv DEF SecretInv, SecretIsProven, Init, Off
<1>2. SecretInv /\ [Next]_vars => SecretInv'
  BY NextSecret
<1>3. SecretInv => SecretIsProven
  BY DEF SecretInv
<1> QED
  BY <1>1, <1>2, <1>3, PTL DEF Spec

\* A revoked personal token stays revoked (api_tokens.py, revoke and
\* authenticate): recording a use writes its column alone.
THEOREM RevocationLasts == Spec => RevokedStaysRevoked
<1>1. SignInInv /\ [Next]_vars =>
          [\A k \in Tokens : token[k] = "revoked" => token'[k] = "revoked"]_vars
  <2> SUFFICES ASSUME SignInInv, [Next]_vars, NEW k \in Tokens, token[k] = "revoked"
               PROVE  token'[k] = "revoked" \/ UNCHANGED vars
    OBVIOUS
  <2>0. TypeOK
    BY DEF SignInInv
  <2>1. CASE UNCHANGED token
    BY <2>1
  <2>2. ASSUME NEW r \in Requests, CommitToken(r) PROVE token'[k] = "revoked"
    <3>1. token \in [Tokens -> {"absent", "live", "revoked"}]
      BY <2>0 DEF TypeOK
    <3>2. token' = [token EXCEPT ![req[r].tok] =
                      IF Is(r, "revoke") THEN "revoked" ELSE token[req[r].tok]]
      BY <2>2 DEF CommitToken
    <3> QED
      BY <3>1, <3>2
  <2>3. ASSUME NEW l \in Tokens, CreateToken(l) PROVE token'[k] = "revoked"
    BY <2>0, <2>3 DEF CreateToken, TypeOK
  <2>4. ASSUME NEW r \in Requests, Login(r) \/ Setup(r) \/ Enable(r) \/ Disable(r)
        PROVE  UNCHANGED token
    BY <2>0, <2>4, LoginAsks, SetupAsks, EnableAsks, DisableAsks DEF Asked
  <2>5. ASSUME NEW r \in Requests, CommitAccount(r) \/ Fail(r) PROVE UNCHANGED token
    BY <2>5 DEF CommitAccount, Fail
  <2>6. ASSUME NEW r \in Requests, NEW l \in Tokens, UseToken(r, l) \/ RevokeToken(r, l)
        PROVE  UNCHANGED token
    BY <2>6 DEF UseToken, RevokeToken, ReadsToken
  <2> QED
    BY <2>1, <2>2, <2>3, <2>4, <2>5, <2>6 DEF Next, vars
<1>2. Init => SignInInv
  BY InitInv
<1>3. SignInInv /\ [Next]_vars => SignInInv'
  BY NextInv
<1> QED
  BY <1>1, <1>2, <1>3, PTL DEF Spec, RevokedStaysRevoked

-----------------------------------------------------------------------------
(***************************************************************************)
(* A backup code lets one login in.                                        *)
(***************************************************************************)
Made(cs) == \A c \in cs : c[1] <= sets
Unspent(cs) == \A c \in cs : spent[c] = 0
Apart(cs, ds) == \A c \in cs : c \notin ds

\* No code is made twice, in the row or by two enablings under way.
CodesMade ==
    /\ Made(account.codes)
    /\ \A r \in Requests : Made(req[r].snap.codes) /\ Made(req[r].new.codes)
    /\ \A c \in Codes : spent[c] # 0 => c[1] <= sets
    /\ \A r, s \in Requests : r # s /\ Is(r, "enable") /\ Is(s, "enable") =>
          Apart(req[r].new.codes, req[s].new.codes)

\* What is in the row, or about to be put there, has let nobody in.
CodesFresh ==
    ~stale =>
       /\ Unspent(account.codes) /\ \A c \in Codes : spent[c] <= 1
       /\ \A r \in Requests : Is(r, "enable") =>
             Unspent(req[r].new.codes) /\ Apart(req[r].new.codes, account.codes)

CodesInv == SignInInv /\ CodesMade /\ CodesFresh

\* Another request, which makes no codes.
LEMMA AskedCodes ==
    ASSUME CodesInv, NEW r \in Requests, NEW x, Asked(r, x), x.op # "enable",
           Made(x.new.codes), sets' = sets
    PROVE  CodesMade' /\ CodesFresh'
<1>1. \A s \in Requests : req'[s] = IF s = r THEN x ELSE req[s]
  BY DEF CodesInv, SignInInv, TypeOK, Asked
<1>2. CodesMade'
  BY <1>1 DEF CodesInv, CodesMade, Asked, Made, Is, Apart
<1>3. CodesFresh'
  BY <1>1 DEF CodesInv, CodesFresh, Asked, Is, Unspent, Apart
<1> QED
  BY <1>2, <1>3

\* An enabling makes codes nobody has.
LEMMA EnableCodes ==
    ASSUME CodesInv, NEW r \in Requests, Enable(r)
    PROVE  CodesMade' /\ CodesFresh'
<1> PICK x : x.op = "enable" /\ x.new.codes = SetOf(sets + 1) /\ Asked(r, x)
  BY EnableAsks DEF CodesInv, SignInInv
<1>1. sets' = sets + 1 /\ sets \in Nat
  BY EnableAsks, SignInAssumption DEF CodesInv, SignInInv, TypeOK, SignInAssumption
<1>2. \A s \in Requests : req'[s] = IF s = r THEN x ELSE req[s]
  BY DEF CodesInv, SignInInv, TypeOK, Asked
<1>3. \A c \in x.new.codes : c[1] = sets + 1
  BY DEF SetOf
<1>4. \A c \in Codes : c[1] \in Nat
  BY DEF Codes
<1>5. x.new.codes \subseteq Codes
  BY DEF Asked, Request, Account
<1>6. /\ account.codes \subseteq Codes
      /\ \A s \in Requests : req[s].snap.codes \subseteq Codes /\ req[s].new.codes \subseteq Codes
  BY DEF CodesInv, SignInInv, TypeOK, Request, Account
<1>7. ASSUME NEW cs \in SUBSET Codes, Made(cs)
      PROVE  (\A c \in cs : c[1] <= sets + 1) /\ Apart(x.new.codes, cs) /\ Apart(cs, x.new.codes)
  BY <1>1, <1>3, <1>4, <1>7 DEF Made, Apart
<1>8. Unspent(x.new.codes)
  BY <1>1, <1>3, <1>5 DEF CodesInv, CodesMade, Unspent
<1>9. CodesMade'
  <2>1. Made(account.codes)'
    BY <1>1, <1>6, <1>7 DEF CodesInv, CodesMade, Made, Asked
  <2>2. ASSUME NEW s \in Requests PROVE (Made(req[s].snap.codes) /\ Made(req[s].new.codes))'
    <3>1. CASE s = r
      <4>1. req'[s].snap.codes = account.codes /\ req'[s].new.codes = x.new.codes
        BY <1>2, <3>1 DEF Asked
      <4>2. \A c \in account.codes : c[1] <= sets'
        BY <1>1, <1>6, <1>7 DEF CodesInv, CodesMade
      <4>3. \A c \in x.new.codes : c[1] <= sets'
        BY <1>1, <1>3
      <4> QED
        BY <4>1, <4>2, <4>3 DEF Made
    <3>2. CASE s # r
      BY <1>1, <1>2, <1>6, <1>7, <3>2 DEF CodesInv, CodesMade, Made
    <3> QED
      BY <3>1, <3>2
  <2>3. (\A c \in Codes : spent[c] # 0 => c[1] <= sets)'
    BY <1>1, <1>4 DEF CodesInv, CodesMade, Asked
  <2>4. (\A q, s \in Requests : q # s /\ Is(q, "enable") /\ Is(s, "enable") =>
            Apart(req[q].new.codes, req[s].new.codes))'
    <3> SUFFICES ASSUME NEW q \in Requests, NEW s \in Requests, q # s,
                        Is(q, "enable")', Is(s, "enable")'
                 PROVE  Apart(req[q].new.codes, req[s].new.codes)'
      OBVIOUS
    <3>1. CASE q = r
      BY <1>2, <1>6, <1>7, <3>1 DEF CodesInv, CodesMade, Apart
    <3>2. CASE s = r
      BY <1>2, <1>6, <1>7, <3>2 DEF CodesInv, CodesMade, Apart
    <3>3. CASE q # r /\ s # r
      BY <1>2, <3>3 DEF CodesInv, CodesMade, Apart, Is
    <3> QED
      BY <3>1, <3>2, <3>3
  <2> QED
    BY <2>1, <2>2, <2>3, <2>4 DEF CodesMade
<1>10. CodesFresh'
  <2>1. Apart(x.new.codes, account.codes)
    BY <1>6, <1>7 DEF CodesInv, CodesMade
  <2> QED
    BY <1>2, <1>8, <2>1 DEF CodesInv, CodesFresh, Asked, Is, Unspent, Apart
<1> QED
  BY <1>9, <1>10

\* A request that is done with makes and spends no codes.
LEMMA DoneCodes ==
    ASSUME CodesInv, NEW r \in Requests, Done(r), UNCHANGED <<account, spent, stale, sets>>
    PROVE  CodesMade' /\ CodesFresh'
<1>1. \A s \in Requests : req'[s] = IF s = r THEN Idle ELSE req[s]
  BY DoneInv DEF CodesInv
<1>2. Idle.snap.codes = {} /\ Idle.new.codes = {} /\ Idle.op = "none"
  BY DEF Idle, Off
<1>3. CodesMade'
  BY <1>1, <1>2 DEF CodesInv, CodesMade, Made, Is, Apart
<1>4. CodesFresh'
  BY <1>1, <1>2 DEF CodesInv, CodesFresh, Is, Unspent, Apart
<1> QED
  BY <1>3, <1>4

LEMMA CommitCodes ==
    ASSUME CodesInv, NEW r \in Requests, CommitAccount(r)
    PROVE  CodesMade' /\ CodesFresh'
<1> DEFINE was == req[r].snap
           new == req[r].new
           code == req[r].code
<1>1. /\ TypeOK /\ Shape(req[r]) /\ req[r] \in Request
      /\ \A s \in Requests : req'[s] = IF s = r THEN Idle ELSE req[s]
  BY DoneInv DEF CommitAccount, Done, CodesInv, SignInInv, TypeOK
<1>2. Idle.snap.codes = {} /\ Idle.new.codes = {} /\ Idle.op = "none"
  BY DEF Idle, Off
<1>3. was \in Account /\ new \in Account /\ code \in Codes \cup {NoCode}
  BY <1>1 DEF Request, NoCode
<1>4. sets' = sets /\ spent \in [Codes -> Nat]
  BY <1>1 DEF CommitAccount, TypeOK
<1>5. \A c \in Codes : spent'[c] = IF code = c THEN spent[c] + 1 ELSE spent[c]
  <2>1. NoCode \notin Codes
    BY DEF NoCode, Codes
  <2> QED
    BY <1>3, <1>4, <2>1 DEF CommitAccount
<1>6. code # NoCode => /\ Is(r, "login") /\ code \in was.codes
                       /\ new.codes = was.codes \ {code}
  BY <1>1 DEF Shape, Is
<1>7. CodesMade'
  <2>1. account'.codes = IF new.codes = was.codes THEN account.codes ELSE new.codes
    BY <1>1 DEF CommitAccount, Flush, TypeOK, Account
  <2>2. Made(account.codes)'
    BY <1>4, <2>1 DEF CodesInv, CodesMade, Made
  <2>3. \A s \in Requests : (Made(req[s].snap.codes) /\ Made(req[s].new.codes))'
    BY <1>1, <1>2, <1>4 DEF CodesInv, CodesMade, Made
  <2>4. (\A c \in Codes : spent[c] # 0 => c[1] <= sets)'
    <3> SUFFICES ASSUME NEW c \in Codes, spent'[c] # 0 PROVE c[1] <= sets
      BY <1>4
    <3>1. CASE code = c
      <4>1. c # NoCode
        BY DEF NoCode, Codes
      <4> QED
        BY <1>6, <3>1, <4>1 DEF CodesInv, CodesMade, Made
    <3>2. CASE code # c
      BY <1>5, <3>2 DEF CodesInv, CodesMade
    <3> QED
      BY <3>1, <3>2
  <2>5. (\A q, s \in Requests : q # s /\ Is(q, "enable") /\ Is(s, "enable") =>
            Apart(req[q].new.codes, req[s].new.codes))'
    BY <1>1, <1>2 DEF CodesInv, CodesMade, Apart, Is
  <2> QED
    BY <2>2, <2>3, <2>4, <2>5 DEF CodesMade
<1>8. CodesFresh'
  <2> SUFFICES ASSUME ~stale'
               PROVE  /\ Unspent(account.codes)' /\ \A c \in Codes : spent'[c] <= 1
                      /\ \A s \in Requests : Is(s, "enable")' =>
                            (Unspent(req[s].new.codes) /\ Apart(req[s].new.codes, account.codes))'
    BY DEF CodesFresh
  <2>1. /\ account' = IF new = was THEN account ELSE new
        /\ new = was \/ was = account
    BY <1>1, CleanCommit
  <2>2. ~stale
    BY <1>1 DEF CommitAccount, TypeOK
  <2>3. /\ Unspent(account.codes) /\ \A c \in Codes : spent[c] <= 1
        /\ \A s \in Requests : Is(s, "enable") =>
              Unspent(req[s].new.codes) /\ Apart(req[s].new.codes, account.codes)
    BY <2>2 DEF CodesInv, CodesFresh
  <2>4. /\ account.codes \subseteq Codes
        /\ \A s \in Requests : req[s].new.codes \subseteq Codes
    BY <1>1 DEF TypeOK, Request, Account
  <2>5. ASSUME NEW s \in Requests, Is(s, "enable")'
        PROVE  s # r /\ Is(s, "enable") /\ req'[s] = req[s]
    BY <1>1, <1>2, <2>5 DEF Is
  <2>6. CASE code # NoCode
    <3>1. Is(r, "login") /\ code \in was.codes /\ new.codes = was.codes \ {code} /\ new # was
      BY <1>6, <2>6
    <3>2. account.codes = was.codes /\ account'.codes = account.codes \ {code} /\ code \in account.codes
      BY <2>1, <3>1
    <3>3. Unspent(account.codes)'
      BY <1>5, <2>3, <2>4, <3>2 DEF Unspent
    <3>4. \A c \in Codes : spent'[c] <= 1
      BY <1>4, <1>5, <2>3, <3>2 DEF Unspent
    <3>5. ASSUME NEW s \in Requests, Is(s, "enable")'
          PROVE  (Unspent(req[s].new.codes) /\ Apart(req[s].new.codes, account.codes))'
      <4>1. Unspent(req[s].new.codes) /\ Apart(req[s].new.codes, account.codes) /\ req'[s] = req[s]
        BY <2>3, <2>5, <3>5
      <4>2. code \notin req[s].new.codes
        BY <3>2, <4>1 DEF Apart
      <4> QED
        BY <1>5, <2>4, <3>2, <4>1, <4>2 DEF Unspent, Apart
    <3> QED
      BY <3>3, <3>4, <3>5
  <2>7. CASE code = NoCode
    <3>1. \A c \in Codes : spent'[c] = spent[c]
      <4>1. NoCode \notin Codes
        BY DEF NoCode, Codes
      <4> QED
        BY <1>5, <2>7, <4>1
    <3>2. \/ account'.codes = account.codes \/ account'.codes = {}
          \/ Is(r, "enable") /\ account'.codes = new.codes
      <4>1. req[r].op \in {"login", "setup", "enable", "disable"}
        BY DEF CommitAccount
      <4>2. Is(r, "login") \/ Is(r, "setup") => new.codes = was.codes
        <5>1. NoCode \notin was.codes
          BY <1>3 DEF Account, Codes, NoCode
        <5> QED
          BY <1>1, <2>7, <5>1 DEF Shape, Is
      <4>3. Is(r, "disable") => new.codes = {}
        BY <1>1 DEF Shape, Is, Off
      <4> QED
        BY <2>1, <4>1, <4>2, <4>3 DEF Is
    <3>3. Unspent(account'.codes)
      BY <2>3, <3>2 DEF Unspent
    <3>4. account'.codes \subseteq Codes
      BY <2>4, <3>2
    <3>5. Unspent(account.codes)'
      BY <3>1, <3>3, <3>4 DEF Unspent
    <3>6. ASSUME NEW s \in Requests, Is(s, "enable")'
          PROVE  (Unspent(req[s].new.codes) /\ Apart(req[s].new.codes, account.codes))'
      <4>1. /\ Unspent(req[s].new.codes) /\ Apart(req[s].new.codes, account.codes)
            /\ req'[s] = req[s] /\ s # r /\ Is(s, "enable")
        BY <2>3, <2>5, <3>6
      <4>2. Is(r, "enable") => Apart(req[s].new.codes, new.codes)
        BY <4>1 DEF CodesInv, CodesMade
      <4> QED
        BY <2>4, <3>1, <3>2, <4>1, <4>2 DEF Unspent, Apart
    <3> QED
      BY <2>3, <3>1, <3>5, <3>6
  <2> QED
    BY <2>6, <2>7
<1> QED
  BY <1>7, <1>8

LEMMA NextCodes == CodesInv /\ [Next]_vars => CodesInv'
<1> SUFFICES ASSUME CodesInv, [Next]_vars PROVE CodesMade' /\ CodesFresh'
  BY NextInv DEF CodesInv
<1>0. SignInInv /\ TypeOK
  BY DEF CodesInv, SignInInv
<1>1. CASE UNCHANGED <<account, req, spent, stale, sets>>
  BY <1>1 DEF CodesInv, CodesMade, CodesFresh, Made, Unspent, Apart, Is
<1>2. ASSUME NEW r \in Requests, Login(r) \/ Setup(r) \/ Disable(r)
      PROVE  CodesMade' /\ CodesFresh'
  <2>1. PICK x : x.op \in {"login", "setup", "disable"} /\ Asked(r, x) /\ UNCHANGED sets
    BY <1>0, <1>2, LoginAsks, SetupAsks, DisableAsks
  <2>2. x.new.codes \subseteq account.codes
    BY <2>1 DEF Asked, Shape, Off
  <2>3. Made(x.new.codes)
    BY <2>2 DEF CodesInv, CodesMade, Made
  <2> QED
    BY <2>1, <2>3, AskedCodes
<1>3. ASSUME NEW r \in Requests, NEW k \in Tokens, UseToken(r, k) \/ RevokeToken(r, k)
      PROVE  CodesMade' /\ CodesFresh'
  <2>1. PICK op \in {"use", "revoke"} : ReadsToken(r, op, k)
    BY <1>3 DEF UseToken, RevokeToken
  <2> DEFINE x == [Idle EXCEPT !.op = op, !.tok = k]
  <2>2. x.op = op /\ x.snap = Off /\ x.new = Off
    <3> DEFINE y == [Idle EXCEPT !.op = op]
    <3>1. y = [op |-> op, snap |-> Off, new |-> Off, tok |-> None, code |-> NoCode]
      BY DEF Idle
    <3>2. x = [y EXCEPT !.tok = k]
      OBVIOUS
    <3> HIDE DEF x, y
    <3> QED
      BY <3>1, <3>2
  <2>3. req' = [req EXCEPT ![r] = x] /\ UNCHANGED <<account, spent, stale, sets>>
    BY <2>1 DEF ReadsToken
  <2> HIDE DEF x
  <2>4. \A s \in Requests : req'[s] = IF s = r THEN x ELSE req[s]
    BY <1>0, <2>3 DEF TypeOK
  <2>5. Off.codes = {}
    BY DEF Off
  <2>6. CodesMade'
    BY <2>2, <2>3, <2>4, <2>5 DEF CodesInv, CodesMade, Made, Is, Apart
  <2>7. CodesFresh'
    BY <2>2, <2>3, <2>4 DEF CodesInv, CodesFresh, Is, Unspent, Apart
  <2> QED
    BY <2>6, <2>7
<1>4. ASSUME NEW r \in Requests, CommitToken(r) \/ Fail(r) PROVE CodesMade' /\ CodesFresh'
  BY <1>4, DoneCodes DEF CommitToken, Fail, Done
<1>5. ASSUME NEW k \in Tokens, CreateToken(k)
      PROVE  UNCHANGED <<account, req, spent, stale, sets>>
  BY <1>5 DEF CreateToken
<1> QED
  BY <1>1, <1>2, <1>3, <1>4, <1>5, EnableCodes, CommitCodes DEF Next, vars

\* "A spent backup code is consumed (removed) on success" (auth/service.py,
\* verify_totp_login): one login at most, whatever the interleaving of logins,
\* enablings and disablings that writes no change over a row that had changed.
THEOREM CodesSpentOnce == Spec => []CodesOnceUnlessStale
<1>1. Init => CodesInv
  <2> SUFFICES ASSUME Init PROVE CodesInv
    OBVIOUS
  <2>1. CodesMade
    BY DEF Init, CodesMade, Made, Is, Apart, Idle, Off
  <2>2. CodesFresh
    BY DEF Init, CodesFresh, Unspent, Is, Idle, Off
  <2> QED
    BY <2>1, <2>2, InitInv DEF CodesInv
<1>2. CodesInv /\ [Next]_vars => CodesInv'
  BY NextCodes
<1>3. CodesInv => CodesOnceUnlessStale
  BY DEF CodesInv, CodesFresh, CodesOnceUnlessStale, CodesOnce, SignInInv, TypeOK
<1> QED
  BY <1>1, <1>2, <1>3, PTL DEF Spec

-----------------------------------------------------------------------------
\* The least of some numbers: the least-number principle needs no operator.
LEMMA LeastOf ==
    ASSUME NEW S, S \subseteq Nat, S # {}
    PROVE  Min(S) \in S /\ \A x \in S : Min(S) <= x
<1>1. \E x \in S : \A y \in S : ~ (<<y, x>> \in OpToRel(<, Nat))
  BY NatLessThanWellFounded, WFMin
<1>2. \A x, y \in S : ~ (<<y, x>> \in OpToRel(<, Nat)) => x <= y
  BY DEF OpToRel
<1>. QED  BY <1>1, <1>2 DEF Min

\* Every step leaves alone what it is not about.
LEMMA OnePart ==
    ASSUME AppStateNext
    PROVE  /\ part' = part
           /\ \/ part = "listings" /\ ListingsStep /\ UNCHANGED <<now, oidcVars, bucket, admitted, platformVars>>
              \/ part = "oidc" /\ OidcStep /\ UNCHANGED <<now, listingVars, bucket, admitted, platformVars>>
              \/ part = "limiter" /\ CheckLimit /\ UNCHANGED platformVars
              \/ part # "platform" /\ Tick /\ UNCHANGED platformVars
              \/ part = "platform" /\ PlatformStep /\ UNCHANGED memory
<1>1. ListingsStep => now' = now
  BY DEF ListingsStep, ReadListing, SendWrite, Looked, Stored, NeedsInner, LookedInner, StoredBoth,
         Acted, Answered, Raised
<1>2. OidcStep => now' = now
  BY DEF OidcStep, Withdraw, Launch, Authorize, Recheck, Restart, IssueCode, Mismatch, ExchangeCode
<1>. QED  BY <1>1, <1>2 DEF AppStateNext

-----------------------------------------------------------------------------
(***************************************************************************)
(* The rate limiter.  The bucket is the end of what was let in, and what   *)
(* came before it is out of the window.                                    *)
(***************************************************************************)
LimiterInv ==
    /\ now \in Nat /\ bucket \in Seq(Nat) /\ admitted \in Seq(Nat)
    /\ Len(bucket) <= Len(admitted)
    /\ \A i \in 1..Len(bucket) : bucket[i] = admitted[Len(admitted) - Len(bucket) + i]
    /\ \A i \in 1..(Len(admitted) - Len(bucket)) : admitted[i] + Window <= now
    /\ WithinLimit

LEMMA KeptIsTheEnd ==
    ASSUME NEW b \in Seq(Nat), NEW t \in Nat
    PROVE  /\ Kept(b, t) \in Seq(Nat) /\ Len(Kept(b, t)) <= Len(b)
           /\ \A i \in 1..Len(Kept(b, t)) : Kept(b, t)[i] = b[Len(b) - Len(Kept(b, t)) + i]
           /\ \A i \in 1..(Len(b) - Len(Kept(b, t))) : b[i] + Window <= t
<1>. DEFINE in == {i \in 1..Len(b) + 1 : i <= Len(b) => b[i] + Window > t}
            f == FirstKept(b, t)
<1>1. Len(b) \in Nat /\ Len(b) + 1 \in in /\ in \subseteq Nat
  OBVIOUS
<1>2. f \in in /\ \A i \in in : f <= i
  BY <1>1, LeastOf DEF FirstKept
<1>3. f \in 1..Len(b) + 1 /\ \A i \in 1..Len(b) : i < f => b[i] + Window <= t
  <2>1. \A i \in 1..Len(b) : b[i] \in Nat /\ Window \in Nat
    BY RateLimiterAssumption DEF RateLimiterAssumption
  <2>. QED  BY <1>1, <1>2, <2>1
<1>. HIDE DEF in, f
<1>4. Kept(b, t) = SubSeq(b, f, Len(b))
  BY DEF Kept, f
<1>5. /\ Kept(b, t) \in Seq(Nat) /\ Len(Kept(b, t)) = Len(b) + 1 - f
      /\ \A i \in 1..(Len(b) + 1 - f) : Kept(b, t)[i] = b[f + i - 1]
  BY <1>1, <1>3, <1>4
<1>. QED  BY <1>1, <1>3, <1>5

LEMMA CheckKeeps ==
    ASSUME LimiterInv, CheckLimit
    PROVE  LimiterInv'
<1>. DEFINE k == Kept(bucket, now)
            n == Len(admitted)
<1>1. /\ now \in Nat /\ bucket \in Seq(Nat) /\ admitted \in Seq(Nat) /\ n \in Nat
      /\ Limit \in Nat \ {0} /\ Window \in Nat /\ now' = now
  BY RateLimiterAssumption DEF LimiterInv, CheckLimit, RateLimiterAssumption
<1>2. /\ k \in Seq(Nat) /\ Len(k) \in Nat /\ Len(k) <= Len(bucket)
      /\ \A i \in 1..Len(k) : k[i] = bucket[Len(bucket) - Len(k) + i]
      /\ \A i \in 1..(Len(bucket) - Len(k)) : bucket[i] + Window <= now
  BY <1>1, KeptIsTheEnd
<1>. HIDE DEF k
<1>3. /\ Len(k) <= n
      /\ \A i \in 1..Len(k) : k[i] = admitted[n - Len(k) + i]
  BY <1>1, <1>2 DEF LimiterInv
<1>4. \A i \in 1..(n - Len(k)) : admitted[i] + Window <= now
  <2>. SUFFICES ASSUME NEW i \in 1..(n - Len(k)) PROVE admitted[i] + Window <= now
    OBVIOUS
  <2>1. CASE i <= n - Len(bucket)
    BY <1>1, <1>2, <2>1 DEF LimiterInv
  <2>2. CASE i > n - Len(bucket)
    <3>1. Len(bucket) \in Nat /\ i - (n - Len(bucket)) \in 1..(Len(bucket) - Len(k))
      BY <1>1, <1>2, <2>2
    <3>2. bucket[i - (n - Len(bucket))] = admitted[i]
      BY <1>1, <1>2, <3>1 DEF LimiterInv
    <3>. QED  BY <1>2, <3>1, <3>2
  <2>. QED  BY <1>1, <1>2, <2>1, <2>2
<1>5. CASE ~ Allowed(bucket, now)
  <2>1. bucket' = k /\ admitted' = admitted
    BY <1>5 DEF CheckLimit, Check, k
  <2>. QED  BY <1>1, <1>2, <1>3, <1>4, <2>1 DEF LimiterInv, WithinLimit
<1>6. CASE Allowed(bucket, now)
  <2>1. /\ bucket' = Append(k, now) /\ admitted' = Append(admitted, now)
        /\ Len(k) < Limit
    BY <1>6 DEF CheckLimit, Check, Allowed, k
  <2>2. /\ bucket' \in Seq(Nat) /\ Len(bucket') = Len(k) + 1
        /\ \A i \in 1..Len(k) : bucket'[i] = k[i]
        /\ bucket'[Len(k) + 1] = now
    BY <1>1, <1>2, <2>1
  <2>3. /\ admitted' \in Seq(Nat) /\ Len(admitted') = n + 1
        /\ \A i \in 1..n : admitted'[i] = admitted[i]
        /\ admitted'[n + 1] = now
    BY <1>1, <2>1
  <2>4. \A i \in 1..Len(bucket') : bucket'[i] = admitted'[Len(admitted') - Len(bucket') + i]
    <3>1. Len(admitted') - Len(bucket') = n - Len(k)
      BY <1>1, <1>2, <2>2, <2>3
    <3>. SUFFICES ASSUME NEW i \in 1..(Len(k) + 1) PROVE bucket'[i] = admitted'[n - Len(k) + i]
      BY <2>2, <3>1
    <3>2. CASE i = Len(k) + 1
      BY <1>1, <1>2, <2>2, <2>3, <3>2
    <3>3. CASE i # Len(k) + 1
      <4>1. i \in 1..Len(k) /\ n - Len(k) + i \in 1..n
        BY <1>1, <1>2, <1>3, <3>3
      <4>. QED  BY <1>3, <2>2, <2>3, <4>1
    <3>. QED  BY <3>2, <3>3
  <2>5. WithinLimit'
    <3>. SUFFICES ASSUME NEW i \in 1..(n + 1), i + Limit \in 1..(n + 1)
                  PROVE  admitted'[i + Limit] - admitted'[i] >= Window
      BY <2>3 DEF WithinLimit
    <3>1. CASE i + Limit = n + 1
      <4>1. i \in 1..(n - Len(k)) /\ i \in 1..n
        BY <1>1, <1>2, <2>1, <3>1
      <4>2. admitted[i] \in Nat /\ admitted[i] + Window <= now
        BY <1>1, <1>4, <4>1
      <4>3. admitted'[i] = admitted[i] /\ admitted'[i + Limit] = now
        BY <2>3, <3>1, <4>1
      <4>. QED  BY <1>1, <4>2, <4>3
    <3>2. CASE i + Limit # n + 1
      <4>1. i \in 1..n /\ i + Limit \in 1..n
        BY <1>1, <3>2
      <4>2. admitted'[i] = admitted[i] /\ admitted'[i + Limit] = admitted[i + Limit]
        BY <2>3, <4>1
      <4>3. admitted[i + Limit] - admitted[i] >= Window
        <5>1. WithinLimit /\ DOMAIN admitted = 1..n
          BY <1>1 DEF LimiterInv
        <5>. QED  BY <4>1, <5>1 DEF WithinLimit
      <4>. QED  BY <4>2, <4>3
    <3>. QED  BY <3>1, <3>2
  <2>6. \A i \in 1..(Len(admitted') - Len(bucket')) : admitted'[i] + Window <= now'
    <3>1. Len(admitted') - Len(bucket') = n - Len(k)
      BY <1>1, <1>2, <2>2, <2>3
    <3>2. \A i \in 1..(n - Len(k)) : i \in 1..n
      BY <1>1, <1>2
    <3>. QED  BY <1>1, <1>4, <2>3, <3>1, <3>2
  <2>7. Len(bucket') <= Len(admitted')
    BY <1>1, <1>2, <1>3, <2>2, <2>3
  <2>. QED  BY <1>1, <2>2, <2>3, <2>4, <2>5, <2>6, <2>7 DEF LimiterInv
<1>. QED  BY <1>5, <1>6

LEMMA LimiterKeeps ==
    ASSUME LimiterInv, [AppStateNext]_appStateVars
    PROVE  LimiterInv'
<1>1. CASE CheckLimit
  BY <1>1, CheckKeeps
<1>2. CASE Tick
  <2>1. /\ now' = now + 1 /\ UNCHANGED <<bucket, admitted>>
        /\ Window \in Nat /\ now \in Nat /\ admitted \in Seq(Nat)
    BY <1>2, RateLimiterAssumption DEF Tick, LimiterInv, RateLimiterAssumption
  <2>2. \A i \in 1..Len(admitted) : admitted[i] \in Nat
    BY <2>1
  <2>3. Len(admitted) - Len(bucket) <= Len(admitted)
    BY DEF LimiterInv
  <2>. QED  BY <2>1, <2>2, <2>3 DEF LimiterInv, WithinLimit
<1>3. CASE UNCHANGED <<now, bucket, admitted>>
  BY <1>3 DEF LimiterInv, WithinLimit
<1>. QED  BY <1>1, <1>2, <1>3, OnePart DEF appStateVars, memory

\* However calls come, and however many are refused, no window lets in more of
\* them than the limit: what is popped from the bucket is out of the window.
THEOREM LimitIsKept == AppStateSpec => []WithinLimit
<1>1. AppStateInit => LimiterInv
  BY DEF AppStateInit, CacheInit, LimiterInv, WithinLimit
<1>2. LimiterInv => WithinLimit
  BY DEF LimiterInv
<1>. QED  BY <1>1, <1>2, LimiterKeeps, PTL DEF AppStateSpec
-----------------------------------------------------------------------------
(***************************************************************************)
(* The webmail sign-in.  Whoever is vouched for was checked a request's    *)
(* time before the code was made; each entry runs out in its own time.     *)
(***************************************************************************)
Strings == LoginCodes \cup AccessTokens

\* How long after it was lost a mailbox may be in the entry of a code, a token.
Lasts(k) == AuthorizeTime + CodeTTL + (IF k \in AccessTokens THEN TokenTTL ELSE 0)

AuthInv ==
    auth = NoAuth \/ /\ auth \in [mailbox : Mailboxes, at : 0..now, checked : BOOLEAN]
                     /\ now <= auth.at + AuthorizeTime
                     /\ auth.checked => auth.mailbox \in owned \/ lostAt[auth.mailbox] >= auth.at

EntryInv(k) ==
    /\ cache[k].exp \in Nat /\ cache[k].val \subseteq Mailboxes
    /\ \A m \in cache[k].val :
          /\ cache[k].exp <= now + (IF k \in AccessTokens THEN TokenTTL ELSE CodeTTL)
          /\ m \notin owned => cache[k].exp <= lostAt[m] + Lasts(k)

OidcInv ==
    /\ now \in Nat /\ DOMAIN cache = Keys
    /\ owned \subseteq Mailboxes /\ lostAt \in [Mailboxes -> 0..now]
    /\ cookie \in Mailboxes \cup {NoMailbox}
    /\ AuthInv
    /\ \A k \in Strings : EntryInv(k)

LEMMA OidcFacts ==
    /\ Strings \subseteq Keys /\ LoginCodes \cap AccessTokens = {}
    /\ CodeTTL \in Nat /\ TokenTTL \in Nat /\ AuthorizeTime \in Nat
    /\ NoMailbox \notin Mailboxes
    /\ \A k \in LoginCodes : Lasts(k) = AuthorizeTime + CodeTTL
    /\ \A k \in AccessTokens : Lasts(k) = AuthorizeTime + CodeTTL + TokenTTL
    /\ \A k : Lasts(k) \in Nat
  BY AppStateAssumption, OidcAssumption
     DEF AppStateAssumption, OidcAssumption, Strings, Lasts

LEMMA WithdrawKeeps ==
    ASSUME OidcInv, NEW m \in Mailboxes, Withdraw(m)
    PROVE  OidcInv'
<1>. USE OidcFacts
<1>1. /\ m \in owned /\ owned' = owned \ {m} /\ lostAt' = [lostAt EXCEPT ![m] = now]
      /\ UNCHANGED <<now, cache, cookie, auth>> /\ now \in Nat
  BY DEF Withdraw, OidcInv
<1>2. /\ lostAt' \in [Mailboxes -> 0..now] /\ lostAt'[m] = now
      /\ \A x \in Mailboxes \ {m} : lostAt'[x] = lostAt[x]
  BY <1>1 DEF OidcInv
<1>3. AuthInv'
  <2>1. CASE auth = NoAuth
    BY <1>1, <2>1 DEF AuthInv
  <2>2. CASE auth # NoAuth
    BY <1>1, <1>2, <2>2 DEF AuthInv, OidcInv
  <2>. QED  BY <2>1, <2>2
<1>4. ASSUME NEW k \in Strings PROVE EntryInv(k)'
  <2>1. EntryInv(k)
    BY DEF OidcInv
  <2>2. /\ cache'[k].exp \in Nat /\ cache'[k].val \subseteq Mailboxes
        /\ now' + (IF k \in AccessTokens THEN TokenTTL ELSE CodeTTL) <= now + Lasts(k)
    BY <1>1, <2>1 DEF EntryInv, Strings
  <2>. QED  BY <1>1, <1>2, <2>1, <2>2 DEF EntryInv
<1>. QED  BY <1>1, <1>2, <1>3, <1>4 DEF OidcInv

\* A request to authorize comes, is checked, or ends without a code.
LEMMA AuthorizeKeeps ==
    ASSUME OidcInv, Authorize \/ Recheck \/ \E m \in Mailboxes : Launch(m)
    PROVE  OidcInv'
<1>. USE OidcFacts
<1>1. UNCHANGED <<now, cache, owned, lostAt>> /\ cookie' \in Mailboxes \cup {NoMailbox}
  BY DEF Authorize, Recheck, Launch, OidcInv
<1>2. \A k \in Strings : EntryInv(k)'
  BY <1>1 DEF OidcInv, EntryInv
<1>3. AuthInv'
  <2>1. CASE Authorize
    <3>1. /\ cookie \in Mailboxes /\ now \in Nat
          /\ auth' = [mailbox |-> cookie, at |-> now, checked |-> FALSE]
      BY <2>1 DEF Authorize, OidcInv
    <3>. QED  BY <1>1, <3>1 DEF AuthInv
  <2>2. CASE Recheck
    <3>1. /\ auth \in [mailbox : Mailboxes, at : 0..now, checked : BOOLEAN]
          /\ now <= auth.at + AuthorizeTime
      BY <2>2 DEF Recheck, OidcInv, AuthInv, NoAuth
    <3>2. CASE auth.mailbox \in owned
      <4>1. auth' = [mailbox |-> auth.mailbox, at |-> auth.at, checked |-> TRUE]
        BY <2>2, <3>1, <3>2 DEF Recheck
      <4>. QED  BY <1>1, <3>1, <3>2, <4>1 DEF AuthInv
    <3>3. CASE auth.mailbox \notin owned
      BY <2>2, <3>3 DEF Recheck, AuthInv, NoAuth
    <3>. QED  BY <3>2, <3>3
  <2>3. CASE \E m \in Mailboxes : Launch(m)
    BY <1>1, <2>3 DEF Launch, OidcInv, AuthInv
  <2>. QED  BY <2>1, <2>2, <2>3
<1>. QED  BY <1>1, <1>2, <1>3 DEF OidcInv

LEMMA IssueKeeps ==
    ASSUME OidcInv, NEW c \in LoginCodes, IssueCode(c)
    PROVE  OidcInv'
<1>. USE OidcFacts
<1>1. /\ auth # NoAuth /\ auth \in [mailbox : Mailboxes, at : 0..now, checked : BOOLEAN]
      /\ auth.checked /\ now <= auth.at + AuthorizeTime /\ now \in Nat
      /\ auth.mailbox \in owned \/ lostAt[auth.mailbox] >= auth.at
  BY DEF IssueCode, OidcInv, AuthInv, NoAuth
<1>2. /\ cache' = [cache EXCEPT ![c] = [val |-> {auth.mailbox}, exp |-> now + CodeTTL]]
      /\ auth' = NoAuth /\ cookie' \in Mailboxes \cup {NoMailbox}
      /\ UNCHANGED <<now, owned, lostAt>>
  BY DEF IssueCode, Set, OidcInv
<1>3. /\ DOMAIN cache' = Keys /\ cache'[c] = [val |-> {auth.mailbox}, exp |-> now + CodeTTL]
      /\ \A k \in Keys \ {c} : cache'[k] = cache[k]
  BY <1>2 DEF OidcInv, Strings
<1>4. EntryInv(c)'
  <2>1. auth.mailbox \notin owned => now + CodeTTL <= lostAt[auth.mailbox] + Lasts(c)
    BY <1>1 DEF OidcInv
  <2>2. c \notin AccessTokens /\ now + CodeTTL \in Nat /\ auth.mailbox \in Mailboxes
    BY <1>1
  <2>. QED  BY <1>2, <1>3, <2>1, <2>2 DEF EntryInv
<1>5. ASSUME NEW k \in Strings, k # c PROVE EntryInv(k)'
  BY <1>2, <1>3, <1>5 DEF OidcInv, EntryInv
<1>6. AuthInv'
  BY <1>2 DEF AuthInv, NoAuth
<1>. QED  BY <1>2, <1>3, <1>4, <1>5, <1>6 DEF OidcInv

LEMMA ExchangeKeeps ==
    ASSUME OidcInv, NEW c \in LoginCodes, NEW t \in AccessTokens, ExchangeCode(c, t)
    PROVE  OidcInv'
<1>. USE OidcFacts
<1>1. /\ cache[c].exp > now /\ c # t /\ now \in Nat
      /\ cache' = [[cache EXCEPT ![t] = [val |-> cache[c].val, exp |-> now + TokenTTL]]
                     EXCEPT ![c] = NoEntry]
      /\ UNCHANGED <<now, owned, lostAt, cookie, auth>>
  BY DEF ExchangeCode, Live, Set, OidcInv
<1>2. /\ DOMAIN cache' = Keys
      /\ cache'[t] = [val |-> cache[c].val, exp |-> now + TokenTTL] /\ cache'[c] = NoEntry
      /\ \A k \in Keys \ {c, t} : cache'[k] = cache[k]
  BY <1>1 DEF OidcInv, Strings
<1>3. EntryInv(c) /\ c \in Strings /\ t \in Strings
  BY DEF OidcInv, Strings
<1>4. EntryInv(t)'
  <2>1. ASSUME NEW m \in cache[c].val, m \notin owned
        PROVE  now + TokenTTL <= lostAt[m] + Lasts(t)
    <3>1. cache[c].exp \in Nat /\ cache[c].exp <= lostAt[m] + Lasts(c)
      BY <1>3, <2>1 DEF EntryInv
    <3>2. lostAt[m] \in Nat
      BY <1>1, <1>3, <2>1 DEF EntryInv, OidcInv
    <3>3. Lasts(c) = AuthorizeTime + CodeTTL /\ Lasts(t) = AuthorizeTime + CodeTTL + TokenTTL
      OBVIOUS
    <3>. QED  BY <1>1, <3>1, <3>2, <3>3
  <2>2. now + TokenTTL \in Nat /\ cache[c].val \subseteq Mailboxes
    BY <1>1, <1>3 DEF EntryInv
  <2>3. cache'[t].exp = now + TokenTTL /\ cache'[t].val = cache[c].val
    BY <1>2
  <2>4. now' = now /\ owned' = owned /\ lostAt' = lostAt
    BY <1>1
  <2>5. now + TokenTTL <= now + TokenTTL
    BY <2>2
  <2>. QED  BY ONLY <2>1, <2>2, <2>3, <2>4, <2>5, t \in AccessTokens DEF EntryInv
<1>5. EntryInv(c)'
  BY <1>2 DEF EntryInv, NoEntry
<1>6. ASSUME NEW k \in Strings, k # c, k # t PROVE EntryInv(k)'
  BY <1>1, <1>2, <1>6 DEF OidcInv, EntryInv
<1>7. AuthInv'
  BY <1>1 DEF AuthInv, OidcInv
<1>. QED  BY <1>1, <1>2, <1>4, <1>5, <1>6, <1>7 DEF OidcInv

\* Entries are dropped.
LEMMA DropKeeps ==
    ASSUME OidcInv, DOMAIN cache' = Keys,
           \A k \in Strings : cache'[k] = cache[k] \/ cache'[k] = NoEntry,
           UNCHANGED <<now, owned, lostAt, cookie>>, auth' = auth \/ auth' = NoAuth
    PROVE  OidcInv'
<1>1. AuthInv'
  BY DEF AuthInv, OidcInv
<1>2. \A k \in Strings : EntryInv(k)'
  <2>. SUFFICES ASSUME NEW k \in Strings PROVE EntryInv(k)'
    OBVIOUS
  <2>1. CASE cache'[k] = cache[k]
    BY <2>1 DEF EntryInv, OidcInv
  <2>2. CASE cache'[k] = NoEntry
    BY <2>2 DEF EntryInv, NoEntry
  <2>. QED  BY <2>1, <2>2
<1>. QED  BY <1>1, <1>2 DEF OidcInv

LEMMA OidcStepKeeps ==
    ASSUME OidcInv, OidcStep
    PROVE  OidcInv'
<1>1. CASE Restart
  <2>1. \A k \in Strings : cache'[k] = NoEntry
    BY <1>1, OidcFacts DEF Restart
  <2>. QED  BY <1>1, <2>1, DropKeeps DEF Restart
<1>2. ASSUME NEW c \in LoginCodes, Mismatch(c) PROVE OidcInv'
  <2>1. \A k \in Strings : cache'[k] = cache[k] \/ cache'[k] = NoEntry
    BY <1>2, OidcFacts DEF Mismatch, Delete
  <2>. QED  BY <1>2, <2>1, DropKeeps DEF Mismatch, Delete
<1>. QED  BY <1>1, <1>2, WithdrawKeeps, AuthorizeKeeps, IssueKeeps, ExchangeKeeps DEF OidcStep

LEMMA OidcTickKeeps ==
    ASSUME OidcInv, Tick
    PROVE  OidcInv'
<1>. USE OidcFacts
<1>1. /\ now \in Nat /\ now' = now + 1 /\ AuthorizeInTime
      /\ UNCHANGED <<cache, owned, lostAt, cookie, auth>>
  BY DEF Tick, oidcVars, OidcInv
<1>2. AuthInv'
  BY <1>1 DEF AuthInv, AuthorizeInTime, OidcInv
<1>3. \A k \in Strings : EntryInv(k)'
  BY <1>1 DEF EntryInv, OidcInv
<1>4. lostAt' \in [Mailboxes -> 0..now']
  BY <1>1 DEF OidcInv
<1>. QED  BY <1>1, <1>2, <1>3, <1>4 DEF OidcInv

\* What is vouched for is lost no longer than that.
LEMMA OidcInvImplies == ASSUME OidcInv PROVE AccessEnds
<1>. USE OidcFacts
<1>. SUFFICES ASSUME NEW m \in Mailboxes, NEW t \in AccessTokens, cache[t].exp > now,
                     m \in cache[t].val, m \notin owned
              PROVE  now < lostAt[m] + AuthorizeTime + CodeTTL + TokenTTL
  BY DEF AccessEnds, Vouched, Live
<1>1. EntryInv(t)
  BY DEF OidcInv, Strings
<1>2. cache[t].exp \in Nat /\ cache[t].exp <= lostAt[m] + Lasts(t) /\ lostAt[m] \in Nat /\ now \in Nat
  BY <1>1 DEF EntryInv, OidcInv
<1>. QED  BY <1>2

-----------------------------------------------------------------------------
(***************************************************************************)
(* Listings.  What a call has looked at, and what it stored, is from after *)
(* it was sent, and no write that was answered is missing from it unless   *)
(* it met the call.                                                        *)
(***************************************************************************)
Looks == [source : ListingKeys, version : Nat, at : Nat, raced : BOOLEAN]
Outcomes == [source : ListingKeys, version : Nat]
Reading == {"read", "inner", "innerread"}
Call == [stage : {"idle", "sent", "write", "acted"} \cup Reading,
         key : ListingKeys \cup {"none"}, seen : SUBSET (Looks \cup Outcomes), sent : Nat,
         changes : SUBSET ListingKeys, clears : SUBSET ListingKeys]

Fresh(e) == /\ e \in Looks /\ e.at <= now
            /\ e.version >= known[e.source] \/ e.raced

\* A call c.  The listing is looked at after it was sent, or, if the names of
\* the projects were then asked for, a call's time before that.
ReadOk(c) ==
    \A e \in c.seen :
       /\ Fresh(e)
       /\ IF e.source = c.key
          THEN c.sent <= e.at + (IF c.stage = "read" THEN 0 ELSE Latency)
          ELSE e.source \in Inner(c.key) /\ c.stage = "innerread" /\ c.sent <= e.at

MadeOk(c) ==
    \A e \in c.seen : /\ e \in Outcomes /\ e.source \in c.changes /\ e.version <= world[e.source]
                      /\ \A f \in c.seen : f.source = e.source => f = e

CallOk(c) ==
    /\ c.stage # "idle" => c.sent <= now /\ now <= c.sent + Latency
    /\ c.stage \in {"sent"} \cup Reading => c.key \in client
    /\ c.stage \in {"inner", "innerread"} => Inner(c.key) # {}
    /\ c.stage \in Reading => ReadOk(c)
    /\ c.stage \in {"write", "acted"} => Write(c.changes, c.clears) \in Writes
    /\ c.stage = "acted" => MadeOk(c)

\* An entry x of the listing k.
EntryOk(k, x) ==
    /\ x.exp \in Nat
    /\ \A e \in x.val : /\ Fresh(e) /\ e.source \in {k} \cup Inner(k)
                        /\ x.exp <= e.at + (TTLOf(k) + Slack(k, e.source))

ListingsInv ==
    /\ now \in Nat /\ DOMAIN cache = Keys /\ client \in Clients
    /\ world \in [ListingKeys -> Nat] /\ known \in [ListingKeys -> Nat]
    /\ \A s \in ListingKeys : known[s] <= world[s]
    /\ call \in [Callers -> Call] /\ \A r \in Callers : CallOk(call[r])
    /\ \A k \in client : EntryOk(k, cache[k])

\* What the keys of a client show.
LEMMA KeyFacts ==
    ASSUME client \in Clients
    PROVE  /\ client \subseteq ListingKeys /\ ListingKeys \subseteq Keys
           /\ Latency \in Nat /\ \A k : TTLOf(k) \in Nat
           /\ \A k \in client : /\ Inner(k) \subseteq client /\ k \notin Inner(k)
                                /\ \A i \in Inner(k) : Inner(i) = {}
           /\ \A k : Inner(k) = {} => Slack(k, k) = Latency
           /\ \A k : k \notin Inner(k) /\ Inner(k) # {} => Slack(k, k) = 2 * Latency
           /\ \A k, s : s # k => Slack(k, s) = TTLOf(s) + Latency
           /\ \A k, s : Slack(k, s) \in Nat /\ Slack(k, s) >= Latency
<1>1. /\ Latency \in Nat /\ \A k : TTLOf(k) \in Nat
      /\ client \subseteq ListingKeys /\ ListingKeys \subseteq Keys
  BY ListingsAssumption, AppStateAssumption
     DEF ListingsAssumption, AppStateAssumption, TTLOf, ListingKeys
<1>2. \A k \in client : /\ Inner(k) \subseteq client /\ k \notin Inner(k)
                        /\ \A i \in Inner(k) : Inner(i) = {}
  <2>. SUFFICES ASSUME NEW k \in client, k = "applications" PROVE "projects" \in client
    BY DEF Inner
  <2>1. client = Applications
    BY DEF Clients, Databases, Services, Mail, Dns, Servers, Models, Templates
  <2>. QED  BY <2>1 DEF Applications
<1>3. \A k : Inner(k) = {} => Cardinality({k} \cup Inner(k)) = 1
  <2>. SUFFICES ASSUME NEW k, Inner(k) = {} PROVE Cardinality({k}) = 1
    OBVIOUS
  <2>. QED  BY FS_Singleton
<1>4. \A k : k \notin Inner(k) /\ Inner(k) # {} => Cardinality({k} \cup Inner(k)) = 2
  <2>. SUFFICES ASSUME NEW k, k \notin Inner(k), Inner(k) # {}
                PROVE  Cardinality({k} \cup {"projects"}) = 2
    BY DEF Inner
  <2>1. k \notin {"projects"} /\ IsFiniteSet({"projects"}) /\ Cardinality({"projects"}) = 1
    BY FS_Singleton DEF Inner
  <2>2. Cardinality({"projects"} \cup {k}) = Cardinality({"projects"}) + 1
    BY <2>1, FS_AddElement
  <2>3. {k} \cup {"projects"} = {"projects"} \cup {k}
    OBVIOUS
  <2>. QED  BY <2>1, <2>2, <2>3
<1>5. \A k : Cardinality({k} \cup Inner(k)) \in {1, 2}
  BY <1>3, <1>4 DEF Inner
<1>6. /\ \A k : Inner(k) = {} => Slack(k, k) = Latency
      /\ \A k : k \notin Inner(k) /\ Inner(k) # {} => Slack(k, k) = 2 * Latency
  BY <1>1, <1>3, <1>4 DEF Slack
<1>7. \A k, s : s # k => Slack(k, s) = TTLOf(s) + Latency
  BY DEF Slack
<1>8. \A k, s : Slack(k, s) \in Nat /\ Slack(k, s) >= Latency
  BY <1>1, <1>5 DEF Slack
<1>. QED  BY <1>1, <1>2, <1>6, <1>7, <1>8

\* A write clears every listing of what it changes.
LEMMA WritesClear ==
    ASSUME client \in Clients, NEW w \in Writes
    PROVE  /\ w = Write(w.changes, w.clears)
           /\ w.changes \subseteq ListingKeys /\ w.clears \subseteq ListingKeys
           /\ \A k \in client : ({k} \cup Inner(k)) \cap w.changes # {} => k \in w.clears
<1>. USE DEF Write, Aside, ListingKeys, Clients, Inner
<1>0. /\ "applications" \in Applications /\ "databases" \in Databases /\ "services" \in Services
      /\ "domains" \in Mail /\ "zones" \in Dns /\ "servers" \in Servers
      /\ "applications" \notin UNION {Databases, Services, Mail, Dns, Servers, Models, Templates}
      /\ "databases" \notin UNION {Services, Mail, Dns, Servers, Models, Templates}
      /\ "services" \notin UNION {Mail, Dns, Servers, Models, Templates}
      /\ "domains" \notin UNION {Dns, Servers, Models, Templates}
      /\ "zones" \notin UNION {Servers, Models, Templates}
      /\ "servers" \notin UNION {Models, Templates}
  BY DEF Applications, Databases, Services, Mail, Dns, Servers, Models, Templates
<1>1. CASE client = Applications
  <2>1. client \notin {Databases, Services, Mail, Dns, Servers}
    BY ONLY <1>0, <1>1
  <2>2. w \in ApplicationWrites \cup ApplicationSideWrites \cup StorageWrites
    BY ONLY <1>1, <2>1, w \in Writes DEF Writes
  <2>. QED  BY <1>1, <2>2 DEF ApplicationWrites, ApplicationSideWrites, StorageWrites, Applications
<1>2. CASE client = Databases
  <2>1. client \notin {Applications, Services, Mail, Dns, Servers}
    BY ONLY <1>0, <1>2
  <2>2. w \in DatabaseWrites
    BY ONLY <1>2, <2>1, w \in Writes DEF Writes
  <2>. QED  BY <1>2, <2>2 DEF DatabaseWrites, Databases
<1>3. CASE client = Services
  <2>1. client \notin {Applications, Databases, Mail, Dns, Servers}
    BY ONLY <1>0, <1>3
  <2>2. w \in ServiceWrites
    BY ONLY <1>3, <2>1, w \in Writes DEF Writes
  <2>. QED  BY <1>3, <2>2 DEF ServiceWrites, Services
<1>4. CASE client = Mail
  <2>1. client \notin {Applications, Databases, Services, Dns, Servers}
    BY ONLY <1>0, <1>4
  <2>2. w \in MailWrites \cup MailboxWrites
    BY ONLY <1>4, <2>1, w \in Writes DEF Writes
  <2>3. w.clears = Mail /\ w.changes \subseteq Mail /\ w = [changes |-> w.changes, clears |-> w.clears]
    BY <2>2 DEF MailWrites, MailboxWrites, MailClears, Mail
  <2>. QED  BY <1>4, <2>3
<1>5. CASE client = Dns
  <2>1. client \notin {Applications, Databases, Services, Mail, Servers}
    BY ONLY <1>0, <1>5
  <2>2. w \in RecordCreates \cup RecordChanges \cup ZoneWrites \cup ZoneSideWrites \cup HostnameWrites
    BY ONLY <1>5, <2>1, w \in Writes DEF Writes
  <2>. QED  BY <1>5, <2>2 DEF RecordCreates, RecordChanges, ZoneWrites, ZoneSideWrites,
                              HostnameWrites, Dns
<1>6. CASE client = Servers
  <2>1. client \notin {Applications, Databases, Services, Mail, Dns}
    BY ONLY <1>0, <1>6
  <2>2. w \in ServerWrites
    BY ONLY <1>6, <2>1, w \in Writes DEF Writes
  <2>. QED  BY <1>6, <2>2 DEF ServerWrites, Servers
<1>7. CASE client = Models \/ client = Templates
  <2>1. client \notin {Applications, Databases, Services, Mail, Dns, Servers}
    BY ONLY <1>0, <1>7
  <2>2. Writes = {}
    BY ONLY <2>1 DEF Writes
  <2>. QED  BY <2>2
<1>. QED  BY <1>1, <1>2, <1>3, <1>4, <1>5, <1>6, <1>7

LEMMA CallFields ==
    ASSUME ListingsInv, NEW r \in Callers
    PROVE  /\ call[r] \in Call /\ CallOk(call[r])
           /\ call[r] = [stage |-> call[r].stage, key |-> call[r].key, seen |-> call[r].seen,
                         sent |-> call[r].sent, changes |-> call[r].changes,
                         clears |-> call[r].clears]
           /\ call[r].seen \subseteq Looks \cup Outcomes /\ call[r].sent \in Nat
           /\ call[r].changes \subseteq ListingKeys /\ call[r].clears \subseteq ListingKeys
           /\ call[r].key \in ListingKeys \cup {"none"}
           /\ call[r].stage \in {"idle", "sent", "write", "acted"} \cup Reading
<1>1. call[r] \in Call /\ CallOk(call[r])
  BY DEF ListingsInv
<1>. QED  BY <1>1 DEF Call

LEMMA NothingOk ==
    /\ NoCall \in Call /\ CallOk(NoCall)
    /\ \A k : EntryOk(k, NoEntry)
  BY DEF NoCall, Call, CallOk, Reading, EntryOk, NoEntry

\* Entries are dropped; no call is affected.
LEMMA DropsKeep ==
    ASSUME ListingsInv, UNCHANGED <<now, client, world, known, call>>, DOMAIN cache' = Keys,
           \A k \in client : cache'[k] = cache[k] \/ cache'[k] = NoEntry
    PROVE  ListingsInv'
<1>1. (\A q \in Callers : CallOk(call[q]))'
  BY DEF ListingsInv, CallOk, ReadOk, MadeOk, Fresh, Writes
<1>2. \A k \in client : EntryOk(k, cache'[k])
  BY NothingOk DEF ListingsInv
<1>3. (\A k \in client : EntryOk(k, cache[k]))'
  BY <1>2 DEF EntryOk, Fresh
<1>. QED  BY <1>1, <1>3 DEF ListingsInv

\* A step of one call that writes some entries.
LEMMA OneCall ==
    ASSUME ListingsInv, NEW r \in Callers, NEW c \in Call, CallOk(c), Goes(r, c),
           UNCHANGED <<now, client, world, known>>, DOMAIN cache' = Keys,
           \A k \in client : cache'[k] = cache[k] \/ EntryOk(k, cache'[k])
    PROVE  ListingsInv'
<1>1. /\ call' \in [Callers -> Call] /\ call'[r] = c
      /\ \A q \in Callers \ {r} : call'[q] = call[q]
  BY DEF ListingsInv, Goes
<1>2. \A x : CallOk(x) => CallOk(x)'
  BY DEF CallOk, ReadOk, MadeOk, Fresh, Writes
<1>3. \A q \in Callers : CallOk(call'[q])
  BY <1>1 DEF ListingsInv
<1>4. (\A q \in Callers : CallOk(call[q]))'
  BY <1>3 DEF CallOk, ReadOk, MadeOk, Fresh, Writes
<1>5. \A k \in client : EntryOk(k, cache'[k])
  BY DEF ListingsInv
<1>6. (\A k \in client : EntryOk(k, cache[k]))'
  BY <1>5 DEF EntryOk, Fresh
<1>. QED  BY <1>1, <1>4, <1>6 DEF ListingsInv

\* An entry that is stored with what a call saw.
LEMMA StoredOk ==
    ASSUME ListingsInv, NEW k \in client, NEW val,
           \A e \in val : /\ Fresh(e) /\ e.source \in {k} \cup Inner(k)
                          /\ now <= e.at + Slack(k, e.source)
    PROVE  EntryOk(k, [val |-> val, exp |-> now + TTLOf(k)])
<1>1. now \in Nat /\ TTLOf(k) \in Nat /\ \A s : Slack(k, s) \in Nat
  BY KeyFacts DEF ListingsInv
<1>2. ASSUME NEW e \in val PROVE now + TTLOf(k) <= e.at + (TTLOf(k) + Slack(k, e.source))
  <2>1. e.at \in Nat /\ now <= e.at + Slack(k, e.source) /\ Slack(k, e.source) \in Nat
    BY <1>1 DEF Fresh, Looks
  <2>. QED  BY <1>1, <2>1
<1>. QED  BY <1>1, <1>2 DEF EntryOk

LEMMA ReadKeeps ==
    ASSUME ListingsInv, NEW r \in Callers, NEW k \in client, NEW refresh \in BOOLEAN,
           ReadListing(r, k, refresh)
    PROVE  ListingsInv'
<1>1. k \in ListingKeys /\ k \in Keys
  BY KeyFacts DEF ListingsInv
<1>2. CASE Live(k) /\ ~refresh
  <2>1. UNCHANGED <<now, cache, client, world, known, call>>
    BY <1>2 DEF ReadListing
  <2>. QED  BY <2>1, DropsKeep DEF ListingsInv
<1>3. CASE ~ (Live(k) /\ ~refresh)
  <2>. DEFINE c == [NoCall EXCEPT !.stage = "sent", !.key = k, !.sent = now]
  <2>1. \A x \in Call : \A t \in Nat :
          LET y == [x EXCEPT !.stage = "sent", !.key = k, !.sent = t]
          IN  y \in Call /\ y.stage = "sent" /\ y.key = k /\ y.sent = t
    BY ONLY <1>1 DEF Call
  <2>2. c \in Call /\ c.stage = "sent" /\ c.key = k /\ c.sent = now
    BY <2>1, NothingOk DEF ListingsInv
  <2>3. CallOk(c)
    BY <2>2, KeyFacts DEF CallOk, Reading, ListingsInv
  <2>4. /\ Goes(r, c) /\ UNCHANGED <<now, client, world, known>>
        /\ cache' = IF refresh THEN Delete({k}) ELSE AfterGet(k)
    BY <1>3 DEF ReadListing
  <2>5. DOMAIN cache' = Keys /\ \A j \in Keys : cache'[j] = cache[j] \/ cache'[j] = NoEntry
    BY <2>4, <1>1 DEF Delete, AfterGet, ListingsInv
  <2>6. \A j \in client : cache'[j] = cache[j] \/ EntryOk(j, cache'[j])
    BY <2>5, KeyFacts, NothingOk DEF ListingsInv
  <2>. QED  BY <2>2, <2>3, <2>4, <2>5, <2>6, OneCall
<1>. QED  BY <1>2, <1>3

\* What a source shows now.
LEMMA LookIsFresh ==
    ASSUME ListingsInv, NEW s \in ListingKeys
    PROVE  Fresh(Look(s)) /\ Look(s).source = s /\ Look(s).at = now
<1>1. /\ Look(s).source = s /\ Look(s).at = now /\ Look(s).version = world[s]
      /\ Look(s) \in Looks
  BY DEF Look, Looks, ListingsInv
<1>2. known[s] <= world[s] /\ now \in Nat
  BY DEF ListingsInv
<1>. QED  BY <1>1, <1>2 DEF Fresh

LEMMA LookedKeeps ==
    ASSUME ListingsInv, NEW r \in Callers, Looked(r)
    PROVE  ListingsInv'
<1>. DEFINE s == {Look(call[r].key)}
            c == [call[r] EXCEPT !.stage = "read", !.seen = s]
<1>1. /\ call[r].stage = "sent" /\ Goes(r, c)
      /\ UNCHANGED <<now, cache, client, world, known>>
  BY DEF Looked
<1>2. /\ call[r] \in Call /\ call[r].key \in client /\ call[r].key \in ListingKeys
      /\ call[r].sent <= now /\ now <= call[r].sent + Latency /\ call[r].sent \in Nat
  BY <1>1, CallFields, KeyFacts DEF CallOk, ListingsInv
<1>3. \A e \in s : Fresh(e) /\ e.source = call[r].key /\ e.at = now
  BY <1>2, LookIsFresh
<1>4. s \in SUBSET (Looks \cup Outcomes)
  BY <1>3 DEF Fresh
<1>5. \A x \in Call : LET y == [x EXCEPT !.stage = "read", !.seen = s]
                      IN  y \in Call /\ y.stage = "read" /\ y.seen = s /\ y.key = x.key /\ y.sent = x.sent
  BY ONLY <1>4 DEF Call, Reading
<1>. HIDE DEF s
<1>6. c \in Call /\ c.stage = "read" /\ c.seen = s /\ c.key = call[r].key /\ c.sent = call[r].sent
  BY <1>2, <1>5
<1>. HIDE DEF c
<1>7. CallOk(c)
  <2>1. now \in Nat /\ now + 0 = now
    BY DEF ListingsInv
  <2>2. ReadOk(c)
    BY <1>2, <1>3, <1>6, <2>1 DEF ReadOk
  <2>. QED  BY <1>2, <1>6, <2>2 DEF CallOk, Reading
<1>. QED  BY <1>1, <1>6, <1>7, OneCall DEF ListingsInv

\* What a call that read a listing knows of it.
LEMMA SeenOk ==
    ASSUME ListingsInv, NEW r \in Callers, call[r].stage \in Reading
    PROVE  LET c == call[r] IN
           /\ c.key \in client
           /\ c.stage = "read" =>
                \A e \in c.seen : Fresh(e) /\ e.source = c.key /\ now <= e.at + Latency
           /\ c.stage = "innerread" =>
                \A e \in c.seen : /\ Fresh(e)
                                  /\ e.source = c.key => now <= e.at + 2 * Latency
                                  /\ e.source # c.key => e.source \in Inner(c.key) /\ now <= e.at + Latency
<1>1. /\ call[r].key \in client /\ call[r].sent \in Nat /\ now \in Nat /\ Latency \in Nat
      /\ now <= call[r].sent + Latency /\ ReadOk(call[r])
  BY CallFields, KeyFacts DEF CallOk, Reading, ListingsInv
<1>2. \A e \in call[r].seen : Fresh(e) /\ e.at \in Nat
  BY <1>1 DEF ReadOk, Fresh, Looks
<1>3. call[r].stage = "read" => \A e \in call[r].seen : e.source = call[r].key /\ call[r].sent <= e.at
  BY <1>1, <1>2 DEF ReadOk
<1>4. call[r].stage = "innerread" =>
        \A e \in call[r].seen : /\ e.source = call[r].key => call[r].sent <= e.at + Latency
                                /\ e.source # call[r].key => e.source \in Inner(call[r].key)
                                                             /\ call[r].sent <= e.at
  BY <1>1, <1>2 DEF ReadOk
<1>5. call[r].stage = "read" => \A e \in call[r].seen : now <= e.at + Latency
  BY <1>1, <1>2, <1>3
<1>6. call[r].stage = "innerread" =>
        \A e \in call[r].seen : /\ e.source = call[r].key => now <= e.at + 2 * Latency
                                /\ e.source # call[r].key => now <= e.at + Latency
  BY <1>1, <1>2, <1>4
<1>. QED  BY <1>1, <1>2, <1>3, <1>4, <1>5, <1>6

LEMMA StoredKeeps ==
    ASSUME ListingsInv, NEW r \in Callers, Stored(r)
    PROVE  ListingsInv'
<1>. DEFINE k == call[r].key
<1>1. /\ call[r].stage = "read" /\ Inner(k) = {} /\ Goes(r, NoCall)
      /\ UNCHANGED <<now, client, world, known>>
      /\ cache' = [cache EXCEPT ![k] = [val |-> call[r].seen, exp |-> now + TTLOf(k)]]
  BY DEF Stored, Set
<1>2. /\ k \in client /\ k \in Keys
      /\ \A e \in call[r].seen : Fresh(e) /\ e.source = k /\ now <= e.at + Latency
  BY <1>1, SeenOk, KeyFacts DEF Reading, ListingsInv
<1>3. EntryOk(k, [val |-> call[r].seen, exp |-> now + TTLOf(k)])
  BY <1>1, <1>2, StoredOk, KeyFacts DEF ListingsInv
<1>4. /\ DOMAIN cache' = Keys
      /\ \A j \in client : cache'[j] = cache[j] \/ EntryOk(j, cache'[j])
  BY <1>1, <1>2, <1>3, KeyFacts DEF ListingsInv
<1>. QED  BY <1>1, <1>4, NothingOk, OneCall

LEMMA NeedsInnerKeeps ==
    ASSUME ListingsInv, NEW r \in Callers, NeedsInner(r)
    PROVE  ListingsInv'
<1>. DEFINE k == call[r].key
<1>1. PICK i \in Inner(k) :
        IF Live(i)
        THEN /\ cache' = Set(k, call[r].seen \cup cache[i].val, TTLOf(k))
             /\ Goes(r, NoCall)
        ELSE Goes(r, [call[r] EXCEPT !.stage = "inner", !.sent = now]) /\ cache' = AfterGet(i)
  BY DEF NeedsInner
<1>2. call[r].stage = "read" /\ UNCHANGED <<now, client, world, known>>
  BY DEF NeedsInner
<1>3. /\ k \in client /\ i \in client /\ k # i /\ k \in Keys /\ i \in Keys /\ Inner(i) = {}
      /\ now \in Nat /\ Latency \in Nat /\ \A x : TTLOf(x) \in Nat
      /\ \A e \in call[r].seen : Fresh(e) /\ e.source = k /\ now <= e.at + Latency
  BY <1>2, SeenOk, KeyFacts DEF Reading, ListingsInv
<1>4. CASE Live(i)
  <2>1. /\ cache' = [cache EXCEPT ![k] = [val |-> call[r].seen \cup cache[i].val,
                                          exp |-> now + TTLOf(k)]]
        /\ Goes(r, NoCall)
    BY <1>1, <1>4 DEF Set
  <2>2. ASSUME NEW e \in cache[i].val
        PROVE  /\ Fresh(e) /\ e.source = i /\ e.at \in Nat /\ now <= e.at + (TTLOf(i) + Latency)
    <3>1. EntryOk(i, cache[i]) /\ Slack(i, i) = Latency
      BY <1>3, KeyFacts DEF ListingsInv
    <3>2. /\ Fresh(e) /\ e.source = i /\ cache[i].exp \in Nat
          /\ cache[i].exp <= e.at + (TTLOf(i) + Latency)
      BY <1>3, <3>1 DEF EntryOk
    <3>3. e.at \in Nat /\ cache[i].exp > now
      BY <1>4, <3>2 DEF Fresh, Looks, Live
    <3>. QED  BY <1>3, <3>2, <3>3
  <2>3. /\ Slack(k, i) = TTLOf(i) + Latency /\ Slack(k, k) = 2 * Latency
    BY <1>3, KeyFacts DEF ListingsInv
  <2>4. \A e \in call[r].seen : now <= e.at + 2 * Latency
    <3>. SUFFICES ASSUME NEW e \in call[r].seen PROVE now <= e.at + 2 * Latency
      OBVIOUS
    <3>1. e.at \in Nat /\ now <= e.at + Latency
      BY <1>3 DEF Fresh, Looks
    <3>. QED  BY <1>3, <3>1
  <2>5. \A e \in call[r].seen \cup cache[i].val :
           Fresh(e) /\ e.source \in {k} \cup Inner(k) /\ now <= e.at + Slack(k, e.source)
    BY <1>3, <2>2, <2>3, <2>4
  <2>6. EntryOk(k, [val |-> call[r].seen \cup cache[i].val, exp |-> now + TTLOf(k)])
    BY <1>3, <2>5, StoredOk
  <2>7. /\ DOMAIN cache' = Keys
        /\ \A j \in client : cache'[j] = cache[j] \/ EntryOk(j, cache'[j])
    BY <1>3, <2>1, <2>6, KeyFacts DEF ListingsInv
  <2>. QED  BY <1>2, <2>1, <2>7, NothingOk, OneCall
<1>5. CASE ~ Live(i)
  <2>. DEFINE c == [call[r] EXCEPT !.stage = "inner", !.sent = now]
  <2>1. Goes(r, c) /\ cache' = [cache EXCEPT ![i] = NoEntry]
    BY <1>1, <1>5 DEF AfterGet
  <2>2. \A x \in Call : \A t \in Nat :
          LET y == [x EXCEPT !.stage = "inner", !.sent = t]
          IN  y \in Call /\ y.stage = "inner" /\ y.sent = t /\ y.key = x.key /\ y.seen = x.seen
    BY ONLY DEF Call, Reading
  <2>3. c \in Call /\ c.stage = "inner" /\ c.sent = now /\ c.key = k /\ c.seen = call[r].seen
    BY <1>3, <2>2, CallFields
  <2>. HIDE DEF c
  <2>4. CallOk(c)
    <3>1. ReadOk(c)
      BY <1>3, <2>3 DEF ReadOk
    <3>. QED  BY <1>1, <1>3, <2>3, <3>1 DEF CallOk, Reading
  <2>5. /\ DOMAIN cache' = Keys
        /\ \A j \in client : cache'[j] = cache[j] \/ EntryOk(j, cache'[j])
    BY <1>3, <2>1, NothingOk, KeyFacts DEF ListingsInv
  <2>. QED  BY <1>2, <2>1, <2>3, <2>4, <2>5, OneCall
<1>. QED  BY <1>4, <1>5

LEMMA LookedInnerKeeps ==
    ASSUME ListingsInv, NEW r \in Callers, LookedInner(r)
    PROVE  ListingsInv'
<1>. DEFINE k == call[r].key
            s == call[r].seen \cup {Look(i) : i \in Inner(k)}
            c == [call[r] EXCEPT !.stage = "innerread", !.seen = s]
<1>1. /\ call[r].stage = "inner" /\ Goes(r, c)
      /\ UNCHANGED <<now, cache, client, world, known>>
  BY DEF LookedInner
<1>2. /\ call[r] \in Call /\ k \in client /\ k \notin Inner(k) /\ Inner(k) # {}
      /\ Inner(k) \subseteq ListingKeys /\ ReadOk(call[r])
      /\ call[r].sent <= now /\ now <= call[r].sent + Latency /\ call[r].sent \in Nat
      /\ call[r].seen \subseteq Looks \cup Outcomes /\ now \in Nat /\ now + 0 = now
  BY <1>1, CallFields, KeyFacts DEF CallOk, Reading, ListingsInv
<1>3. \A i \in Inner(k) : Fresh(Look(i)) /\ Look(i).source = i /\ Look(i).at = now
  BY <1>2, LookIsFresh
<1>4. s \in SUBSET (Looks \cup Outcomes)
  BY <1>2, <1>3 DEF Fresh
<1>5. \A x \in Call : LET y == [x EXCEPT !.stage = "innerread", !.seen = s]
                      IN  /\ y \in Call /\ y.stage = "innerread" /\ y.seen = s
                          /\ y.key = x.key /\ y.sent = x.sent
  BY ONLY <1>4 DEF Call, Reading
<1>6. \A e \in s : /\ Fresh(e)
                   /\ e.source = k => call[r].sent <= e.at + Latency
                   /\ e.source # k => e.source \in Inner(k) /\ call[r].sent <= e.at
  <2>1. \A e \in call[r].seen : Fresh(e) /\ e.source = k /\ call[r].sent <= e.at + Latency
    BY <1>1, <1>2 DEF ReadOk
  <2>2. \A i \in Inner(k) : /\ Fresh(Look(i)) /\ Look(i).source \in Inner(k) /\ Look(i).source # k
                            /\ call[r].sent <= Look(i).at
    BY <1>2, <1>3
  <2>. QED  BY <2>1, <2>2
<1>. HIDE DEF s
<1>7. c \in Call /\ c.stage = "innerread" /\ c.seen = s /\ c.key = k /\ c.sent = call[r].sent
  BY <1>2, <1>5
<1>. HIDE DEF c
<1>8. CallOk(c)
  <2>1. ReadOk(c)
    BY <1>6, <1>7 DEF ReadOk
  <2>. QED  BY <1>2, <1>7, <2>1 DEF CallOk, Reading
<1>. QED  BY <1>1, <1>7, <1>8, OneCall DEF ListingsInv

LEMMA StoredBothKeeps ==
    ASSUME ListingsInv, NEW r \in Callers, StoredBoth(r)
    PROVE  ListingsInv'
<1>. DEFINE k == call[r].key
            inner(i) == {e \in call[r].seen : e.source = i}
<1>1. /\ call[r].stage = "innerread" /\ Goes(r, NoCall)
      /\ UNCHANGED <<now, client, world, known>>
      /\ cache' = [j \in Keys |-> IF j = k THEN Set(j, call[r].seen, TTLOf(j))[j]
                                  ELSE IF j \in Inner(k) THEN Set(j, inner(j), TTLOf(j))[j]
                                  ELSE cache[j]]
  BY DEF StoredBoth
<1>2. /\ k \in client /\ Inner(k) # {} /\ k \notin Inner(k) /\ Inner(k) \subseteq client
      /\ \A i \in Inner(k) : Inner(i) = {} /\ Slack(i, i) = Latency
                            /\ Slack(k, i) = TTLOf(i) + Latency
      /\ Slack(k, k) = 2 * Latency
      /\ \A e \in call[r].seen : /\ Fresh(e)
                                 /\ e.source = k => now <= e.at + 2 * Latency
                                 /\ e.source # k => e.source \in Inner(k) /\ now <= e.at + Latency
  BY <1>1, SeenOk, KeyFacts, CallFields DEF CallOk, Reading, ListingsInv
<1>3. EntryOk(k, [val |-> call[r].seen, exp |-> now + TTLOf(k)])
  <2>1. ASSUME NEW e \in call[r].seen, e.source # k
        PROVE  now <= e.at + (TTLOf(e.source) + Latency)
    <3>1. /\ now <= e.at + Latency /\ e.at \in Nat /\ now \in Nat
          /\ TTLOf(e.source) \in Nat /\ Latency \in Nat
      BY <1>2, <2>1, KeyFacts DEF Fresh, Looks, ListingsInv
    <3>. QED  BY <3>1
  <2>2. \A e \in call[r].seen : /\ Fresh(e) /\ e.source \in {k} \cup Inner(k)
                               /\ now <= e.at + Slack(k, e.source)
    BY <1>2, <2>1
  <2>. QED  BY <1>2, <2>2, StoredOk
<1>4. ASSUME NEW i \in Inner(k) PROVE EntryOk(i, [val |-> inner(i), exp |-> now + TTLOf(i)])
  <2>1. \A e \in inner(i) : Fresh(e) /\ e.source \in {i} \cup Inner(i) /\ now <= e.at + Slack(i, e.source)
    BY <1>2
  <2>. QED  BY <1>2, <2>1, StoredOk
<1>5. \A val : \A j \in Keys : Set(j, val, TTLOf(j))[j] = [val |-> val, exp |-> now + TTLOf(j)]
  BY DEF Set, ListingsInv
<1>. HIDE DEF inner
<1>6. /\ DOMAIN cache' = Keys
      /\ \A j \in client : cache'[j] = cache[j] \/ EntryOk(j, cache'[j])
  <2>1. client \subseteq Keys
    BY KeyFacts DEF ListingsInv
  <2>2. ASSUME NEW j \in client PROVE cache'[j] = cache[j] \/ EntryOk(j, cache'[j])
    <3>1. CASE j = k
      BY <1>1, <1>3, <1>5, <2>1, <3>1
    <3>2. CASE j \in Inner(k) /\ j # k
      BY <1>1, <1>4, <1>5, <2>1, <3>2
    <3>3. CASE j \notin Inner(k) /\ j # k
      BY <1>1, <2>1, <3>3
    <3>. QED  BY <3>1, <3>2, <3>3
  <2>. QED  BY <1>1, <2>2
<1>. QED  BY <1>1, <1>6, NothingOk, OneCall

LEMMA SendWriteKeeps ==
    ASSUME ListingsInv, NEW r \in Callers, NEW w \in Writes, SendWrite(r, w)
    PROVE  ListingsInv'
<1>. DEFINE c == [NoCall EXCEPT !.stage = "write", !.sent = now, !.changes = w.changes,
                                !.clears = w.clears]
<1>1. /\ w = Write(w.changes, w.clears) /\ now \in Nat
      /\ w.changes \subseteq ListingKeys /\ w.clears \subseteq ListingKeys
  BY WritesClear DEF ListingsInv
<1>2. Goes(r, c) /\ UNCHANGED <<now, cache, client, world, known>>
  BY DEF SendWrite
<1>. DEFINE ss == w.changes
            ks == w.clears
<1>3. /\ ss \in SUBSET ListingKeys /\ ks \in SUBSET ListingKeys /\ NoCall \in Call
      /\ c = [NoCall EXCEPT !.stage = "write", !.sent = now, !.changes = ss, !.clears = ks]
  BY <1>1, NothingOk
<1>. HIDE DEF c, ss, ks
<1>4. c \in Call /\ c.stage = "write" /\ c.sent = now /\ c.changes = ss /\ c.clears = ks
  <2>1. \A x \in Call : LET y == [x EXCEPT !.stage = "write", !.sent = now, !.changes = ss, !.clears = ks]
                        IN  /\ y \in Call /\ y.stage = "write" /\ y.sent = now /\ y.changes = ss
                            /\ y.clears = ks
    BY ONLY <1>1, <1>3 DEF Call
  <2>. QED  BY ONLY <1>3, <2>1
<1>. HIDE DEF c
<1>5. CallOk(c)
  <2>1. Write(ss, ks) \in Writes /\ Latency \in Nat
    BY <1>1, KeyFacts DEF ss, ks, ListingsInv
  <2>. QED  BY <1>1, <1>4, <2>1 DEF CallOk, Reading
<1>. QED  BY <1>2, <1>4, <1>5, OneCall DEF ListingsInv

LEMMA RaisedKeeps ==
    ASSUME ListingsInv, NEW r \in Callers, Raised(r)
    PROVE  ListingsInv'
<1>1. /\ Goes(r, NoCall) /\ UNCHANGED <<now, client, world, known>> /\ cache' = cache
      /\ DOMAIN cache = Keys
  BY DEF Raised, ListingsInv
<1>2. DOMAIN cache' = Keys /\ \A k \in client : cache'[k] = cache[k]
  BY <1>1
<1>. QED  BY <1>1, <1>2, NothingOk, OneCall

LEMMA ActedKeeps ==
    ASSUME ListingsInv, NEW r \in Callers, Acted(r)
    PROVE  ListingsInv'
<1>. DEFINE ss == call[r].changes
            s == {[source |-> x, version |-> world[x] + 1] : x \in ss}
            c == [call[r] EXCEPT !.stage = "acted", !.seen = s]
<1>1. /\ call[r].stage = "write" /\ Goes(r, c) /\ world' = Changed(ss)
      /\ UNCHANGED <<now, cache, client, known>>
  BY DEF Acted
<1>2. /\ world \in [ListingKeys -> Nat] /\ known \in [ListingKeys -> Nat]
      /\ \A x \in ListingKeys : known[x] <= world[x]
  BY DEF ListingsInv
<1>3. /\ world' \in [ListingKeys -> Nat]
      /\ \A x \in ListingKeys : world[x] <= world'[x] /\ known'[x] <= world'[x]
      /\ \A x \in ListingKeys : x \in ss => world'[x] = world[x] + 1
  BY <1>1, <1>2 DEF Changed
<1>4. /\ call[r] \in Call /\ ss \subseteq ListingKeys /\ call[r].sent <= now
      /\ now <= call[r].sent + Latency /\ Write(ss, call[r].clears) \in Writes
  BY <1>1, CallFields DEF CallOk
<1>5. s \in SUBSET (Looks \cup Outcomes) /\ s \subseteq Outcomes
  BY <1>2, <1>4 DEF Outcomes
<1>6. \A x \in Call : LET y == [x EXCEPT !.stage = "acted", !.seen = s]
                      IN  /\ y \in Call /\ y.stage = "acted" /\ y.seen = s /\ y.sent = x.sent
                          /\ y.changes = x.changes /\ y.clears = x.clears
  BY ONLY <1>5 DEF Call
<1>7. \A e \in s : /\ e \in Outcomes /\ e.source \in ss /\ e.version <= world'[e.source]
                   /\ \A f \in s : f.source = e.source => f = e
  <2>1. \A x \in ss : world[x] + 1 <= world'[x]
    BY <1>2, <1>3, <1>4
  <2>. QED  BY <1>5, <2>1
<1>. HIDE DEF s
<1>8. /\ c \in Call /\ c.stage = "acted" /\ c.seen = s /\ c.sent = call[r].sent
      /\ c.changes = ss /\ c.clears = call[r].clears
  BY <1>4, <1>6
<1>. HIDE DEF c
<1>9. /\ call' \in [Callers -> Call] /\ call'[r] = c
      /\ \A q \in Callers \ {r} : call'[q] = call[q]
  BY <1>1, <1>8 DEF Goes, ListingsInv
<1>10. CallOk(call[r])'
  <2>1. MadeOk(call[r])'
    BY <1>7, <1>8, <1>9 DEF MadeOk
  <2>. QED  BY <1>1, <1>4, <1>8, <1>9, <2>1 DEF CallOk, Reading, Writes
<1>11. ASSUME NEW q \in Callers \ {r} PROVE CallOk(call[q])'
  <2>1. CallOk(call[q]) /\ call'[q] = call[q]
    BY <1>9 DEF ListingsInv
  <2>2. MadeOk(call[q]) => MadeOk(call[q])'
    <3>1. ASSUME MadeOk(call[q]), NEW e \in call[q].seen PROVE e.version <= world'[e.source]
      <4>1. e.source \in ListingKeys /\ e.version \in Nat /\ e.version <= world[e.source]
        BY <3>1 DEF MadeOk, Outcomes
      <4>. QED  BY <1>2, <1>3, <4>1
    <3>. QED  BY <2>1, <3>1 DEF MadeOk
  <2>3. ReadOk(call[q]) => ReadOk(call[q])'
    BY <1>1, <2>1 DEF ReadOk, Fresh
  <2>. QED  BY <1>1, <2>1, <2>2, <2>3 DEF CallOk, Writes
<1>12. (\A q \in Callers : CallOk(call[q]))'
  BY <1>10, <1>11
<1>13. (\A k \in client : EntryOk(k, cache[k]))'
  BY <1>1 DEF ListingsInv, EntryOk, Fresh
<1>. QED  BY <1>1, <1>2, <1>3, <1>9, <1>12, <1>13 DEF ListingsInv

\* What is known of a source after a write of it is answered.
LEMMA AnsweredKnows ==
    ASSUME ListingsInv, NEW r \in Callers, Answered(r)
    PROVE  /\ known' \in [ListingKeys -> Nat]
           /\ \A s \in ListingKeys : known'[s] <= world[s]
           /\ \A s \in ListingKeys : s \notin call[r].changes => known'[s] = known[s]
<1>. DEFINE c == call[r]
            made(s) == {e.version : e \in {x \in c.seen : x.source = s}} \cup {known[s]}
<1>1. /\ c.stage = "acted"
      /\ known' = [s \in ListingKeys |-> CHOOSE v \in made(s) : \A u \in made(s) : u <= v]
  BY DEF Answered
<1>2. MadeOk(c) /\ known \in [ListingKeys -> Nat] /\ \A s \in ListingKeys : known[s] <= world[s]
  BY <1>1, CallFields DEF CallOk, ListingsInv
<1>3. ASSUME NEW s \in ListingKeys
      PROVE  LET v == CHOOSE v \in made(s) : \A u \in made(s) : u <= v
             IN  v \in Nat /\ v <= world[s] /\ (s \notin c.changes => v = known[s])
  <2>1. known[s] \in Nat /\ known[s] <= world[s]
    BY <1>2
  <2>2. CASE \E e \in c.seen : e.source = s
    <3>1. PICK e \in c.seen : e.source = s
      BY <2>2
    <3>2. /\ e.version \in Nat /\ e.version <= world[s] /\ s \in c.changes
          /\ \A f \in c.seen : f.source = s => f = e
      BY <1>2, <3>1 DEF MadeOk, Outcomes
    <3>3. made(s) = {e.version, known[s]}
      BY <3>1, <3>2
    <3>4. \E v \in made(s) : \A u \in made(s) : u <= v
      BY <2>1, <3>2, <3>3
    <3>. QED  BY <2>1, <3>2, <3>3, <3>4
  <2>3. CASE ~ \E e \in c.seen : e.source = s
    <3>1. made(s) = {known[s]}
      BY <2>3
    <3>2. \E v \in made(s) : \A u \in made(s) : u <= v
      BY <2>1, <3>1
    <3>. QED  BY <2>1, <3>1, <3>2
  <2>. QED  BY <2>2, <2>3
<1>. HIDE DEF made
<1>. QED  BY <1>1, <1>3

LEMMA AnsweredKeeps ==
    ASSUME ListingsInv, NEW r \in Callers, Answered(r)
    PROVE  ListingsInv'
<1>. DEFINE ss == call[r].changes
            ks == call[r].clears
            mark(e) == IF e.source \in ss THEN [e EXCEPT !.raced = TRUE] ELSE e
            marked(q) == [call[q] EXCEPT !.seen = {mark(e) : e \in call[q].seen}]
<1>1. /\ call[r].stage = "acted" /\ cache' = Delete(ks)
      /\ UNCHANGED <<now, client, world>>
      /\ call' = [q \in Callers |-> IF q = r THEN NoCall
                                    ELSE IF call[q].stage \notin Reading THEN call[q]
                                    ELSE marked(q)]
  BY DEF Answered, Reading
<1>2. /\ known' \in [ListingKeys -> Nat] /\ world \in [ListingKeys -> Nat]
      /\ \A s \in ListingKeys : known'[s] <= world[s]
      /\ \A s \in ListingKeys : s \notin ss => known'[s] = known[s]
  BY AnsweredKnows DEF ListingsInv
\* What missed the write is marked.
<1>3. ASSUME NEW e, Fresh(e)
      PROVE  /\ mark(e) \in Looks /\ mark(e).source = e.source /\ mark(e).at = e.at
             /\ mark(e).at <= now'
             /\ mark(e).version >= known'[e.source] \/ mark(e).raced
             /\ e.source \notin ss => mark(e) = e
  <2>1. e \in Looks /\ e.at <= now /\ (e.version >= known[e.source] \/ e.raced)
    BY <1>3 DEF Fresh
  <2>2. \A x \in Looks : LET y == [x EXCEPT !.raced = TRUE]
                         IN y \in Looks /\ y.source = x.source /\ y.at = x.at /\ y.raced
    BY ONLY DEF Looks
  <2>3. e.source \in ListingKeys
    BY <2>1 DEF Looks
  <2>. QED  BY <1>1, <1>2, <2>1, <2>2, <2>3
<1>4. ASSUME NEW e, Fresh(e), NEW f, f = mark(e) PROVE Fresh(f)'
  <2>1. /\ f \in Looks /\ f.source = e.source /\ f.at <= now'
        /\ f.version >= known'[f.source] \/ f.raced
    BY <1>3, <1>4
  <2>. QED  BY <2>1 DEF Fresh
<1>5. ASSUME NEW e, Fresh(e), e.source \notin ss PROVE Fresh(e)'
  BY <1>3, <1>4, <1>5
<1>6. ASSUME NEW q \in Callers \ {r}, call[q].stage \in Reading
      PROVE  call'[q] \in Call /\ CallOk(call[q])'
  <2>. DEFINE s == {mark(e) : e \in call[q].seen}
              c == [call[q] EXCEPT !.seen = s]
  <2>1. /\ call[q] \in Call /\ ReadOk(call[q]) /\ CallOk(call[q]) /\ call'[q] = c
    BY <1>1, <1>6, CallFields DEF CallOk
  <2>2. \A e \in call[q].seen : Fresh(e)
    BY <2>1 DEF ReadOk
  <2>3. s \in SUBSET (Looks \cup Outcomes)
    BY <1>3, <2>2
  <2>4. \A x \in Call : LET y == [x EXCEPT !.seen = s]
                        IN  y \in Call /\ y.stage = x.stage /\ y.seen = s /\ y.key = x.key /\ y.sent = x.sent
    BY ONLY <2>3 DEF Call
  <2>5. \A f \in s : \E e \in call[q].seen : Fresh(f)' /\ f.source = e.source /\ f.at = e.at
    <3>. SUFFICES ASSUME NEW f \in s
                  PROVE  \E e \in call[q].seen : Fresh(f)' /\ f.source = e.source /\ f.at = e.at
      OBVIOUS
    <3>1. PICK e \in call[q].seen : f = mark(e)
      OBVIOUS
    <3>2. Fresh(e)
      BY <2>2
    <3>. HIDE DEF mark
    <3>. QED  BY <1>3, <1>4, <3>1, <3>2
  <2>. HIDE DEF s
  <2>6. /\ c \in Call /\ c.stage = call[q].stage /\ c.seen = s /\ c.key = call[q].key
        /\ c.sent = call[q].sent
    BY <2>1, <2>4
  <2>. HIDE DEF c
  <2>7. ReadOk(call[q])'
    <3>1. \A e \in call[q].seen :
             IF e.source = call[q].key
             THEN call[q].sent <= e.at + (IF call[q].stage = "read" THEN 0 ELSE Latency)
             ELSE e.source \in Inner(call[q].key) /\ call[q].stage = "innerread" /\ call[q].sent <= e.at
      BY <2>1 DEF ReadOk
    <3>2. ASSUME NEW f \in s
          PROVE  /\ Fresh(f)'
                 /\ IF f.source = c.key
                    THEN c.sent <= f.at + (IF c.stage = "read" THEN 0 ELSE Latency)
                    ELSE f.source \in Inner(c.key) /\ c.stage = "innerread" /\ c.sent <= f.at
      <4>1. PICK e \in call[q].seen : Fresh(f)' /\ f.source = e.source /\ f.at = e.at
        BY <2>5
      <4>. QED  BY <2>6, <3>1, <4>1
    <3>. QED  BY <2>1, <2>6, <3>2 DEF ReadOk
  <2>8. /\ c.sent <= now /\ now <= c.sent + Latency /\ c.key \in client
        /\ c.stage \in {"inner", "innerread"} => Inner(c.key) # {}
        /\ c.stage \in {"read", "inner", "innerread"}
    BY <1>6, <2>1, <2>6 DEF CallOk, Reading
  <2>. QED  BY <1>1, <2>1, <2>6, <2>7, <2>8 DEF CallOk
<1>7. ASSUME NEW q \in Callers \ {r}, call[q].stage \notin Reading
      PROVE  call'[q] \in Call /\ CallOk(call[q])'
  <2>1. call'[q] = call[q] /\ call[q] \in Call /\ CallOk(call[q])
    BY <1>1, <1>7, CallFields
  <2>2. MadeOk(call[q]) => MadeOk(call[q])'
    BY <1>1, <2>1 DEF MadeOk
  <2>. QED  BY <1>1, <1>7, <2>1, <2>2 DEF CallOk, Writes
<1>8. call'[r] \in Call /\ CallOk(call[r])'
  <2>1. call'[r] = NoCall
    BY <1>1
  <2>. QED  BY <2>1, NothingOk DEF CallOk, NoCall, Reading
<1>9. call' \in [Callers -> Call] /\ (\A q \in Callers : CallOk(call[q]))'
  <2>1. \A q \in Callers : call'[q] \in Call /\ CallOk(call[q])'
    BY <1>6, <1>7, <1>8
  <2>2. DOMAIN call' = Callers /\ call' = [q \in Callers |-> call'[q]]
    BY <1>1
  <2>. QED  BY <2>1, <2>2
<1>10. ASSUME NEW k \in client PROVE EntryOk(k, cache[k])'
  <2>1. k \in Keys /\ client \in Clients
    BY KeyFacts DEF ListingsInv
  <2>2. CASE k \in ks
    <3>1. cache'[k] = NoEntry
      BY <1>1, <2>1, <2>2 DEF Delete
    <3>. QED  BY <3>1 DEF EntryOk, NoEntry
  <2>3. CASE k \notin ks
    <3>1. cache'[k] = cache[k] /\ EntryOk(k, cache[k])
      BY <1>1, <2>1, <2>3 DEF Delete, ListingsInv
    <3>2. Write(ss, ks) \in Writes
      BY <1>1, CallFields DEF CallOk
    <3>3. ({k} \cup Inner(k)) \cap ss = {}
      BY <2>1, <2>3, <3>2, WritesClear DEF Write
    <3>4. \A e \in cache[k].val : Fresh(e)'
      BY <1>5, <3>1, <3>3 DEF EntryOk
    <3>. QED  BY <3>1, <3>4 DEF EntryOk
  <2>. QED  BY <2>2, <2>3
<1>. QED  BY <1>1, <1>2, <1>9, <1>10 DEF ListingsInv, Delete

LEMMA ListingsTickKeeps ==
    ASSUME ListingsInv, Tick
    PROVE  ListingsInv'
<1>1. /\ now \in Nat /\ now' = now + 1 /\ CallsInTime /\ Latency \in Nat
      /\ UNCHANGED <<cache, client, world, known, call>>
  BY KeyFacts DEF Tick, listingVars, ListingsInv
<1>2. ASSUME NEW e, Fresh(e) PROVE Fresh(e)'
  BY <1>1, <1>2 DEF Fresh, Looks
<1>3. ASSUME NEW q \in Callers PROVE CallOk(call[q])'
  <2>1. CallOk(call[q]) /\ call[q].sent \in Nat
    BY CallFields
  <2>2. call[q].stage # "idle" => now < call[q].sent + Latency
    BY <1>1 DEF CallsInTime
  <2>3. ReadOk(call[q]) => ReadOk(call[q])'
    BY <1>1, <1>2 DEF ReadOk
  <2>4. MadeOk(call[q]) => MadeOk(call[q])'
    BY <1>1 DEF MadeOk
  <2>. QED  BY <1>1, <2>1, <2>2, <2>3, <2>4 DEF CallOk, Writes
<1>4. ASSUME NEW k \in client PROVE EntryOk(k, cache[k])'
  BY <1>1, <1>2 DEF EntryOk, ListingsInv
<1>. QED  BY <1>1, <1>3, <1>4 DEF ListingsInv

LEMMA ListingsStepKeeps ==
    ASSUME ListingsInv, ListingsStep
    PROVE  ListingsInv'
<1>1. client \in Clients
  BY DEF ListingsInv
<1>. QED  BY <1>1, ReadKeeps, LookedKeeps, StoredKeeps, NeedsInnerKeeps, LookedInnerKeeps,
             StoredBothKeeps, SendWriteKeeps, RaisedKeeps, ActedKeeps, AnsweredKeeps
          DEF ListingsStep

\* What is cached shows what was answered, and is as recent as it should be.
LEMMA ListingsInvImplies == ASSUME ListingsInv PROVE ReadYourWrites /\ RecentEnough
<1>1. ASSUME NEW k \in client, Live(k), NEW e \in cache[k].val
      PROVE  e.version >= known[e.source] \/ e.raced
  BY DEF ListingsInv, EntryOk, Fresh
<1>2. ASSUME NEW k \in client, Live(k), NEW e \in cache[k].val
      PROVE  now - e.at < TTLOf(k) + Slack(k, e.source)
  <2>1. /\ cache[k].exp \in Nat /\ cache[k].exp <= e.at + (TTLOf(k) + Slack(k, e.source))
        /\ e.at \in Nat /\ now \in Nat /\ now < cache[k].exp
    BY <1>2 DEF ListingsInv, EntryOk, Fresh, Looks, Live
  <2>2. TTLOf(k) \in Nat /\ Slack(k, e.source) \in Nat
    BY KeyFacts DEF ListingsInv
  <2>. QED  BY <2>1, <2>2
<1>. QED  BY <1>1, <1>2 DEF ReadYourWrites, RecentEnough

-----------------------------------------------------------------------------
(***************************************************************************)
(* Listings and the webmail share the cache and no key of it.              *)
(***************************************************************************)
MemoryInv == ListingsInv /\ OidcInv

LEMMA ListingsKeepTheirKeys ==
    ASSUME ListingsInv, ListingsStep
    PROVE  DOMAIN cache' = Keys /\ \A k \in Keys \ ListingKeys : cache'[k] = cache[k]
<1>1. /\ DOMAIN cache = Keys /\ client \in Clients /\ client \subseteq ListingKeys
      /\ ListingKeys \subseteq Keys /\ \A k \in client : Inner(k) \subseteq ListingKeys
  BY KeyFacts DEF ListingsInv
<1>2. \A r \in Callers : /\ call[r].stage \in {"sent"} \cup Reading => call[r].key \in client
                         /\ call[r].clears \subseteq ListingKeys
  BY CallFields DEF CallOk
<1>3. ASSUME NEW r \in Callers, NEW k \in client, NEW refresh \in BOOLEAN, ReadListing(r, k, refresh)
      PROVE  DOMAIN cache' = Keys /\ \A j \in Keys \ ListingKeys : cache'[j] = cache[j]
  <2>1. cache' = cache \/ cache' = Delete({k}) \/ cache' = [cache EXCEPT ![k] = NoEntry]
    BY <1>3 DEF ReadListing, AfterGet
  <2>. QED  BY <1>1, <2>1 DEF Delete
<1>4. ASSUME NEW r \in Callers, Stored(r)
      PROVE  DOMAIN cache' = Keys /\ \A j \in Keys \ ListingKeys : cache'[j] = cache[j]
  BY <1>1, <1>2, <1>4 DEF Stored, Set, Reading
<1>5. ASSUME NEW r \in Callers, NeedsInner(r)
      PROVE  DOMAIN cache' = Keys /\ \A j \in Keys \ ListingKeys : cache'[j] = cache[j]
  <2>1. call[r].key \in client
    BY <1>2, <1>5 DEF NeedsInner, Reading
  <2>2. \E i \in Inner(call[r].key) :
           \/ cache' = Set(call[r].key, call[r].seen \cup cache[i].val, TTLOf(call[r].key))
           \/ cache' = AfterGet(i)
    BY <1>5 DEF NeedsInner
  <2>. QED  BY <1>1, <2>1, <2>2 DEF Set, AfterGet
<1>6. ASSUME NEW r \in Callers, StoredBoth(r)
      PROVE  DOMAIN cache' = Keys /\ \A j \in Keys \ ListingKeys : cache'[j] = cache[j]
  <2>1. call[r].key \in client
    BY <1>2, <1>6 DEF StoredBoth, Reading
  <2>. QED  BY <1>1, <1>6, <2>1 DEF StoredBoth
<1>7. ASSUME NEW r \in Callers, Answered(r)
      PROVE  DOMAIN cache' = Keys /\ \A j \in Keys \ ListingKeys : cache'[j] = cache[j]
  BY <1>2, <1>7 DEF Answered, Delete
<1>8. ASSUME NEW r \in Callers,
             (\E w \in Writes : SendWrite(r, w)) \/ Looked(r) \/ LookedInner(r) \/ Acted(r) \/ Raised(r)
      PROVE  cache' = cache
  BY <1>8 DEF SendWrite, Looked, LookedInner, Acted, Raised
<1>. QED  BY <1>1, <1>3, <1>4, <1>5, <1>6, <1>7, <1>8 DEF ListingsStep

LEMMA OidcKeepsItsKeys ==
    ASSUME OidcInv, OidcStep
    PROVE  /\ DOMAIN cache' = Keys
           /\ \A k \in Keys \ Strings : cache'[k] = cache[k] \/ cache'[k] = NoEntry
  BY OidcFacts DEF OidcInv, OidcStep, Withdraw, Launch, Authorize, Recheck, Restart, IssueCode, Mismatch,
                   ExchangeCode, Set, Delete, Strings

LEMMA MemoryKeeps ==
    ASSUME MemoryInv, [AppStateNext]_appStateVars
    PROVE  MemoryInv'
<1>. USE DEF MemoryInv
<1>0. ListingKeys \cap Strings = {} /\ Strings \subseteq Keys /\ client \subseteq ListingKeys
      /\ ListingKeys \subseteq Keys
  BY AppStateAssumption, OidcFacts, KeyFacts DEF AppStateAssumption, Strings, ListingsInv
<1>1. CASE ListingsStep /\ UNCHANGED <<now, oidcVars>>
  <2>1. DOMAIN cache' = Keys /\ \A k \in Strings : cache'[k] = cache[k]
    BY <1>0, <1>1, ListingsKeepTheirKeys
  <2>2. OidcInv'
    BY <1>1, <2>1, DropKeeps DEF oidcVars
  <2>. QED  BY <1>1, <2>2, ListingsStepKeeps
<1>2. CASE OidcStep /\ UNCHANGED <<now, listingVars>>
  <2>1. DOMAIN cache' = Keys /\ \A k \in client : cache'[k] = cache[k] \/ cache'[k] = NoEntry
    BY <1>0, <1>2, OidcKeepsItsKeys
  <2>2. ListingsInv'
    BY <1>2, <2>1, DropsKeep DEF listingVars
  <2>. QED  BY <1>2, <2>2, OidcStepKeeps
<1>3. CASE Tick
  BY <1>3, OidcTickKeeps, ListingsTickKeeps
<1>4. CASE UNCHANGED <<now, cache, listingVars, oidcVars>>
  <2>1. OidcInv'
    BY <1>4, DropKeeps DEF oidcVars, OidcInv
  <2>2. ListingsInv'
    BY <1>4, DropsKeep DEF listingVars, ListingsInv
  <2>. QED  BY <2>1, <2>2
<1>5. CASE UNCHANGED appStateVars
  BY <1>4, <1>5 DEF appStateVars, memory
<1>6. CASE AppStateNext
  <2>1. CheckLimit => UNCHANGED <<now, cache, listingVars, oidcVars>>
    BY DEF CheckLimit
  <2>2. UNCHANGED memory => UNCHANGED <<now, cache, listingVars, oidcVars>>
    BY DEF memory
  <2>. QED  BY <1>1, <1>2, <1>3, <1>4, <1>6, <2>1, <2>2, OnePart
<1>. QED  BY <1>5, <1>6

LEMMA MemoryStarts == ASSUME AppStateInit PROVE MemoryInv
<1>1. /\ now = 0 /\ cache = [k \in Keys |-> NoEntry] /\ client \in Clients
      /\ world = [s \in ListingKeys |-> 0] /\ known = [s \in ListingKeys |-> 0]
      /\ call = [r \in Callers |-> NoCall]
      /\ owned = Mailboxes /\ lostAt = [m \in Mailboxes |-> 0]
      /\ cookie = NoMailbox /\ auth = NoAuth
  BY DEF AppStateInit, CacheInit, ListingsInit, OidcInit
<1>2. ListingKeys \subseteq Keys /\ client \subseteq Keys /\ Strings \subseteq Keys
  BY <1>1, KeyFacts, OidcFacts
<1>3. \A k \in client : EntryOk(k, cache[k])
  BY <1>1, <1>2, NothingOk
<1>4. call \in [Callers -> Call] /\ \A r \in Callers : CallOk(call[r])
  BY <1>1, NothingOk
<1>5. ListingsInv
  BY <1>1, <1>3, <1>4 DEF ListingsInv
<1>6. \A k \in Strings : EntryInv(k)
  BY <1>1, <1>2 DEF EntryInv, NoEntry
<1>7. OidcInv
  BY <1>1, <1>6 DEF OidcInv, AuthInv
<1>. QED  BY <1>5, <1>7 DEF MemoryInv

\* What a client has cached shows every write that was answered, unless it was
\* fetched while that write was made: each write clears what it changed.
THEOREM WritesAreRead == AppStateSpec => []ReadYourWrites
<1>1. MemoryInv => ReadYourWrites
  BY ListingsInvImplies DEF MemoryInv
<1>. QED  BY <1>1, MemoryStarts, MemoryKeeps, PTL DEF AppStateSpec

\* What is cached is no older than its time to live and the calls it took.
THEOREM ListingsAreRecent == AppStateSpec => []RecentEnough
<1>1. MemoryInv => RecentEnough
  BY ListingsInvImplies DEF MemoryInv
<1>. QED  BY <1>1, MemoryStarts, MemoryKeeps, PTL DEF AppStateSpec

\* A mailbox the tenant has lost is vouched for no longer than a request, a
\* code and a token made from it last.
THEOREM RevokedAccessEnds == AppStateSpec => []AccessEnds
<1>1. MemoryInv => AccessEnds
  BY OidcInvImplies DEF MemoryInv
<1>. QED  BY <1>1, MemoryStarts, MemoryKeeps, PTL DEF AppStateSpec

-----------------------------------------------------------------------------
(***************************************************************************)
(* Starts.  Whoever has no tenant when the column is there waits for the   *)
(* rest of the start that added it, or that start was cut; the scope is    *)
(* given after the promotions, so every operator has it.                   *)
(***************************************************************************)
Standing == [status : {"none", "pending", "active", "suspended"}, scope : BOOLEAN, lapsed : BOOLEAN]
Member == [tenant : Tenants \cup {Nobody}, email : Addresses, role : {"owner", "platform_admin"}]
Running == [pc : {"tables", "rows", "admin", "up"}, email : Addresses, password : BOOLEAN, added : BOOLEAN]
Process == Running \cup {Down}

PlatformType ==
    /\ tenants \in [Tenants -> Standing] /\ people \in Seq(Member)
    /\ slugged \in Tenants \cup {Nobody} /\ start \in Process
    /\ column \in BOOLEAN /\ cut \in BOOLEAN

\* The rows refer to rows that are there.
OfTheRows ==
    /\ slugged # Nobody => There(slugged)
    /\ \A i \in DOMAIN people : people[i].tenant # Nobody => There(people[i].tenant)

OperatorsScoped ==
    \A i \in Admins(people) : people[i].tenant # Nobody => tenants[people[i].tenant].scope

Housed ==
    \/ cut \/ ~column \/ (start.pc = "rows" /\ start.added)
    \/ \A i \in DOMAIN people : people[i].tenant # Nobody

PlatformInv ==
    /\ PlatformType /\ OfTheRows /\ OperatorsScoped /\ Housed
    /\ ~column => start.pc \in {"down", "tables"}
    /\ start.pc = "admin" /\ slugged # Nobody => tenants[slugged].scope

LEMMA PlatformInvImplies == ASSUME PlatformInv PROVE OperatorsSeeAll
<1>. SUFFICES ASSUME start.pc = "up", ~cut, NEW i \in Admins(people)
              PROVE  people[i].tenant # Nobody /\ tenants[people[i].tenant].scope
  BY DEF OperatorsSeeAll
<1>1. i \in DOMAIN people /\ column
  BY DEF PlatformInv, Admins
<1>2. people[i].tenant # Nobody
  BY <1>1 DEF PlatformInv, Housed
<1>. QED  BY <1>2 DEF PlatformInv, OperatorsScoped

LEMMA PlatformStarts == ASSUME AppStateInit PROVE PlatformInv
<1>1. PlatformInit
  BY DEF AppStateInit
<1>. DEFINE none == [t \in Tenants |-> NoTenant]
<1>2. /\ slugged = Nobody /\ start = Down /\ cut = FALSE /\ column \in BOOLEAN
      /\ start \in Process /\ start.pc = "down"
  BY <1>1 DEF PlatformInit, Down, Process
<1>3. none \in [Tenants -> Standing]
  BY DEF NoTenant, Standing
<1>4. CASE people = <<>> /\ tenants = none /\ column = TRUE
  <2>1. people \in Seq(Member) /\ DOMAIN people = {}
    BY <1>4
  <2>. QED  BY <1>2, <1>3, <1>4, <2>1
            DEF PlatformInv, PlatformType, OfTheRows, OperatorsScoped, Housed, Admins
<1>5. ASSUME NEW e \in Addresses, tenants = none, people = <<Person(Nobody, e, "owner")>>, column = FALSE
      PROVE  PlatformInv
  <2>1. Person(Nobody, e, "owner") \in Member /\ Person(Nobody, e, "owner").tenant = Nobody
    BY DEF Person, Member
  <2>2. people \in Seq(Member) /\ DOMAIN people = {1} /\ people[1].tenant = Nobody
    BY <1>5, <2>1
  <2>. QED  BY <1>2, <1>3, <1>5, <2>2
            DEF PlatformInv, PlatformType, OfTheRows, OperatorsScoped, Housed, Admins
<1>6. ASSUME NEW t \in Tenants, NEW e \in Addresses, NEW off \in BOOLEAN, column = TRUE,
             tenants = [none EXCEPT ![t] = [TenantRow("active", FALSE) EXCEPT !.lapsed = off]],
             people = <<Person(t, e, "owner")>>
      PROVE  PlatformInv
  <2>. DEFINE row == [TenantRow("active", FALSE) EXCEPT !.lapsed = off]
  <2>1. row \in Standing /\ row.status = "active"
    BY DEF TenantRow, Standing
  <2>2. /\ Person(t, e, "owner") \in Member /\ Person(t, e, "owner").tenant = t
        /\ Person(t, e, "owner").role = "owner" /\ t # Nobody
    BY PlatformAssumption DEF Person, Member, PlatformAssumption
  <2>. HIDE DEF row
  <2>3. tenants \in [Tenants -> Standing] /\ tenants[t] = row
    BY <1>3, <1>6, <2>1 DEF row
  <2>4. /\ people \in Seq(Member) /\ DOMAIN people = {1} /\ people[1].tenant = t
        /\ people[1].role = "owner"
    BY <1>6, <2>2
  <2>. QED  BY <1>2, <1>6, <2>1, <2>2, <2>3, <2>4
            DEF PlatformInv, PlatformType, OfTheRows, OperatorsScoped, Housed, Admins, There
<1>. QED  BY <1>1, <1>4, <1>5, <1>6 DEF PlatformInit

LEMMA SameLength ==
    ASSUME NEW S, NEW q \in Seq(S), NEW p, p = [i \in DOMAIN q |-> p[i]], \A i \in DOMAIN q : p[i] \in S
    PROVE  p \in Seq(S) /\ DOMAIN p = DOMAIN q
<1>1. Len(q) \in Nat /\ DOMAIN q = 1..Len(q)
  OBVIOUS
<1>2. p = [i \in 1..Len(q) |-> p[i]] /\ \A i \in 1..Len(q) : p[i] \in S
  BY <1>1
<1>. QED  BY <1>1, <1>2

LEMMA OneMore ==
    ASSUME NEW S, NEW q \in Seq(S), NEW x \in S, NEW p, p = Append(q, x)
    PROVE  /\ p \in Seq(S) /\ DOMAIN p = DOMAIN q \cup {Len(q) + 1}
           /\ p[Len(q) + 1] = x /\ \A i \in DOMAIN q : p[i] = q[i]
<1>1. p \in Seq(S) /\ Len(p) = Len(q) + 1 /\ Len(q) \in Nat /\ DOMAIN q = 1..Len(q)
  OBVIOUS
<1>2. DOMAIN p = 1..Len(q) + 1 /\ p[Len(q) + 1] = x /\ \A i \in 1..Len(q) : p[i] = q[i]
  BY <1>1
<1>3. 1..Len(q) + 1 = (1..Len(q)) \cup {Len(q) + 1}
  BY <1>1
<1>. QED  BY <1>1, <1>2, <1>3

LEMMA PromotedFacts ==
    ASSUME NEW ps \in Seq(Member)
    PROVE  /\ Promoted(ps) \in Seq(Member) /\ DOMAIN Promoted(ps) = DOMAIN ps
           /\ \A i \in DOMAIN ps : Promoted(ps)[i].tenant = ps[i].tenant
<1>. DEFINE up(x) == [x EXCEPT !.role = "platform_admin"]
            named == [i \in DOMAIN ps |-> IF ps[i].email = start.email THEN up(ps[i]) ELSE ps[i]]
<1>1. \A x \in Member : up(x) \in Member /\ up(x).tenant = x.tenant
  BY DEF Member
<1>2. Len(ps) \in Nat /\ DOMAIN ps = 1..Len(ps) /\ \A i \in DOMAIN ps : ps[i] \in Member
  OBVIOUS
<1>. HIDE DEF up
<1>3. /\ DOMAIN named = DOMAIN ps
      /\ \A i \in DOMAIN ps : named[i] \in Member /\ named[i].tenant = ps[i].tenant
  BY <1>1, <1>2
<1>4. named = [i \in DOMAIN ps |-> named[i]]
  OBVIOUS
<1>. HIDE DEF named
<1>5. named \in Seq(Member)
  BY <1>3, <1>4, SameLength
<1>6. Promoted(ps) = IF Admins(named) = {} /\ named # <<>>
                     THEN [named EXCEPT ![1] = up(named[1])] ELSE named
  BY DEF Promoted, named, up
<1>7. CASE Admins(named) = {} /\ named # <<>>
  <2>. DEFINE p == [named EXCEPT ![1] = up(named[1])]
  <2>1. 1 \in DOMAIN named
    BY <1>5, <1>7
  <2>2. /\ DOMAIN p = DOMAIN named
        /\ \A i \in DOMAIN named : p[i] \in Member /\ p[i].tenant = named[i].tenant
    BY <1>1, <1>3, <2>1
  <2>3. p = [i \in DOMAIN named |-> p[i]]
    OBVIOUS
  <2>. HIDE DEF p
  <2>4. p \in Seq(Member)
    BY <1>5, <2>2, <2>3, SameLength
  <2>. QED  BY <1>3, <1>6, <1>7, <2>2, <2>4 DEF p
<1>. QED  BY <1>3, <1>5, <1>6, <1>7

LEMMA AdoptedFacts ==
    ASSUME people \in Seq(Member), NEW t \in Tenants \cup {Nobody}
    PROVE  /\ Adopted(t) \in Seq(Member) /\ DOMAIN Adopted(t) = DOMAIN people
           /\ \A i \in DOMAIN people :
                 Adopted(t)[i].tenant = IF people[i].tenant = Nobody THEN t ELSE people[i].tenant
<1>. DEFINE in(x) == [x EXCEPT !.tenant = t]
            p == Adopted(t)
<1>1. \A x \in Member : in(x) \in Member /\ in(x).tenant = t
  BY DEF Member
<1>2. p = [i \in DOMAIN people |-> IF people[i].tenant = Nobody THEN in(people[i]) ELSE people[i]]
  BY DEF Adopted
<1>3. \A i \in DOMAIN people : people[i] \in Member
  OBVIOUS
<1>. HIDE DEF in, p
<1>4. /\ DOMAIN p = DOMAIN people /\ p = [i \in DOMAIN people |-> p[i]]
      /\ \A i \in DOMAIN people : /\ p[i] \in Member
                                  /\ p[i].tenant = IF people[i].tenant = Nobody THEN t ELSE people[i].tenant
  BY <1>1, <1>2, <1>3
<1>5. p \in Seq(Member)
  BY <1>4, SameLength
<1>. QED  BY <1>4, <1>5 DEF p

LEMMA BackfillKeeps ==
    ASSUME PlatformInv, BackfillRows
    PROVE  PlatformInv'
<1>0. /\ PlatformType /\ people \in Seq(Member) /\ Nobody \notin Tenants
      /\ start.pc = "rows" /\ start' = [start EXCEPT !.pc = "admin"]
      /\ UNCHANGED <<slugged, column, cut>> /\ column
  BY PlatformAssumption DEF BackfillRows, PlatformInv, PlatformType, PlatformAssumption
<1>. DEFINE base(t) == IF t \in Unmade
                       THEN [tenants EXCEPT ![t] = TenantRow("active", TRUE)] ELSE tenants
            risen(x, b) == [x EXCEPT !.status = BackfilledStatus(x), !.scope = x.scope \/ b]
<1>1. PICK t \in Adopters :
        /\ people' = Promoted(Adopted(t))
        /\ tenants' = [u \in Tenants |-> risen(base(t)[u], u \in Scoped(Promoted(Adopted(t))))]
  BY DEF BackfillRows
<1>2. /\ t \in Tenants \cup {Nobody} /\ (t = Nobody => ~start.added \/ people = <<>>)
      /\ t \in Unmade => t \in Tenants
  BY <1>0 DEF Adopters, Unmade
<1>3. /\ people' \in Seq(Member) /\ DOMAIN people' = DOMAIN people
      /\ \A i \in DOMAIN people :
            people'[i].tenant = IF people[i].tenant = Nobody THEN t ELSE people[i].tenant
  <2>1. /\ Adopted(t) \in Seq(Member) /\ DOMAIN Adopted(t) = DOMAIN people
        /\ \A i \in DOMAIN people :
              Adopted(t)[i].tenant = IF people[i].tenant = Nobody THEN t ELSE people[i].tenant
    BY <1>0, <1>2, AdoptedFacts
  <2>2. PICK ps : ps = Adopted(t)
    OBVIOUS
  <2>3. /\ Promoted(ps) \in Seq(Member) /\ DOMAIN Promoted(ps) = DOMAIN ps
        /\ \A i \in DOMAIN ps : Promoted(ps)[i].tenant = ps[i].tenant
    BY <2>1, <2>2, PromotedFacts
  <2>4. people' = Promoted(ps)
    BY <1>1, <2>2
  <2>. QED  BY ONLY <2>1, <2>2, <2>3, <2>4
<1>3a. /\ \A i \in DOMAIN people : people[i].tenant \in Tenants \cup {Nobody}
       /\ \A i \in DOMAIN people' : people'[i].tenant \in Tenants \cup {Nobody}
  <2>1. \A q \in Seq(Member) : \A i \in DOMAIN q : q[i] \in Member
    OBVIOUS
  <2>2. \A x \in Member : x.tenant \in Tenants \cup {Nobody}
    BY DEF Member
  <2>. QED  BY <1>0, <1>3, <2>1, <2>2
<1>4. TenantRow("active", TRUE) \in Standing /\ TenantRow("active", TRUE).status = "active"
  BY DEF TenantRow, Standing
<1>. DEFINE rows == base(t)
<1>5. /\ rows \in [Tenants -> Standing]
      /\ \A u \in Tenants : There(u) => rows[u].status # "none"
      /\ t \in Tenants => rows[t].status # "none"
  BY <1>0, <1>2, <1>4 DEF PlatformType, There, Unmade
<1>6. tenants' = [u \in Tenants |-> risen(rows[u], u \in Scoped(people'))]
  <2>. HIDE DEF base, risen
  <2>1. tenants' = [u \in Tenants |-> risen(rows[u], u \in Scoped(Promoted(Adopted(t))))]
    BY ONLY <1>1
  <2>2. Promoted(Adopted(t)) = people'
    BY <1>1
  <2>. QED  BY ONLY <2>1, <2>2, Zenon
<1>. HIDE DEF rows
<1>7. \A x \in Standing : \A b \in BOOLEAN :
         /\ risen(x, b) \in Standing /\ (x.status # "none" => risen(x, b).status # "none")
         /\ b => risen(x, b).scope
  BY ONLY DEF Standing, BackfilledStatus
<1>. HIDE DEF risen
<1>8. \A u \in Tenants : /\ tenants'[u] \in Standing
                         /\ rows[u].status # "none" => tenants'[u].status # "none"
                         /\ u \in Scoped(people') => tenants'[u].scope
  <2>. SUFFICES ASSUME NEW u \in Tenants
                PROVE  /\ tenants'[u] \in Standing
                       /\ rows[u].status # "none" => tenants'[u].status # "none"
                       /\ u \in Scoped(people') => tenants'[u].scope
    OBVIOUS
  <2>1. PICK b \in BOOLEAN : b <=> (u \in Scoped(people'))
    OBVIOUS
  <2>2. PICK x \in Standing : x = rows[u]
    BY <1>5
  <2>3. tenants'[u] = risen(x, u \in Scoped(people'))
    BY <1>6, <2>2
  <2>4. (u \in Scoped(people')) \in BOOLEAN
    OBVIOUS
  <2>. QED  BY ONLY <1>7, <2>2, <2>3, <2>4
<1>9. PlatformType'
  <2>1. start' \in Process
    BY <1>0 DEF PlatformType, Process, Running, Down
  <2>2. tenants' \in [Tenants -> Standing]
    BY <1>6, <1>8
  <2>. QED  BY <1>0, <1>3, <2>1, <2>2 DEF PlatformType
<1>10. \A u \in Tenants : rows[u].status # "none" => There(u)'
  BY <1>8 DEF There
<1>11. OfTheRows'
  <2>1. slugged' # Nobody => There(slugged)'
    BY <1>0, <1>5, <1>10 DEF PlatformInv, PlatformType, OfTheRows
  <2>2. ASSUME NEW i \in DOMAIN people, people'[i].tenant # Nobody
        PROVE  people'[i].tenant \in Tenants /\ rows[people'[i].tenant].status # "none"
    <3>1. people[i].tenant \in Tenants \cup {Nobody}
      BY <1>3a
    <3>2. CASE people[i].tenant = Nobody
      BY <1>2, <1>3, <1>5, <2>2, <3>2
    <3>3. CASE people[i].tenant # Nobody
      BY <1>3, <1>5, <3>1, <3>3 DEF PlatformInv, OfTheRows
    <3>. QED  BY <3>2, <3>3
  <2>. QED  BY <1>3, <1>10, <2>1, <2>2 DEF OfTheRows, There
<1>12. OperatorsScoped'
  <2>. SUFFICES ASSUME NEW i \in Admins(people'), people'[i].tenant # Nobody
                PROVE  tenants'[people'[i].tenant].scope
    BY DEF OperatorsScoped, Admins
  <2>1. people'[i].tenant \in Tenants
    BY <1>3a DEF Admins
  <2>. QED  BY <1>8, <2>1 DEF Scoped
<1>13. Housed'
  <2>1. CASE start.added /\ people # <<>>
    <3>1. t # Nobody
      BY <1>2, <2>1
    <3>2. \A i \in DOMAIN people' : people'[i].tenant # Nobody
      BY <1>3, <3>1
    <3>. QED  BY <3>2 DEF Housed
  <2>2. CASE people = <<>>
    BY <1>3, <2>2 DEF Housed
  <2>3. CASE ~start.added
    <3>1. cut \/ \A i \in DOMAIN people : people[i].tenant # Nobody
      BY <1>0, <2>3 DEF PlatformInv, Housed
    <3>. QED  BY <1>0, <1>3, <3>1 DEF Housed
  <2>. QED  BY <2>1, <2>2, <2>3
<1>14. slugged' # Nobody => tenants'[slugged'].scope
  <2>1. slugged \in Scoped(people')
    BY DEF Scoped
  <2>. QED  BY <1>0, <1>8, <2>1 DEF PlatformType
<1>. QED  BY <1>0, <1>9, <1>11, <1>12, <1>13, <1>14 DEF PlatformInv

\* Somebody comes to a tenant t that is there, with the scope if they operate
\* the platform; or those without a tenant are given it.
LEMMA PeopleKeep ==
    ASSUME PlatformInv, NEW t \in Tenants,
           tenants' \in [Tenants -> Standing], slugged' \in Tenants \cup {Nobody}, start' \in Process,
           UNCHANGED <<column, cut>>, column,
           start.pc \in {"admin", "up"}, start'.pc = "up",
           \A u \in Tenants : There(u) => tenants'[u] = tenants[u],
           There(t)', slugged' \in {slugged, t},
           \/ \E x \in Member : /\ people' = Append(people, x) /\ x.tenant = t
                                /\ x.role = "platform_admin" => tenants'[t].scope
           \/ /\ tenants'[t].scope
              /\ \E e \in Addresses :
                    people' = [i \in DOMAIN people |->
                                 IF people[i].email = e /\ people[i].tenant = Nobody
                                 THEN [people[i] EXCEPT !.tenant = t] ELSE people[i]]
           \/ people' = people
    PROVE  PlatformInv'
<1>1. /\ PlatformType /\ people \in Seq(Member) /\ Nobody \notin Tenants
      /\ \A i \in DOMAIN people : people[i] \in Member
      /\ \A x \in Member : x.tenant \in Tenants \cup {Nobody}
      /\ \A i \in DOMAIN people : people[i].tenant # Nobody => There(people[i].tenant)
      /\ \A i \in DOMAIN people :
            people[i].role = "platform_admin" /\ people[i].tenant # Nobody => tenants[people[i].tenant].scope
  <2>1. PlatformType /\ people \in Seq(Member) /\ Nobody \notin Tenants
    BY PlatformAssumption DEF PlatformInv, PlatformType, PlatformAssumption
  <2>2. \A x \in Member : x.tenant \in Tenants \cup {Nobody}
    BY DEF Member
  <2>3. \A i \in DOMAIN people : people[i] \in Member
    BY <2>1
  <2>. QED  BY <2>1, <2>2, <2>3 DEF PlatformInv, OfTheRows, OperatorsScoped, Admins
\* Everybody is who they were, or has come to t.
<1>2. /\ people' \in Seq(Member)
      /\ \A i \in DOMAIN people' :
            \/ i \in DOMAIN people /\ people'[i] = people[i]
            \/ /\ people'[i].tenant = t
               /\ people'[i].role = "platform_admin" => tenants'[t].scope
  <2>1. ASSUME NEW x \in Member, people' = Append(people, x), x.tenant = t,
               x.role = "platform_admin" => tenants'[t].scope
        PROVE  <1>2!:
    <3>1. /\ people' \in Seq(Member) /\ DOMAIN people' = DOMAIN people \cup {Len(people) + 1}
          /\ people'[Len(people) + 1] = x /\ \A i \in DOMAIN people : people'[i] = people[i]
      BY <1>1, <2>1, OneMore
    <3>. QED  BY <2>1, <3>1
  <2>2. ASSUME NEW e \in Addresses, tenants'[t].scope,
               people' = [i \in DOMAIN people |->
                            IF people[i].email = e /\ people[i].tenant = Nobody
                            THEN [people[i] EXCEPT !.tenant = t] ELSE people[i]]
        PROVE  <1>2!:
    <3>. DEFINE in(x) == [x EXCEPT !.tenant = t]
    <3>1. \A x \in Member : in(x) \in Member /\ in(x).tenant = t
      BY DEF Member
    <3>2. PICK p : p = people'
      OBVIOUS
    <3>3. p = [i \in DOMAIN people |-> IF people[i].email = e /\ people[i].tenant = Nobody
                                       THEN in(people[i]) ELSE people[i]]
      BY <2>2, <3>2
    <3>. HIDE DEF in
    <3>4. /\ p = [i \in DOMAIN people |-> p[i]] /\ DOMAIN p = DOMAIN people
          /\ \A i \in DOMAIN people : /\ p[i] \in Member
                                      /\ p[i] = people[i] \/ p[i].tenant = t
      BY <1>1, <3>1, <3>3
    <3>5. p \in Seq(Member)
      BY <1>1, <3>4, SameLength
    <3>. QED  BY <2>2, <3>2, <3>4, <3>5
  <2>. QED  BY <1>1, <2>1, <2>2
<1>3. ASSUME NEW i \in DOMAIN people', people'[i].tenant # Nobody
      PROVE  /\ people'[i].tenant \in Tenants /\ tenants'[people'[i].tenant].status # "none"
             /\ people'[i].role = "platform_admin" => tenants'[people'[i].tenant].scope
  <2>1. CASE people'[i].tenant = t /\ (people'[i].role = "platform_admin" => tenants'[t].scope)
    BY <2>1 DEF There
  <2>2. CASE i \in DOMAIN people /\ people'[i] = people[i]
    <3>1. people[i].tenant \in Tenants /\ There(people[i].tenant)
      BY <1>1, <1>3, <2>2
    <3>. QED  BY <1>1, <1>3, <2>2, <3>1 DEF There
  <2>. QED  BY <1>2, <2>1, <2>2
<1>4. OfTheRows'
  <2>1. slugged' # Nobody => There(slugged)'
    <3>1. CASE slugged' = slugged /\ slugged # t
      BY <3>1 DEF PlatformInv, PlatformType, OfTheRows, There
    <3>2. CASE slugged' = t
      BY <3>2
    <3>. QED  BY <3>1, <3>2
  <2>. QED  BY <1>3, <2>1 DEF OfTheRows, There
<1>5. OperatorsScoped'
  BY <1>3 DEF OperatorsScoped, Admins
<1>6. Housed'
  <2>1. cut \/ \A i \in DOMAIN people : people[i].tenant # Nobody
    BY DEF PlatformInv, Housed
  <2>. QED  BY <1>1, <1>2, <2>1 DEF Housed
<1>7. PlatformType'
  BY <1>1, <1>2 DEF PlatformType
<1>. QED  BY <1>4, <1>5, <1>6, <1>7 DEF PlatformInv

LEMMA EnsureAdminKeeps ==
    ASSUME PlatformInv, NEW t \in Tenants, EnsureAdmin(t)
    PROVE  PlatformInv'
<1>1. /\ start.pc = "admin" /\ start' = [start EXCEPT !.pc = "up"] /\ start \in Process
      /\ UNCHANGED <<column, cut>> /\ column /\ t # Nobody
      /\ tenants \in [Tenants -> Standing] /\ slugged \in Tenants \cup {Nobody}
  BY PlatformAssumption DEF EnsureAdmin, PlatformInv, PlatformType, PlatformAssumption
<1>2. start' \in Process /\ start'.pc = "up" /\ start.email \in Addresses
  BY <1>1 DEF Process, Running, Down
<1>3. TenantRow("active", TRUE) \in Standing /\ TenantRow("active", TRUE).status = "active"
      /\ TenantRow("active", TRUE).scope
  BY DEF TenantRow, Standing
<1>4. /\ tenants' \in [Tenants -> Standing] /\ slugged' = t /\ There(t)' /\ tenants'[t].scope
      /\ \A u \in Tenants : There(u) => tenants'[u] = tenants[u]
  <2>1. CASE NewDefault(t)
    BY <1>1, <1>3, <2>1 DEF NewDefault, Unmade, There
  <2>2. CASE t = slugged /\ UNCHANGED <<slugged, tenants>>
    <3>1. There(t) /\ tenants[t].scope
      BY <1>1, <2>2 DEF PlatformInv, OfTheRows
    <3>. QED  BY <1>1, <2>2, <3>1 DEF There
  <2>. QED  BY <2>1, <2>2 DEF EnsureAdmin
<1>5. CASE Held(start.email)
  <2>1. people' = [i \in DOMAIN people |->
                    IF people[i].email = start.email /\ people[i].tenant = Nobody
                    THEN [people[i] EXCEPT !.tenant = t] ELSE people[i]]
    BY <1>5 DEF EnsureAdmin
  <2>. QED  BY <1>1, <1>2, <1>4, <2>1, PeopleKeep
<1>6. CASE ~ Held(start.email)
  <2>. DEFINE x == Person(t, start.email, "platform_admin")
  <2>1. people' = Append(people, x)
    BY <1>6 DEF EnsureAdmin
  <2>2. x \in Member /\ x.tenant = t
    BY <1>2 DEF Member, Person
  <2>. HIDE DEF x
  <2>. QED  BY <1>1, <1>2, <1>4, <2>1, <2>2, PeopleKeep
<1>. QED  BY <1>5, <1>6

\* No row of a person or a tenant is made, and none loses what it has.
LEMMA StartKeeps ==
    ASSUME PlatformInv,
           (\E e \in Addresses, password \in BOOLEAN : StartProcess(e, password))
             \/ UpgradeSchema \/ NoAdmin \/ Stop
    PROVE  PlatformInv'
<1>1. /\ PlatformType /\ UNCHANGED <<tenants, people, slugged>>
      /\ start \in Process
  BY DEF PlatformInv, PlatformType, StartProcess, UpgradeSchema, NoAdmin, Stop
<1>2. PlatformType' /\ Housed' /\ (~column' => start'.pc \in {"down", "tables"})
      /\ start'.pc # "admin"
  <2>1. ASSUME NEW e \in Addresses, NEW password \in BOOLEAN, StartProcess(e, password)
        PROVE  <1>2!:
    <3>1. start'.pc = "tables" /\ start' \in Process /\ UNCHANGED <<column, cut>> /\ start.pc = "down"
      BY <2>1 DEF StartProcess, Process, Running, Down
    <3>. QED  BY <1>1, <3>1 DEF PlatformType, Housed, PlatformInv
  <2>2. CASE UpgradeSchema
    <3>1. start.pc = "tables" /\ start' = [start EXCEPT !.pc = "rows", !.added = ~column]
      BY <2>2 DEF UpgradeSchema
    <3>2. start \in Running /\ column \in BOOLEAN
      BY <1>1, <3>1 DEF Process, Down, PlatformType
    <3>3. \A x \in Running : \A b \in BOOLEAN :
             LET y == [x EXCEPT !.pc = "rows", !.added = b] IN y \in Running /\ y.pc = "rows" /\ y.added = b
      BY ONLY DEF Running
    <3>4. start' \in Running /\ start'.pc = "rows" /\ start'.added = ~column
      BY <3>1, <3>2, <3>3
    <3>. QED  BY <1>1, <2>2, <3>1, <3>4 DEF PlatformType, Housed, PlatformInv, UpgradeSchema, Process
  <2>3. CASE NoAdmin
    <3>1. start.pc = "admin" /\ start'.pc = "up" /\ start' \in Process /\ UNCHANGED <<column, cut>>
      BY <1>1, <2>3 DEF NoAdmin, Process, Running, Down
    <3>. QED  BY <1>1, <3>1 DEF PlatformType, Housed, PlatformInv
  <2>4. CASE Stop
    <3>1. start'.pc = "down" /\ start' \in Process /\ column' = column
          /\ cut' = (cut \/ (start.pc = "rows" /\ start.added))
      BY <2>4 DEF Stop, Process, Down
    <3>. QED  BY <1>1, <3>1 DEF PlatformType, Housed, PlatformInv
  <2>. QED  BY <2>1, <2>2, <2>3, <2>4
<1>3. OfTheRows' /\ OperatorsScoped'
  BY <1>1 DEF PlatformInv, OfTheRows, OperatorsScoped, Admins, There
<1>. QED  BY <1>2, <1>3 DEF PlatformInv

\* A request.
LEMMA RequestKeeps ==
    ASSUME PlatformInv, NEW t \in Tenants,
           (\E e \in Addresses : SignUp(t, e)) \/ CreateTenant(t)
             \/ (\E status \in {"active", "suspended"} : SetStatus(t, status))
    PROVE  PlatformInv'
<1>1. /\ start.pc = "up" /\ UNCHANGED <<column, cut, start>> /\ column /\ start \in Process
      /\ tenants \in [Tenants -> Standing] /\ slugged \in Tenants \cup {Nobody} /\ t # Nobody
  BY PlatformAssumption
     DEF SignUp, CreateTenant, SetStatus, Requested, PlatformInv, PlatformType, PlatformAssumption
<1>2. \A status \in {"pending", "active"} : /\ TenantRow(status, FALSE) \in Standing
                                            /\ TenantRow(status, FALSE).status = status
  BY DEF TenantRow, Standing
<1>3. ASSUME NEW status \in {"pending", "active"}, t \in Unmade, Named(t),
             tenants' = [tenants EXCEPT ![t] = TenantRow(status, FALSE)]
      PROVE  /\ tenants' \in [Tenants -> Standing] /\ There(t)'
             /\ slugged' \in {slugged, t}
             /\ \A u \in Tenants : There(u) => tenants'[u] = tenants[u]
  BY <1>1, <1>2, <1>3 DEF Unmade, There, Named
<1>4. ASSUME NEW e \in Addresses, SignUp(t, e) PROVE PlatformInv'
  <2>1. /\ tenants' = [tenants EXCEPT ![t] = TenantRow("pending", FALSE)]
        /\ people' = Append(people, Person(t, e, "owner")) /\ t \in Unmade /\ Named(t)
    BY <1>4 DEF SignUp, MayJoin
  <2>2. /\ Person(t, e, "owner") \in Member /\ Person(t, e, "owner").tenant = t
        /\ Person(t, e, "owner").role # "platform_admin"
    BY DEF Person, Member
  <2>. QED  BY <1>1, <1>3, <2>1, <2>2, PeopleKeep
<1>5. CASE CreateTenant(t)
  <2>1. /\ tenants' = [tenants EXCEPT ![t] = TenantRow("active", FALSE)]
        /\ people' = people /\ t \in Unmade /\ Named(t)
    BY <1>5 DEF CreateTenant
  <2>. QED  BY <1>1, <1>3, <2>1, PeopleKeep
<1>6. ASSUME NEW status \in {"active", "suspended"}, SetStatus(t, status) PROVE PlatformInv'
  <2>1. /\ tenants' = [tenants EXCEPT ![t].status = status] /\ UNCHANGED <<people, slugged>>
        /\ There(t)
    BY <1>6 DEF SetStatus
  <2>2. \A x \in Standing : LET y == [x EXCEPT !.status = status]
                            IN  y \in Standing /\ y.status = status /\ y.scope = x.scope
    BY ONLY status \in {"active", "suspended"} DEF Standing
  <2>3. /\ tenants' \in [Tenants -> Standing]
        /\ \A u \in Tenants : tenants'[u].scope = tenants[u].scope
        /\ \A u \in Tenants : tenants'[u].status = "none" => tenants[u].status = "none"
    <3>1. tenants[t] \in Standing /\ tenants' = [tenants EXCEPT ![t] = [tenants[t] EXCEPT !.status = status]]
      BY <1>1, <2>1
    <3>2. PICK y \in Standing : /\ y = [tenants[t] EXCEPT !.status = status]
                               /\ y.status = status /\ y.scope = tenants[t].scope
      BY <2>2, <3>1
    <3>3. tenants' = [tenants EXCEPT ![t] = y]
      BY <3>1, <3>2
    <3>. QED  BY <1>1, <3>2, <3>3
  <2>4. /\ \A i \in DOMAIN people : people[i].tenant \in Tenants \cup {Nobody}
        /\ people \in Seq(Member)
    <3>1. people \in Seq(Member) /\ \A q \in Seq(Member) : \A i \in DOMAIN q : q[i] \in Member
      BY DEF PlatformInv, PlatformType
    <3>2. \A x \in Member : x.tenant \in Tenants \cup {Nobody}
      BY DEF Member
    <3>. QED  BY <3>1, <3>2
  <2>5. OfTheRows'
    BY <1>1, <2>1, <2>3, <2>4 DEF PlatformInv, OfTheRows, There
  <2>6. OperatorsScoped'
    BY <2>1, <2>3, <2>4 DEF PlatformInv, OperatorsScoped, Admins
  <2>. QED  BY <1>1, <2>1, <2>3, <2>5, <2>6 DEF PlatformInv, PlatformType, Housed
<1>. QED  BY <1>4, <1>5, <1>6

LEMMA ChangeEmailKeeps ==
    ASSUME PlatformInv, NEW i \in DOMAIN people, NEW e \in Addresses, ChangeEmail(i, e)
    PROVE  PlatformInv'
<1>1. /\ people \in Seq(Member) /\ people[i] \in Member
      /\ people' = [people EXCEPT ![i] = [people[i] EXCEPT !.email = e]]
      /\ UNCHANGED <<tenants, slugged, column, start, cut>>
  BY DEF ChangeEmail, PlatformInv, PlatformType
<1>2. \A x \in Member : LET y == [x EXCEPT !.email = e]
                        IN  y \in Member /\ y.tenant = x.tenant /\ y.role = x.role
  BY ONLY e \in Addresses DEF Member
<1>3. PICK y \in Member : /\ y = [people[i] EXCEPT !.email = e]
                         /\ y.tenant = people[i].tenant /\ y.role = people[i].role
  BY <1>1, <1>2
<1>4. PICK p : p = people'
  OBVIOUS
<1>5. /\ p = [j \in DOMAIN people |-> p[j]] /\ DOMAIN p = DOMAIN people
      /\ \A j \in DOMAIN people : /\ p[j] \in Member
                                  /\ p[j].tenant = people[j].tenant /\ p[j].role = people[j].role
  <2>1. p = [people EXCEPT ![i] = y] /\ \A j \in DOMAIN people : people[j] \in Member
    BY <1>1, <1>3, <1>4
  <2>. QED  BY <1>3, <2>1
<1>6. p \in Seq(Member)
  BY <1>1, <1>5, SameLength
<1>7. /\ people' \in Seq(Member) /\ DOMAIN people' = DOMAIN people
      /\ \A j \in DOMAIN people : people'[j].tenant = people[j].tenant /\ people'[j].role = people[j].role
  BY <1>4, <1>5, <1>6
<1>8. OfTheRows' /\ OperatorsScoped' /\ Housed'
  BY <1>1, <1>7 DEF PlatformInv, OfTheRows, OperatorsScoped, Housed, Admins, There
<1>. QED  BY <1>1, <1>7, <1>8 DEF PlatformInv, PlatformType

LEMMA PlatformKeeps ==
    ASSUME PlatformInv, [AppStateNext]_appStateVars
    PROVE  PlatformInv'
<1>1. CASE UNCHANGED <<tenants, people, slugged, start, column, cut>>
  BY <1>1 DEF PlatformInv, PlatformType, OfTheRows, OperatorsScoped, Housed, Admins, There
<1>2. UNCHANGED platformVars => UNCHANGED <<tenants, people, slugged, start, column, cut>>
  BY DEF platformVars
<1>3. ASSUME NEW r \in Editors,
             CommitUpdate(r) \/ \E fields \in {{"apps"}, {"cpu"}, {"apps", "cpu"}}, p \in Offers :
                                  AskUpdate(r, fields, p)
      PROVE  PlatformInv'
  BY <1>1, <1>3 DEF CommitUpdate, AskUpdate
<1>4. ASSUME NEW t \in Tenants, NEW i \in DOMAIN shares[t], Release(t, i)
      PROVE  PlatformInv'
  BY <1>1, <1>4 DEF Release
<1>6. ASSUME NEW k \in Askers,
             CountApps(k) \/ CommitReservation(k) \/ GiveUp(k) \/ \E t \in Tenants : ReadShare(k, t)
      PROVE  PlatformInv'
  BY <1>1, <1>6 DEF CountApps, CommitReservation, GiveUp, ReadShare
<1>5. CASE PlatformStep
  BY <1>3, <1>4, <1>5, <1>6, BackfillKeeps, EnsureAdminKeeps, StartKeeps, RequestKeeps, ChangeEmailKeeps
     DEF PlatformStep
<1>. QED  BY <1>1, <1>2, <1>5, OnePart DEF appStateVars

\* "Or its admin would see an empty panel": whenever requests are served every
\* operator is of a tenant in platform scope, however many starts there were and
\* wherever they were cut, unless one was between its tables and its rows on a
\* database from before there were tenants.
THEOREM OperatorsAlwaysSee == AppStateSpec => []OperatorsSeeAll
  BY PlatformStarts, PlatformKeeps, PlatformInvImplies, PTL DEF AppStateSpec

\* "(idempotent)": no start changes the plan that staff set or a share that was
\* reserved, and none suspends a tenant but one that was switched off of old.
THEOREM EditsSurviveStarts == AppStateSpec => StartsKeepEdits
<1>. DEFINE Stays(t) == /\ tenants'[t].status # tenants[t].status => tenants[t].lapsed \/ ~There(t)
                        /\ \A i \in DOMAIN shares[t] : shares[t][i] \in {0, shares'[t][i]}
            Same == /\ free # NoPlan => free' = free
                    /\ \A t \in Tenants : Stays(t)
<1>1. ASSUME PlatformInv, PlatformStep, start.pc # "up" PROVE Same
  <2>1. tenants \in [Tenants -> Standing]
    BY <1>1 DEF PlatformInv, PlatformType
  <2>2. CASE BackfillRows
    <3>1. free # NoPlan => free' = free
      BY <2>2 DEF BackfillRows, SeededPlan
    <3>2. ASSUME NEW t \in Tenants, NEW i \in DOMAIN shares[t]
          PROVE  shares[t][i] \in {0, shares'[t][i]}
      BY <2>2, <3>2 DEF BackfillRows, BackfilledShares
    <3>3. ASSUME NEW u \in Tenants, tenants'[u].status # tenants[u].status
          PROVE  tenants[u].lapsed \/ ~There(u)
      <4>1. PICK t \in Adopters : tenants'[u].status =
                LET rows == IF t \in Unmade
                            THEN [tenants EXCEPT ![t] = TenantRow("active", TRUE)] ELSE tenants
                IN  BackfilledStatus(rows[u])
        <5>1. PICK t \in Adopters : \E ps :
                 LET rows == IF t \in Unmade
                             THEN [tenants EXCEPT ![t] = TenantRow("active", TRUE)] ELSE tenants
                 IN  tenants' = [v \in Tenants |->
                                   [rows[v] EXCEPT !.status = BackfilledStatus(rows[v]),
                                                   !.scope = rows[v].scope \/ v \in Scoped(ps)]]
          BY <2>2 DEF BackfillRows
        <5>. DEFINE rows == IF t \in Unmade
                            THEN [tenants EXCEPT ![t] = TenantRow("active", TRUE)] ELSE tenants
        <5>1a. PICK ps :
                 tenants' = [v \in Tenants |->
                               [rows[v] EXCEPT !.status = BackfilledStatus(rows[v]),
                                               !.scope = rows[v].scope \/ v \in Scoped(ps)]]
          BY <5>1
        <5>2. rows[u] \in Standing
          BY <2>1 DEF TenantRow, Standing
        <5>3. tenants'[u] = [rows[u] EXCEPT !.status = BackfilledStatus(rows[u]),
                                            !.scope = rows[u].scope \/ u \in Scoped(ps)]
          BY <5>1a
        <5>. HIDE DEF rows
        <5>4. \A x \in Standing : \A s, b : [x EXCEPT !.status = s, !.scope = b].status = s
          BY ONLY DEF Standing
        <5>5. tenants'[u].status = BackfilledStatus(rows[u])
          BY <5>2, <5>3, <5>4
        <5>. QED  BY <5>5 DEF rows
      <4>2. CASE t \in Unmade /\ t = u
        BY <4>2 DEF Unmade
      <4>3. CASE ~ (t \in Unmade /\ t = u)
        <5>1. tenants'[u].status = BackfilledStatus(tenants[u])
          BY <2>1, <4>1, <4>3
        <5>. QED  BY <3>3, <5>1 DEF BackfilledStatus
      <4>. QED  BY <4>2, <4>3
    <3>. QED  BY <3>1, <3>2, <3>3
  <2>3. ASSUME NEW t \in Tenants, EnsureAdmin(t) PROVE Same
    <3>1. UNCHANGED <<free, shares>>
      BY <2>3 DEF EnsureAdmin, plans
    <3>2. ASSUME NEW u \in Tenants, There(u) PROVE tenants'[u] = tenants[u]
      BY <2>1, <2>3, <3>2 DEF EnsureAdmin, NewDefault, Unmade
    <3>. QED  BY <3>1, <3>2
  <2>4. ASSUME UNCHANGED <<tenants, free, shares>> PROVE Same
    BY <2>4
  <2>5. \A e \in Addresses, password \in BOOLEAN :
           StartProcess(e, password) => UNCHANGED <<tenants, free, shares>>
    BY DEF StartProcess, plans
  <2>6. UpgradeSchema \/ NoAdmin \/ Stop => UNCHANGED <<tenants, free, shares>>
    BY DEF UpgradeSchema, NoAdmin, Stop, plans
  <2>. HIDE DEF Same
  <2>. QED  BY <1>1, <2>2, <2>3, <2>4, <2>5, <2>6
            DEF PlatformStep, SignUp, CreateTenant, SetStatus, ChangeEmail, AskUpdate, CommitUpdate,
                ReadShare, CountApps, CommitReservation, GiveUp, Release, Requested
<1>2. ASSUME PlatformInv, [AppStateNext]_appStateVars
      PROVE  [start.pc # "up" => Same]_platformVars
  BY <1>1, <1>2, OnePart DEF appStateVars
<1>. QED  BY <1>2, PlatformStarts, PlatformKeeps, PTL DEF AppStateSpec, StartsKeepEdits

-----------------------------------------------------------------------------
(***************************************************************************)
(* What a tenant's apps were given.  The sum is a recursive function on    *)
(* the numbers of rows; that there is one, and what bounds it, follow from *)
(* the least number for which they would fail.                             *)
(***************************************************************************)

\* There is a function that sums the first rows: by the least number of rows
\* for which there is none.
LEMMA SumExists ==
    ASSUME NEW q \in Seq(Nat)
    PROVE  \E g : g = [n \in 0..Len(q) |-> IF n = 0 THEN 0 ELSE g[n - 1] + Charge(q[n])]
<1>. DEFINE Sums(g, m) == /\ DOMAIN g = 0..m /\ g = [n \in 0..m |-> g[n]]
                          /\ \A n \in 0..m : g[n] = IF n = 0 THEN 0 ELSE g[n - 1] + Charge(q[n])
            Bad == {m \in 0..Len(q) : ~ \E g : Sums(g, m)}
<1>1. Bad = {}
  <2>1. SUFFICES ASSUME Bad # {} PROVE FALSE
    OBVIOUS
  <2>2. PICK m \in Bad : \A x \in Bad : m <= x
    <3>1. Bad \subseteq Nat
      OBVIOUS
    <3>. HIDE DEF Bad
    <3>. QED  BY <2>1, <3>1, LeastOf
  <2>3. m \in 0..Len(q) /\ ~ \E g : Sums(g, m)
    OBVIOUS
  <2>4. CASE m = 0
    <3>. DEFINE g == [n \in 0..0 |-> 0]
    <3>1. Sums(g, 0)
      OBVIOUS
    <3>. QED  BY <2>3, <2>4, <3>1
  <2>5. CASE m # 0
    <3>1. m - 1 \in 0..Len(q) /\ m - 1 \notin Bad /\ m \in Nat
      <4>1. Len(q) \in Nat /\ m \in Nat /\ m <= Len(q)
        BY <2>3
      <4>2. m - 1 \in Nat /\ m - 1 <= Len(q) /\ ~ (m <= m - 1)
        BY <2>5, <4>1
      <4>. HIDE DEF Bad
      <4>. QED  BY <2>2, <4>1, <4>2
    <3>2. PICK g : Sums(g, m - 1)
      BY <3>1
    <3>. DEFINE h == [n \in 0..m |-> IF n = m THEN g[m - 1] + Charge(q[m]) ELSE g[n]]
    <3>3. \A n \in 0..m : h[n] = IF n = 0 THEN 0 ELSE h[n - 1] + Charge(q[n])
      <4>. SUFFICES ASSUME NEW n \in 0..m
                    PROVE  h[n] = IF n = 0 THEN 0 ELSE h[n - 1] + Charge(q[n])
        OBVIOUS
      <4>1. CASE n = m
        BY <2>5, <3>1, <4>1
      <4>2. CASE n # m
        <5>1. n \in 0..(m - 1) /\ (n # 0 => n - 1 \in 0..m /\ n - 1 # m)
          BY <3>1, <4>2
        <5>2. h[n] = g[n] /\ (n # 0 => h[n - 1] = g[n - 1])
          BY <4>2, <5>1
        <5>. HIDE DEF h
        <5>. QED  BY <3>2, <5>1, <5>2
      <4>. QED  BY <4>1, <4>2
    <3>4. Sums(h, m)
      BY <3>3
    <3>. QED  BY <2>3, <3>4
  <2>. QED  BY <2>4, <2>5
<1>2. PICK g : Sums(g, Len(q))
  BY <1>1
<1>3. g = [n \in 0..Len(q) |-> IF n = 0 THEN 0 ELSE g[n - 1] + Charge(q[n])]
  BY <1>2
<1>. QED  BY <1>3

LEMMA TotalBound ==
    ASSUME NEW q \in Seq(Nat), NEW a \in Nat, \A i \in DOMAIN q : Charge(q[i]) \in 0..a
    PROVE  Total(q) \in Nat /\ Total(q) <= Len(q) * a
<1>. DEFINE Body(g) == [n \in 0..Len(q) |-> IF n = 0 THEN 0 ELSE g[n - 1] + Charge(q[n])]
            sum == CHOOSE g : g = Body(g)
<1>1. Total(q) = sum[Len(q)]
  BY DEF Total
<1>2. sum = Body(sum)
  BY SumExists
<1>3. \A n \in 0..Len(q) : sum[n] = IF n = 0 THEN 0 ELSE sum[n - 1] + Charge(q[n])
  BY <1>2
<1>. HIDE DEF sum
<1>. DEFINE Bad == {n \in 0..Len(q) : ~ (sum[n] \in Nat /\ sum[n] <= n * a)}
<1>4. Bad = {}
  <2>1. SUFFICES ASSUME Bad # {} PROVE FALSE
    OBVIOUS
  <2>2. PICK m \in Bad : \A x \in Bad : m <= x
    <3>1. Bad \subseteq Nat
      OBVIOUS
    <3>. HIDE DEF Bad
    <3>. QED  BY <2>1, <3>1, LeastOf
  <2>3. m \in 0..Len(q) /\ ~ (sum[m] \in Nat /\ sum[m] <= m * a) /\ Len(q) \in Nat
    OBVIOUS
  <2>4. m # 0
    BY <1>3, <2>3
  <2>5. m - 1 \in 0..Len(q) /\ m - 1 \notin Bad
    <3>1. m - 1 \in 0..Len(q) /\ ~ (m <= m - 1)
      BY <2>3, <2>4
    <3>. HIDE DEF Bad
    <3>. QED  BY <2>2, <3>1
  <2>6. sum[m - 1] \in Nat /\ sum[m - 1] <= (m - 1) * a
    BY <2>5
  <2>7. Charge(q[m]) \in 0..a
    BY <2>3, <2>4
  <2>8. sum[m] = sum[m - 1] + Charge(q[m])
    BY <1>3, <2>3, <2>4
  <2>9. (m - 1) * a + a = m * a /\ (m - 1) * a \in Nat /\ m * a \in Nat
    BY <2>3, <2>4
  <2>. QED  BY <2>3, <2>6, <2>7, <2>8, <2>9
<1>5. Len(q) \notin Bad /\ Len(q) \in 0..Len(q)
  BY <1>4
<1>. QED  BY <1>1, <1>5

-----------------------------------------------------------------------------
(***************************************************************************)
(* The plan.  Unless two updates overlapped, what an update will write     *)
(* makes a coherent plan; a reservation under way that read its share of   *)
(* the plan there is, and was counted, has a slot left for it; and a       *)
(* tenant whose rows are all sized by the plan there is has no more of     *)
(* them than the plan says, none larger than its share.                    *)
(***************************************************************************)
PlanRow == [apps : Nat, cpu : Nat]
Booking == [pc : {"share", "counted"}, tenant : Tenants, share : Nat, old : BOOLEAN]
NoBookings == [k \in Askers |-> NoBooking]
Edited(r) == edits[r] # NoEdit
Merged(r) == [f \in DOMAIN free |-> IF f \in edits[r].fields THEN edits[r].row[f] ELSE free[f]]

PlanType ==
    /\ free \in PlanRow \cup {NoPlan} /\ shares \in [Tenants -> Seq(Nat)]
    /\ unlike \subseteq Tenants /\ raced \in BOOLEAN
    /\ edits \in [Editors -> [fields : SUBSET {"apps", "cpu"}, row : PlanRow] \cup {NoEdit}]
    /\ bookings \in [Askers -> Booking \cup {NoBooking}]

\* Only while requests are served is an update under way, and there is a plan.
Edits ==
    /\ start.pc # "up" => edits = [r \in Editors |-> NoEdit]
    /\ start.pc \in {"admin", "up"} => free # NoPlan

OneEditor ==
    ~raced => /\ \A r \in Editors : Edited(r) => Merged(r) \in PlanRow /\ Coherent(Merged(r))
              /\ \A r, o \in Editors : Edited(r) /\ Edited(o) => r = o

\* A reservation under way.
Sized(k) ==
    LET b == bookings[k]
    IN  b # NoBooking =>
           /\ There(b.tenant)
           /\ ~b.old => /\ b.share = Allocation
                        /\ b.pc = "counted" => \/ tenants[b.tenant].scope
                                               \/ Len(shares[b.tenant]) + 1 <= free.apps

\* Only while requests are served is one under way; the lock is one tenant's.
Booked ==
    /\ start.pc # "up" => bookings = NoBookings
    /\ \A k \in Askers : Sized(k)
    /\ \A k, l \in Askers : bookings[k].pc = "counted" /\ bookings[l].pc = "counted"
                             /\ bookings[k].tenant = bookings[l].tenant => k = l

Fits(t) ==
    IF free = NoPlan THEN shares[t] = <<>>
    ELSE /\ Len(shares[t]) <= free.apps
         /\ \A i \in DOMAIN shares[t] : Charge(shares[t][i]) <= Allocation

PlanInv ==
    /\ PlanType /\ Edits /\ OneEditor /\ Booked
    /\ free # NoPlan /\ ~raced => Coherent(free)
    /\ \A t \in Tenants : ~There(t) => shares[t] = <<>>
    /\ ~raced => \A t \in Tenants \ unlike : ~tenants[t].scope => Fits(t)

LEMMA LargerOf ==
    ASSUME NEW x \in Nat, NEW y \in Nat
    PROVE  Max({x, y}) = IF x >= y THEN x ELSE y
<1>. DEFINE m == IF x >= y THEN x ELSE y
<1>1. m \in {x, y} /\ \A z \in {x, y} : m >= z
  OBVIOUS
<1>2. \A n \in {x, y} : (\A z \in {x, y} : n >= z) => n = m
  OBVIOUS
<1>. QED  BY <1>1, <1>2 DEF Max

LEMMA AllocationFacts ==
    ASSUME free \in PlanRow
    PROVE  /\ Allocation \in Nat /\ Share <= Allocation
           /\ Coherent(free) => free.apps * Allocation <= free.cpu
<1>1. free.apps \in Nat /\ free.cpu \in Nat /\ Share \in Nat /\ 0 \in Nat /\ 1 \in Nat
  BY PlatformAssumption DEF PlanRow, PlatformAssumption
<1>. DEFINE n == Max({free.apps, 1})
<1>2. n = IF free.apps >= 1 THEN free.apps ELSE 1
  BY <1>1, LargerOf
<1>3. n \in Nat /\ n >= 1
  BY <1>1, <1>2
<1>. DEFINE d == free.cpu \div n
<1>4. d \in Nat /\ n * d <= free.cpu
  <2>. HIDE DEF n
  <2>1. \A c, k \in Nat : k >= 1 => c \div k \in Nat /\ k * (c \div k) <= c
    OBVIOUS
  <2>. QED  BY <1>1, <1>3, <2>1
<1>5. Allocation = IF Share >= d THEN Share ELSE d
  <2>. HIDE DEF d
  <2>1. Max({Share, d}) = IF Share >= d THEN Share ELSE d
    BY <1>1, <1>4, LargerOf
  <2>. QED  BY <2>1 DEF Allocation, d
<1>. HIDE DEF d
<1>6. Allocation \in Nat /\ Share <= Allocation
  BY <1>1, <1>4, <1>5
<1>7. ASSUME Coherent(free) PROVE free.apps * Allocation <= free.cpu
  <2>1. CASE Allocation = Share
    BY <1>7, <2>1 DEF Coherent
  <2>2. CASE free.apps = 0
    BY <1>1, <1>6, <2>2
  <2>3. CASE Allocation = d /\ free.apps # 0
    <3>1. n = free.apps
      BY <1>1, <1>2, <2>3
    <3>. QED  BY <1>4, <2>3, <3>1
  <2>. QED  BY <1>1, <1>5, <2>1, <2>2, <2>3
<1>. QED  BY <1>6, <1>7

LEMMA PlanInvImplies == ASSUME PlanInv PROVE SharesFit
<1>. SUFFICES ASSUME free # NoPlan, ~raced, NEW t \in Tenants \ unlike, ~tenants[t].scope
              PROVE  Used(t) <= free.cpu
  BY DEF SharesFit
<1>1. /\ free \in PlanRow /\ Coherent(free) /\ shares[t] \in Seq(Nat)
      /\ Len(shares[t]) <= free.apps
      /\ \A i \in DOMAIN shares[t] : Charge(shares[t][i]) <= Allocation
  BY DEF PlanInv, PlanType, Fits
<1>2. /\ Allocation \in Nat /\ free.apps * Allocation <= free.cpu
      /\ free.apps \in Nat /\ free.cpu \in Nat /\ Share \in Nat
  BY <1>1, AllocationFacts, PlatformAssumption DEF PlanRow, PlatformAssumption
<1>3. PICK q \in Seq(Nat) : q = shares[t]
  BY <1>1
<1>4. \A i \in DOMAIN q : Charge(q[i]) \in 0..Allocation
  <2>1. \A i \in DOMAIN q : q[i] \in Nat
    OBVIOUS
  <2>. QED  BY <1>1, <1>2, <1>3, <2>1 DEF Charge
<1>5. Total(q) \in Nat /\ Total(q) <= Len(q) * Allocation
  BY <1>2, <1>4, TotalBound
<1>6. \A k, m, a \in Nat : k <= m => k * a <= m * a /\ k * a \in Nat /\ m * a \in Nat
  <2>. SUFFICES ASSUME NEW k \in Nat, NEW m \in Nat, NEW a \in Nat, k <= m
                PROVE  k * a <= m * a /\ k * a \in Nat /\ m * a \in Nat
    OBVIOUS
  <2>1. PICK d \in Nat : m = k + d
    BY m - k \in Nat, m = k + (m - k)
  <2>2. (k + d) * a = k * a + d * a
    OBVIOUS
  <2>3. k * a \in Nat /\ d * a \in Nat
    OBVIOUS
  <2>4. m * a = k * a + d * a
    BY <2>1, <2>2
  <2>. QED  BY <2>3, <2>4
<1>7. Len(q) * Allocation <= free.apps * Allocation
      /\ Len(q) * Allocation \in Nat /\ free.apps * Allocation \in Nat
  <2>1. PICK l \in Nat : l = Len(q)
    OBVIOUS
  <2>2. PICK a \in Nat : a = Allocation
    BY <1>2
  <2>3. PICK m \in Nat : m = free.apps
    BY <1>2
  <2>4. l <= m
    BY <1>1, <1>3, <2>1, <2>3
  <2>5. l * a <= m * a /\ l * a \in Nat /\ m * a \in Nat
    BY ONLY <1>6, <2>4, l \in Nat, m \in Nat, a \in Nat, Zenon
  <2>. QED  BY ONLY <2>1, <2>2, <2>3, <2>5
<1>8. Total(q) <= free.cpu
  <2>1. \A x, y, z, w \in Nat : x <= y /\ y <= z /\ z <= w => x <= w
    OBVIOUS
  <2>. QED  BY <1>2, <1>5, <1>7, <2>1
<1>. QED  BY <1>3, <1>8 DEF Used

LEMMA NoneBooked == ASSUME bookings = NoBookings PROVE Booked
<1>1. \A k \in Askers : bookings[k] = NoBooking /\ bookings[k].pc # "counted"
  BY DEF NoBookings, NoBooking
<1>. QED  BY <1>1 DEF Booked, Sized

LEMMA PlanStarts == ASSUME AppStateInit PROVE PlanInv
<1>1. PlatformInit /\ Share \in Nat
  BY PlatformAssumption DEF AppStateInit, PlatformAssumption
<1>2. /\ free = NoPlan /\ start = Down /\ raced = FALSE /\ start.pc = "down"
      /\ edits = [r \in Editors |-> NoEdit] /\ bookings = NoBookings
  BY <1>1 DEF PlatformInit, Down, NoBookings
<1>3. \/ shares = [t \in Tenants |-> <<>>] /\ unlike = {}
      \/ \E u \in Tenants : /\ shares = [[t \in Tenants |-> <<>>] EXCEPT ![u] = <<0>>]
                            /\ unlike = {u} /\ There(u)
  BY <1>1 DEF PlatformInit, There, TenantRow
<1>4. shares \in [Tenants -> Seq(Nat)] /\ unlike \subseteq Tenants
  <2>1. <<>> \in Seq(Nat) /\ <<0>> \in Seq(Nat)
    OBVIOUS
  <2>. QED  BY <1>3, <2>1
<1>5. \A t \in Tenants : (~There(t) \/ t \notin unlike) => shares[t] = <<>>
  BY <1>3
<1>6. PlanType /\ Edits /\ OneEditor
  BY <1>2, <1>4 DEF PlanType, Edits, OneEditor, Edited, NoBookings
<1>7. Booked
  BY <1>2, NoneBooked
<1>. QED  BY <1>2, <1>5, <1>6, <1>7 DEF PlanInv, Fits

LEMMA NoRowsFit ==
    ASSUME PlanType, NEW t \in Tenants, shares[t] = <<>>
    PROVE  Fits(t)
<1>1. free # NoPlan => free.apps \in Nat
  BY DEF PlanType, PlanRow
<1>. QED  BY <1>1 DEF Fits

\* A tenant that is there stays, and keeps its scope.
Stays(t) == There(t) => There(t)' /\ (tenants[t].scope => tenants'[t].scope)

LEMMA BookingFields ==
    ASSUME PlanType, NEW k \in Askers, bookings[k] # NoBooking
    PROVE  /\ bookings[k] \in Booking /\ bookings[k].tenant \in Tenants
           /\ bookings[k].share \in Nat /\ bookings[k].old \in BOOLEAN
  BY DEF PlanType, Booking

\* The plan, the rows and the reservations under way are left alone.
LEMMA BookedStays ==
    ASSUME PlanInv, UNCHANGED <<free, shares, bookings>>, \A t \in Tenants : Stays(t),
           start'.pc # "up" => start.pc # "up"
    PROVE  Booked'
<1>1. ASSUME NEW k \in Askers PROVE Sized(k)'
  <2>. SUFFICES ASSUME bookings[k] # NoBooking PROVE Sized(k)'
    BY DEF Sized
  <2>1. Sized(k) /\ bookings[k].tenant \in Tenants
    BY BookingFields DEF PlanInv, Booked
  <2>2. Allocation' = Allocation
    BY DEF Allocation
  <2>. QED  BY <2>1, <2>2 DEF Sized, Stays
<1>. QED  BY <1>1 DEF PlanInv, Booked

LEMMA PlanStays ==
    ASSUME PlanInv, UNCHANGED <<free, shares, raced, unlike>>, Edits',
           edits' \in {edits, [r \in Editors |-> NoEdit]}, \A t \in Tenants : Stays(t),
           \/ bookings' = NoBookings
           \/ bookings' = bookings /\ (start'.pc # "up" => start.pc # "up")
    PROVE  PlanInv'
<1>1. PlanType /\ PlanType'
  BY DEF PlanInv, PlanType, NoBookings
<1>5. Booked'
  <2>1. CASE bookings' = NoBookings
    <3>1. \A k \in Askers : bookings'[k] = NoBooking /\ bookings'[k].pc # "counted"
      BY <2>1 DEF NoBookings, NoBooking
    <3>. QED  BY <2>1, <3>1 DEF Booked, Sized
  <2>2. CASE bookings' = bookings /\ (start'.pc # "up" => start.pc # "up")
    BY <2>2, BookedStays
  <2>. QED  BY <2>1, <2>2
<1>2. OneEditor'
  BY DEF PlanInv, OneEditor, Edited, Merged, Coherent
<1>3. ASSUME NEW t \in Tenants, ~There(t)' PROVE shares'[t] = <<>>
  BY <1>3 DEF PlanInv, Stays
<1>4. ASSUME NEW t \in Tenants \ unlike, ~raced, ~tenants'[t].scope PROVE Fits(t)'
  <2>1. CASE There(t)
    <3>1. Fits(t)
      BY <1>4, <2>1 DEF PlanInv, Stays
    <3>. QED  BY <3>1 DEF Fits, Allocation
  <2>2. CASE ~There(t)
    <3>1. Fits(t)
      BY <1>1, <2>2, NoRowsFit DEF PlanInv
    <3>. QED  BY <3>1 DEF Fits, Allocation
  <2>. QED  BY <2>1, <2>2
<1>. QED  BY <1>1, <1>2, <1>3, <1>4, <1>5 DEF PlanInv, Coherent

LEMMA BackfillTenants ==
    ASSUME PlatformInv, BackfillRows, NEW u \in Tenants
    PROVE  Stays(u)
<1>. SUFFICES ASSUME There(u) PROVE There(u)' /\ (tenants[u].scope => tenants'[u].scope)
  BY DEF Stays
<1>1. tenants \in [Tenants -> Standing]
  BY DEF PlatformInv, PlatformType
<1>2. PICK t \in Adopters : \E ps :
         LET rows == IF t \in Unmade
                     THEN [tenants EXCEPT ![t] = TenantRow("active", TRUE)] ELSE tenants
         IN  tenants' = [v \in Tenants |->
                           [rows[v] EXCEPT !.status = BackfilledStatus(rows[v]),
                                           !.scope = rows[v].scope \/ v \in Scoped(ps)]]
  BY DEF BackfillRows
<1>. DEFINE rows == IF t \in Unmade
                    THEN [tenants EXCEPT ![t] = TenantRow("active", TRUE)] ELSE tenants
<1>3. PICK ps :
         tenants' = [v \in Tenants |->
                       [rows[v] EXCEPT !.status = BackfilledStatus(rows[v]),
                                       !.scope = rows[v].scope \/ v \in Scoped(ps)]]
  BY <1>2
<1>4. rows[u] = tenants[u] /\ tenants[u] \in Standing
  BY <1>1 DEF There, Unmade
<1>. HIDE DEF rows
<1>5. tenants'[u] = [tenants[u] EXCEPT !.status = BackfilledStatus(tenants[u]),
                                       !.scope = tenants[u].scope \/ u \in Scoped(ps)]
  BY <1>3, <1>4
<1>6. \A x \in Standing : \A st, b : LET y == [x EXCEPT !.status = st, !.scope = b]
                                    IN  y.status = st /\ y.scope = b
  BY ONLY DEF Standing
<1>7. /\ tenants'[u].status = BackfilledStatus(tenants[u])
      /\ tenants'[u].scope = (tenants[u].scope \/ u \in Scoped(ps))
  BY <1>4, <1>5, <1>6
<1>. QED  BY <1>7 DEF There, BackfilledStatus

LEMMA BackfillFits ==
    ASSUME PlatformInv, PlanInv, BackfillRows
    PROVE  PlanInv'
<1>1. /\ start.pc = "rows" /\ start' = [start EXCEPT !.pc = "admin"] /\ start \in Process
      /\ edits = [r \in Editors |-> NoEdit] /\ UNCHANGED <<edits, unlike, raced>>
      /\ bookings' = NoBookings
      /\ free' = SeededPlan /\ shares' = BackfilledShares /\ PlanType
  BY DEF BackfillRows, PlatformInv, PlatformType, PlanInv, Edits, Booked
<1>2. start'.pc = "admin"
  BY <1>1 DEF Process, Running, Down
<1>3. Share \in Nat /\ Share # 0 /\ NoPlan \notin PlanRow
  BY PlatformAssumption DEF PlatformAssumption, PlanRow
<1>4. Seed \in PlanRow /\ Seed.apps * Share <= Seed.cpu
  BY <1>3 DEF Seed, PlanRow
<1>5. free' \in PlanRow /\ (free # NoPlan => free' = free) /\ (free = NoPlan => free' = Seed)
  BY <1>1, <1>4 DEF SeededPlan, PlanType
<1>6. ASSUME NEW t \in Tenants
      PROVE  /\ shares'[t] \in Seq(Nat) /\ Len(shares'[t]) = Len(shares[t])
             /\ DOMAIN shares'[t] = DOMAIN shares[t]
             /\ \A i \in DOMAIN shares[t] : Charge(shares'[t][i]) = Charge(shares[t][i])
             /\ shares[t] = <<>> => shares'[t] = <<>>
  <2>1. PICK q \in Seq(Nat) : q = shares[t]
    BY <1>1 DEF PlanType
  <2>2. PICK p : p = [i \in DOMAIN q |-> IF q[i] = 0 THEN Share ELSE q[i]]
    OBVIOUS
  <2>3. shares'[t] = p
    BY <1>1, <2>1, <2>2 DEF BackfilledShares
  <2>4. \A i \in DOMAIN q : q[i] \in Nat
    OBVIOUS
  <2>5. p = [i \in DOMAIN q |-> p[i]] /\ \A i \in DOMAIN q : p[i] \in Nat /\ Charge(p[i]) = Charge(q[i])
    BY <1>3, <2>2, <2>4 DEF Charge
  <2>6. p \in Seq(Nat) /\ DOMAIN p = DOMAIN q
    BY <2>5, SameLength
  <2>7. Len(p) = Len(q) /\ (q = <<>> => p = <<>>)
    BY <2>6
  <2>. QED  BY <2>1, <2>3, <2>5, <2>6, <2>7
<1>7. PlanType'
  BY <1>1, <1>5, <1>6 DEF PlanType, BackfilledShares, NoBookings
<1>13. Booked'
  <2>1. \A k \in Askers : bookings'[k] = NoBooking /\ bookings'[k].pc # "counted"
    BY <1>1 DEF NoBookings, NoBooking
  <2>. QED  BY <1>1, <2>1 DEF Booked, Sized
<1>8. Edits'
  BY <1>1, <1>2, <1>3, <1>5 DEF Edits
<1>9. OneEditor'
  BY <1>1 DEF OneEditor, Edited
<1>10. ASSUME ~raced PROVE Coherent(free')
  BY <1>3, <1>4, <1>5, <1>10 DEF PlanInv, Coherent
<1>11. ASSUME NEW t \in Tenants, ~There(t)' PROVE shares'[t] = <<>>
  BY <1>6, <1>11, BackfillTenants DEF PlanInv, Stays
<1>12. ASSUME NEW t \in Tenants \ unlike, ~raced, ~tenants'[t].scope PROVE Fits(t)'
  <2>1. Stays(t) /\ free' # NoPlan
    BY <1>3, <1>5, BackfillTenants
  <2>2. CASE shares[t] = <<>>
    BY <1>6, <1>7, <2>1, <2>2, NoRowsFit DEF PlanType, Fits, PlanRow
  <2>3. CASE shares[t] # <<>>
    <3>1. Fits(t) /\ free # NoPlan
      BY <1>12, <2>1, <2>3 DEF PlanInv, Stays, Fits
    <3>. QED  BY <1>5, <1>6, <2>1, <3>1 DEF Fits, Allocation
  <2>. QED  BY <2>2, <2>3
<1>. QED  BY <1>1, <1>7, <1>8, <1>9, <1>10, <1>11, <1>12, <1>13 DEF PlanInv

-----------------------------------------------------------------------------
LEMMA PlanFields ==
    /\ \A x \in PlanRow : DOMAIN x = {"apps", "cpu"} /\ x.apps \in Nat /\ x.cpu \in Nat
    /\ \A a, c \in Nat : [apps |-> a, cpu |-> c] \in PlanRow
    /\ \A x : DOMAIN x = {"apps", "cpu"} /\ x = [f \in {"apps", "cpu"} |-> x[f]]
              /\ x["apps"] \in Nat /\ x["cpu"] \in Nat => x \in PlanRow
    /\ NoPlan \notin PlanRow /\ Offers \subseteq PlanRow
  BY PlatformAssumption DEF PlanRow, PlatformAssumption

LEMMA PutOver ==
    ASSUME NEW x \in PlanRow, NEW y \in PlanRow, NEW fs
    PROVE  [f \in DOMAIN x |-> IF f \in fs THEN y[f] ELSE x[f]] \in PlanRow
  BY PlanFields DEF PlanRow

LEMMA AskKeepsPlan ==
    ASSUME PlanInv, NEW r \in Editors, NEW fields \in SUBSET {"apps", "cpu"}, NEW p \in Offers,
           AskUpdate(r, fields, p)
    PROVE  PlanInv'
<1>. DEFINE row == [f \in DOMAIN free |-> IF f \in fields THEN p[f] ELSE free[f]]
            wanted == {f \in fields : row[f] # free[f]}
<1>1. /\ start.pc = "up" /\ edits[r] = NoEdit /\ Coherent(row)
      /\ edits' = [edits EXCEPT ![r] = [fields |-> wanted, row |-> row]]
      /\ raced' = (raced \/ \E o \in Editors : edits[o] # NoEdit)
      /\ UNCHANGED <<tenants, free, shares, bookings, start, unlike>>
  BY DEF AskUpdate, Requested
<1>2. PlanType /\ free \in PlanRow /\ p \in PlanRow /\ DOMAIN free = {"apps", "cpu"}
  BY <1>1, PlanFields DEF PlanInv, PlanType, Edits
<1>3. row \in PlanRow /\ DOMAIN row = {"apps", "cpu"}
  BY <1>2, PutOver
<1>4. wanted \subseteq {"apps", "cpu"} /\ \A f \in DOMAIN free \ wanted : row[f] = free[f]
  OBVIOUS
<1>5. row = [f \in DOMAIN free |-> IF f \in wanted THEN row[f] ELSE free[f]]
  BY <1>2, <1>4
<1>. HIDE DEF row, wanted
<1>6. PlanType'
  BY <1>1, <1>2, <1>3, <1>4 DEF PlanType
<1>7. Edits'
  BY <1>1, PlanFields, <1>2 DEF Edits
<1>8. ASSUME ~raced' PROVE /\ \A o \in Editors : Edited(o)' => o = r
                           /\ Merged(r)' = row
  <2>1. \A o \in Editors : edits[o] = NoEdit
    BY <1>1, <1>8
  <2>2. edits'[r].fields = wanted /\ edits'[r].row = row /\ \A o \in Editors \ {r} : edits'[o] = NoEdit
    BY <1>1, <1>2, <2>1 DEF PlanType
  <2>3. Merged(r)' = [f \in DOMAIN free |-> IF f \in wanted THEN row[f] ELSE free[f]]
    BY <1>1, <2>2 DEF Merged
  <2>. QED  BY <1>5, <2>2, <2>3 DEF Edited
<1>9. OneEditor'
  <2>. SUFFICES ASSUME ~raced' PROVE OneEditor'
    BY DEF OneEditor
  <2>. QED  BY <1>1, <1>3, <1>8 DEF OneEditor, Coherent
<1>10. Booked'
  BY <1>1, BookedStays DEF Stays, There
<1>. QED  BY <1>1, <1>6, <1>7, <1>9, <1>10 DEF PlanInv, Fits, Allocation, Coherent, There

LEMMA CommitKeepsPlan ==
    ASSUME PlanInv, NEW r \in Editors, CommitUpdate(r)
    PROVE  PlanInv'
<1>1. /\ start.pc = "up" /\ Edited(r) /\ free' = Merged(r)
      /\ edits' = [edits EXCEPT ![r] = NoEdit]
      /\ unlike' = {t \in Tenants : shares[t] # <<>>}
      /\ bookings' = [k \in Askers |-> IF bookings[k] = NoBooking THEN NoBooking
                                       ELSE [bookings[k] EXCEPT !.old = TRUE]]
      /\ UNCHANGED <<tenants, shares, start, raced>>
  BY DEF CommitUpdate, Edited, Merged
<1>2. PlanType /\ free \in PlanRow /\ edits[r].row \in PlanRow
  BY <1>1 DEF PlanInv, PlanType, Edits, Edited
<1>3. free' \in PlanRow /\ free' # NoPlan
  BY <1>1, <1>2, PutOver, PlanFields DEF Merged
<1>9. ASSUME NEW k \in Askers
      PROVE  \/ bookings[k] = NoBooking /\ bookings'[k] = NoBooking
             \/ /\ bookings[k] # NoBooking /\ bookings'[k] \in Booking /\ bookings'[k].old
                /\ bookings'[k].tenant = bookings[k].tenant /\ bookings'[k].pc = bookings[k].pc
  <2>1. bookings'[k] = IF bookings[k] = NoBooking THEN NoBooking ELSE [bookings[k] EXCEPT !.old = TRUE]
    BY <1>1
  <2>2. CASE bookings[k] = NoBooking
    BY <2>1, <2>2
  <2>3. CASE bookings[k] # NoBooking
    <3>1. bookings[k] \in Booking
      BY <1>2, <2>3, BookingFields
    <3>2. \A x \in Booking : LET y == [x EXCEPT !.old = TRUE]
                             IN  y \in Booking /\ y.old /\ y.tenant = x.tenant /\ y.pc = x.pc
      BY ONLY DEF Booking
    <3>3. bookings'[k] = [bookings[k] EXCEPT !.old = TRUE]
      BY <2>1, <2>3
    <3>. QED  BY <2>3, <3>1, <3>2, <3>3
  <2>. QED  BY <2>2, <2>3
<1>4. PlanType'
  BY <1>1, <1>2, <1>3, <1>9 DEF PlanType
<1>10. Booked'
  <2>1. ASSUME NEW k \in Askers PROVE Sized(k)'
    <3>1. Sized(k)
      BY DEF PlanInv, Booked
    <3>. QED  BY <1>1, <1>9, <3>1 DEF Sized, There
  <2>2. \A k \in Askers : bookings'[k].pc = "counted" =>
           bookings[k].pc = "counted" /\ bookings'[k].tenant = bookings[k].tenant
    BY <1>9 DEF NoBooking
  <2>. QED  BY <1>1, <2>1, <2>2 DEF PlanInv, Booked
<1>5. Edits'
  BY <1>1, <1>3 DEF Edits
<1>6. ~raced => Coherent(free') /\ \A o \in Editors : ~Edited(o)'
  BY <1>1, <1>2 DEF PlanInv, OneEditor, Edited, PlanType
<1>7. OneEditor'
  BY <1>1, <1>6 DEF OneEditor
<1>8. \A t \in Tenants \ unlike' : Fits(t)'
  BY <1>1, <1>3, PlanFields DEF Fits
<1>. QED  BY <1>1, <1>4, <1>5, <1>6, <1>7, <1>8, <1>10 DEF PlanInv, There, Coherent

\* What one request does to its reservation before there is a row.
LEMMA BookingKeepsPlan ==
    ASSUME PlanInv, UNCHANGED <<tenants, free, shares, edits, start, unlike, raced>>, start.pc = "up",
           NEW k \in Askers, NEW b \in Booking \cup {NoBooking}, bookings' = [bookings EXCEPT ![k] = b],
           b # NoBooking =>
              /\ There(b.tenant)
              /\ ~b.old => /\ b.share = Allocation
                           /\ b.pc = "counted" => \/ tenants[b.tenant].scope
                                                  \/ Len(shares[b.tenant]) + 1 <= free.apps,
           b.pc = "counted" => \A l \in Askers \ {k} : ~(/\ bookings[l].pc = "counted"
                                                        /\ bookings[l].tenant = b.tenant)
    PROVE  PlanInv'
<1>1. PlanType /\ PlanType'
  BY DEF PlanInv, PlanType
<1>2. bookings'[k] = b /\ \A l \in Askers \ {k} : bookings'[l] = bookings[l]
  BY <1>1 DEF PlanType
<1>3. Allocation' = Allocation
  BY DEF Allocation
<1>4. ASSUME NEW l \in Askers PROVE Sized(l)'
  <2>1. CASE l = k
    BY <1>2, <1>3, <2>1 DEF Sized, There
  <2>2. CASE l # k
    <3>1. Sized(l)
      BY DEF PlanInv, Booked
    <3>. QED  BY <1>2, <1>3, <2>2, <3>1 DEF Sized, There
  <2>. QED  BY <2>1, <2>2
<1>5. Booked'
  <2>1. ASSUME NEW m \in Askers, NEW l \in Askers, bookings'[m].pc = "counted",
               bookings'[l].pc = "counted", bookings'[m].tenant = bookings'[l].tenant
        PROVE  m = l
    BY <1>2, <2>1 DEF PlanInv, Booked
  <2>. QED  BY <1>4, <2>1 DEF Booked
<1>. QED  BY <1>1, <1>3, <1>5 DEF PlanInv, Fits, There, Edits, OneEditor, Edited, Merged, Coherent

LEMMA ReadShareKeepsPlan ==
    ASSUME PlanInv, NEW k \in Askers, NEW t \in Tenants, ReadShare(k, t)
    PROVE  PlanInv'
<1>. DEFINE b == [pc |-> "share", tenant |-> t, share |-> Allocation, old |-> FALSE]
<1>1. /\ start.pc = "up" /\ There(t) /\ bookings' = [bookings EXCEPT ![k] = b]
      /\ UNCHANGED <<tenants, free, shares, edits, start, unlike, raced>>
  BY DEF ReadShare, Requested, plans, There
<1>2. free \in PlanRow
  BY <1>1 DEF PlanInv, PlanType, Edits
<1>3. Allocation \in Nat
  BY <1>2, AllocationFacts
<1>4. /\ b \in Booking /\ b.tenant = t /\ b.share = Allocation /\ b.pc = "share"
  BY <1>3 DEF Booking
<1>. HIDE DEF b
<1>. QED  BY <1>1, <1>4, BookingKeepsPlan

LEMMA CountKeepsPlan ==
    ASSUME PlanInv, NEW k \in Askers, CountApps(k)
    PROVE  PlanInv'
<1>1. /\ start.pc = "up" /\ bookings[k].pc = "share" /\ ~Locked(bookings[k].tenant)
      /\ \/ tenants[bookings[k].tenant].scope
         \/ Len(shares[bookings[k].tenant]) + 1 <= free.apps
      /\ bookings' = [bookings EXCEPT ![k] = [bookings[k] EXCEPT !.pc = "counted"]]
      /\ UNCHANGED <<tenants, free, shares, edits, start, unlike, raced>>
  BY DEF CountApps, plans
<1>2. bookings[k] # NoBooking /\ bookings[k] \in Booking
  BY <1>1, BookingFields DEF PlanInv, NoBooking
<1>3. \A x \in Booking : LET y == [x EXCEPT !.pc = "counted"]
                         IN  /\ y \in Booking /\ y.pc = "counted" /\ y.tenant = x.tenant
                             /\ y.share = x.share /\ y.old = x.old
  BY ONLY DEF Booking
<1>4. PICK b \in Booking : /\ b = [bookings[k] EXCEPT !.pc = "counted"]
                           /\ b.pc = "counted" /\ b.tenant = bookings[k].tenant
                           /\ b.share = bookings[k].share /\ b.old = bookings[k].old
  BY <1>2, <1>3
<1>5. Sized(k)
  BY DEF PlanInv, Booked
<1>6. bookings' = [bookings EXCEPT ![k] = b]
  BY <1>1, <1>4
<1>7. b # NoBooking =>
         /\ There(b.tenant)
         /\ ~b.old => b.share = Allocation
         /\ tenants[b.tenant].scope \/ Len(shares[b.tenant]) + 1 <= free.apps
  BY <1>1, <1>2, <1>4, <1>5 DEF Sized
<1>8. \A l \in Askers \ {k} : ~(bookings[l].pc = "counted" /\ bookings[l].tenant = b.tenant)
  BY <1>1, <1>4 DEF Locked
<1>. QED  BY <1>1, <1>6, <1>7, <1>8, BookingKeepsPlan

LEMMA GiveUpKeepsPlan ==
    ASSUME PlanInv, NEW k \in Askers, GiveUp(k)
    PROVE  PlanInv'
<1>1. /\ start.pc = "up" /\ bookings' = [bookings EXCEPT ![k] = NoBooking]
      /\ UNCHANGED <<tenants, free, shares, edits, start, unlike, raced>>
  BY DEF GiveUp, plans
<1>2. NoBooking.pc # "counted"
  BY DEF NoBooking
<1>. QED  BY <1>1, <1>2, BookingKeepsPlan

LEMMA ReserveKeepsPlan ==
    ASSUME PlanInv, NEW k \in Askers, CommitReservation(k)
    PROVE  PlanInv'
<1>. DEFINE t == bookings[k].tenant
            given == bookings[k].share
<1>0. /\ start.pc = "up" /\ bookings[k].pc = "counted"
      /\ shares' = [shares EXCEPT ![t] = Append(shares[t], given)]
      /\ bookings' = [bookings EXCEPT ![k] = NoBooking]
      /\ unlike' = unlike \cup {u \in {t} : bookings[k].old}
      /\ UNCHANGED <<tenants, free, edits, start, raced>>
  BY DEF CommitReservation, plans
<1>2. PlanType /\ free \in PlanRow /\ free # NoPlan /\ free.apps \in Nat
  BY <1>0, PlanFields DEF PlanInv, PlanType, Edits
<1>00. bookings[k] # NoBooking
  BY <1>0 DEF NoBooking
<1>01. t \in Tenants /\ given \in Nat /\ Sized(k)
  BY <1>2, <1>00, BookingFields DEF PlanInv, Booked
<1>1. /\ There(t)
      /\ ~bookings[k].old => /\ given = Allocation
                             /\ tenants[t].scope \/ Len(shares[t]) + 1 <= free.apps
  BY <1>0, <1>00, <1>01 DEF Sized
<1>3. Allocation \in Nat /\ Charge(Allocation) <= Allocation
  BY <1>2, AllocationFacts, PlatformAssumption DEF Charge, PlatformAssumption
<1>. HIDE DEF t, given
<1>4. PICK q \in Seq(Nat) : q = shares[t]
  BY <1>01, <1>2 DEF PlanType
<1>5. PICK p : p = Append(q, given)
  OBVIOUS
<1>6. /\ p \in Seq(Nat) /\ DOMAIN p = DOMAIN q \cup {Len(q) + 1}
      /\ p[Len(q) + 1] = given /\ \A i \in DOMAIN q : p[i] = q[i]
  BY <1>01, <1>5, OneMore
<1>7. Len(p) = Len(q) + 1
  BY <1>01, <1>5
<1>8. shares'[t] = p /\ \A u \in Tenants \ {t} : shares'[u] = shares[u]
  BY <1>0, <1>01, <1>2, <1>4, <1>5 DEF PlanType
<1>9. PlanType'
  BY <1>0, <1>01, <1>2, <1>4, <1>5, <1>6 DEF PlanType
<1>10. ASSUME NEW u \in Tenants \ unlike', ~raced, ~tenants[u].scope PROVE Fits(u)'
  <2>0. Allocation' = Allocation /\ u \notin unlike
    BY <1>0, <1>10 DEF Allocation
  <2>1. Fits(u)
    BY <1>10, <2>0 DEF PlanInv
  <2>2. CASE u # t
    BY <1>0, <1>8, <2>0, <2>1, <2>2 DEF Fits
  <2>3. CASE u = t
    <3>0. ~bookings[k].old
      BY <1>0, <1>10, <2>3
    <3>1. given = Allocation /\ Len(p) <= free.apps
      BY <1>1, <1>4, <1>7, <1>10, <2>3, <3>0
    <3>2. \A i \in DOMAIN p : Charge(p[i]) <= Allocation
      BY <1>2, <1>3, <1>4, <1>6, <2>1, <2>3, <3>1 DEF Fits
    <3>. QED  BY <1>0, <1>2, <1>8, <2>0, <2>3, <3>1, <3>2 DEF Fits
  <2>. QED  BY <2>2, <2>3
<1>11. ASSUME NEW u \in Tenants, ~There(u)' PROVE shares'[u] = <<>>
  BY <1>0, <1>1, <1>8, <1>11 DEF PlanInv, There
<1>13. Booked'
  <2>1. bookings'[k] = NoBooking /\ \A l \in Askers \ {k} : bookings'[l] = bookings[l]
    BY <1>0, <1>2 DEF PlanType
  <2>2. NoBooking.pc # "counted"
    BY DEF NoBooking
  <2>3. ASSUME NEW l \in Askers PROVE Sized(l)'
    <3>. SUFFICES ASSUME bookings'[l] # NoBooking PROVE Sized(l)'
      BY DEF Sized
    <3>1. l # k /\ bookings'[l] = bookings[l] /\ Sized(l)
      BY <2>1 DEF PlanInv, Booked
    <3>2. bookings[l].pc = "counted" => bookings[l].tenant # t
      BY <1>0, <3>1 DEF PlanInv, Booked, t
    <3>3. bookings[l].tenant \in Tenants
      BY <1>2, <3>1, BookingFields
    <3>4. Allocation' = Allocation
      BY <1>0 DEF Allocation
    <3>. QED  BY <1>0, <1>8, <3>1, <3>2, <3>3, <3>4 DEF Sized, There
  <2>4. ASSUME NEW m \in Askers, NEW l \in Askers, bookings'[m].pc = "counted",
               bookings'[l].pc = "counted", bookings'[m].tenant = bookings'[l].tenant
        PROVE  m = l
    BY <2>1, <2>2, <2>4 DEF PlanInv, Booked
  <2>. QED  BY <1>0, <2>3, <2>4 DEF Booked
<1>12. Edits' /\ OneEditor' /\ (free' # NoPlan /\ ~raced' => Coherent(free'))
  BY <1>0 DEF PlanInv, Edits, OneEditor, Edited, Merged, Coherent
<1>. QED  BY <1>0, <1>9, <1>10, <1>11, <1>12, <1>13 DEF PlanInv

LEMMA Removed ==
    ASSUME NEW q \in Seq(Nat), NEW i \in DOMAIN q
    PROVE  /\ RemoveAt(q, i) \in Seq(Nat) /\ Len(RemoveAt(q, i)) = Len(q) - 1
           /\ \A j \in DOMAIN RemoveAt(q, i) : \E k \in DOMAIN q : RemoveAt(q, i)[j] = q[k]
<1>1. PICK l \in Nat : l = Len(q)
  OBVIOUS
<1>2. i \in Nat /\ 1 <= i /\ i <= l /\ DOMAIN q = 1..l
  BY <1>1
<1>3. PICK a : a = SubSeq(q, 1, i - 1)
  OBVIOUS
<1>4. PICK b : b = SubSeq(q, i + 1, l)
  OBVIOUS
<1>5. a \in Seq(Nat) /\ Len(a) = i - 1 /\ \A j \in 1..(i - 1) : a[j] = q[j]
  BY <1>1, <1>2, <1>3
<1>6. b \in Seq(Nat) /\ Len(b) = l - i /\ \A j \in 1..(l - i) : b[j] = q[i + j]
  <2>1. PICK m \in Int : m = i + 1
    BY <1>2
  <2>2. \A j \in m..l : q[j] \in Nat
    BY <1>2, <2>1
  <2>3. /\ b \in Seq(Nat) /\ Len(b) = IF m <= l THEN l - m + 1 ELSE 0
        /\ \A j \in 1..(l - m + 1) : b[j] = q[m + j - 1]
    <3>1. b = SubSeq(q, m, l)
      BY <1>4, <2>1
    <3>2. l \in Int
      OBVIOUS
    <3>3. /\ SubSeq(q, m, l) \in Seq(Nat) /\ Len(SubSeq(q, m, l)) = IF m <= l THEN l - m + 1 ELSE 0
          /\ \A j \in 1..(l - m + 1) : SubSeq(q, m, l)[j] = q[m + j - 1]
      BY ONLY <2>2, <3>2, m \in Int, SubSeqProperties
    <3>. QED  BY ONLY <3>1, <3>3, Zenon
  <2>4. l - m + 1 = l - i /\ (IF m <= l THEN l - m + 1 ELSE 0) = l - i
    BY ONLY <1>2, <2>1, l \in Nat
  <2>5. \A j \in 1..(l - i) : m + j - 1 = i + j
    BY ONLY <1>2, <2>1, l \in Nat
  <2>. QED  BY ONLY <2>3, <2>4, <2>5, Zenon
<1>7. PICK p : p = a \o b
  OBVIOUS
<1>8. RemoveAt(q, i) = p
  BY <1>1, <1>3, <1>4, <1>7 DEF RemoveAt
<1>9. /\ p \in Seq(Nat) /\ Len(p) = Len(a) + Len(b)
      /\ \A j \in 1..Len(p) : p[j] = IF j <= Len(a) THEN a[j] ELSE b[j - Len(a)]
  <2>1. a \in Seq(Nat) /\ b \in Seq(Nat)
    BY <1>5, <1>6
  <2>2. /\ a \o b \in Seq(Nat) /\ Len(a \o b) = Len(a) + Len(b)
        /\ \A j \in 1..Len(a) + Len(b) : (a \o b)[j] = IF j <= Len(a) THEN a[j] ELSE b[j - Len(a)]
    BY ONLY <2>1, ConcatProperties, Zenon
  <2>. QED  BY ONLY <1>7, <2>2, Zenon
<1>10. Len(p) = l - 1 /\ DOMAIN p = 1..(l - 1)
  BY <1>2, <1>5, <1>6, <1>9
<1>11. ASSUME NEW j \in 1..(l - 1) PROVE \E k \in 1..l : p[j] = q[k]
  <2>0. j \in Int /\ i \in Int
    BY <1>2
  <2>1. CASE j <= i - 1
    <3>1. p[j] = a[j] /\ j \in 1..(i - 1) /\ j \in 1..l
      BY <1>2, <1>5, <1>9, <1>10, <2>0, <2>1
    <3>. QED  BY <1>5, <3>1
  <2>2. CASE ~ (j <= i - 1)
    <3>0. ~ (j <= Len(a)) /\ j \in 1..Len(p)
      BY <1>5, <1>10, <2>2
    <3>1. p[j] = b[j - (i - 1)] /\ j - (i - 1) \in 1..(l - i)
      <4>1. p[j] = b[j - Len(a)]
        BY <1>9, <3>0
      <4>2. j - (i - 1) \in 1..(l - i)
        <5>1. j \in Nat /\ j <= l - 1
          BY <1>2
        <5>. QED  BY <1>2, <2>0, <2>2, <5>1
      <4>. QED  BY <1>5, <4>1, <4>2
    <3>2. i + (j - (i - 1)) \in 1..l
      BY <1>2, <3>1
    <3>3. b[j - (i - 1)] = q[i + (j - (i - 1))]
      BY <1>6, <3>1
    <3>. QED  BY <3>1, <3>2, <3>3
  <2>. QED  BY <2>1, <2>2
<1>. QED  BY <1>1, <1>2, <1>8, <1>9, <1>10, <1>11

LEMMA ReleaseKeepsPlan ==
    ASSUME PlanInv, NEW t \in Tenants, NEW i \in DOMAIN shares[t], Release(t, i)
    PROVE  PlanInv'
<1>1. /\ start.pc = "up"
      /\ shares' = [shares EXCEPT ![t] = RemoveAt(shares[t], i)]
      /\ unlike' = IF Len(shares[t]) = 1 THEN unlike \ {t} ELSE unlike
      /\ UNCHANGED <<tenants, free, edits, bookings, start, raced>>
  BY DEF Release, Requested, plans
<1>2. PlanType /\ free \in PlanRow /\ free # NoPlan
  BY <1>1 DEF PlanInv, PlanType, Edits
<1>3. PICK q \in Seq(Nat) : q = shares[t]
  BY <1>2 DEF PlanType
<1>4. PICK p : p = RemoveAt(q, i)
  OBVIOUS
<1>5. p \in Seq(Nat) /\ Len(p) = Len(q) - 1 /\ \A j \in DOMAIN p : \E k \in DOMAIN q : p[j] = q[k]
  BY <1>3, <1>4, Removed
<1>6. Len(q) \in Nat /\ q # <<>> /\ (Len(q) = 1 => p = <<>>)
  BY <1>3, <1>5
<1>7. shares'[t] = p /\ \A u \in Tenants \ {t} : shares'[u] = shares[u]
  BY <1>1, <1>2, <1>3, <1>4 DEF PlanType
<1>8. PlanType'
  BY <1>1, <1>2, <1>3, <1>4, <1>5 DEF PlanType
<1>9. ASSUME NEW u \in Tenants \ unlike', ~raced, ~tenants[u].scope PROVE Fits(u)'
  <2>0. Allocation' = Allocation
    BY <1>1 DEF Allocation
  <2>1. CASE u # t
    <3>1. Fits(u)
      BY <1>1, <1>9, <2>1 DEF PlanInv
    <3>. QED  BY <1>1, <1>7, <2>0, <2>1, <3>1 DEF Fits
  <2>2. CASE u = t /\ t \notin unlike
    <3>1. Fits(t) /\ free.apps \in Nat
      BY <1>2, <1>9, <2>2 DEF PlanInv, PlanRow
    <3>2. Len(p) <= free.apps /\ \A j \in DOMAIN p : Charge(p[j]) <= Allocation
      BY <1>2, <1>3, <1>5, <1>6, <3>1 DEF Fits
    <3>. QED  BY <1>1, <1>2, <1>7, <2>0, <2>2, <3>2 DEF Fits
  <2>3. CASE u = t /\ t \in unlike
    <3>1. p = <<>>
      BY <1>1, <1>3, <1>6, <1>9, <2>3
    <3>. QED  BY <1>7, <1>8, <2>3, <3>1, <1>1, <1>2 DEF Fits, PlanRow
  <2>. QED  BY <2>1, <2>2, <2>3
<1>10. ASSUME NEW u \in Tenants, ~There(u)' PROVE shares'[u] = <<>>
  BY <1>1, <1>3, <1>6, <1>7, <1>10 DEF PlanInv, There
<1>12. Booked'
  <2>1. ASSUME NEW l \in Askers PROVE Sized(l)'
    <3>. SUFFICES ASSUME bookings[l] # NoBooking PROVE Sized(l)'
      BY <1>1 DEF Sized
    <3>1. Sized(l) /\ bookings[l].tenant \in Tenants
      BY <1>2, BookingFields DEF PlanInv, Booked
    <3>2. Allocation' = Allocation
      BY <1>1 DEF Allocation
    <3>3. /\ Len(shares[bookings[l].tenant]) \in Nat
          /\ \/ Len(shares'[bookings[l].tenant]) = Len(shares[bookings[l].tenant])
             \/ Len(shares'[bookings[l].tenant]) = Len(shares[bookings[l].tenant]) - 1
      <4>1. PICK o \in Seq(Nat) : o = shares[bookings[l].tenant]
        BY <1>2, <3>1 DEF PlanType
      <4>2. Len(o) \in Nat
        OBVIOUS
      <4>3. CASE bookings[l].tenant # t
        BY <1>7, <3>1, <4>1, <4>2, <4>3
      <4>4. CASE bookings[l].tenant = t
        BY <1>3, <1>5, <1>7, <4>1, <4>2, <4>4
      <4>. QED  BY <4>3, <4>4
    <3>4. free.apps \in Nat
      BY <1>2, PlanFields
    <3>. QED  BY <1>1, <3>1, <3>2, <3>3, <3>4 DEF Sized, There
  <2>. QED  BY <1>1, <2>1 DEF PlanInv, Booked
<1>11. Edits' /\ OneEditor' /\ (free' # NoPlan /\ ~raced' => Coherent(free'))
  BY <1>1 DEF PlanInv, Edits, OneEditor, Edited, Merged, Coherent
<1>. QED  BY <1>1, <1>8, <1>9, <1>10, <1>11, <1>12 DEF PlanInv

-----------------------------------------------------------------------------
LEMMA PlanKeeps ==
    ASSUME PlatformInv, PlanInv, [AppStateNext]_appStateVars
    PROVE  PlanInv'
<1>1. ASSUME UNCHANGED <<tenants, free, shares, bookings, edits, raced, unlike>>,
             start'.pc = start.pc \/ start.pc \in {"admin", "down", "tables"},
             start'.pc \in {"admin", "up"} => start.pc \in {"admin", "up"}
      PROVE  PlanInv'
  <2>1. Edits'
    BY <1>1 DEF PlanInv, Edits
  <2>. QED  BY <1>1, <2>1, PlanStays DEF Stays, There
<1>2. start \in Process /\ tenants \in [Tenants -> Standing]
  BY DEF PlatformInv, PlatformType
<1>3. CASE UNCHANGED platformVars
  BY <1>1, <1>3 DEF platformVars
<1>4. CASE \E e \in Addresses, password \in BOOLEAN : StartProcess(e, password)
  <2>1. start.pc = "down" /\ start'.pc = "tables" /\ UNCHANGED <<tenants, free, shares, bookings, edits, raced, unlike>>
    BY <1>4 DEF StartProcess, plans, Down
  <2>. QED  BY <1>1, <2>1
<1>5. CASE UpgradeSchema
  <2>1. start.pc = "tables" /\ start'.pc = "rows" /\ UNCHANGED <<tenants, free, shares, bookings, edits, raced, unlike>>
    BY <1>2, <1>5 DEF UpgradeSchema, plans, Process, Running, Down
  <2>. QED  BY <1>1, <2>1
<1>6. CASE NoAdmin
  <2>1. start.pc = "admin" /\ start'.pc = "up" /\ UNCHANGED <<tenants, free, shares, bookings, edits, raced, unlike>>
    BY <1>2, <1>6 DEF NoAdmin, plans, Process, Running, Down
  <2>. QED  BY <1>1, <2>1
<1>7. CASE Stop
  <2>1. /\ start'.pc = "down" /\ edits' = [r \in Editors |-> NoEdit]
        /\ bookings' = NoBookings
        /\ UNCHANGED <<tenants, free, shares, raced, unlike>>
    BY <1>7 DEF Stop, Down, NoBookings
  <2>2. Edits'
    BY <2>1 DEF Edits
  <2>. QED  BY <2>1, <2>2, PlanStays DEF Stays, There
<1>8. ASSUME NEW t \in Tenants,
             EnsureAdmin(t) \/ (\E e \in Addresses : SignUp(t, e)) \/ CreateTenant(t)
               \/ (\E status \in {"active", "suspended"} : SetStatus(t, status))
      PROVE  PlanInv'
  <2>1. /\ UNCHANGED <<free, shares, bookings, edits, raced, unlike>>
        /\ start'.pc = start.pc \/ (start.pc = "admin" /\ start'.pc = "up")
    BY <1>2, <1>8 DEF EnsureAdmin, SignUp, CreateTenant, SetStatus, plans, Process, Running, Down
  <2>2. Edits'
    BY <2>1 DEF PlanInv, Edits
  <2>3. ASSUME NEW u \in Tenants PROVE Stays(u)
    <3>1. CASE t \in Unmade /\ \E x : tenants' = [tenants EXCEPT ![t] = x]
      BY <1>2, <3>1 DEF Stays, There, Unmade
    <3>2. CASE UNCHANGED tenants
      BY <3>2 DEF Stays, There
    <3>3. ASSUME NEW status \in {"active", "suspended"}, tenants' = [tenants EXCEPT ![t].status = status]
          PROVE  Stays(u)
      <4>1. \A x \in Standing : LET y == [x EXCEPT !.status = status]
                                IN  y.status = status /\ y.scope = x.scope
        BY ONLY DEF Standing
      <4>2. tenants'[u] = IF u = t THEN [tenants[t] EXCEPT !.status = status] ELSE tenants[u]
        BY <1>2, <3>3
      <4>3. tenants[t] \in Standing
        BY <1>2
      <4>. QED  BY <4>1, <4>2, <4>3 DEF Stays, There
    <3>. QED  BY <1>8, <3>1, <3>2, <3>3
              DEF EnsureAdmin, NewDefault, SignUp, MayJoin, CreateTenant, SetStatus
  <2>. QED  BY <2>1, <2>2, <2>3, PlanStays
<1>9. ASSUME NEW i \in DOMAIN people, NEW e \in Addresses, ChangeEmail(i, e) PROVE PlanInv'
  BY <1>1, <1>9 DEF ChangeEmail, plans
<1>10. ASSUME NEW r \in Editors, NEW fields \in {{"apps"}, {"cpu"}, {"apps", "cpu"}}, NEW p \in Offers,
              AskUpdate(r, fields, p)
       PROVE  PlanInv'
  BY <1>10, AskKeepsPlan
<1>11. CASE PlatformStep
  BY <1>4, <1>5, <1>6, <1>7, <1>8, <1>9, <1>10, <1>11,
     BackfillFits, CommitKeepsPlan, ReadShareKeepsPlan, CountKeepsPlan, ReserveKeepsPlan,
     GiveUpKeepsPlan, ReleaseKeepsPlan
     DEF PlatformStep
<1>. QED  BY <1>3, <1>11, OnePart DEF appStateVars

\* "Total / max_apps": whatever staff make of the plan, what a tenant's apps were
\* given fits it, unless one of them was sized by the plan before it changed, or
\* two updates of the plan overlapped.
THEOREM SharesAlwaysFit == AppStateSpec => []SharesFit
<1>1. AppStateInit => PlatformInv /\ PlanInv
  BY PlatformStarts, PlanStarts
<1>2. PlatformInv /\ PlanInv /\ [AppStateNext]_appStateVars => (PlatformInv /\ PlanInv)'
  BY PlatformKeeps, PlanKeeps
<1>. QED  BY <1>1, <1>2, PlanInvImplies, PTL DEF AppStateSpec
=============================================================================
