-------------------------------- MODULE Oidc --------------------------------
(***************************************************************************)
(* Signing in to the webmail: app/modules/oidc.  The console stashes the   *)
(* chosen mailbox in the session cookie, the mail server sends the browser *)
(* back for a code, changes the code for an access token and asks who the  *)
(* token is.  Codes and tokens are entries of the cache and die with the   *)
(* process; a cookie is the browser's, which may send it more than once.   *)
(***************************************************************************)
EXTENDS TTLCache

CONSTANTS Mailboxes,
          LoginCodes, AccessTokens,   \* random strings, as many as are made
          CodeTTL, TokenTTL,
          AuthorizeTime,   \* a request to authorize takes no longer
          NoMailbox

OidcAssumption ==
    /\ CodeTTL \in Nat \ {0} /\ TokenTTL \in Nat \ {0} /\ AuthorizeTime \in Nat
    /\ NoMailbox \notin Mailboxes
ASSUME OidcAssumption

VARIABLES owned,     \* mailboxes with a row of the tenant
          lostAt,    \* when the row of a mailbox was last removed
          cookie,    \* the mailbox the session cookie names
          auth,      \* a request to authorize: its mailbox, and when it was checked
          used       \* codes and tokens made

oidcVars == <<owned, lostAt, cookie, auth, used>>

NoAuth == [mailbox |-> NoMailbox, at |-> 0, checked |-> FALSE]

OidcInit ==
    /\ owned = Mailboxes /\ lostAt = [m \in Mailboxes |-> 0]
    /\ cookie = NoMailbox /\ auth = NoAuth
    /\ used = {}

\* The row of the mailbox, or of its domain, goes.
Withdraw(m) ==
    /\ m \in owned /\ owned' = owned \ {m} /\ lostAt' = [lostAt EXCEPT ![m] = now]
    /\ UNCHANGED <<now, cache, cookie, auth, used>>

Launch(m) ==
    /\ m \in owned /\ cookie' = m
    /\ UNCHANGED <<now, cache, owned, lostAt, auth, used>>

\* The selection is taken from the cookie the request came with.  The browser
\* forgets it with the answer; one that asked twice sends it again.
Authorize ==
    /\ auth = NoAuth /\ cookie # NoMailbox
    /\ auth' = [mailbox |-> cookie, at |-> now, checked |-> FALSE]
    /\ UNCHANGED <<now, cache, owned, lostAt, cookie, used>>

\* The mailbox is as good as when it was launched.
TrustSelection ==
    /\ auth.mailbox # NoMailbox /\ ~auth.checked
    /\ auth' = [auth EXCEPT !.checked = TRUE]
    /\ UNCHANGED <<now, cache, owned, lostAt, cookie, used>>

\* _mailbox_accessible, again.
Recheck ==
    /\ auth.mailbox # NoMailbox /\ ~auth.checked
    /\ auth' = IF auth.mailbox \in owned THEN [auth EXCEPT !.checked = TRUE] ELSE NoAuth
    /\ UNCHANGED <<now, cache, owned, lostAt, cookie, used>>

IssueCode(c) ==
    /\ auth.checked /\ c \notin used /\ used' = used \cup {c}
    /\ cache' = Set(c, {auth.mailbox}, CodeTTL)
    /\ auth' = NoAuth
    /\ cookie' \in {cookie, NoMailbox}
    /\ UNCHANGED <<now, owned, lostAt>>

\* get, delete and set with nothing in between: a code is burnt as it is read.
ExchangeCode(c, t) ==
    /\ Live(c) /\ t \notin used
    /\ cache' = [Set(t, cache[c].val, TokenTTL) EXCEPT ![c] = NoEntry]
    /\ used' = used \cup {t}
    /\ UNCHANGED <<now, owned, lostAt, cookie, auth>>

\* Burnt too when the client or the redirect is another.
Mismatch(c) ==
    /\ Live(c) /\ cache' = Delete({c})
    /\ UNCHANGED <<now, owned, lostAt, cookie, auth, used>>

\* userinfo answers for a token as long as it is cached.
Vouched == {m \in Mailboxes : \E t \in AccessTokens : Live(t) /\ m \in cache[t].val}

\* The process goes down: cookies outlive it, requests and the cache do not.
Restart ==
    /\ cache' = [k \in Keys |-> NoEntry] /\ auth' = NoAuth
    /\ UNCHANGED <<now, owned, lostAt, cookie, used>>

OidcStep ==
    \/ \E m \in Mailboxes : Withdraw(m) \/ Launch(m)
    \/ Authorize \/ Recheck \/ Restart
    \/ \E c \in LoginCodes : IssueCode(c) \/ Mismatch(c) \/ \E t \in AccessTokens : ExchangeCode(c, t)

AuthorizeInTime == auth # NoAuth => now < auth.at + AuthorizeTime

-----------------------------------------------------------------------------
\* "A revoked mailbox must fail": the last token that vouches for a mailbox the
\* tenant no longer has is gone when a code made just before has run out, and
\* the token it was changed for.
AccessEnds ==
    \A m \in Vouched : m \in owned \/ now < lostAt[m] + AuthorizeTime + CodeTTL + TokenTTL
=============================================================================
