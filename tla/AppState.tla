------------------------------ MODULE AppState ------------------------------
(***************************************************************************)
(* What one process of the API keeps in memory and its requests share: the *)
(* cache, with the listings of the provider clients and the codes and      *)
(* tokens of the webmail sign-in, and the buckets of the rate limiter; and *)
(* what it makes of the database when it starts, which reads none of them. *)
(* They share a clock and no key, so a behaviour is about one of them.     *)
(***************************************************************************)
EXTENDS Listings, Oidc, RateLimiter, Platform

\* Keys carry the prefix of what they are of.
AppStateAssumption ==
    /\ ListingKeys \cup LoginCodes \cup AccessTokens \subseteq Keys
    /\ ListingKeys \cap (LoginCodes \cup AccessTokens) = {} /\ LoginCodes \cap AccessTokens = {}
ASSUME AppStateAssumption

VARIABLES part,      \* listings, oidc, limiter or platform
          bucket,    \* of one key of the rate limiter
          admitted   \* the calls it let in since the process started

memory == <<now, cache, listingVars, oidcVars, bucket, admitted>>
appStateVars == <<memory, platformVars, part>>

AppStateInit ==
    /\ CacheInit /\ ListingsInit /\ OidcInit
    /\ part \in {"listings", "oidc", "limiter", "platform"}
    /\ PlatformInit
    /\ part # "platform" => people = <<>> /\ left = (CHOOSE b \in Budgets : TRUE)
    /\ part # "listings" => client = Templates
    /\ bucket = <<>> /\ admitted = <<>>

\* A call with a personal token, or an attempt to sign in.
CheckLimit ==
    /\ bucket' = Check(bucket, now)
    /\ admitted' = IF Allowed(bucket, now) THEN Append(admitted, now) ELSE admitted
    /\ UNCHANGED <<now, cache, listingVars, oidcVars>>

Tick ==
    /\ now < MaxTime /\ CallsInTime /\ AuthorizeInTime
    /\ now' = now + 1
    /\ UNCHANGED <<cache, listingVars, oidcVars, bucket, admitted>>

AppStateNext ==
    /\ UNCHANGED part
    /\ \/ /\ UNCHANGED platformVars
          /\ \/ part = "listings" /\ ListingsStep /\ UNCHANGED <<oidcVars, bucket, admitted>>
             \/ part = "oidc" /\ OidcStep /\ UNCHANGED <<listingVars, bucket, admitted>>
             \/ part = "limiter" /\ CheckLimit
             \/ part # "platform" /\ Tick
       \/ part = "platform" /\ PlatformStep /\ UNCHANGED memory

AppStateSpec == AppStateInit /\ [][AppStateNext]_appStateVars

-----------------------------------------------------------------------------
\* No window, wherever it begins, has more calls let in than the limit.
WithinLimit ==
    \A i \in DOMAIN admitted : i + Limit \in DOMAIN admitted => admitted[i + Limit] - admitted[i] >= Window
=============================================================================
