------------------------------ MODULE TTLCache ------------------------------
(***************************************************************************)
(* The cache of one process, app/cache.py: entries that are good until     *)
(* their time.  Its lock is held over no await, so each call is one step;  *)
(* get_or_set is a get, the factory and a set, each a step of its own, and *)
(* two callers that miss run two factories.                                *)
(***************************************************************************)
EXTENDS Naturals

CONSTANTS Keys, MaxTime
VARIABLES now, cache

TTLCacheAssumption == MaxTime \in Nat
ASSUME TTLCacheAssumption

NoEntry == [val |-> {}, exp |-> 0]

CacheInit == now = 0 /\ cache = [k \in Keys |-> NoEntry]

\* Good at its time too.
LiveToTheEnd(k) == cache[k] # NoEntry /\ cache[k].exp >= now

\* What get answers: an entry is gone at its time.
Live(k) == cache[k].exp > now

\* get drops an entry whose time has come.
AfterGet(k) == IF Live(k) THEN cache ELSE [cache EXCEPT ![k] = NoEntry]

Set(k, val, ttl) == [cache EXCEPT ![k] = [val |-> val, exp |-> now + ttl]]

Delete(ks) == [k \in Keys |-> IF k \in ks THEN NoEntry ELSE cache[k]]
=============================================================================
