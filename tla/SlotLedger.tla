----------------------------- MODULE SlotLedger -----------------------------
(***************************************************************************)
(* What the app quota promises a tenant, with nothing of how it is kept:   *)
(* app/services/quota.py opens with "two concurrent installs for the same  *)
(* tenant must not both pass the max_apps check".  A slot is taken one at  *)
(* a time and only while fewer than MaxApps are taken; any number of slots *)
(* may be given back at any moment.  The platform-scope tenant (the        *)
(* operator) is exempt.                                                    *)
(***************************************************************************)
EXTENDS Naturals, FiniteSets

CONSTANTS
    Slots,          \* identities of reservation rows
    MaxApps,        \* Plan.max_apps of the tenant
    PlatformScope   \* Tenant.is_platform_scope

VARIABLE taken      \* the slots in use

LedgerInit == taken = {}

Take(s) ==
    /\ s \notin taken
    /\ PlatformScope \/ Cardinality(taken) < MaxApps
    /\ taken' = taken \cup {s}

GiveBack == \E kept \in SUBSET taken : taken' = kept

LedgerNext == (\E s \in Slots : Take(s)) \/ GiveBack

LedgerSpec == LedgerInit /\ [][LedgerNext]_taken
=============================================================================
