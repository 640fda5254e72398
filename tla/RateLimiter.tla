---------------------------- MODULE RateLimiter ----------------------------
(***************************************************************************)
(* The sliding window of app/rate_limit.py: a bucket holds the times of    *)
(* the calls let in, oldest first.                                         *)
(***************************************************************************)
EXTENDS Naturals, Sequences, FiniteSetsExt

CONSTANTS Limit,  \* calls let in per window
          Window

RateLimiterAssumption == Limit \in Nat \ {0} /\ Window \in Nat \ {0}
ASSUME RateLimiterAssumption

\* The oldest calls are popped while they are out of the window that ends at t.
FirstKept(bucket, t) ==
    Min({i \in 1..Len(bucket) + 1 : i <= Len(bucket) => bucket[i] + Window > t})
Kept(bucket, t) == SubSeq(bucket, FirstKept(bucket, t), Len(bucket))

\* One more than the limit.
AllowedOneMore(bucket, t) == Len(Kept(bucket, t)) <= Limit

Allowed(bucket, t) == Len(Kept(bucket, t)) < Limit

\* check: the bucket afterwards.
Check(bucket, t) == IF Allowed(bucket, t) THEN Append(Kept(bucket, t), t) ELSE Kept(bucket, t)
=============================================================================
