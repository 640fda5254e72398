------------------------------ MODULE MCHosting ------------------------------
(***************************************************************************)
(* Two tenants and the platform, a mail domain with a mailbox, two keys, a *)
(* plan for a zone, and the zone and a bucket under the platform's prefix  *)
(* that both stood before.                                                 *)
(***************************************************************************)
EXTENDS Hosting, TLC
CONSTANTS t1, t2, P, dom, box, bkt, k1, k2, zone, plan

MCTenants == {t1, t2, P}
MCResources == {dom, box, bkt, k1, k2, zone, plan}
MCKind == dom :> "mail_domain" @@ box :> "mailbox" @@ bkt :> "bucket"
          @@ k1 :> "ai_key" @@ k2 :> "ai_key" @@ zone :> "dns_zone" @@ plan :> "zone_service"
MCUnder == [x \in MCResources |-> IF x = box THEN dom ELSE IF x = plan THEN zone ELSE None]
Symm == Permutations(Requests) \cup Permutations({t1, t2}) \cup Permutations({k1, k2})
MCBucketOf == [x \in MCResources |-> IF x = bkt THEN P ELSE None]
=============================================================================
