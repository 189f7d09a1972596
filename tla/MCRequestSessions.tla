---------------------------- MODULE MCRequestSessions ----------------------------
(***************************************************************************)
(* The instances of RequestSessions that TLC checks.                       *)
(***************************************************************************)
EXTENDS RequestSessions, TLC

CONSTANTS acme, zenith, nobody

By(kind, host, role, tenant) == [kind |-> kind, host |-> host, role |-> role, tenant |-> tenant]

Audit    == By("tenant", acme, "AUDITOR", acme)
Other    == By("tenant", zenith, "TENANT_ADMIN", zenith)
Stranger == By("tenant", zenith, "TENANT_ADMIN", acme)
Detail   == By("fallback", acme, "REVIEWER", acme)
Create   == By("both", acme, "TENANT_ADMIN", acme)
NoHost   == By("tenant", nobody, "AUDITOR", acme)
Assign   == By("platform", nobody, "SUPER_ADMIN", nobody)
Denied   == By("platform", nobody, "TENANT_ADMIN", acme)

MCScenarios ==
    {[events |-> {"overlap"}, asked |-> {Audit, Other, Assign},
      active |-> {acme, zenith}],
     [events |-> {"overlap", "failures"}, asked |-> {Create, Stranger},
      active |-> {acme, zenith}],
     [events |-> {"rotation", "expiry", "failures", "recycle"},
      asked  |-> {Audit, Detail, Other, Denied, NoHost}, active |-> {acme}],
     [events |-> {"rotation", "expiry", "failures", "delete_failures"}, asked |-> {Audit},
      active |-> {acme}]}
==================================================================================
