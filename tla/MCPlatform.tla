------------------------------- MODULE MCPlatform -------------------------------
(***************************************************************************)
(* The instance of Platform that TLC checks.                               *)
(***************************************************************************)
EXTENDS Platform

CONSTANTS acme, acme_hq, ann, bob, c1

MCScenarios ==
    {[events |-> {"failures", "lifecycle"}, ops |-> {"create_tenant"}],
     [events |-> {"failures"}, ops |-> {"create_tenant", "create_user", "delete_user"}],
     [events |-> {"early_activation", "lifecycle"}, ops |-> {"create_tenant"}],
     [events |-> {"user_edits"}, ops |-> {"create_tenant", "create_user", "delete_user"}],
     [events |-> {"failures", "platform_carriers"},
      ops |-> {"create_tenant", "add_carrier", "create_carrier"}]}
=================================================================================
