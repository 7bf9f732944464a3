-------------------------- MODULE MCResourceManager --------------------------
(***************************************************************************)
(* Registrations for ResourceManager.  MCPlan is a service's main          *)
(* goroutine: the web service first (AddAfterFree), then a local cache's   *)
(* delay queue (Add, as CrateLocalCache does) and a resource to close      *)
(* first (AddBeforeFree).  MCCachePlan is a process with no web service:   *)
(* only the local cache registers.                                         *)
(***************************************************************************)
EXTENDS ResourceManager

MCPlan == [g \in Registrants |->
             << [m |-> "AddAfterFree", r |-> "web"], [m |-> "Add", r |-> "queue"],
                [m |-> "AddBeforeFree", r |-> "conn"] >>]
MCCachePlan == [g \in Registrants |-> << [m |-> "Add", r |-> "queue"] >>]
=============================================================================
