------------------------- MODULE ReleaseGovernance -------------------------
(***************************************************************************)
(* What the release process of docs/decisions/ADR-015 promises a tenant,   *)
(* without the registry, the operators' requests or the bridge: a version  *)
(* passes the gates one after the other, and the platform runs only        *)
(* versions that have passed all of them.                                  *)
(***************************************************************************)
CONSTANTS Versions,
          Released   \* the versions already in service at the start

VARIABLES reached,  \* [Versions -> SUBSET Gates], the gates a version has passed
          served    \* the versions that were run for a tenant

vars == <<reached, served>>

\* The gates in front of promotion, each with the gate before it.
Before == [deployed_staging |-> "built",
           integration_verified |-> "deployed_staging",
           evaluation_passed |-> "integration_verified",
           approved |-> "evaluation_passed",
           promoted |-> "approved",
           rolled_back |-> "promoted"]

Passed == {"built", "deployed_staging", "integration_verified",
           "evaluation_passed", "approved", "promoted"}

Init == /\ reached = [v \in Versions |-> IF v \in Released THEN Passed ELSE {}]
        /\ served = {}

Build(v) == /\ reached' = [reached EXCEPT ![v] = @ \cup {"built"}]
            /\ UNCHANGED served

Pass(v, g) == /\ Before[g] \in reached[v]
              /\ reached' = [reached EXCEPT ![v] = @ \cup {g}]
              /\ UNCHANGED served

\* A version fails at some gate in front of promotion.
Fail(v) == /\ reached[v] # {}
           /\ reached' = [reached EXCEPT ![v] = @ \cup {"failed"}]
           /\ UNCHANGED served

Serve(v) == /\ "promoted" \in reached[v]
            /\ served' = served \cup {v}
            /\ UNCHANGED reached

Next == \E v \in Versions : \/ Build(v)
                            \/ \E g \in DOMAIN Before : Pass(v, g)
                            \/ Fail(v)
                            \/ Serve(v)

Spec == Init /\ [][Next]_vars
=============================================================================
