--------------------------- MODULE MCBridgeInvoke ---------------------------
(***************************************************************************)
(* Small instances of BridgeInvoke: two versions of an agent and two       *)
(* operators.                                                              *)
(***************************************************************************)
EXTENDS BridgeInvoke, TLC

RuntimeBody == [layer |-> "none", runtime |-> TRUE, endpoint |-> "full", tier_minimum |-> 0,
                mode |-> "streaming", agUi |-> TRUE, status |-> "built"]

\* No runtime, no layer and no tier, which the handler accepts and nothing can run.
EmptyBody == [RuntimeBody EXCEPT !.runtime = FALSE, !.endpoint = "none", !.tier_minimum = -1]

\* A zip agent for premium tenants; without a runtime when registered by hand.
ZipBody == [EmptyBody EXCEPT !.layer = "full", !.mode = "sync", !.tier_minimum = 2]

MCBodies == [v \in Versions |-> IF v = 1 THEN {RuntimeBody} ELSE {EmptyBody, ZipBody}]
MCOneBody == [v \in Versions |-> {RuntimeBody}]

\* A premium tenant, another one on the mock runtime, and a basic tenant
\* whose role is another account's.
Premium == [tier |-> 2, stream |-> TRUE, enabled |-> TRUE, budget |-> TRUE,
            mock |-> FALSE, region |-> TRUE, role |-> "own"]
Mocked == [Premium EXCEPT !.mock = TRUE]
Foreign == [Premium EXCEPT !.tier = 0, !.role = "foreign"]

MCEnvs == {Premium, Mocked, Foreign}
MCOneEnv == {Premium}

Symmetry == Permutations(Operators)
=============================================================================
