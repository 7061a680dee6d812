--------------------------- MODULE AgentRegistry ---------------------------
(***************************************************************************)
(* The versions of one agent in the platform-agents table: registration,   *)
(* the gates of the release life cycle and rollback, as the tenant API     *)
(* (src/tenant_api/agent_registry.py) runs them for the operators and for  *)
(* the release scripts.  A status change is a read of the item, a check    *)
(* and an update without a condition, so requests of two operators         *)
(* interleave between the two.                                             *)
(***************************************************************************)
EXTENDS Integers, FiniteSets, FiniteSetsExt

CONSTANTS Versions,    \* the versions of the agent; the number is the semver order
          Operators,   \* callers with the Platform.Admin role
          Released,    \* the versions already promoted at the start
          Bodies,      \* [Versions -> SUBSET Body], what may be registered
          MaxReuse     \* bound: registrations of a version that exists

VARIABLES registry,    \* [Versions -> Item \cup {None}], platform-agents
          op,          \* [Operators -> what the operator's request is doing]
          reused,      \* how often an existing version was registered
          \* History, read by the properties only:
          reached,     \* [Versions -> the statuses ever written for it]
          lost,        \* a status was written over an item changed since its read
          direct       \* a version was rolled back past rollback_agent.py

registryVars == <<registry, op, reused, reached, lost, direct>>

None == [status |-> "none"]
Idle == [kind |-> "idle"]

Status == {"built", "deployed_staging", "integration_verified",
           "evaluation_passed", "approved", "promoted", "rolled_back", "failed"}
REGISTERABLE_AGENT_STATUSES == {"built"}
\* Mutant: a rolled-back version can still be invoked.
InvokableAfterRollback == {"promoted", "rolled_back"}
INVOKABLE_AGENT_STATUSES == {"promoted"}

AGENT_STATUS_TRANSITIONS ==
    [built |-> {"deployed_staging", "failed"},
     deployed_staging |-> {"integration_verified", "failed"},
     integration_verified |-> {"evaluation_passed", "failed"},
     evaluation_passed |-> {"approved", "failed"},
     approved |-> {"promoted", "failed"},
     promoted |-> {"rolled_back"},
     rolled_back |-> {},
     failed |-> {}]

\* A registration body: which layer fields are filled, whether there is a
\* runtime ARN, the endpoint fields, the minimum tier (0 basic, 1 standard,
\* 2 premium; the handler stores any text, -1 is one that is no tier), the
\* invocation mode and whether there is an AG-UI endpoint.
Body == [layer : {"none", "partial", "full"},
         runtime : BOOLEAN,
         endpoint : {"none", "partial", "mismatch", "full"},
         tier_minimum : -1..2,
         mode : {"sync", "streaming", "async"},
         agUi : BOOLEAN,
         status : Status]

Item == [status : Status, approved : BOOLEAN, body : Body]

ASSUME RegistryAssumption ==
    /\ Versions \subseteq Nat \ {0} /\ IsFiniteSet(Versions)   \* 0 is no version
    /\ Released \subseteq Versions
    /\ Bodies \in [Versions -> SUBSET Body]
    /\ MaxReuse \in Nat
-----------------------------------------------------------------------------
\* A zip agent without a runtime has all of its layer metadata or none.
ValidLayerMetadata(b) == b.runtime \/ b.layer # "partial"

\* A runtime comes with all three endpoint fields and they match its ARN;
\* an endpoint without a runtime is refused.
ValidRuntimeEndpoint(b) == IF b.endpoint = "none" THEN ~b.runtime
                           ELSE b.runtime /\ b.endpoint = "full"

ValidRegistration(b) == /\ b.status \in REGISTERABLE_AGENT_STATUSES
                        /\ b.mode \in {"sync", "streaming"}
                        /\ ValidLayerMetadata(b)
                        /\ ValidRuntimeEndpoint(b)

\* Mutant: any status may follow any other that is not final.
AnyTransition(current, target) == AGENT_STATUS_TRANSITIONS[current] # {}

ValidTransition(current, target) ==
    target = current \/ target \in AGENT_STATUS_TRANSITIONS[current]

Promoted == {v \in Versions : registry[v].status \in INVOKABLE_AGENT_STATUSES}

Gates == Status \ {"rolled_back", "failed"}

RegistryInit == /\ \E body \in [Versions -> UNION {Bodies[v] : v \in Versions}] :
                     /\ \A v \in Versions : body[v] \in Bodies[v]
                     /\ registry = [v \in Versions |->
                            IF v \in Released
                            THEN [status |-> "promoted", approved |-> TRUE, body |-> body[v]]
                            ELSE None]
                /\ op = [o \in Operators |-> Idle]
                /\ reused = 0
                /\ reached = [v \in Versions |-> IF v \in Released THEN Gates ELSE {}]
                /\ lost = FALSE
                /\ direct = FALSE

\* The requests that have read an item of v see it change under them.
Touched(v) == [o \in Operators |-> IF op[o].kind = "patch" /\ op[o].v = v
                                   THEN [op[o] EXCEPT !.stale = TRUE] ELSE op[o]]

\* put_item replaces whatever the version's item was, with its approval.
PutVersion(v, b) ==
    /\ registry[v] # None => reused < MaxReuse
    /\ registry' = [registry EXCEPT ![v] =
                       [status |-> b.status, approved |-> FALSE, body |-> b]]
    /\ op' = Touched(v)
    /\ reused' = IF registry[v] = None THEN reused ELSE reused + 1
    /\ reached' = [reached EXCEPT ![v] = @ \cup {b.status}]

\* POST /v1/platform/agents.
RegisterAgent(o, v, b) == /\ op[o] = Idle
                          /\ ValidRegistration(b)
                          /\ PutVersion(v, b)
                          /\ UNCHANGED <<lost, direct>>

\* register_agent.py, which a pipeline on main runs again for an unchanged
\* version number: tier and mode from the manifest, the runtime with its
\* endpoint and a zip agent's layer from what the deployment left.  It stops
\* when one of them is missing or the endpoint is not the runtime's.
RegisterScript(o, v, b) ==
    /\ b.tier_minimum >= 0
    /\ b.layer # "partial"
    /\ RegisterAgent(o, v, [b EXCEPT !.status = "built", !.runtime = TRUE, !.endpoint = "full"])

\* The handler's read and its checks: PATCH, /promote or /rollback.
ReadStatus(v, target) ==
    /\ registry[v] # None
    /\ ValidTransition(registry[v].status, target)
    /\ target = "promoted" => registry[v].approved

PatchBegin(o, v, target) ==
    /\ op[o] = Idle
    /\ ReadStatus(v, target)
    /\ op' = [op EXCEPT ![o] = [kind |-> "patch", v |-> v, target |-> target,
                                stale |-> FALSE]]
    /\ direct' = (direct \/ target = "rolled_back")
    /\ UNCHANGED <<registry, reused, reached, lost>>

\* promote_agent.py, or the same PATCH by hand.
PromoteScript(o, v) == PatchBegin(o, v, "promoted")

\* update_item sets the status, and the approval with it, whatever the item
\* holds by now; the lifecycle event is published after it.
PatchWrite(o) ==
    /\ op[o].kind = "patch"
    /\ LET v == op[o].v
           target == op[o].target
       IN /\ registry' = [registry EXCEPT ![v].status = target,
                                          ![v].approved = @ \/ target = "approved"]
          /\ reached' = [reached EXCEPT ![v] = @ \cup {target}]
          /\ lost' = (lost \/ op[o].stale)
          /\ op' = [(IF registry'[v] = registry[v] THEN op ELSE Touched(v)) EXCEPT ![o] = Idle]
    /\ UNCHANGED <<reused, direct>>

\* The request dies between the read and the write.
PatchLost(o) == /\ op[o].kind = "patch"
                /\ op' = [op EXCEPT ![o] = Idle]
                /\ UNCHANGED <<registry, reused, reached, lost, direct>>

\* Mutant: the script rolls back without looking for a version to fall back to.
ScriptListAny(o) == /\ op[o] = Idle
                    /\ Promoted # {}
                    /\ op' = [op EXCEPT ![o] = [kind |-> "chosen", v |-> Max(Promoted)]]
                    /\ UNCHANGED <<registry, reused, reached, lost, direct>>

\* rollback_agent.py: list the versions, refuse unless a second promoted one
\* is left to fall back to, and choose the highest ...
ScriptList(o) == /\ op[o] = Idle
                 /\ Cardinality(Promoted) >= 2
                 /\ op' = [op EXCEPT ![o] = [kind |-> "chosen", v |-> Max(Promoted)]]
                 /\ UNCHANGED <<registry, reused, reached, lost, direct>>

\* ... then send the PATCH, which the handler may refuse by now.
ScriptPatch(o) ==
    /\ op[o].kind = "chosen"
    /\ LET v == op[o].v
       IN op' = [op EXCEPT ![o] = IF ReadStatus(v, "rolled_back")
                                  THEN [kind |-> "patch", v |-> v, target |-> "rolled_back",
                                        stale |-> FALSE]
                                  ELSE Idle]
    /\ UNCHANGED <<registry, reused, reached, lost, direct>>

RegistryNext == \E o \in Operators :
                  \/ \E v \in Versions : \E b \in Bodies[v] :
                        RegisterAgent(o, v, b) \/ RegisterScript(o, v, b)
                  \/ \E v \in Versions, target \in Status \ {"promoted"} :
                        PatchBegin(o, v, target)
                  \/ \E v \in Versions : PromoteScript(o, v)
                  \/ PatchWrite(o)
                  \/ PatchLost(o)
                  \/ ScriptList(o)
                  \/ ScriptPatch(o)
=============================================================================
