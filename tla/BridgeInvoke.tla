---------------------------- MODULE BridgeInvoke ----------------------------
(***************************************************************************)
(* The bridge Lambda in front of AgentCore Runtime (src/bridge): a tenant's *)
(* request is matched to a promoted version of the agent, checked against  *)
(* tier, capability policy and token budget, run with the tenant's         *)
(* execution role, logged and answered, while operators change the         *)
(* registry between its steps.  The registry is AgentRegistry's; the       *)
(* token budget is the one of module TpmLimiter, here only its verdict.    *)
(***************************************************************************)
EXTENDS AgentRegistry

CONSTANTS Requests,   \* invocations of the agent by tenants
          Envs        \* SUBSET Env, the circumstances of a request

VARIABLES req,        \* [Requests -> the invocation's progress]
          sessions    \* the requests whose AG-UI session item is stored

vars == <<registryVars, req, sessions>>

\* What the handler finds for one request: the tenant's tier, whether the
\* caller passed a response stream, whether the capability policy and the token
\* budget let it through, whether a mock runtime is configured, whether the
\* active region is the one of the runtime ARN, and the execution role (of the
\* tenant's account, of another one, none, or no tenant record at all).
Env == [tier : 0..2, stream : BOOLEAN, enabled : BOOLEAN, budget : BOOLEAN,
        mock : BOOLEAN, region : BOOLEAN, role : {"own", "foreign", "none", "noTenant"}]

Request == [pc : {"new", "received", "resolved", "calling", "streaming",
                  "answered", "raised", "killed"},
            env : Envs \cup {None},       \* as long as it matters
            version : Versions \cup {0},  \* the version resolved
            agent : Body \cup {None},     \* and its configuration, as read
            barred : SUBSET Versions,     \* history: rolled back before it began, of
                                          \* the one resolved once there is one
            calls : 0..1,                 \* runtime calls made
            logs : 0..2,                  \* audit records written for it
            preambles : 0..2]             \* status lines sent to the caller

NewRequest == [pc |-> "new", env |-> None, version |-> 0, agent |-> None,
               barred |-> {}, calls |-> 0, logs |-> 0, preambles |-> 0]

ASSUME EnvAssumption == Envs \subseteq Env

InvokeInit == /\ RegistryInit
              /\ req = [r \in Requests |-> NewRequest]
              /\ sessions = {}

RolledBack == {v \in Versions : registry[v].status = "rolled_back"}
-----------------------------------------------------------------------------
\* Discovery.  An item becomes an AgentRecord only with a runtime or complete
\* layer metadata, and with enumerations that parse.
Parses(item) == /\ item.body.tier_minimum >= 0
                /\ item.body.runtime \/ item.body.layer = "full"

\* resolve_agent_record: the highest promoted version whose item parses.
Resolvable == {v \in Promoted : Parses(registry[v])}

\* By the numbers of the version, the highest first.
Latest(S) == IF S = {} THEN 0 ELSE Max(S)

Resolve == Latest(Resolvable)

TierAllows(tier, b) == tier >= b.tier_minimum

\* get_agent_detail: the highest promoted version, whether its item parses or
\* not, for every tenant.
Detail == Latest(Promoted)

\* Mutant: the catalogue ignores the tenant's tier.
ListedToAll(tier) == Detail

\* list_agents: the same version, unless the tenant's tier is below its minimum
\* (an unknown one is basic).
Listed(tier) == IF Detail # 0 /\ TierAllows(tier, registry[Detail].body) THEN Detail ELSE 0
-----------------------------------------------------------------------------
Step(r, rec) == /\ req' = [req EXCEPT ![r] = rec]
                /\ UNCHANGED <<registryVars, sessions>>

\* A request that is over keeps what the properties ask about it.
Over(rec, pc) == [rec EXCEPT !.pc = pc, !.agent = None,
                             !.env = IF rec.calls = 1 /\ pc = "answered" THEN @ ELSE None,
                             !.version = IF rec.calls = 1 THEN @ ELSE 0,
                             !.barred = IF rec.calls = 1 THEN @ \cap {rec.version} ELSE {}]

\* send_streaming_response, or the response returned: one status line each.
Answer(rec) == [Over(rec, "answered") EXCEPT !.preambles = @ + 1]

\* log_invocation: the audit record, metrics and the usage counter.
Logged(rec) == [rec EXCEPT !.logs = @ + 1]

\* handler: the authoriser's context and the capability policy are read.
Receive(r, e) == /\ req[r].pc = "new"
                 /\ Step(r, [req[r] EXCEPT !.pc = "received", !.env = e, !.barred = RolledBack])

\* handle_invoke_request: no version to run, the tier below the minimum, the
\* capability off or the token budget used up are answered here.
HandleInvokeRequest(r) ==
    /\ req[r].pc = "received"
    /\ LET v == Resolve
           e == req[r].env
       IN IF v # 0 /\ TierAllows(e.tier, registry[v].body) /\ e.enabled /\ e.budget
          THEN Step(r, [req[r] EXCEPT !.pc = "resolved", !.version = v,
                                      !.agent = registry[v].body, !.barred = @ \cap {v}])
          ELSE Step(r, Answer(req[r]))

\* bootstrap_agent_session: an agent with an AG-UI endpoint gets a session
\* item; when it cannot be stored, the answer is an error.
BootstrapAgentSession(r) ==
    /\ req[r].pc = "received"
    /\ \E stored \in {FALSE, Resolve # 0 /\ registry[Resolve].body.agUi} :
         sessions' = IF stored THEN sessions \cup {r} ELSE sessions
    /\ req' = [req EXCEPT ![r] = Answer(@)]
    /\ UNCHANGED registryVars

\* invoke_agent on a mock runtime: the response is relayed and logged, and an
\* exception becomes a logged failure response.
MockCall(r) ==
    /\ req[r].pc = "resolved" /\ req[r].env.mock
    /\ ~(req[r].env.stream /\ req[r].agent.mode = "streaming")
    /\ Step(r, Answer(Logged([req[r] EXCEPT !.calls = 1])))

\* handle_streaming_invocation: the preamble goes out once the mock runtime
\* accepted the call; an exception before that leaves the handler.
MockStreamOpen(r) ==
    /\ req[r].pc = "resolved" /\ req[r].env.mock
    /\ req[r].env.stream /\ req[r].agent.mode = "streaming"
    /\ \/ Step(r, [req[r] EXCEPT !.pc = "streaming", !.calls = 1, !.preambles = 1])
       \/ Step(r, Over([req[r] EXCEPT !.calls = 1], "raised"))

MockStreamEnd(r) == /\ req[r].pc = "streaming"
                    /\ Step(r, Logged(Over(req[r], "answered")))

\* The stream breaks: the failure response is returned to handler, which
\* writes it, status line and all, to the stream already open.
MockStreamBreak(r) == /\ req[r].pc = "streaming"
                      /\ Step(r, Answer(Logged(req[r])))

\* Mutant: the account of the execution role is not compared.
UsableWithAnyRole(rec) == rec.agent.runtime

\* validate_runtime_endpoint: ARN and name, or neither, and the runtime's own.
\* An endpoint is bound to its region, a runtime ARN alone is not.
EndpointUsable(rec) == \/ rec.agent.endpoint = "none"
                       \/ rec.agent.endpoint = "full" /\ rec.env.region

\* invoke_real_runtime needs a runtime ARN, a usable endpoint, a tenant record
\* and an execution role of the tenant's account ...
RuntimeUsable(rec) == rec.agent.runtime /\ EndpointUsable(rec) /\ rec.env.role = "own"

\* ... and answers with an error, unlogged, when one of them is missing.
RefuseRuntime(r) == /\ req[r].pc = "resolved" /\ ~req[r].env.mock
                    /\ ~RuntimeUsable(req[r])
                    /\ Step(r, Answer(req[r]))

\* An exception reaches invoke_agent, which logs the failure and answers with
\* it; failover is disabled, so there is no second region to try.
FailureResponse(rec) == Answer(Logged(rec))

\* STS gives credentials, or refuses or throttles the role.
AssumeTenantRole(r) == /\ req[r].pc = "resolved" /\ ~req[r].env.mock
                       /\ RuntimeUsable(req[r])
                       /\ \/ Step(r, [req[r] EXCEPT !.pc = "calling"])
                          \/ Step(r, FailureResponse(req[r]))

\* Mutant: a failed call is repeated in a second region.
InvokeTwice(r) == /\ req[r].pc = "calling"
                  /\ \E n \in 1..2 : Step(r, Answer(Logged([req[r] EXCEPT !.calls = n])))

\* invoke_agent_runtime answers or raises; either way one audit record is
\* written and then the response.
InvokeRealRuntime(r) ==
    /\ req[r].pc = "calling"
    /\ Step(r, Answer(Logged([req[r] EXCEPT !.calls = 1])))

\* The Lambda is stopped at its time limit; a call to the runtime may have
\* been made by then, and what it held in memory is gone.
Killed(r) ==
    /\ req[r].pc \in {"received", "resolved", "calling", "streaming"}
    /\ \E c \in {req[r].calls} \cup (IF req[r].pc = "calling" THEN {1} ELSE {}) :
         Step(r, Over([req[r] EXCEPT !.calls = c], "killed"))

InvokeNext == \E r \in Requests :
    \/ \E e \in Envs : Receive(r, e)
    \/ HandleInvokeRequest(r) \/ BootstrapAgentSession(r)
    \/ MockCall(r) \/ MockStreamOpen(r) \/ MockStreamEnd(r) \/ MockStreamBreak(r)
    \/ RefuseRuntime(r) \/ AssumeTenantRole(r) \/ InvokeRealRuntime(r) \/ Killed(r)

Next == \/ RegistryNext /\ UNCHANGED <<req, sessions>>
        \/ InvokeNext

Spec == InvokeInit /\ [][Next]_vars
-----------------------------------------------------------------------------
\* The registry, the operators' requests and the invocations have the shapes
\* declared above.
TypeOK == /\ registry \in [Versions -> Item \cup {None}]
          /\ reused \in 0..MaxReuse
          /\ req \in [Requests -> Request]
          /\ sessions \subseteq Requests

Called == {r \in Requests : req[r].calls = 1}

\* rollback_agent.py checks that a second promoted version is left before it
\* sends its request, and the list it checked is old by then.  Still, as long
\* as nobody rolls back past the script, registers a version again or loses
\* an update, an agent that was once in service always keeps a promoted
\* version: however many scripts run at once, and whatever is promoted
\* meanwhile.
ServiceContinues ==
    (reused = 0 /\ ~lost /\ ~direct /\ \E v \in Versions : "promoted" \in reached[v])
        => Promoted # {}

\* A request that arrives after a version was rolled back never runs it, as
\* long as no version was registered twice and no status was written over a
\* newer one.
RolledBackStaysOut ==
    (reused = 0 /\ ~lost) => \A r \in Called : req[r].version \notin req[r].barred

\* The catalogue and the invocation path choose a version independently.
\* When every promoted item parses, the detail shown is of the version an
\* invocation runs, and list_agents offers a tenant exactly what an invocation
\* by this tenant would not refuse for its tier.
CatalogueAgrees ==
    (\A v \in Promoted : Parses(registry[v])) =>
        /\ Detail = Resolve
        /\ \A tier \in 0..2 :
              Listed(tier) = IF Resolve # 0 /\ TierAllows(tier, registry[Resolve].body)
                             THEN Resolve ELSE 0

\* Every answered invocation that reached a runtime left exactly one audit
\* record, used the tenant's own role unless it ran on the mock, and sent
\* one status line; a second one follows only on a mock stream that broke.
AnsweredAndAudited ==
    \A r \in Requests : req[r].pc = "answered" =>
        /\ r \in Called => /\ req[r].logs = 1
                           /\ req[r].env.mock \/ req[r].env.role = "own"
        /\ req[r].preambles # 1 => r \in Called /\ req[r].env.stream /\ req[r].env.mock

Governance == INSTANCE ReleaseGovernance
                WITH served <- {req[r].version : r \in Called}

\* The registry and the bridge implement the release process: however the
\* operators' requests interleave and whatever is registered again, a status
\* is written only after the one before it was, and a runtime is called only
\* for a version that was promoted at some time.
GovernedRelease == Governance!Spec

\* docs/decisions/ADR-015 on ROLLED_BACK: a version withdrawn by an operator
\* "is preserved for audit and never invoked again".
RolledBackNeverInvoked == \A r \in Called : req[r].version \notin req[r].barred
=============================================================================
