# A verification development for a5c-cell

`a5c-cell` is a multi-tenant platform for hosted agents: an API in front of AWS
Lambda functions, DynamoDB tables, queues, an EventBridge bus and external agent
runtimes.  This directory holds TLA+ modules that model its parts, TLC
configurations that check them on small instances, and proofs of the main
theorems for TLAPS.  Paths below are relative to the repository.

1. [Inventory](#inventory)
2. [Modules](#modules): what is modelled, and how it corresponds to the code
3. [Runs](#runs): what is checked, bounds, fairness
4. [Disagreements found](#disagreements-found)
5. [Proofs](#proofs)
6. [Not modelled](#not-modelled)
7. [Plan](#plan)

## Inventory

| Part | State it keeps | Operations | Talks to | What is hard |
|---|---|---|---|---|
| Webhook delivery `src/webhook_delivery` | delivery attributes of a job item (`webhook_delivered`, `webhook_delivery_status`) | first attempt from the jobs table's stream, retries from SQS, dead letters | jobs table, tenants table, tenant endpoint, retry queue, DLQ | its own writes reappear in its stream; at-least-once queues; lost answers; batches that fail as a whole; TTL |
| Webhook registry `src/tenant_api/webhook_registry.py` | registrations | register, list, delete | webhook delivery reads it | deletion under pending jobs |
| Tenant records `src/tenant_api/tenant_records.py` | the tenant's METADATA item, its API-key secret | create, update, delete | secrets manager, EventBridge | no conditional writes; create is four remote calls with no undo |
| Tenant provisioner `src/tenant_provisioner`, state machine in `infra/cdk/lib/platform-compute.ts` | an execution, a CloudFormation stack | start, poll, emit | CloudFormation, EventBridge; its event is handled by `tenant_lifecycle.py` | minutes long; duplicated events; timeouts that report nothing |
| Billing `src/billing` | monthly summary, tenant status | scan, per-tenant day, suspend | tenants and invocations tables, EventBridge | decides on a stale scan; ADDs are not idempotent |
| TPM limiter `src/bridge/tpm_limiter.py` | Valkey counters per tenant, model and 60 s window | check-and-increment, log, correct | bridge | concurrent requests; windows that change under a request; three names for a counter; fail-open |
| Bridge `src/bridge` | audit records, AG-UI session items | invoke (sync, streaming), bootstrap a session, catalogue, role assumption | agent registry, limiter, runtimes, policy, STS | the registry changes between the steps of a request; failures after streaming began; Lambda time limit |
| Agent registry `src/tenant_api/agent_registry.py`, `scripts/{register,promote,rollback}_agent.py` | agent versions and their release status | register, pass a gate, promote, roll back | bridge discovery, EventBridge | read, validate, write without a condition; registering over an existing version; list, then patch |
| Invites `src/tenant_api/tenant_lifecycle.py` | lookup item and invite item | invite, notify, repair | tenants table, EventBridge | a two-item protocol with repair and rollback racing each other |
| Authoriser `src/authoriser` | binding cache, API Gateway's result cache | JWT, SigV4 | tenants table | decisions outlive a suspension; caches behind one another |
| Gateway interceptors `gateway/interceptors` | idempotency records, copies of key and policy | request, response | tool registry, AppConfig, Secrets Manager, tools | repeated deliveries, crashes halfway; a stored answer holds a token with a lifetime; three copies of a key |
| Data access library `src/data-access-lib` | none | tenant-scoped reads and writes, capability policy | DynamoDB | partition guard on every call |
| BFF, platform tools, audit exports, ops control, configuration | none or one parameter | token exchange, diagnostics, exports, settings | identity provider, tables | who may ask for what: several checks, one behind the other |
| SPA `spa/src` | tokens, view state | token acquisition, requests with retries, polling, sessions, consoles | API | retries; polls of an old effect ending in a new one |
| Issue tool `scripts/issue_tool` | issue labels and state in the tracker, worktrees, branches, handoff files | queue, claim, create, resume, batch, push, close out, reconcile, repair | GitLab, git, files under `.build` | no lock anywhere; a process may die between any two commands |
| Other scripts `scripts` | none | bootstrap, packaging, deployment, local validation | AWS | little: one-shot steps |
| Infrastructure `infra` | none | queues, mappings, tables, rules | everything | the mappings decide what a failure means |

What makes each modelled part correct:

* delivery: one chain of attempts per job; "delivered" is true when it is said;
  nothing is lost unless a handler fails; deliveries are bounded and end;
* tenant life cycle: created once; never reported ready before the stack is
  built, nor failed while it is fine; never pending with nobody working on it;
  status belongs to the operators;
* limiter: what is let through in a window fits in the limit; refusals stay
  right; counters go away;
* invites: one invite per address; a rollback harms nobody else's; accepted
  means stored, sent means announced, and waiting means somebody announces it;
* agent releases: no version runs for a tenant without having passed every gate;
  the rollback script never takes the last version out of service; a version
  rolled back stays out; the catalogue offers what an invocation would run; every
  runtime call is audited;
* access: nobody reaches another tenant's data; what is revoked is gone once the
  caches have run out, and no later; a tool call was entitled recently; both
  ends of a scoped token agree on its key again after a rotation;
* issue tool: no work is lost; a file that says *done* is right; a reconcile
  settles whatever labels the races left.

`PROJECT.json` lists under `hazards`, with their lines, the places where these
could go wrong; the ones no property covers say why.

## Modules

Each module names its actions after the functions they translate; `PROJECT.json`
maps every definition to its lines.  A handler is cut at its remote calls: what
happens between two of them is one step, and other processes take steps in
between.  Definitions marked *Mutant* are plausible bugs; each one replaces the
definition it stands beside to show that a property notices.

### `WebhookDelivery`

State: `job` (the job item: `status`, `webhook_delivered`,
`webhook_delivery_status`), `reg` (the registration its `webhook_id` names),
`target` (does the item have a url and an id), `stream`, `queue`, `dlq`, and
`tasks`, the records being processed, each with a program counter `check` (read
the registration), `post`, `mark`, `send` (retry or dead letter), `ack`.
`accepted` counts what the endpoint took.

* A stream record carries what `should_process_stream_transition` reads of the
  two images.  One invocation reads the shard; it works on the recorded image,
  while a retry reads the item again.
* `mark_delivery_state` is an unconditional update: it appends a stream record,
  and on an item its TTL has removed it creates a *ghost* without a status.  A
  retry for a ghost raises when the tenant context is built, and the exception
  is swallowed.
* A POST is taken, refused, or taken with its answer lost.
* Failures are those of the two event source mappings.  A stream batch that
  raises comes back `retryAttempts` times, together with the records that were
  already done.  A retry that raises is answered with `batchItemFailures`, which
  the mapping does not read, so the message is deleted.  An invocation that dies
  sends its messages to the DLQ (`maxReceiveCount: 1`).
* The environment deletes registrations, expires items, duplicates messages and
  redrives dead letters.
* `get_job_status` is what the bridge tells a tenant that polls the job; a ghost
  reads as a pending one.

Attempt numbers, not delays, are kept of a retry message: SQS may deliver it any
time later.  Signing and payloads are left out.

### `TenantLifecycle`

State: `rec` (status, provisioning status, purge mark), `secret`, `creates`
(create requests and where they are), `bus` (events on their way), `execs`
(state-machine executions), `stack`, `stale` (stacks behind the current
template), `snap` (what billing's scan saw), `created` (how often
`tenant.created` was published).

* `handle_create` is check, secret, put, publish; every call may raise, and
  nothing is undone.  The secret's name is the only mutual exclusion.
* An execution starts, polls until the stack has settled, and emits.  A stack in
  progress or rolled back makes a second start report *failed*.  Exceptions are
  retried or reported as *failed* (`ProvisionerRaises`), whatever CloudFormation
  went on to do; retries used up, or the 30-minute timeout, publish nothing
  (`ExecutionAborts`).
* The provisioning event's handler sets status *active* with *ready*.  When it
  raises, the event is lost: `handle_event` turns every exception into a
  response.
* Operators update and delete; billing scans once and later suspends on what it
  saw.

### `TpmLimiter` (instance: `MCTpmLimiter`)

State: `used[k][w]`, the counter of model name `k` in window `w`, with `live`
(it exists) and `ttl` (it will expire); `reqs`, the requests with where they are
and which window counted or refused them; `spent`, the tokens really used.

* `check_and_increment` is the Lua script: refuse only on an existing counter,
  otherwise increment and, when the value equals the estimate, set the expiry.
  Valkey may fail before or after it ran; both let the request through.
* `log_invocation` counts actual tokens on the model name of the answer or the
  agent's name; `perform_tpm_correction` leaves streaming agents and requests
  without tokens alone, and otherwise `correct_usage` adds actual minus estimate
  to the agent's name; the check uses the name `unknown`, as no agent record the
  bridge loads has a model id.
* `Tick` changes the window at any moment.  A counter lives 90 s from its first
  write, so it never expires within its window (60 s).

The second counter `increment_windows` writes (estimated tokens) is read by
nobody and is left out.

### `Invites`

State, for one address of one tenant: `lookup` (the item keyed by the address:
which invite it names, its notification status), `before` (the lookup deleted
last), `invite[i]` (the invite items), `published[i]`, and per request `pc`,
`on` (the invite it works on: its own or one it found) and `copy` (the status in
the lookup it found).

* `handle_invite_user` is: read the lookup; put it if there is none; put the
  invite; publish; mark the invite; mark the lookup.  A refused put of the lookup
  reads it again and, if it is gone, tries once more; a refused or failed put of
  the invite reads again or deletes the lookup (`DeleteLookup`).  A request that
  finds a lookup reads its invite and repairs a missing one (`Repair`), repeats a
  failed notification, or answers 202.
* No read asks for consistency, so each may lag: it finds nothing, or the lookup
  that was deleted last, or an existing invite in an earlier state.  A put whose
  answer was lost is repeated by the SDK and refused by its own first success.
* Nothing in the repository moves an invite out of *pending* and the table has no
  TTL, so the branches for other statuses are never taken and invites are never
  removed.

### `ReleaseGovernance`, `AgentRegistry`, `BridgeInvoke` (instance: `MCBridgeInvoke`)

`ReleaseGovernance` is the abstract specification: versions pass gates in order
(`reached`) and only promoted ones are ever run (`served`).

`AgentRegistry` has `registry` (per version: status, approval, body as
registered), `op` (what each operator's request is doing) and `reused`, plus
history the properties read (`reached`, `lost`, `direct`).

* `PutVersion` is `put_item` without a condition: it replaces an existing item.
  `RegisterAgent` is the route with its validation, `RegisterScript` the
  pipeline's script, which fills in more and stops earlier.
* A status change is `PatchBegin` (read, transition table, approval) and
  `PatchWrite` (update without a condition); other requests come in between.
  `stale` in an operator's record marks that the item changed after the read, and
  `lost` remembers that it was then overwritten.
* `rollback_agent.py` is two steps more: `ScriptList` chooses the highest
  promoted version if there is a second one, `ScriptPatch` sends the request.

`BridgeInvoke` adds `req` (an invocation from *received* to *answered*, *raised*
or *killed*, with the version resolved, the runtime calls, the audit records and
the status lines sent) and `sessions`.

* What surrounds a request (tier, capability policy, token budget, mock runtime,
  region, execution role) is chosen when it arrives: `get_config` reads it afresh
  for every request, and the handler does not write it.
* `HandleInvokeRequest` resolves the version and refuses; `AssumeTenantRole` and
  `InvokeRealRuntime` are the remote calls, each with its failure; a mock stream
  may break after its preamble; the Lambda may be stopped anywhere (`Killed`).
* `Resolve` (invocation) and `Detail`/`Listed` (catalogue) are separate code in
  `discovery_service.py` and separate operators here: the first skips items that
  do not parse, the others do not.

A request that is over keeps only what the properties ask of it (`Over`).

### `ApiAccess`, `ToolGateway`, `Access` (instance: `MCAccess`)

`ApiAccess` is the way of a REST call: the SPA's token or a machine's signature
(`cred`), API Gateway's kept answer (`policy`), the authoriser's role bindings
(`binding`), the tenants table (`tenants`), and the handler behind it (`call`).

* `Authorise(up)` runs `handle_jwt` or the SigV4 lookup, with the table reachable
  or not; `CachedAnswer` is API Gateway applying what it kept, which names only
  the route it was made for.  The deployed authoriser is of type TOKEN, whose
  events carry no headers, so every SigV4 call is denied as deployed; the
  authoriser's own code handles REQUEST events too, and both shapes are callers.
* `TenantHandler`, `AdminHandler`, `handle_token_refresh` and
  `handle_session_keepalive` give the answer's code and the partitions touched
  (`touched`), through the checks of `auth.py` and the partition rule of the data
  access library (`TenantScopedDynamoDB`, `ControlPlaneDynamoDB`).
* Time passes in ticks (`ApiTick`); what a tick stands for is the lifetime of a
  binding.  `idle` and `loose` are how long a tenant has been suspended and a role
  unbound, counted as far as the caches reach.

`ToolGateway` is a tool call: registry records, capability policy (`config` in
AppConfig, `known` in the interceptor), the signing `key` with its copies
`gateKey` and `toolKey`, the idempotency `store`, and the request `msg`.

* `IdempotencyBegin` answers from the record, refuses while it is *in progress*, or
  creates it; `ProcessRequest` makes
  the decision and the scoped token; `InterceptorCrash` leaves a record *in
  progress*; `Redeliver` is the gateway's repetition; `ResponseInterceptor`
  filters lists and redacts.
* `GateKeys` has two outcomes: the interceptor keeps the key itself, and
  `get_secret` has a memory of its own that ends just after, so its copy may
  already be a lifetime old when it is made.
* Outages of AppConfig and Secrets Manager are edits; a recovery is not counted
  against the bound.

`Access` puts the two side by side.  They share no Lambda, cache or table, so an
interleaving of the two shows nothing that each alone does not; a behaviour
therefore follows one caller on one `plane`.

### `IssueTool` (instance: `MCIssueTool`)

State: `issue` (in the tracker: state, labels, handback comment, merge request),
`tree` (per clone and issue: worktree, branch, edits, commits), `file` (handoff
events), `report` (closeout report: none, partial or complete), `agent` (live agent of a batch), and `proc`
(each process with its program counter and what it has read).

* A claim is `ClaimRead`, `ClaimUpdate`, `ClaimVerify`, then `WorktreeAdd` and
  `Provision`; a failure leads to `Unclaim`, which puts labels back whatever they
  are by then.
* A closeout is `FinishStart`, `MergeCheck`, `CloseIssue`, `Normalise`,
  `Cleanup`, `Complete`, `AuditEvidence`, `HandBack`, `FinishDone`, with
  `FinishFail` from the points the code catches.
* The audit's findings (`LabelFindings`, `QueueFindings`, `EvidenceFindings`,
  `OrphanedEvidence`) are operators the properties read, not steps.
* `ReconcileRead`/`ReconcileWrite` and `RepairRead`/`RepairWrite` work on labels
  read earlier.  People edit, commit, merge and relabel; `Crash` ends a process
  at any point.

### Reads that lag

**Eventually consistent reads** elsewhere: in `TenantLifecycle` a request that
reads an old record is one that started earlier and stopped between its read and
its write, which is in the model; a webhook retry reads the job at least a
second after it was written (`retry_policy.py`), and the model assumes that the
read has caught up by then; a registration read too late is one deleted later.

## Runs

| Run | Module, cfg | Result |
|---|---|---|
| `webhook_delivery` | `WebhookDelivery`, `WebhookDelivery.cfg` | passes, about 363,000 states |
| `webhook_surface` | `WebhookDelivery`, `WebhookSurface.cfg` | violation |
| `tenant_lifecycle` | `TenantLifecycle`, `TenantLifecycle.cfg` | passes, about 59,000 states |
| `tenant_reinstate` | `TenantLifecycle`, `TenantReinstate.cfg` | violation |
| `tpm_limiter` | `MCTpmLimiter`, `TpmLimiter.cfg` | passes, about 326,000 states |
| `tpm_header` | `MCTpmLimiter`, `TpmHeader.cfg` | violation |
| `invites` | `Invites`, `Invites.cfg` | passes, about 72,000 states |
| `bridge_invoke` | `MCBridgeInvoke`, `BridgeInvoke.cfg` | passes, about 1,327,000 states |
| `agent_rollback` | `MCBridgeInvoke`, `AgentRollback.cfg` | violation |
| `access` | `MCAccess`, `Access.cfg` | passes, about 1,466,000 states |
| `issue_tool` | `MCIssueTool`, `IssueTool.cfg` | passes, about 937,000 states |
| `issue_gate` | `MCIssueTool`, `IssueGate.cfg` | violation |

To repeat one: `tlc -config WebhookDelivery.cfg WebhookDelivery`.

**`webhook_delivery`.** One job, two retry invocations, one retry after the first
attempt, two tries of a stream record, and one each of: failure, duplicated
message, lost answer, redrive.  Jobs share nothing but workers, so one job shows
every race between attempts of a job; two workers are enough for two messages of
it to be handled at once, and one retry makes both the queued and the exhausted
path happen.  It shows: without failures a job has one chain (`SingleChain`), is
announced at most once when no answer is lost (`AcceptedAtMostOnce`), and keeps
its delivered mark (`DeliveredIsFinal`); whatever fails, the mark is true
(`DeliveredWasAccepted`) and deliveries are bounded by the failures
(`BoundedDeliveries`) and end (`Drains`); without a failing handler nothing is
forgotten (`NothingForgotten`) and every job is settled (`EventuallySettled`).

**`tenant_lifecycle`.** One tenant, two creations, two executions, one failure,
one duplicate, one template release.  Tenants share nothing.  Two creations are
the race the code must survive, and two executions can only come from a
duplicate, of which there is one.  It shows `CreatedOnce`, `ReadyMeansBuilt`,
`FailedMeansRolledBack`, `PendingHasWork`, `SettledStatusIsOperators` and
`EventuallyProvisioned`.  Deadlock is checked: operators can always act.

**`tpm_limiter`.** Three requests, one agent, one other model, estimates 1 and 2
against a limit of 3, two windows, one failing call.  Three requests are the
least of which two fit and the third does not, on either side of the window
change.  It shows `BudgetHeld`, `RefusedStaysRefused` and
`CheckedCountersExpire`.

**`invites`.** Three requests, two failures, lagging reads included.  Three
requests are an owner, a repairer and a successor, which is what it takes for a
rollback, a repair of the rolled-back invite and a new lookup to overlap; the
second failure lets the successor's lookup be lost as well.  It shows
`InvitesBounded`, `RollbackIsOwn`, `SentWasPublished`, `PendingHasNotifier` and
`AcceptedInviteExists`.  A request runs once, so the system stops and deadlock
is not checked.

**`bridge_invoke`.** Two versions of one agent, the first in service, two
operators, one invocation.  The second version is registered with a body that
parses or one that does not; the tenant is premium, premium on the mock runtime,
or basic with another account's role.  Two operators are the least for a status
to be written over a newer one or for two rollback scripts to have listed the
same versions; invocations share nothing, so one shows every race with the
registry.  `MaxReuse` is 0 here, as registering over an existing version is the
subject of `agent_rollback`, which allows one.  It shows
`ServiceContinues`, `RolledBackStaysOut`, `CatalogueAgrees`, `AnsweredAndAudited`
and, as a refinement, `GovernedRelease`: `BridgeInvoke` implements
`ReleaseGovernance` with `served` mapped to the versions runtimes were called
for.  The refinement is unconditional: a stale write repeats a status that was
checked against the one before it, so the gates stay in order even when an
update is lost.

**`access`.** Two tenants and the platform; seven kinds of user and two of
machine; every route class; two administrative changes; two kinds of tool
client; two edits.  Every lifetime is one tick but API Gateway's, which is two,
so that an answer can be reused after a binding behind it has expired; two
changes are a revocation and its opposite.  The bounds in the properties are
tight: with one tick less in `RevocationBounded`, `ToolCallEntitled` or
`ScopedTokenHonoured`, TLC finds a call that is let through.  It shows
`IsolationHeld`, `RevocationBounded`, `ToolCallEntitled` and
`ScopedTokenHonoured`.

**`issue_tool`.** One issue, two processes in one clone.  Every race of the tool
is about one issue, and two processes are a claimer and its rival, or a closeout
and a second one.  Deadlock is not checked, as the last closeout ends
everything.  It shows `WorkIsKept`, `HandbackIsBacked` and
`ReconcileSettlesLabels`.

**Fairness.** Only `Progress` is weakly fair: in `WebhookDelivery` that an event
source mapping goes on polling and an invocation goes on to its next call; in
`TenantLifecycle` that handlers run on, Step Functions polls, CloudFormation
finishes and EventBridge delivers.  These are what the services promise; no
operator, duplicate, failure or expiry is assumed to happen, and failures may
preempt any step up to their bound.  The properties of the
limiter, of invites, of releases, of access and of the issue tool are all
safety: their requests may be cut off anywhere, and nothing repeats them.

**Symmetry** is used for the limiter's requests, for operators and for the issue
tool's processes, where no liveness is checked: they are alike in every
definition, and no property names one.

## Disagreements found

* `webhook_surface`: RUNBOOK-005 (lines 54-56) says failures of the delivery path
  surface in the webhook DLQ.  An exception in a retry (an SQS or DynamoDB call
  that fails) is reported in `batchItemFailures`, but the queue's mapping
  (`platform-compute.ts:390-394`) does not enable partial batch responses: the
  message is deleted and the job stays *retrying* with nothing pending.  (The
  runbook also gives a maximum receive count of 3, line 13; it is 1.)
* `tenant_reinstate`: RUNBOOK-006 (lines 44 and 55) expects a suspended tenant to
  stay suspended until it is reinstated.  `handle_tenant_provisioning_event`
  (`tenant_lifecycle.py:261`) sets *active* for every ready stack, also when the
  tenant was suspended or deleted while the stack was being built.
* `tpm_header`: SPEC-DEV-EXPERIENCE-AND-ADR704 (line 477) describes
  `x-ratelimit-used-tpm` as the window's consumption.  The correction
  (`route_adapter.py:496`) goes to a counter that already holds the actual
  tokens, so the next request reports too much or too little.

* `agent_rollback`: ADR-015 (line 28) says a rolled-back version is "never invoked
  again", and that versions are immutable (line 43).  Registering the version
  again (`agent_registry.py:256`) puts the item back to *built*, and once it has
  passed the gates it is invoked.
* `issue_gate`: the README (line 289) says issues are gated by `Depends on:`.
  `cmd_worktree_create` (`commands/worktree.py:335`) looks at the blocked reasons
  only of an issue in the queue; when another issue is *ready*, mode *auto* leaves
  all the others out, and one of them starts with its dependency open.

Met while modelling, without a run of their own:

* The authoriser's policy names only the route it was made for, and API Gateway
  keeps it by Authorization header: for five minutes the same token is answered
  403 on other routes.  A Deny after a failed table read is kept as long.
* The SPA repeats a request with a forced token refresh only on 401.  Neither API
  Gateway's Deny (403) nor the backends send it to this executor, so the branch
  never runs and is not in the model.
* A role bound to two tenants is refused, but each binding found on the way is
  cached and answers the next call for its lifetime.  `RevocationBounded` and
  `IsolationHeld` hold nevertheless: the tenant is one the role is bound to.
* `require_admin`'s message names Platform.Operator; `ADMIN_ROLES` does not hold
  it.
* The interceptor stores 401 and 403 answers too, and replays them to a repeated
  request with a better token.
* `register_agent.py` takes runtime and layer from parameters that the deployment
  of another pipeline may have overwritten.
* RUNBOOK-006's suspend route is not dispatched and answers 404.

## Proofs

Every invariant and every action property of a passing run, and the refinement,
is also a theorem: it holds for every value of the constants that satisfies the
assumptions of its module.  The proofs are in `WebhookDelivery_proofs`,
`TenantLifecycle_proofs`, `Invites_proofs`, `TpmLimiter_proofs`,
`BridgeInvoke_proofs`, `Access_proofs` and `IssueTool_proofs`; `SetFacts` holds the
facts on finite sets and sums they share.

The assumptions, which TLC evaluates on every instance:

* `WebhookDelivery`, `TenantLifecycle`, `Invites`: the stream's worker is none of
  the retry workers, no request is named *None*, bounds are naturals, a stream
  record is tried at least once;
* `TpmLimiter`: *unknown* names no agent and no model; limit, estimates, tokens and
  bounds are naturals;
* `AgentRegistry`, `BridgeInvoke`: versions are finitely many positive numbers (0
  stands for no version), those in service at the start are versions, bodies and
  environments are of their types;
* `ApiAccess`, `ToolGateway`, `Access`: actors and routes are of their types, a
  machine has no tenant of its own (it has no token), the platform is no tenant and
  the same for both planes, every lifetime is positive;
* `IssueTool`: issues are numbers, and an issue depends on issues.

Every invariant is proved in the same way: `Init => Inv`, one lemma or step per
action for `Inv /\ [Next]_vars => Inv'`, and the property from `Inv`.

| Theorem | Says | Inductive invariant |
|---|---|---|
| `WebhookDelivery_proofs!TypeCorrect` | `Spec => []TypeOK` | `BaseInv`: types, and which outcomes a task may have at which program counter (`TaskShape`); without it a *retrying* task at the last attempt would queue an attempt that does not exist |
| `DeliveredIsTrue` | `[]DeliveredWasAccepted` | a task about to mark *delivered* has been accepted |
| `ChainsAreSingle` | `[]SingleChain` | `ChainInv`: the chain as one token that is a trigger, a running task or a message; a task that has sent holds it no longer, and a job that is still running has none (`RunningIsQuiet`) |
| `DeliveredStays` | `DeliveredIsFinal` | a delivered job has no chain left that could write again (`DeliveredEndsChain`) |
| `AcceptedOnlyOnce` | `[]AcceptedAtMostOnce` | what was accepted is held by the task that posted it, or the chain is over (`TakenOnce`) |
| `NothingIsForgotten` | `[]NothingForgotten` | `KeptInv`: somebody is still to decide about the job (`Undecided`), where a task that has only its dead letter to send does not count, or the end is recorded and the letter is there or about to be; and the item's two attributes agree (`MarkInv`) |
| `DeliveriesAreBounded` | `[]BoundedDeliveries` | `FundedInv`: a potential.  Every waiting record, task and message of a job has as its share the attempts it may still lead to; what was taken, the shares and the chain a running job has before it stay within the allowance, which a failure, duplicate or redrive raises by one chain |
| `TenantLifecycle_proofs!TypeCorrect` | `Spec => []TypeOK` | itself |
| `CreatedOnlyOnce` | `[]CreatedOnce` | `MutexInv`: a request past the secret call holds the secret, at most one does, and nothing was published before it did |
| `ReadyOnlyWhenBuilt` | `[]ReadyMeansBuilt` | `ReadyInv`: also every execution about to report *ready*, and every *ready* event, has a built stack; a built stack never becomes unbuilt |
| `FailedOnlyWhenRolledBack` | `[]FailedMeansRolledBack` | `PlaceInv`: while nothing is duplicated, provisioning is in one place (`created` event, execution, result event), and the places agree with the stack and the record (`Agrees`) |
| `SettledIsOperators` | `SettledStatusIsOperators` | `MutexInv` and `PlaceInv`: when provisioning is over and nothing was duplicated, no *ready* event is left to set *active* |
| `PendingIsWorkedOn` | `[]PendingHasWork` | itself, with types |
| `Invites_proofs!TypeCorrect` | `Spec => []TypeOK` | itself |
| `AcceptedHasInvite` | `[]AcceptedInviteExists` | `ExistsInv`: until it finds an invite a request works on its own; from `publish` on, the one it works on exists |
| `RollbackOnlyOwn` | `[]RollbackIsOwn` | itself, with types: a lookup is deleted only by the request it names, which then holds it no longer |
| `InvitesAreBounded` | `[]InvitesBounded` | `BoundInv`: there is a set `G` of rolled-back requests, each of which has cost a failure, and every invite that exists or may still be repaired is in `G` or named by the lookup.  `G` is existentially quantified, as the state does not record it |
| `PendingIsNotified` | `[]PendingHasNotifier` | itself, with `ExistsInv` |
| `SentIsPublished` | `[]SentWasPublished` | `SentOnlyAfter` and, without failures, `SentIsOwn`: every source the word *sent* can be copied from is covered by a publication |
| `TpmLimiter_proofs!TypeCorrect`, `BudgetIsHeld`, `RefusalsStand`, `CountersExpire` | `[]TypeOK`, `[]BudgetHeld`, `[]RefusedStaysRefused`, `[]CheckedCountersExpire` | the four together, with: one record per request, nothing decided before the check (`Requested`); a counter that is not there was never written (`Unwritten`); a refusal was made on a counter that exists (`RefusedOnCounter`).  What is logged or corrected goes to other names, so those steps leave all of it alone (`Aside`) |
| `BridgeInvoke_proofs!TypeCorrect`, `AnswersAudited` | `[]TypeOK`, `[]AnsweredAndAudited` | `RequestInv`: what is settled of an invocation at each stage (`Stage`) |
| `ServiceKept` | `[]ServiceContinues` | `PromotedStays`, `LowerIsBehind`: whatever a script has chosen, is about to write or has rolled back has a lower version behind it that was promoted; the lowest one ever promoted is therefore still in service |
| `RolledBackOut` | `[]RolledBackStaysOut` | `Sound`: what was rolled back when the request came stays rolled back (`PromotedStays`), so it is not resolved |
| `CatalogueIsHonest` | `[]CatalogueAgrees` | types alone: three pieces of code compute the same maximum |
| `ReleaseIsGoverned` | `GovernedRelease` | `History`, `FreshIsLegal`: a request that writes a status has read one it may follow, if not the current one; every step is one of `ReleaseGovernance` or a stutter |
| `Access_proofs!TypeCorrect`, `TenantsIsolated` | `[]TypeOK`, `[]IsolationHeld` | `CallOk`, `PolicyFresh`: every answer kept, and every call past the authoriser, has a context the actor may have (`Granted`); the checks behind it do the rest |
| `RevocationsBounded` | `RevocationBounded` | `TenantsFresh`, `BindingFresh`, `PolicyFresh`: see below |
| `ToolCallsEntitled` | `ToolCallEntitled` | `AgesFresh`, `KnownFresh`, `StoreFresh` |
| `TokensHonoured` | `ScopedTokenHonoured` | `KeysFresh`, `TokensFresh` |
| `IssueTool_proofs!HandbacksBacked` | `[]HandbackIsBacked` | `EvidenceInv`, `ClosedInv`, `ProcInv`: what a process at each stage has established stays so whatever the others do, as no step reopens an issue, removes a comment or a report |
| `ReconcileSettles` | `[]ReconcileSettlesLabels` | types: for every set of labels |
| `WorkKept` | `WorkIsKept` | `TreeInv`: a worktree is on a branch, edits are in a worktree, unpushed commits on a branch |

Three arguments recur.

*Freshness* (`Access_proofs`).  The model counts how long something has been gone
(`idle`, `loose`, `lapsed`, `config.off`, `key.age`) and how long each copy will
still live.  A tick raises the one and lowers the other, so that *age <= lifetime -
time left* is kept by time; a copy made from the table starts with age 0, and a
copy made from another copy with the lifetimes added.  The bounds of the
properties are these sums, which is why they are tight.

*Frames* (`IssueTool_proofs`).  More than thirty actions write few variables each.  For
every variable a frame says which changes keep the invariant; an action's lemma
proves the frames of the variables it writes, and one lemma turns frames into
`Inv'`.

*Sums* (`SetFacts`).  The library's sum over a set is a recursive function that
picks elements in an unknown order.  That it exists, does not depend on the order,
and grows by what an added element weighs is shown by a least counterexample on
the size of the set, which stands in for an induction.  `BudgetIsHeld` and
`DeliveriesAreBounded` rest on it.

Only model-checked: `EventuallySettled`, `Drains` and `EventuallyProvisioned`.  They
are liveness properties under weak fairness, which needs reasoning on ENABLED that
the prover does not do.

## Not modelled

Cryptography and token formats (signatures are one condition), formatting and
serialisation, metrics and logs, resource declarations that decide no behaviour,
the SPA's rendering, and one-shot scripts (bootstrap, packaging, deployment, local
validation), which run a fixed list of commands against AWS with nobody beside
them.  The agent runtimes, CloudFormation, EventBridge, SQS, Valkey, DynamoDB,
AppConfig, Secrets Manager, GitLab and git are external: the modules hold what the
code relies on.

* `handle_update`'s comparison of the old and new tier, and the events of update
  and delete, are left out of `TenantLifecycle`: nothing in the repository
  consumes them.  Creation and deletion are `TenantLifecycle`'s and no routes of
  `ApiAccess`.
* Billing appears with what it does to the tenant's status.  Its monthly summary
  is written by one daily Lambda; its ADD is not repeatable and nothing claims it.
* Asynchronous jobs: registration refuses agents of that mode, so the bridge's job
  path, the job status route and the SPA's `useJobPolling` have nothing to work
  on.  In the hook an older answer may overtake a final one, since successive
  effects share one in-flight flag.
* `useAgUiSession` (a disconnect during its bootstrap is lost), pages, consoles
  and streams of the SPA.
* The interceptors' redaction patterns, the BFF's cached client secret and its
  fallback to the interactive token.
* `perform_pre_request_check` (`tpm_limiter.py`), `runtime_invoker.py` and the
  operations handlers nothing deployed calls.
* The issue tool's prompts, menus, tables and terminal layouts, which change
  nothing a later command reads.

## Plan

Done: every module is checked, and every safety property of a passing run is
proved.

Left:

1. `Drains` as a theorem of safety: the potential of `DeliveriesAreBounded` extended
   to a variant that every step of `Progress` lowers, which with fairness gives the
   liveness property outside the prover;
2. `ApiAccess` with two callers that share API Gateway's cache of one header;
3. the SPA's job polling, once agents of the asynchronous mode can be registered.
