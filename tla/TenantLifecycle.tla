---------------------------- MODULE TenantLifecycle ----------------------------
(***************************************************************************)
(* A tenant's control-plane record and everybody who writes it: the admin  *)
(* API (create, update, delete), the provisioning workflow that tenant     *)
(* creation starts through EventBridge (a Step Functions execution around  *)
(* the tenant_provisioner Lambda and CloudFormation) and whose outcome     *)
(* comes back as an event, and the billing job that suspends.              *)
(*                                                                         *)
(* Nobody writes the record under a condition on what it read: every       *)
(* handler is a read, some calls to other services, and a plain update.    *)
(* EventBridge delivers at least once and in no order.                     *)
(***************************************************************************)
EXTENDS Naturals

CONSTANTS
    Tenants,      \* tenant ids (not reserved ones: these cannot be deleted)
    Requests,     \* concurrent POST /v1/tenants requests
    Executions,   \* ids for running Step Functions executions
    MaxFaults,    \* bound: exceptions, dead invocations, aborted executions
    MaxDups,      \* bound: events EventBridge delivers once more
    MaxReleases   \* bound: new versions of the tenant stack's template

ASSUME BoundsAssumption == MaxFaults \in Nat /\ MaxDups \in Nat /\ MaxReleases \in Nat

VARIABLES
    rec,       \* the METADATA item of platform-tenants
    secret,    \* does platform/tenants/{id}/api-key exist
    creates,   \* create requests being handled
    bus,       \* bus[t][k]: events of kind k for t on their way
    execs,     \* provisioning executions being run
    stack,     \* the tenant's CloudFormation stack
    stale,     \* stacks created or updated from an older template
    snap,      \* the status billing's scan saw, until it has used it
    created,   \* how often tenant.created was published
    faults, dups, releases

envVars == <<faults, dups, releases>>
vars == <<rec, secret, creates, bus, execs, stack, stale, snap, created, envVars>>

Status == {"active", "suspended", "deleted"}
Provisioning == {"pending", "ready", "failed"}
Record == [status: Status \cup {"absent"}, prov: Provisioning \cup {"none"}, purge: BOOLEAN]
Kinds == {"created", "ready", "failed"}
StackState == {"none", "creating", "createFailed", "complete", "updating", "updateFailed"}
CreateRequest == [id: Requests, tenant: Tenants, pc: {"checked", "secret", "put"}]
Execution == [id: Executions, tenant: Tenants, pc: {"start", "poll", "emitReady", "emitFailed"}]

Exists(t) == rec[t].status # "absent"

Init ==
    /\ rec = [t \in Tenants |-> [status |-> "absent", prov |-> "none", purge |-> FALSE]]
    /\ secret = [t \in Tenants |-> FALSE]
    /\ creates = {}
    /\ bus = [t \in Tenants |-> [k \in Kinds |-> 0]]
    /\ execs = {}
    /\ stack = [t \in Tenants |-> "none"]
    /\ stale = {}
    /\ snap = [t \in Tenants |-> "none"]
    /\ created = [t \in Tenants |-> 0]
    /\ faults = 0 /\ dups = 0 /\ releases = 0

Publish(t, k) == bus' = [bus EXCEPT ![t][k] = @ + 1]

-----------------------------------------------------------------------------
(* handle_create, one step per remote call. *)

\* The record must not exist yet (409 otherwise, which changes nothing).
CreateChecks(r, t) ==
    /\ \A c \in creates : c.id # r
    /\ ~Exists(t)
    /\ creates' = creates \cup {[id |-> r, tenant |-> t, pc |-> "checked"]}
    /\ UNCHANGED <<rec, secret, bus, execs, stack, stale, snap, created, envVars>>

\* Mutant: the secret is written whether or not one exists.
put_api_key_secret(c) ==
    /\ c.pc = "checked"
    /\ secret' = [secret EXCEPT ![c.tenant] = TRUE]
    /\ creates' = (creates \ {c}) \cup {[c EXCEPT !.pc = "secret"]}
    /\ UNCHANGED <<rec, bus, execs, stack, stale, snap, created, envVars>>

\* The secret's name is the tenant's: Secrets Manager refuses a second one, and
\* the request ends with a 500.
create_api_key_secret(c) ==
    /\ c.pc = "checked"
    /\ IF secret[c.tenant]
       THEN /\ creates' = creates \ {c}
            /\ UNCHANGED secret
       ELSE /\ secret' = [secret EXCEPT ![c.tenant] = TRUE]
            /\ creates' = (creates \ {c}) \cup {[c EXCEPT !.pc = "secret"]}
    /\ UNCHANGED <<rec, bus, execs, stack, stale, snap, created, envVars>>

\* put_item without a condition: it replaces whatever is there.
CreatePuts(c) ==
    /\ c.pc = "secret"
    /\ rec' = [rec EXCEPT ![c.tenant] = [status |-> "active", prov |-> "pending", purge |-> FALSE]]
    /\ creates' = (creates \ {c}) \cup {[c EXCEPT !.pc = "put"]}
    /\ UNCHANGED <<secret, bus, execs, stack, stale, snap, created, envVars>>

CreatePublishes(c) ==
    /\ c.pc = "put"
    /\ Publish(c.tenant, "created")
    /\ created' = [created EXCEPT ![c.tenant] = @ + 1]
    /\ creates' = creates \ {c}
    /\ UNCHANGED <<rec, secret, execs, stack, stale, snap, envVars>>

\* Any of the calls raises, or the invocation dies: nothing is undone.
CreateFails(c) ==
    /\ faults < MaxFaults
    /\ faults' = faults + 1
    /\ creates' = creates \ {c}
    /\ UNCHANGED <<rec, secret, bus, execs, stack, stale, snap, created, dups, releases>>

\* create_secret succeeded and put_resource_policy raised: the secret stays.
CreateFailsAfterSecret(c) ==
    /\ faults < MaxFaults
    /\ c.pc = "checked" /\ ~secret[c.tenant]
    /\ faults' = faults + 1
    /\ secret' = [secret EXCEPT ![c.tenant] = TRUE]
    /\ creates' = creates \ {c}
    /\ UNCHANGED <<rec, bus, execs, stack, stale, snap, created, dups, releases>>

-----------------------------------------------------------------------------
(* The other writers of the record. *)

\* An operator (Platform.Admin) sets any status: suspend, reinstate, delete or
\* undelete.  purgeAtEpochSeconds is left as it is.
handle_update(t, s) ==
    /\ Exists(t)
    /\ rec' = [rec EXCEPT ![t].status = s]
    /\ UNCHANGED <<secret, creates, bus, execs, stack, stale, snap, created, envVars>>

handle_delete(t) ==
    /\ Exists(t)
    /\ rec' = [rec EXCEPT ![t].status = "deleted", ![t].purge = TRUE]
    /\ UNCHANGED <<secret, creates, bus, execs, stack, stale, snap, created, envVars>>

\* Billing scans for active and suspended tenants once, at its start ...
_get_active_tenants ==
    /\ snap' = [t \in Tenants |-> IF rec[t].status \in {"active", "suspended"}
                                  THEN rec[t].status ELSE "none"]
    /\ UNCHANGED <<rec, secret, creates, bus, execs, stack, stale, created, envVars>>

\* ... and decides on what the scan saw when it comes to the tenant: over budget
\* and active then, it writes suspended now, whatever the record says now.
_process_tenant(t) ==
    /\ snap[t] # "none"
    /\ snap' = [snap EXCEPT ![t] = "none"]
    /\ \/ UNCHANGED rec
       \/ /\ snap[t] = "active"
          /\ rec' = [rec EXCEPT ![t].status = "suspended"]
    /\ UNCHANGED <<secret, creates, bus, execs, stack, stale, created, envVars>>

-----------------------------------------------------------------------------
(* Provisioning. *)

\* The TenantCreatedRule starts an execution.
StartExecution(t, e) ==
    /\ bus[t]["created"] > 0
    /\ \A x \in execs : x.id # e
    /\ bus' = [bus EXCEPT ![t]["created"] = @ - 1]
    /\ execs' = execs \cup {[id |-> e, tenant |-> t, pc |-> "start"]}
    /\ UNCHANGED <<rec, secret, creates, stack, stale, snap, created, envVars>>

Advance(x, pc) == execs' = (execs \ {x}) \cup {[x EXCEPT !.pc = pc]}

\* Create the stack, or update it when it is there.  An unchanged stack is ready
\* at once; a stack that cannot be updated (still in progress, or rolled back)
\* makes CloudFormation refuse, which is reported as a failed provisioning.
_start_provisioning(x) ==
    LET t == x.tenant IN
    /\ x.pc = "start"
    /\ \/ /\ stack[t] = "none"
          /\ stack' = [stack EXCEPT ![t] = "creating"]
          /\ stale' = stale \ {t}
          /\ Advance(x, "poll")
       \/ /\ stack[t] \in {"complete", "updateFailed"} /\ t \in stale
          /\ stack' = [stack EXCEPT ![t] = "updating"]
          /\ stale' = stale \ {t}
          /\ Advance(x, "poll")
       \/ /\ stack[t] = "complete" /\ t \notin stale
          /\ Advance(x, "emitReady")
          /\ UNCHANGED <<stack, stale>>
       \/ /\ stack[t] \in {"creating", "updating", "createFailed"}
          /\ Advance(x, "emitFailed")
          /\ UNCHANGED <<stack, stale>>
    /\ UNCHANGED <<rec, secret, creates, bus, snap, created, envVars>>

\* Mutant: a stack in progress counts as finished.
_poll_once(x) ==
    /\ x.pc = "poll"
    /\ Advance(x, IF stack[x.tenant] = "createFailed" THEN "emitFailed" ELSE "emitReady")
    /\ UNCHANGED <<rec, secret, creates, bus, stack, stale, snap, created, envVars>>

\* While the stack is in progress the execution waits and polls again.
_poll_provisioning(x) ==
    /\ x.pc = "poll"
    /\ stack[x.tenant] \notin {"creating", "updating"}
    /\ Advance(x, IF stack[x.tenant] = "complete" THEN "emitReady" ELSE "emitFailed")
    /\ UNCHANGED <<rec, secret, creates, bus, stack, stale, snap, created, envVars>>

_emit_completion(x) ==
    /\ x.pc \in {"emitReady", "emitFailed"}
    /\ Publish(x.tenant, IF x.pc = "emitReady" THEN "ready" ELSE "failed")
    /\ execs' = execs \ {x}
    /\ UNCHANGED <<rec, secret, creates, stack, stale, snap, created, envVars>>

\* An exception in a start (whose CloudFormation call may have gone through) or
\* in a poll.  A retryable one, and a failed invocation, is tried again by the
\* state machine; to any other lambda_handler answers FAILED: the stack goes its
\* way, and the tenant is reported failed.
ProvisionerRaises(x) ==
    LET t == x.tenant IN
    /\ faults < MaxFaults
    /\ x.pc \in {"start", "poll"}
    /\ \E pc \in {x.pc, "emitFailed"} : Advance(x, pc)
    /\ \/ UNCHANGED <<stack, stale>>
       \/ /\ x.pc = "start" /\ stack[t] = "none"
          /\ stack' = [stack EXCEPT ![t] = "creating"]
          /\ stale' = stale \ {t}
       \/ /\ x.pc = "start" /\ stack[t] \in {"complete", "updateFailed"} /\ t \in stale
          /\ stack' = [stack EXCEPT ![t] = "updating"]
          /\ stale' = stale \ {t}
    /\ faults' = faults + 1
    /\ UNCHANGED <<rec, secret, creates, bus, snap, created, dups, releases>>

\* The retries are used up, or the state machine's 30 minutes are over: the
\* execution ends and publishes nothing.
ExecutionAborts(x) ==
    /\ faults < MaxFaults
    /\ faults' = faults + 1
    /\ execs' = execs \ {x}
    /\ UNCHANGED <<rec, secret, creates, bus, stack, stale, snap, created, dups, releases>>

\* CloudFormation finishes what it was asked to do; an update that is rolled
\* back leaves the stack on its old template.
StackFinishes(t) ==
    /\ \/ /\ stack[t] \in {"creating", "updating"}
          /\ stack' = [stack EXCEPT ![t] = "complete"]
          /\ UNCHANGED stale
       \/ /\ stack[t] = "creating"
          /\ stack' = [stack EXCEPT ![t] = "createFailed"]
          /\ UNCHANGED stale
       \/ /\ stack[t] = "updating"
          /\ stack' = [stack EXCEPT ![t] = "updateFailed"]
          /\ stale' = stale \cup {t}
    /\ UNCHANGED <<rec, secret, creates, bus, execs, snap, created, envVars>>

\* A platform release publishes another template.
ReleaseTemplate ==
    /\ releases < MaxReleases
    /\ releases' = releases + 1
    /\ stale' = Tenants
    /\ UNCHANGED <<rec, secret, creates, bus, execs, stack, snap, created, faults, dups>>

\* Mutant: an event nobody sent.
handle_event_unguarded(t, k) ==
    /\ k \in {"ready", "failed"} /\ Exists(t)
    /\ bus' = [bus EXCEPT ![t][k] = @ - 1]
    /\ rec' = [rec EXCEPT ![t].prov = k]
    /\ UNCHANGED <<secret, creates, execs, stack, stale, snap, created, envVars>>

\* Mutant: the event is acknowledged and not applied.
handle_event_ignored(t, k) ==
    /\ k \in {"ready", "failed"}
    /\ bus[t][k] > 0
    /\ bus' = [bus EXCEPT ![t][k] = @ - 1]
    /\ UNCHANGED <<rec, secret, creates, execs, stack, stale, snap, created, envVars>>

\* "ready" also sets the tenant's status to active.
handle_tenant_provisioning_event(t, k) ==
    /\ k \in {"ready", "failed"}
    /\ bus[t][k] > 0
    /\ bus' = [bus EXCEPT ![t][k] = @ - 1]
    /\ rec' = IF k = "ready" THEN [rec EXCEPT ![t].prov = "ready", ![t].status = "active"]
              ELSE [rec EXCEPT ![t].prov = "failed"]
    /\ UNCHANGED <<secret, creates, execs, stack, stale, snap, created, envVars>>

\* handle_event catches every exception and returns a 500: to EventBridge the
\* event was handled, so it is not delivered again.
ProvisioningEventRaises(t, k) ==
    /\ faults < MaxFaults
    /\ k \in {"ready", "failed"}
    /\ bus[t][k] > 0
    /\ bus' = [bus EXCEPT ![t][k] = @ - 1]
    /\ faults' = faults + 1
    /\ UNCHANGED <<rec, secret, creates, execs, stack, stale, snap, created, dups, releases>>

DuplicateEvent(t, k) ==
    /\ dups < MaxDups
    /\ bus[t][k] > 0
    /\ Publish(t, k)
    /\ dups' = dups + 1
    /\ UNCHANGED <<rec, secret, creates, execs, stack, stale, snap, created, faults, releases>>

-----------------------------------------------------------------------------

CreateStep(c) == create_api_key_secret(c) \/ CreatePuts(c) \/ CreatePublishes(c)

ExecutionStep(x) == _start_provisioning(x) \/ _poll_provisioning(x) \/ _emit_completion(x)

\* What runs by itself once it has been started.
Progress ==
    \/ \E c \in creates : CreateStep(c)
    \/ \E t \in Tenants, e \in Executions : StartExecution(t, e)
    \/ \E x \in execs : ExecutionStep(x)
    \/ \E t \in Tenants : StackFinishes(t)
    \/ \E t \in Tenants, k \in Kinds : handle_tenant_provisioning_event(t, k)

Operators ==
    \/ \E r \in Requests, t \in Tenants : CreateChecks(r, t)
    \/ \E t \in Tenants, s \in Status : handle_update(t, s)
    \/ \E t \in Tenants : handle_delete(t)
    \/ ReleaseTemplate

Billing == _get_active_tenants \/ \E t \in Tenants : _process_tenant(t)

Failure ==
    \/ \E c \in creates : CreateFails(c) \/ CreateFailsAfterSecret(c)
    \/ \E x \in execs : ProvisionerRaises(x) \/ ExecutionAborts(x)
    \/ \E t \in Tenants, k \in Kinds : ProvisioningEventRaises(t, k) \/ DuplicateEvent(t, k)

Next == Progress \/ Operators \/ Billing \/ Failure

Spec == Init /\ [][Next]_vars

\* Handlers run to their end, Step Functions keeps polling, CloudFormation
\* finishes and EventBridge delivers; nobody has to call the admin API.
FairSpec == Spec /\ WF_vars(Progress)

-----------------------------------------------------------------------------
(* Properties. *)

TypeOK ==
    /\ rec \in [Tenants -> Record]
    /\ secret \in [Tenants -> BOOLEAN]
    /\ creates \subseteq CreateRequest
    /\ bus \in [Tenants -> [Kinds -> Nat]]
    /\ execs \subseteq Execution
    /\ stack \in [Tenants -> StackState]
    /\ stale \subseteq Tenants
    /\ snap \in [Tenants -> {"active", "suspended", "none"}]
    /\ created \in [Tenants -> Nat]
    /\ faults \in Nat /\ dups \in Nat /\ releases \in Nat

\* Concurrent creations of one tenant: both may find no record, but the secret's
\* name lets only one through, so the record is put and provisioning is asked
\* for at most once, whatever fails.
CreatedOnce == \A t \in Tenants : created[t] <= 1

\* A tenant is reported ready only when its stack was built: no order of
\* executions, duplicates and failures reports it early.
ReadyMeansBuilt ==
    \A t \in Tenants : rec[t].prov = "ready" => stack[t] \in {"complete", "updating", "updateFailed"}

\* As long as nothing fails and no event is delivered twice, a tenant is reported
\* failed only when its stack was rolled back: one creation means one execution,
\* so no execution finds the stack of another in progress.
FailedMeansRolledBack ==
    dups = 0 /\ faults = 0 => \A t \in Tenants : rec[t].prov = "failed" => stack[t] = "createFailed"

\* As long as nothing fails, a pending tenant has somebody working on it.
PendingHasWork ==
    faults = 0 => \A t \in Tenants : rec[t].prov = "pending" =>
        \/ \E c \in creates : c.tenant = t /\ c.pc = "put"
        \/ \E k \in Kinds : bus[t][k] > 0
        \/ \E x \in execs : x.tenant = t

\* As long as no event is delivered twice, the status of a tenant whose
\* provisioning is over belongs to the operators: nobody else makes a suspended
\* or deleted tenant active again.
SettledStatusIsOperators ==
    [][\A t \in Tenants :
        dups = 0 /\ rec[t].prov \in {"ready", "failed"}
                 /\ rec[t].status \in {"suspended", "deleted"} /\ rec'[t].status = "active"
            => handle_update(t, "active")]_vars

\* As long as nothing fails, provisioning comes to an end.
EventuallyProvisioned ==
    \A t \in Tenants : (rec[t].prov = "pending") ~> (rec[t].prov \in {"ready", "failed"} \/ faults > 0)

\* What the operators are told: only they reinstate a tenant.
OnlyOperatorsReinstate ==
    [][\A t \in Tenants :
        rec[t].status \in {"suspended", "deleted"} /\ rec'[t].status = "active"
            => handle_update(t, "active")]_vars

=============================================================================
