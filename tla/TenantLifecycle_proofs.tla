------------------------ MODULE TenantLifecycle_proofs ------------------------
(***************************************************************************)
(* Theorems about TenantLifecycle, for any number of tenants, requests,    *)
(* executions, faults, duplicates and releases.                            *)
(***************************************************************************)
EXTENDS TenantLifecycle, TLAPS

-----------------------------------------------------------------------------
(* Types. *)

\* The record, the requests, the executions and the stack keep their types.
THEOREM TypeCorrect == Spec => []TypeOK
<1>1. Init => TypeOK
  BY DEF Init, TypeOK, Record, StackState
<1>2. TypeOK /\ [Next]_vars => TypeOK'
  <2> SUFFICES ASSUME TypeOK, [Next]_vars PROVE TypeOK'
    OBVIOUS
  <2>1. ASSUME NEW r \in Requests, NEW t \in Tenants, CreateChecks(r, t) PROVE TypeOK'
    BY <2>1 DEF CreateChecks, TypeOK, envVars, CreateRequest
  <2>2. ASSUME NEW c \in creates, create_api_key_secret(c) PROVE TypeOK'
    <3>1. [c EXCEPT !.pc = "secret"] \in CreateRequest
      BY DEF TypeOK, CreateRequest
    <3>2. creates' \subseteq CreateRequest
      BY <2>2, <3>1 DEF create_api_key_secret, TypeOK
    <3>3. secret' \in [Tenants -> BOOLEAN]
      BY <2>2 DEF create_api_key_secret, TypeOK
    <3> QED
      BY <2>2, <3>2, <3>3 DEF create_api_key_secret, TypeOK, envVars
  <2>3. ASSUME NEW c \in creates, CreatePuts(c) PROVE TypeOK'
    BY <2>3 DEF CreatePuts, TypeOK, envVars, CreateRequest, Record, Status, Provisioning
  <2>4. ASSUME NEW c \in creates, CreatePublishes(c) PROVE TypeOK'
    BY <2>4 DEF CreatePublishes, TypeOK, envVars, CreateRequest, Publish, Kinds
  <2>5. ASSUME NEW c \in creates, CreateFails(c) PROVE TypeOK'
    BY <2>5 DEF CreateFails, TypeOK, envVars, CreateRequest
  <2>6. ASSUME NEW c \in creates, CreateFailsAfterSecret(c) PROVE TypeOK'
    BY <2>6 DEF CreateFailsAfterSecret, TypeOK, envVars, CreateRequest
  <2>7. ASSUME NEW t \in Tenants, NEW s \in Status, handle_update(t, s) PROVE TypeOK'
    BY <2>7 DEF handle_update, TypeOK, envVars, Record, Status, Provisioning
  <2>8. ASSUME NEW t \in Tenants, handle_delete(t) PROVE TypeOK'
    BY <2>8 DEF handle_delete, TypeOK, envVars, Record, Status, Provisioning
  <2>9. CASE _get_active_tenants
    BY <2>9 DEF _get_active_tenants, TypeOK, envVars
  <2>10. ASSUME NEW t \in Tenants, _process_tenant(t) PROVE TypeOK'
    <3>0. [rec[t] EXCEPT !.status = "suspended"] \in Record
      BY DEF TypeOK, Record, Status
    <3>1. rec' \in [Tenants -> Record]
      BY <2>10, <3>0 DEF _process_tenant, TypeOK
    <3>2. snap' \in [Tenants -> {"active", "suspended", "none"}]
      BY <2>10 DEF _process_tenant, TypeOK
    <3> QED
      BY <2>10, <3>1, <3>2 DEF _process_tenant, TypeOK, envVars
  <2>11. ASSUME NEW t \in Tenants, NEW e \in Executions, StartExecution(t, e) PROVE TypeOK'
    BY <2>11 DEF StartExecution, TypeOK, envVars, Execution, Kinds
  <2>12. ASSUME NEW x \in execs, _start_provisioning(x) PROVE TypeOK'
    BY <2>12 DEF _start_provisioning, TypeOK, envVars, Advance, Execution, StackState
  <2>13. ASSUME NEW x \in execs, _poll_provisioning(x) PROVE TypeOK'
    BY <2>13 DEF _poll_provisioning, TypeOK, envVars, Advance, Execution
  <2>14. ASSUME NEW x \in execs, _emit_completion(x) PROVE TypeOK'
    BY <2>14 DEF _emit_completion, TypeOK, envVars, Publish, Execution, Kinds
  <2>15. ASSUME NEW x \in execs, ExecutionAborts(x) PROVE TypeOK'
    BY <2>15 DEF ExecutionAborts, TypeOK, envVars
  <2>22. ASSUME NEW x \in execs, ProvisionerRaises(x) PROVE TypeOK'
    <3>1. x \in Execution /\ x.tenant \in Tenants
      BY DEF TypeOK, Execution
    <3>2. execs' \subseteq Execution
      <4>1. PICK p \in {x.pc, "emitFailed"} : execs' = (execs \ {x}) \cup {[x EXCEPT !.pc = p]}
        BY <2>22 DEF ProvisionerRaises, Advance
      <4>2. [x EXCEPT !.pc = p] \in Execution
        BY <3>1 DEF Execution
      <4> QED
        BY <4>1, <4>2 DEF TypeOK
    <3>3. stack' \in [Tenants -> StackState]
      BY <2>22, <3>1 DEF ProvisionerRaises, TypeOK, StackState
    <3>4. stale' \subseteq Tenants
      BY <2>22 DEF ProvisionerRaises, TypeOK
    <3>5. faults' \in Nat
      BY <2>22 DEF ProvisionerRaises, TypeOK
    <3> QED
      BY <2>22, <3>2, <3>3, <3>4, <3>5 DEF ProvisionerRaises, TypeOK
  <2>16. ASSUME NEW t \in Tenants, StackFinishes(t) PROVE TypeOK'
    BY <2>16 DEF StackFinishes, TypeOK, envVars, StackState
  <2>17. CASE ReleaseTemplate
    BY <2>17 DEF ReleaseTemplate, TypeOK, envVars
  <2>18. ASSUME NEW t \in Tenants, NEW k \in Kinds, handle_tenant_provisioning_event(t, k)
        PROVE TypeOK'
    <3>0. rec[t] \in Record
      BY DEF TypeOK
    <3>1. rec' \in [Tenants -> Record]
      <4>1. CASE k = "ready"
        <5>1. [rec[t] EXCEPT !.prov = "ready", !.status = "active"] \in Record
          BY <3>0 DEF Record, Status, Provisioning
        <5> QED
          BY <2>18, <4>1, <5>1 DEF handle_tenant_provisioning_event, TypeOK
      <4>2. CASE k # "ready"
        <5>1. [rec[t] EXCEPT !.prov = "failed"] \in Record
          BY <3>0 DEF Record, Status, Provisioning
        <5> QED
          BY <2>18, <4>2, <5>1 DEF handle_tenant_provisioning_event, TypeOK
      <4> QED
        BY <4>1, <4>2
    <3>2. bus' \in [Tenants -> [Kinds -> Nat]]
      BY <2>18 DEF handle_tenant_provisioning_event, TypeOK
    <3> QED
      BY <2>18, <3>1, <3>2 DEF handle_tenant_provisioning_event, TypeOK, envVars
  <2>19. ASSUME NEW t \in Tenants, NEW k \in Kinds, ProvisioningEventRaises(t, k) PROVE TypeOK'
    BY <2>19 DEF ProvisioningEventRaises, TypeOK, envVars
  <2>20. ASSUME NEW t \in Tenants, NEW k \in Kinds, DuplicateEvent(t, k) PROVE TypeOK'
    BY <2>20 DEF DuplicateEvent, TypeOK, envVars, Publish
  <2>21. CASE UNCHANGED vars
    BY <2>21 DEF vars, TypeOK, envVars
  <2> QED
    BY <2>1, <2>2, <2>3, <2>4, <2>5, <2>6, <2>7, <2>8, <2>9, <2>10, <2>11, <2>12,
       <2>13, <2>14, <2>15, <2>16, <2>17, <2>18, <2>19, <2>20, <2>21, <2>22
    DEF Next, Progress, CreateStep, ExecutionStep, Operators, Billing, Failure
<1> QED
  BY <1>1, <1>2, PTL DEF Spec

-----------------------------------------------------------------------------
(* The secret is the creation's mutex. *)

\* The request has created the tenant's secret and not published yet.
Holds(c, t) == c.tenant = t /\ c.pc \in {"secret", "put"}

\* At most one request holds the tenant, the secret shows that one did, and it
\* publishes tenant.created once.
Mutex(t) ==
    /\ \A c, d \in creates : Holds(c, t) /\ Holds(d, t) => c = d
    /\ \A c \in creates : Holds(c, t) => secret[t] /\ created[t] = 0
    /\ created[t] <= 1
    /\ created[t] > 0 => secret[t]

MutexInv == \A t \in Tenants : Mutex(t)

\* One step keeps the mutex, whichever tenant it is about.
LEMMA MutexStep == TypeOK /\ MutexInv /\ [Next]_vars => MutexInv'
<1> SUFFICES ASSUME TypeOK, MutexInv, [Next]_vars, NEW i \in Tenants PROVE Mutex(i)'
  BY DEF MutexInv
<1>a. Mutex(i)
  BY DEF MutexInv
<1> USE <1>a
<1>1. ASSUME NEW r \in Requests, NEW t \in Tenants, CreateChecks(r, t) PROVE Mutex(i)'
  BY <1>1 DEF CreateChecks, Mutex, Holds, TypeOK, CreateRequest
<1>2. ASSUME NEW c \in creates, create_api_key_secret(c) PROVE Mutex(i)'
  <2>1. CASE secret[c.tenant]
    BY <1>2, <2>1 DEF create_api_key_secret, Mutex
  <2>2. CASE ~secret[c.tenant]
    <3> DEFINE d == [c EXCEPT !.pc = "secret"]
    <3>1. /\ c.tenant \in Tenants /\ d.tenant = c.tenant
          /\ creates' = (creates \ {c}) \cup {d} /\ created' = created
          /\ secret' = [secret EXCEPT ![c.tenant] = TRUE]
      BY <1>2, <2>2 DEF create_api_key_secret, TypeOK, CreateRequest
    <3> HIDE DEF d
    <3>2. CASE i = c.tenant
      <4>1. created[i] = 0 /\ \A b \in creates : ~Holds(b, i)
        BY <2>2, <3>2 DEF Mutex, TypeOK
      <4>2. secret'[i]
        BY <3>1, <3>2 DEF TypeOK
      <4> QED
        BY <3>1, <4>1, <4>2 DEF Mutex
    <3>3. CASE i # c.tenant
      <4>1. secret'[i] = secret[i]
        BY <3>1, <3>3 DEF TypeOK
      <4> QED
        BY <3>1, <3>3, <4>1 DEF Mutex, Holds
    <3> QED
      BY <3>2, <3>3
  <2> QED
    BY <2>1, <2>2
<1>3. ASSUME NEW c \in creates, CreatePuts(c) PROVE Mutex(i)'
  BY <1>3 DEF CreatePuts, Mutex, Holds, TypeOK, CreateRequest
<1>4. ASSUME NEW c \in creates, CreatePublishes(c) PROVE Mutex(i)'
  BY <1>4 DEF CreatePublishes, Mutex, Holds, TypeOK, CreateRequest
<1>5. ASSUME NEW c \in creates, CreateFails(c) PROVE Mutex(i)'
  BY <1>5 DEF CreateFails, Mutex, Holds, TypeOK, CreateRequest
<1>6. ASSUME NEW c \in creates, CreateFailsAfterSecret(c) PROVE Mutex(i)'
  BY <1>6 DEF CreateFailsAfterSecret, Mutex, Holds, TypeOK, CreateRequest
<1>7. ASSUME NEW t \in Tenants, NEW s \in Status, handle_update(t, s) PROVE Mutex(i)'
  BY <1>7 DEF handle_update, Mutex
<1>8. ASSUME NEW t \in Tenants, handle_delete(t) PROVE Mutex(i)'
  BY <1>8 DEF handle_delete, Mutex
<1>9. CASE _get_active_tenants
  BY <1>9 DEF _get_active_tenants, Mutex
<1>10. ASSUME NEW t \in Tenants, _process_tenant(t) PROVE Mutex(i)'
  BY <1>10 DEF _process_tenant, Mutex
<1>11. ASSUME NEW t \in Tenants, NEW e \in Executions, StartExecution(t, e) PROVE Mutex(i)'
  BY <1>11 DEF StartExecution, Mutex
<1>12. ASSUME NEW x \in execs, _start_provisioning(x) PROVE Mutex(i)'
  BY <1>12 DEF _start_provisioning, Mutex
<1>13. ASSUME NEW x \in execs, _poll_provisioning(x) PROVE Mutex(i)'
  BY <1>13 DEF _poll_provisioning, Mutex
<1>14. ASSUME NEW x \in execs, _emit_completion(x) PROVE Mutex(i)'
  BY <1>14 DEF _emit_completion, Mutex
<1>15. ASSUME NEW x \in execs, ExecutionAborts(x) PROVE Mutex(i)'
  BY <1>15 DEF ExecutionAborts, Mutex
<1>22. ASSUME NEW x \in execs, ProvisionerRaises(x) PROVE Mutex(i)'
  BY <1>22 DEF ProvisionerRaises, Mutex
<1>16. ASSUME NEW t \in Tenants, StackFinishes(t) PROVE Mutex(i)'
  BY <1>16 DEF StackFinishes, Mutex
<1>17. CASE ReleaseTemplate
  BY <1>17 DEF ReleaseTemplate, Mutex
<1>18. ASSUME NEW t \in Tenants, NEW k \in Kinds, handle_tenant_provisioning_event(t, k)
      PROVE Mutex(i)'
  BY <1>18 DEF handle_tenant_provisioning_event, Mutex
<1>19. ASSUME NEW t \in Tenants, NEW k \in Kinds, ProvisioningEventRaises(t, k) PROVE Mutex(i)'
  BY <1>19 DEF ProvisioningEventRaises, Mutex
<1>20. ASSUME NEW t \in Tenants, NEW k \in Kinds, DuplicateEvent(t, k) PROVE Mutex(i)'
  BY <1>20 DEF DuplicateEvent, Mutex
<1>21. CASE UNCHANGED vars
  BY <1>21 DEF vars, Mutex
<1> QED
  BY <1>1, <1>2, <1>3, <1>4, <1>5, <1>6, <1>7, <1>8, <1>9, <1>10, <1>11, <1>12,
     <1>13, <1>14, <1>15, <1>16, <1>17, <1>18, <1>19, <1>20, <1>21, <1>22
  DEF Next, Progress, CreateStep, ExecutionStep, Operators, Billing, Failure

\* With it, every reachable state has the mutex.
LEMMA MutexInvariant == Spec => []MutexInv
<1>1. Init => MutexInv
  <2> SUFFICES ASSUME Init, NEW t \in Tenants PROVE Mutex(t)
    BY DEF MutexInv
  <2>1. creates = {} /\ created[t] = 0
    BY DEF Init
  <2> QED
    BY <2>1 DEF Mutex
<1> QED
  BY <1>1, TypeCorrect, MutexStep, PTL DEF Spec

\* Concurrent creations of one tenant publish tenant.created at most once, for any
\* number of requests and whatever fails between their calls: handle_create's
\* check-then-put is not atomic, but the secret's name is taken only once.
THEOREM CreatedOnlyOnce == Spec => []CreatedOnce
<1>1. MutexInv => CreatedOnce
  BY DEF MutexInv, Mutex, CreatedOnce
<1> QED
  BY <1>1, MutexInvariant, PTL

-----------------------------------------------------------------------------
(* Ready means built. *)

Built(t) == stack[t] \in {"complete", "updating", "updateFailed"}

\* Whoever is about to say ready, or has said it, does so of a built stack.
ReadyInv ==
    /\ \A t \in Tenants : rec[t].prov = "ready" => Built(t)
    /\ \A t \in Tenants : bus[t]["ready"] > 0 => Built(t)
    /\ \A x \in execs : x.pc = "emitReady" => Built(x.tenant)

\* One step keeps it: a built stack stays built, and CloudFormation's "complete"
\* is what makes an execution say ready.
LEMMA ReadyStep == TypeOK /\ ReadyInv /\ [Next]_vars => ReadyInv'
<1> SUFFICES ASSUME TypeOK, ReadyInv, [Next]_vars PROVE ReadyInv'
  OBVIOUS
<1>1. ASSUME NEW r \in Requests, NEW t \in Tenants, CreateChecks(r, t) PROVE ReadyInv'
  BY <1>1 DEF CreateChecks, ReadyInv, Built, TypeOK
<1>2. ASSUME NEW c \in creates, create_api_key_secret(c) PROVE ReadyInv'
  BY <1>2 DEF create_api_key_secret, ReadyInv, Built, TypeOK
<1>3. ASSUME NEW c \in creates, CreatePuts(c) PROVE ReadyInv'
  BY <1>3 DEF CreatePuts, ReadyInv, Built, TypeOK, CreateRequest
<1>4. ASSUME NEW c \in creates, CreatePublishes(c) PROVE ReadyInv'
  BY <1>4 DEF CreatePublishes, ReadyInv, Built, TypeOK, Publish, CreateRequest, Kinds
<1>5. ASSUME NEW c \in creates, CreateFails(c) PROVE ReadyInv'
  BY <1>5 DEF CreateFails, ReadyInv, Built, TypeOK
<1>6. ASSUME NEW c \in creates, CreateFailsAfterSecret(c) PROVE ReadyInv'
  BY <1>6 DEF CreateFailsAfterSecret, ReadyInv, Built, TypeOK
<1>7. ASSUME NEW t \in Tenants, NEW s \in Status, handle_update(t, s) PROVE ReadyInv'
  BY <1>7 DEF handle_update, ReadyInv, Built, TypeOK
<1>8. ASSUME NEW t \in Tenants, handle_delete(t) PROVE ReadyInv'
  BY <1>8 DEF handle_delete, ReadyInv, Built, TypeOK
<1>9. CASE _get_active_tenants
  BY <1>9 DEF _get_active_tenants, ReadyInv, Built, TypeOK
<1>10. ASSUME NEW t \in Tenants, _process_tenant(t) PROVE ReadyInv'
  <2>1. \A u \in Tenants : rec'[u].prov = rec[u].prov
    BY <1>10 DEF _process_tenant, TypeOK, Record
  <2> QED
    BY <1>10, <2>1 DEF _process_tenant, ReadyInv, Built
<1>11. ASSUME NEW t \in Tenants, NEW e \in Executions, StartExecution(t, e) PROVE ReadyInv'
  BY <1>11 DEF StartExecution, ReadyInv, Built, TypeOK
<1>12. ASSUME NEW x \in execs, _start_provisioning(x) PROVE ReadyInv'
  BY <1>12 DEF _start_provisioning, ReadyInv, Built, TypeOK, Advance, Execution
<1>13. ASSUME NEW x \in execs, _poll_provisioning(x) PROVE ReadyInv'
  BY <1>13 DEF _poll_provisioning, ReadyInv, Built, TypeOK, Advance, Execution
<1>14. ASSUME NEW x \in execs, _emit_completion(x) PROVE ReadyInv'
  BY <1>14 DEF _emit_completion, ReadyInv, Built, TypeOK, Publish, Execution, Kinds
<1>15. ASSUME NEW x \in execs, ExecutionAborts(x) PROVE ReadyInv'
  BY <1>15 DEF ExecutionAborts, ReadyInv, Built, TypeOK
<1>22. ASSUME NEW x \in execs, ProvisionerRaises(x) PROVE ReadyInv'
  BY <1>22 DEF ProvisionerRaises, ReadyInv, Built, TypeOK, Advance, Execution
<1>16. ASSUME NEW t \in Tenants, StackFinishes(t) PROVE ReadyInv'
  <2>1. \A u \in Tenants : Built(u) => Built(u)'
    BY <1>16 DEF StackFinishes, Built, TypeOK
  <2>2. \A x \in execs : x.tenant \in Tenants
    BY DEF TypeOK, Execution
  <2> QED
    BY <1>16, <2>1, <2>2 DEF StackFinishes, ReadyInv
<1>17. CASE ReleaseTemplate
  BY <1>17 DEF ReleaseTemplate, ReadyInv, Built, TypeOK
<1>18. ASSUME NEW t \in Tenants, NEW k \in Kinds, handle_tenant_provisioning_event(t, k)
      PROVE ReadyInv'
  BY <1>18 DEF handle_tenant_provisioning_event, ReadyInv, Built, TypeOK
<1>19. ASSUME NEW t \in Tenants, NEW k \in Kinds, ProvisioningEventRaises(t, k) PROVE ReadyInv'
  BY <1>19 DEF ProvisioningEventRaises, ReadyInv, Built, TypeOK
<1>20. ASSUME NEW t \in Tenants, NEW k \in Kinds, DuplicateEvent(t, k) PROVE ReadyInv'
  BY <1>20 DEF DuplicateEvent, ReadyInv, Built, TypeOK, Publish
<1>21. CASE UNCHANGED vars
  BY <1>21 DEF vars, ReadyInv, Built
<1> QED
  BY <1>1, <1>2, <1>3, <1>4, <1>5, <1>6, <1>7, <1>8, <1>9, <1>10, <1>11, <1>12,
     <1>13, <1>14, <1>15, <1>16, <1>17, <1>18, <1>19, <1>20, <1>21, <1>22
  DEF Next, Progress, CreateStep, ExecutionStep, Operators, Billing, Failure

\* A tenant is reported ready only when its stack was built, for any number of
\* executions, duplicates and failures.
THEOREM ReadyOnlyWhenBuilt == Spec => []ReadyMeansBuilt
<1>1. Init => ReadyInv
  BY DEF Init, ReadyInv, Kinds
<1>2. ReadyInv => ReadyMeansBuilt
  BY DEF ReadyInv, Built, ReadyMeansBuilt
<1> QED
  BY <1>1, <1>2, TypeCorrect, ReadyStep, PTL DEF Spec

-----------------------------------------------------------------------------
(* One creation, one execution. *)

\* Provisioning of a tenant is in one place: the event that asks for it, the
\* execution, or the event that answers.
OnePlace(t) ==
    /\ \A k \in Kinds : bus[t][k] <= 1
    /\ \A k, l \in Kinds : bus[t][k] > 0 /\ bus[t][l] > 0 => k = l
    /\ \A x, y \in execs : x.tenant = t /\ y.tenant = t => x = y
    /\ \A x \in execs, k \in Kinds : ~(x.tenant = t /\ bus[t][k] > 0)

\* What the places say of the stack and of the record.
Agrees(t) ==
    /\ created[t] = 0 =>
        /\ stack[t] = "none" /\ rec[t].prov \in {"none", "pending"}
        /\ \A k \in Kinds : bus[t][k] = 0
        /\ \A x \in execs : x.tenant # t
    /\ bus[t]["created"] > 0 => stack[t] = "none" /\ rec[t].prov \notin {"ready", "failed"}
    /\ bus[t]["ready"] > 0 => rec[t].prov \notin {"ready", "failed"}
    /\ bus[t]["failed"] > 0 => rec[t].prov \notin {"ready", "failed"}
    /\ \A x \in execs : x.tenant = t => rec[t].prov \notin {"ready", "failed"}
    /\ faults = 0 =>
        /\ stack[t] \notin {"updating", "updateFailed"}
        /\ bus[t]["failed"] > 0 => stack[t] = "createFailed"
        /\ rec[t].prov = "failed" => stack[t] = "createFailed"
        /\ \A x \in execs : x.tenant = t =>
            /\ x.pc = "start" => stack[t] = "none"
            /\ x.pc = "poll" => stack[t] # "none"
            /\ x.pc = "emitFailed" => stack[t] = "createFailed"

PlaceInv == dups = 0 => \A t \in Tenants : OnePlace(t) /\ Agrees(t)

\* Duplicates and failures are counted and never forgotten.
LEMMA CountedBefore ==
    TypeOK /\ [Next]_vars => (dups' = 0 => dups = 0) /\ (faults' = 0 => faults = 0)
<1> DEFINE Goal == (dups' = 0 => dups = 0) /\ (faults' = 0 => faults = 0)
<1> SUFFICES ASSUME TypeOK, [Next]_vars PROVE Goal
  OBVIOUS
<1>1. ASSUME NEW r \in Requests, NEW t \in Tenants, CreateChecks(r, t) PROVE Goal
  BY <1>1 DEF CreateChecks, envVars
<1>2. ASSUME NEW c \in creates, create_api_key_secret(c) PROVE Goal
  BY <1>2 DEF create_api_key_secret, envVars
<1>3. ASSUME NEW c \in creates, CreatePuts(c) PROVE Goal
  BY <1>3 DEF CreatePuts, envVars
<1>4. ASSUME NEW c \in creates, CreatePublishes(c) PROVE Goal
  BY <1>4 DEF CreatePublishes, envVars
<1>5. ASSUME NEW c \in creates, CreateFails(c) PROVE Goal
  BY <1>5 DEF CreateFails, TypeOK
<1>6. ASSUME NEW c \in creates, CreateFailsAfterSecret(c) PROVE Goal
  BY <1>6 DEF CreateFailsAfterSecret, TypeOK
<1>7. ASSUME NEW t \in Tenants, NEW s \in Status, handle_update(t, s) PROVE Goal
  BY <1>7 DEF handle_update, envVars
<1>8. ASSUME NEW t \in Tenants, handle_delete(t) PROVE Goal
  BY <1>8 DEF handle_delete, envVars
<1>9. CASE _get_active_tenants
  BY <1>9 DEF _get_active_tenants, envVars
<1>10. ASSUME NEW t \in Tenants, _process_tenant(t) PROVE Goal
  BY <1>10 DEF _process_tenant, envVars
<1>11. ASSUME NEW t \in Tenants, NEW e \in Executions, StartExecution(t, e) PROVE Goal
  BY <1>11 DEF StartExecution, envVars
<1>12. ASSUME NEW x \in execs, _start_provisioning(x) PROVE Goal
  BY <1>12 DEF _start_provisioning, envVars
<1>13. ASSUME NEW x \in execs, _poll_provisioning(x) PROVE Goal
  BY <1>13 DEF _poll_provisioning, envVars
<1>14. ASSUME NEW x \in execs, _emit_completion(x) PROVE Goal
  BY <1>14 DEF _emit_completion, envVars
<1>15. ASSUME NEW x \in execs, ExecutionAborts(x) PROVE Goal
  BY <1>15 DEF ExecutionAborts, TypeOK
<1>22. ASSUME NEW x \in execs, ProvisionerRaises(x) PROVE Goal
  BY <1>22 DEF ProvisionerRaises, TypeOK
<1>16. ASSUME NEW t \in Tenants, StackFinishes(t) PROVE Goal
  BY <1>16 DEF StackFinishes, envVars
<1>17. CASE ReleaseTemplate
  BY <1>17 DEF ReleaseTemplate, TypeOK
<1>18. ASSUME NEW t \in Tenants, NEW k \in Kinds, handle_tenant_provisioning_event(t, k)
      PROVE Goal
  BY <1>18 DEF handle_tenant_provisioning_event, envVars
<1>19. ASSUME NEW t \in Tenants, NEW k \in Kinds, ProvisioningEventRaises(t, k) PROVE Goal
  BY <1>19 DEF ProvisioningEventRaises, TypeOK
<1>20. ASSUME NEW t \in Tenants, NEW k \in Kinds, DuplicateEvent(t, k) PROVE Goal
  BY <1>20 DEF DuplicateEvent, TypeOK
<1>21. CASE UNCHANGED vars
  BY <1>21 DEF vars, envVars
<1> QED
  BY <1>1, <1>2, <1>3, <1>4, <1>5, <1>6, <1>7, <1>8, <1>9, <1>10, <1>11, <1>12,
     <1>13, <1>14, <1>15, <1>16, <1>17, <1>18, <1>19, <1>20, <1>21, <1>22
  DEF Next, Progress, CreateStep, ExecutionStep, Operators, Billing, Failure

\* An execution that advances is an execution of the same tenant.
LEMMA AdvanceMoves ==
    ASSUME TypeOK, NEW x \in execs, NEW p \in {"start", "poll", "emitReady", "emitFailed"},
           Advance(x, p)
    PROVE \E y \in Execution :
            execs' = (execs \ {x}) \cup {y} /\ y.tenant = x.tenant /\ y.pc = p
<1>1. x \in Execution
  BY DEF TypeOK
<1> DEFINE y == [x EXCEPT !.pc = p]
<1>2. y \in Execution /\ y.tenant = x.tenant /\ y.pc = p
  BY <1>1 DEF Execution
<1>3. execs' = (execs \ {x}) \cup {y}
  BY DEF Advance
<1> HIDE DEF y
<1> QED
  BY <1>2, <1>3

\* One step keeps it: while no event is duplicated, what asks for an execution
\* disappears when it starts, and the execution when it answers.
LEMMA PlaceStep == TypeOK /\ MutexInv /\ PlaceInv /\ [Next]_vars => PlaceInv'
<1> SUFFICES ASSUME TypeOK, MutexInv, PlaceInv, [Next]_vars, dups' = 0, NEW i \in Tenants
             PROVE OnePlace(i)' /\ Agrees(i)'
  BY DEF PlaceInv
<1>a. dups = 0 /\ (faults' = 0 => faults = 0)
  BY CountedBefore
<1>b. OnePlace(i) /\ Agrees(i) /\ Mutex(i)
  BY <1>a DEF PlaceInv, MutexInv
<1> USE <1>a, <1>b
<1>1. ASSUME NEW r \in Requests, NEW t \in Tenants, CreateChecks(r, t)
      PROVE OnePlace(i)' /\ Agrees(i)'
  BY <1>1 DEF CreateChecks, OnePlace, Agrees
<1>2. ASSUME NEW c \in creates, create_api_key_secret(c) PROVE OnePlace(i)' /\ Agrees(i)'
  BY <1>2 DEF create_api_key_secret, OnePlace, Agrees
<1>3. ASSUME NEW c \in creates, CreatePuts(c) PROVE OnePlace(i)' /\ Agrees(i)'
  BY <1>3 DEF CreatePuts, OnePlace, Agrees, TypeOK, Holds, Mutex, CreateRequest, Kinds
<1>4. ASSUME NEW c \in creates, CreatePublishes(c) PROVE OnePlace(i)' /\ Agrees(i)'
  BY <1>4
  DEF CreatePublishes, OnePlace, Agrees, TypeOK, Publish, Holds, Mutex, CreateRequest, Kinds
<1>5. ASSUME NEW c \in creates, CreateFails(c) PROVE OnePlace(i)' /\ Agrees(i)'
  BY <1>5 DEF CreateFails, OnePlace, Agrees
<1>6. ASSUME NEW c \in creates, CreateFailsAfterSecret(c) PROVE OnePlace(i)' /\ Agrees(i)'
  BY <1>6 DEF CreateFailsAfterSecret, OnePlace, Agrees
<1>7. ASSUME NEW t \in Tenants, NEW s \in Status, handle_update(t, s)
      PROVE OnePlace(i)' /\ Agrees(i)'
  BY <1>7 DEF handle_update, OnePlace, Agrees, TypeOK
<1>8. ASSUME NEW t \in Tenants, handle_delete(t) PROVE OnePlace(i)' /\ Agrees(i)'
  BY <1>8 DEF handle_delete, OnePlace, Agrees, TypeOK
<1>9. CASE _get_active_tenants
  BY <1>9 DEF _get_active_tenants, OnePlace, Agrees
<1>10. ASSUME NEW t \in Tenants, _process_tenant(t) PROVE OnePlace(i)' /\ Agrees(i)'
  <2>1. rec'[i].prov = rec[i].prov
    <3>1. CASE rec' = rec
      BY <3>1
    <3>2. CASE rec' = [rec EXCEPT ![t].status = "suspended"]
      <4>1. rec \in [Tenants -> Record] /\ rec[i] \in Record
        BY DEF TypeOK
      <4> QED
        BY ONLY <3>2, <4>1, t \in Tenants, i \in Tenants DEF Record
    <3> QED
      BY <1>10, <3>1, <3>2 DEF _process_tenant
  <2> QED
    BY <1>10, <2>1 DEF _process_tenant, OnePlace, Agrees
<1>11. ASSUME NEW t \in Tenants, NEW e \in Executions, StartExecution(t, e)
      PROVE OnePlace(i)' /\ Agrees(i)'
  BY <1>11 DEF StartExecution, OnePlace, Agrees, TypeOK, Kinds
<1>12. ASSUME NEW x \in execs, _start_provisioning(x) PROVE OnePlace(i)' /\ Agrees(i)'
  <2>1. PICK y \in Execution :
          /\ execs' = (execs \ {x}) \cup {y} /\ y.tenant = x.tenant
          /\ \/ /\ stack[x.tenant] = "none" /\ y.pc = "poll"
                /\ stack' = [stack EXCEPT ![x.tenant] = "creating"]
             \/ stack[x.tenant] # "none"
    BY <1>12, AdvanceMoves DEF _start_provisioning
  <2>2. CASE i # x.tenant
    <3>1. stack'[i] = stack[i] /\ UNCHANGED <<rec, bus, created>>
      BY <1>12, <2>2 DEF _start_provisioning, TypeOK
    <3> QED
      BY <2>1, <2>2, <3>1 DEF OnePlace, Agrees
  <2>3. CASE i = x.tenant
    <3>1. x.pc = "start" /\ UNCHANGED <<rec, bus, created, faults>>
      BY <1>12 DEF _start_provisioning, envVars
    <3>2. faults = 0 => stack'[i] = "creating" /\ y.pc = "poll"
      BY <2>1, <2>3, <3>1 DEF TypeOK, Agrees
    <3>3. \A z \in execs' : z.tenant = i => z = y
      BY <2>1, <2>3 DEF OnePlace
    <3>4. created[i] # 0 /\ \A k \in Kinds : ~(bus[i][k] > 0)
      BY <2>3 DEF OnePlace, Agrees
    <3>5. rec[i].prov \notin {"ready", "failed"}
      BY <2>3 DEF Agrees
    <3> QED
      BY <2>1, <2>3, <3>1, <3>2, <3>3, <3>4, <3>5 DEF OnePlace, Agrees, Kinds
  <2> QED
    BY <2>2, <2>3
<1>13. ASSUME NEW x \in execs, _poll_provisioning(x) PROVE OnePlace(i)' /\ Agrees(i)'
  <2>1. PICK y \in Execution :
          /\ execs' = (execs \ {x}) \cup {y} /\ y.tenant = x.tenant
          /\ y.pc = IF stack[x.tenant] = "complete" THEN "emitReady" ELSE "emitFailed"
    BY <1>13, AdvanceMoves DEF _poll_provisioning
  <2>2. UNCHANGED <<rec, bus, stack, created>>
    BY <1>13 DEF _poll_provisioning
  <2>3. CASE i # x.tenant
    BY <2>1, <2>2, <2>3 DEF OnePlace, Agrees
  <2>4. CASE i = x.tenant
    <3>1. x.pc = "poll" /\ stack[i] \notin {"creating", "updating"}
      BY <1>13, <2>4 DEF _poll_provisioning
    <3>2. faults = 0 => stack[i] \in {"complete", "createFailed"}
      BY <2>4, <3>1 DEF Agrees, TypeOK, StackState
    <3> QED
      BY <2>1, <2>2, <2>4, <3>2 DEF OnePlace, Agrees
  <2> QED
    BY <2>3, <2>4
<1>14. ASSUME NEW x \in execs, _emit_completion(x) PROVE OnePlace(i)' /\ Agrees(i)'
  BY <1>14 DEF _emit_completion, OnePlace, Agrees, TypeOK, Publish, Execution, Kinds
<1>15. ASSUME NEW x \in execs, ExecutionAborts(x) PROVE OnePlace(i)' /\ Agrees(i)'
  BY <1>15 DEF ExecutionAborts, OnePlace, Agrees, TypeOK
<1>22. ASSUME NEW x \in execs, ProvisionerRaises(x) PROVE OnePlace(i)' /\ Agrees(i)'
  <2>1. PICK y \in Execution : execs' = (execs \ {x}) \cup {y} /\ y.tenant = x.tenant
    <3>1. x.pc \in {"start", "poll"} /\ \E p \in {x.pc, "emitFailed"} : Advance(x, p)
      BY <1>22 DEF ProvisionerRaises
    <3> QED
      BY <3>1, AdvanceMoves
  <2>2. UNCHANGED <<rec, bus, created>> /\ faults' # 0
    BY <1>22 DEF ProvisionerRaises, TypeOK
  <2>3. CASE i # x.tenant
    <3>1. stack'[i] = stack[i]
      BY <1>22, <2>3 DEF ProvisionerRaises, TypeOK
    <3> QED
      BY <2>1, <2>2, <2>3, <3>1 DEF OnePlace, Agrees
  <2>4. CASE i = x.tenant
    <3>1. created[i] # 0 /\ \A k \in Kinds : ~(bus[i][k] > 0)
      BY <2>4 DEF OnePlace, Agrees
    <3>2. \A z \in execs' : z.tenant = i => z = y
      BY <2>1, <2>4 DEF OnePlace
    <3>3. rec[i].prov \notin {"ready", "failed"}
      BY <2>4 DEF Agrees
    <3> QED
      BY <2>1, <2>2, <3>1, <3>2, <3>3 DEF OnePlace, Agrees, Kinds
  <2> QED
    BY <2>3, <2>4
<1>16. ASSUME NEW t \in Tenants, StackFinishes(t) PROVE OnePlace(i)' /\ Agrees(i)'
  BY <1>16 DEF StackFinishes, OnePlace, Agrees, TypeOK
<1>17. CASE ReleaseTemplate
  BY <1>17 DEF ReleaseTemplate, OnePlace, Agrees
<1>18. ASSUME NEW t \in Tenants, NEW k \in Kinds, handle_tenant_provisioning_event(t, k)
      PROVE OnePlace(i)' /\ Agrees(i)'
  <2>1. bus'[t] = [bus[t] EXCEPT ![k] = bus[t][k] - 1] /\ bus[t][k] > 0 /\ k \in {"ready", "failed"}
    BY <1>18 DEF handle_tenant_provisioning_event, TypeOK
  <2>2. rec'[t].prov = k /\ UNCHANGED <<execs, stack, created>>
    BY <1>18 DEF handle_tenant_provisioning_event, TypeOK, Record
  <2>3. CASE i # t
    <3>1. bus'[i] = bus[i] /\ rec'[i] = rec[i]
      BY <1>18, <2>3 DEF handle_tenant_provisioning_event, TypeOK
    <3> QED
      BY <2>2, <3>1 DEF OnePlace, Agrees
  <2>4. CASE i = t
    <3>1. \A l \in Kinds : bus[i][l] \in Nat
      BY DEF TypeOK
    <3>2. \A l \in Kinds : bus'[i][l] = IF l = k THEN bus[i][l] - 1 ELSE bus[i][l]
      BY <2>1, <2>4 DEF TypeOK
    <3>3. \A l \in Kinds : bus'[i][l] = 0
      BY <2>1, <2>4, <3>1, <3>2 DEF OnePlace
    <3>4. /\ \A x \in execs : x.tenant # i
          /\ created[i] # 0
          /\ faults = 0 => /\ k = "failed" => stack[i] = "createFailed"
                           /\ stack[i] \notin {"updating", "updateFailed"}
      BY <2>1, <2>4 DEF OnePlace, Agrees
    <3> QED
      BY <2>1, <2>2, <2>4, <3>3, <3>4 DEF OnePlace, Agrees, Kinds
  <2> QED
    BY <2>3, <2>4
<1>19. ASSUME NEW t \in Tenants, NEW k \in Kinds, ProvisioningEventRaises(t, k)
      PROVE OnePlace(i)' /\ Agrees(i)'
  BY <1>19 DEF ProvisioningEventRaises, OnePlace, Agrees, TypeOK
<1>20. ASSUME NEW t \in Tenants, NEW k \in Kinds, DuplicateEvent(t, k)
      PROVE OnePlace(i)' /\ Agrees(i)'
  BY <1>20 DEF DuplicateEvent, TypeOK
<1>21. CASE UNCHANGED vars
  BY <1>21 DEF vars, OnePlace, Agrees
<1> QED
  BY <1>1, <1>2, <1>3, <1>4, <1>5, <1>6, <1>7, <1>8, <1>9, <1>10, <1>11, <1>12,
     <1>13, <1>14, <1>15, <1>16, <1>17, <1>18, <1>19, <1>20, <1>21, <1>22
  DEF Next, Progress, CreateStep, ExecutionStep, Operators, Billing, Failure

\* With the mutex, provisioning is always in one place.
LEMMA PlaceInvariant == Spec => []PlaceInv
<1>1. Init => PlaceInv
  <2> SUFFICES ASSUME Init, NEW t \in Tenants PROVE OnePlace(t) /\ Agrees(t)
    BY DEF PlaceInv
  <2>1. /\ execs = {} /\ created[t] = 0 /\ stack[t] = "none"
        /\ rec[t].prov = "none" /\ \A k \in Kinds : bus[t][k] = 0
    BY DEF Init
  <2> QED
    BY <2>1 DEF OnePlace, Agrees, Kinds
<1> QED
  BY <1>1, TypeCorrect, MutexInvariant, PlaceStep, PTL DEF Spec

\* As long as nothing fails and no event is delivered twice, a tenant is reported
\* failed only when its stack was rolled back, for any number of requests and executions: no
\* execution meets another one's stack in progress.
THEOREM FailedOnlyWhenRolledBack == Spec => []FailedMeansRolledBack
<1>1. PlaceInv => FailedMeansRolledBack
  BY DEF PlaceInv, Agrees, FailedMeansRolledBack
<1> QED
  BY <1>1, PlaceInvariant, PTL

-----------------------------------------------------------------------------
(* A settled tenant's status. *)

\* What a step makes of the status of a tenant: it becomes active when the record
\* is put, by an operator, or with a "ready" event.
LEMMA ActiveBy ==
    ASSUME TypeOK, [Next]_vars, NEW i \in Tenants, rec[i].status # "active",
           rec'[i].status = "active"
    PROVE  \/ \E c \in creates : Holds(c, i)
           \/ handle_update(i, "active")
           \/ bus[i]["ready"] > 0
<1> DEFINE Goal == \/ \E c \in creates : Holds(c, i)
                   \/ handle_update(i, "active")
                   \/ bus[i]["ready"] > 0
<1>a. rec \in [Tenants -> Record] /\ rec[i] \in Record
  BY DEF TypeOK
<1>1. CASE UNCHANGED rec
  BY <1>1
<1>2. ASSUME NEW c \in creates, CreatePuts(c) PROVE Goal
  <2>1. c.tenant = i
    BY <1>2, <1>a DEF CreatePuts
  <2> QED
    BY <1>2, <2>1 DEF CreatePuts, Holds
<1>3. ASSUME NEW t \in Tenants, NEW s \in Status, handle_update(t, s) PROVE Goal
  <2>1. rec' = [rec EXCEPT ![t] = [rec[t] EXCEPT !.status = s]]
    BY <1>3 DEF handle_update
  <2>2. t = i
    BY <1>a, <2>1
  <2>3. rec'[i].status = s
    BY <1>a, <2>1, <2>2 DEF Record
  <2> QED
    BY <1>3, <2>2, <2>3
<1>4. ASSUME NEW t \in Tenants, handle_delete(t) PROVE FALSE
  <2>1. rec' = [rec EXCEPT ![t] = [rec[t] EXCEPT !.status = "deleted", !.purge = TRUE]]
    BY <1>4 DEF handle_delete
  <2>2. t = i
    BY <1>a, <2>1
  <2>3. rec'[i].status = "deleted"
    BY <1>a, <2>1, <2>2 DEF Record
  <2> QED
    BY <2>3
<1>5. ASSUME NEW t \in Tenants, _process_tenant(t) PROVE FALSE
  <2>1. rec' = [rec EXCEPT ![t] = [rec[t] EXCEPT !.status = "suspended"]]
    BY <1>5 DEF _process_tenant
  <2>2. t = i
    BY <1>a, <2>1
  <2>3. rec'[i].status = "suspended"
    BY <1>a, <2>1, <2>2 DEF Record
  <2> QED
    BY <2>3
<1>6. ASSUME NEW t \in Tenants, NEW k \in Kinds, handle_tenant_provisioning_event(t, k)
      PROVE Goal
  <2>1. k = "ready"
    <3>1. SUFFICES ASSUME k # "ready" PROVE FALSE
      OBVIOUS
    <3>2. rec' = [rec EXCEPT ![t] = [rec[t] EXCEPT !.prov = "failed"]]
      BY <1>6, <3>1 DEF handle_tenant_provisioning_event
    <3> QED
      BY <1>a, <3>2 DEF Record
  <2>2. rec' = [rec EXCEPT ![t] = [rec[t] EXCEPT !.prov = "ready", !.status = "active"]]
    BY <1>6, <2>1 DEF handle_tenant_provisioning_event
  <2>3. t = i
    BY <1>a, <2>2
  <2> QED
    BY <1>6, <2>1, <2>3 DEF handle_tenant_provisioning_event
<1>7. ASSUME NEW c \in creates, \/ create_api_key_secret(c) \/ CreatePublishes(c)
                                \/ CreateFails(c) \/ CreateFailsAfterSecret(c)
      PROVE UNCHANGED rec
  BY <1>7 DEF create_api_key_secret, CreatePublishes, CreateFails, CreateFailsAfterSecret
<1>8. ASSUME NEW x \in execs, ExecutionStep(x) \/ ProvisionerRaises(x) \/ ExecutionAborts(x)
      PROVE UNCHANGED rec
  BY <1>8 DEF ExecutionStep, _start_provisioning, _poll_provisioning, _emit_completion,
              ProvisionerRaises, ExecutionAborts
<1>9. ASSUME NEW t \in Tenants, NEW k \in Kinds, ProvisioningEventRaises(t, k) \/ DuplicateEvent(t, k)
      PROVE UNCHANGED rec
  BY <1>9 DEF ProvisioningEventRaises, DuplicateEvent
<1>10. ASSUME NEW t \in Tenants,
              \/ StackFinishes(t) \/ \E e \in Executions : StartExecution(t, e)
              \/ \E r \in Requests : CreateChecks(r, t)
      PROVE UNCHANGED rec
  BY <1>10 DEF StackFinishes, StartExecution, CreateChecks
<1>11. _get_active_tenants \/ ReleaseTemplate \/ UNCHANGED vars => UNCHANGED rec
  BY DEF _get_active_tenants, ReleaseTemplate, vars
<1> QED
  BY <1>1, <1>2, <1>3, <1>4, <1>5, <1>6, <1>7, <1>8, <1>9, <1>10, <1>11
  DEF Next, Progress, CreateStep, Operators, Billing, Failure

\* As long as no event is delivered twice, only an operator makes a suspended or
\* deleted tenant active once its provisioning is over, whatever fails: neither a
\* creation nor a provisioning event is still on its way.
THEOREM SettledIsOperators == Spec => SettledStatusIsOperators
<1>1. TypeOK /\ MutexInv /\ PlaceInv /\ [Next]_vars =>
        [\A t \in Tenants :
           dups = 0 /\ rec[t].prov \in {"ready", "failed"}
                    /\ rec[t].status \in {"suspended", "deleted"} /\ rec'[t].status = "active"
               => handle_update(t, "active")]_vars
  <2> SUFFICES ASSUME TypeOK, MutexInv, PlaceInv, [Next]_vars, NEW t \in Tenants, dups = 0,
                      rec[t].prov \in {"ready", "failed"},
                      rec[t].status \in {"suspended", "deleted"}, rec'[t].status = "active"
               PROVE  handle_update(t, "active")
    OBVIOUS
  <2>1. Mutex(t) /\ Agrees(t)
    BY DEF MutexInv, PlaceInv
  <2>2. ~\E c \in creates : Holds(c, t)
    BY <2>1 DEF Mutex, Agrees
  <2>3. ~(bus[t]["ready"] > 0)
    BY <2>1 DEF Agrees
  <2> QED
    BY <2>2, <2>3, ActiveBy
<1> QED
  BY <1>1, TypeCorrect, MutexInvariant, PlaceInvariant, PTL DEF Spec, SettledStatusIsOperators

-----------------------------------------------------------------------------
(* A pending tenant. *)

Worked(t) == \/ \E c \in creates : c.tenant = t /\ c.pc = "put"
             \/ \E k \in Kinds : bus[t][k] > 0
             \/ \E x \in execs : x.tenant = t

\* One step keeps it: what asks for the work is not taken away before what does it
\* is there, and the record is settled with the event that ends it.
LEMMA WorkStep == TypeOK /\ PendingHasWork /\ [Next]_vars => PendingHasWork'
<1> SUFFICES ASSUME TypeOK, PendingHasWork, [Next]_vars, faults' = 0, NEW i \in Tenants,
                    rec'[i].prov = "pending"
             PROVE  Worked(i)'
  BY DEF PendingHasWork, Worked
<1>a. faults = 0 /\ (rec[i].prov = "pending" => Worked(i))
  BY CountedBefore DEF PendingHasWork, Worked
<1>b. /\ rec \in [Tenants -> Record] /\ rec[i] \in Record
      /\ bus \in [Tenants -> [Kinds -> Nat]] /\ creates \subseteq CreateRequest
      /\ execs \subseteq Execution
  BY DEF TypeOK
<1> USE <1>a
<1>1. ASSUME NEW r \in Requests, NEW t \in Tenants, CreateChecks(r, t) PROVE Worked(i)'
  BY <1>1 DEF CreateChecks, Worked
<1>2. ASSUME NEW c \in creates, create_api_key_secret(c) PROVE Worked(i)'
  BY <1>2 DEF create_api_key_secret, Worked
<1>3. ASSUME NEW c \in creates, CreatePuts(c) PROVE Worked(i)'
  <2> DEFINE d == [c EXCEPT !.pc = "put"]
  <2>1. d.tenant = c.tenant /\ d.pc = "put"
    BY <1>b DEF CreateRequest
  <2>2. d \in creates'
    BY <1>3 DEF CreatePuts
  <2> HIDE DEF d
  <2>3. CASE c.tenant = i
    BY <2>1, <2>2, <2>3 DEF Worked
  <2>4. CASE c.tenant # i
    <3>1. rec'[i] = rec[i] /\ UNCHANGED <<bus, execs>> /\ c.pc = "secret"
          /\ creates \ {c} \subseteq creates'
      BY <1>3, <1>b, <2>4 DEF CreatePuts
    <3> QED
      BY <3>1 DEF Worked
  <2> QED
    BY <2>3, <2>4
<1>4. ASSUME NEW c \in creates, CreatePublishes(c) PROVE Worked(i)'
  <2>1. c.tenant \in Tenants
    BY <1>b DEF CreateRequest
  <2>2. bus' = [bus EXCEPT ![c.tenant] = [bus[c.tenant] EXCEPT !["created"] = @ + 1]]
    BY <1>4 DEF CreatePublishes, Publish
  <2>3. CASE c.tenant = i
    <3>1. bus'[i]["created"] > 0
      BY <1>b, <2>1, <2>2, <2>3 DEF Kinds
    <3> QED
      BY <3>1 DEF Worked, Kinds
  <2>4. CASE c.tenant # i
    <3>1. bus'[i] = bus[i] /\ UNCHANGED <<rec, execs>> /\ creates' = creates \ {c}
      BY <1>4, <1>b, <2>2, <2>4 DEF CreatePublishes
    <3> QED
      BY <2>4, <3>1 DEF Worked
  <2> QED
    BY <2>3, <2>4
<1>5. ASSUME NEW t \in Tenants, NEW s \in Status, handle_update(t, s) PROVE Worked(i)'
  <2>1. rec'[i].prov = rec[i].prov
    BY <1>5, <1>b DEF handle_update, Record
  <2> QED
    BY <1>5, <2>1 DEF handle_update, Worked
<1>6. ASSUME NEW t \in Tenants, handle_delete(t) PROVE Worked(i)'
  <2>1. rec'[i].prov = rec[i].prov
    BY <1>6, <1>b DEF handle_delete, Record
  <2> QED
    BY <1>6, <2>1 DEF handle_delete, Worked
<1>7. CASE _get_active_tenants
  BY <1>7 DEF _get_active_tenants, Worked
<1>8. ASSUME NEW t \in Tenants, _process_tenant(t) PROVE Worked(i)'
  <2>1. rec'[i].prov = rec[i].prov
    BY <1>8, <1>b DEF _process_tenant, Record
  <2> QED
    BY <1>8, <2>1 DEF _process_tenant, Worked
<1>9. ASSUME NEW t \in Tenants, NEW e \in Executions, StartExecution(t, e) PROVE Worked(i)'
  <2>1. /\ bus' = [bus EXCEPT ![t] = [bus[t] EXCEPT !["created"] = @ - 1]]
        /\ execs' = execs \cup {[id |-> e, tenant |-> t, pc |-> "start"]}
        /\ UNCHANGED <<rec, creates>>
    BY <1>9 DEF StartExecution
  <2>2. CASE t = i
    <3> DEFINE y == [id |-> e, tenant |-> t, pc |-> "start"]
    <3>1. y \in execs' /\ y.tenant = i
      BY <2>1, <2>2
    <3> HIDE DEF y
    <3> QED
      BY <3>1 DEF Worked
  <2>3. CASE t # i
    <3>1. bus'[i] = bus[i]
      BY <1>b, <2>1, <2>3
    <3> QED
      BY <2>1, <3>1 DEF Worked
  <2> QED
    BY <2>2, <2>3
<1>10. ASSUME NEW x \in execs, _start_provisioning(x) \/ _poll_provisioning(x) PROVE Worked(i)'
  <2>1. PICK y : y.tenant = x.tenant /\ execs' = (execs \ {x}) \cup {y}
    BY <1>10, AdvanceMoves DEF _start_provisioning, _poll_provisioning
  <2>2. UNCHANGED <<rec, creates, bus>>
    BY <1>10 DEF _start_provisioning, _poll_provisioning
  <2> QED
    BY <2>1, <2>2 DEF Worked
<1>11. ASSUME NEW x \in execs, _emit_completion(x) PROVE Worked(i)'
  <2> DEFINE k == IF x.pc = "emitReady" THEN "ready" ELSE "failed"
  <2>1. /\ bus' = [bus EXCEPT ![x.tenant] = [bus[x.tenant] EXCEPT ![k] = @ + 1]]
        /\ execs' = execs \ {x} /\ UNCHANGED <<rec, creates>>
    BY <1>11 DEF _emit_completion, Publish
  <2>2. k \in Kinds /\ x.tenant \in Tenants
    BY <1>b DEF Kinds, Execution
  <2> HIDE DEF k
  <2>3. CASE x.tenant = i
    <3>1. bus'[i][k] > 0
      BY <1>b, <2>1, <2>2, <2>3
    <3> QED
      BY <2>2, <3>1 DEF Worked
  <2>4. CASE x.tenant # i
    <3>1. bus'[i] = bus[i]
      BY <1>b, <2>1, <2>4
    <3> QED
      BY <2>1, <2>4, <3>1 DEF Worked
  <2> QED
    BY <2>3, <2>4
<1>12. ASSUME NEW t \in Tenants, StackFinishes(t) PROVE Worked(i)'
  BY <1>12 DEF StackFinishes, Worked
<1>13. CASE ReleaseTemplate
  BY <1>13 DEF ReleaseTemplate, Worked
<1>14. ASSUME NEW t \in Tenants, NEW k \in Kinds, handle_tenant_provisioning_event(t, k)
      PROVE Worked(i)'
  <2>1. CASE t = i
    <3>1. rec'[i].prov = k /\ k \in {"ready", "failed"}
      BY <1>14, <1>b, <2>1 DEF handle_tenant_provisioning_event, Record
    <3> QED
      BY <3>1
  <2>2. CASE t # i
    <3>1. rec'[i] = rec[i] /\ bus'[i] = bus[i] /\ UNCHANGED <<creates, execs>>
      BY <1>14, <1>b, <2>2 DEF handle_tenant_provisioning_event
    <3> QED
      BY <3>1 DEF Worked
  <2> QED
    BY <2>1, <2>2
<1>15. ASSUME NEW t \in Tenants, NEW k \in Kinds, DuplicateEvent(t, k) PROVE Worked(i)'
  <2>1. /\ bus' = [bus EXCEPT ![t] = [bus[t] EXCEPT ![k] = @ + 1]]
        /\ UNCHANGED <<rec, creates, execs>>
    BY <1>15 DEF DuplicateEvent, Publish
  <2>2. \A l \in Kinds : bus[i][l] > 0 => bus'[i][l] > 0
    BY <1>b, <2>1
  <2> QED
    BY <2>1, <2>2 DEF Worked
<1>16. ASSUME NEW c \in creates, CreateFails(c) \/ CreateFailsAfterSecret(c) PROVE FALSE
  BY <1>16 DEF CreateFails, CreateFailsAfterSecret, TypeOK
<1>17. ASSUME NEW x \in execs, ProvisionerRaises(x) \/ ExecutionAborts(x) PROVE FALSE
  BY <1>17 DEF ProvisionerRaises, ExecutionAborts, TypeOK
<1>18. ASSUME NEW t \in Tenants, NEW k \in Kinds, ProvisioningEventRaises(t, k) PROVE FALSE
  BY <1>18 DEF ProvisioningEventRaises, TypeOK
<1>19. CASE UNCHANGED vars
  BY <1>19 DEF vars, Worked
<1> QED
  BY <1>1, <1>2, <1>3, <1>4, <1>5, <1>6, <1>7, <1>8, <1>9, <1>10, <1>11, <1>12, <1>13, <1>14,
     <1>15, <1>16, <1>17, <1>18, <1>19
  DEF Next, Progress, CreateStep, ExecutionStep, Operators, Billing, Failure

\* As long as nothing fails, a pending tenant has a request about to publish, an
\* event on its way or an execution, however many events come twice.
THEOREM PendingIsWorkedOn == Spec => []PendingHasWork
<1>1. Init => PendingHasWork
  BY DEF Init, PendingHasWork
<1> QED
  BY <1>1, TypeCorrect, WorkStep, PTL DEF Spec

=============================================================================
