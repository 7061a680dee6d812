---------------------------- MODULE WebhookDelivery ----------------------------
(***************************************************************************)
(* The webhook_delivery Lambda: a job that reaches a terminal status is    *)
(* announced to the tenant's endpoint.  The first attempt comes from the   *)
(* jobs table's stream, every later one from the SQS retry queue, and a    *)
(* delivery that is given up goes to the dead-letter queue.                *)
(*                                                                         *)
(* One record of a batch is one task.  A task stops at every remote call   *)
(* of attempt_delivery (read the registration, POST, update the job, send  *)
(* a message), so attempts of one job interleave there, and the Lambda can *)
(* fail at each of them.                                                   *)
(***************************************************************************)
EXTENDS Naturals

CONSTANTS
    Jobs,            \* job ids
    StreamWorker,    \* the one invocation that reads the stream's shard
    RetryWorkers,    \* concurrent invocations fed by the retry queue
    MaxRetry,        \* WEBHOOK_MAX_RETRY_ATTEMPTS
    MaxStreamTries,  \* tries of one stream record (1 + retryAttempts)
    MaxFaults,       \* bound: exceptions and dead invocations
    MaxDups,         \* bound: messages SQS delivers once more
    MaxLostReplies,  \* bound: POSTs the endpoint took but answered too late
    MaxRedrives      \* bound: messages an operator moves out of the DLQ

ASSUME WorkersAssumption == StreamWorker \notin RetryWorkers
ASSUME BoundsAssumption ==
    /\ MaxRetry \in Nat /\ MaxStreamTries \in Nat \ {0}
    /\ MaxFaults \in Nat /\ MaxDups \in Nat
    /\ MaxLostReplies \in Nat /\ MaxRedrives \in Nat

VARIABLES
    target,      \* what the job item says of its webhook (never changes)
    reg,         \* the registration the job's webhook_id points to
    job,         \* the item of platform-jobs
    stream,      \* stream records not consumed yet
    queue,       \* queue[j][a]: messages asking for attempt a of job j
    dlq,         \* dlq[j][a]: dead letters of attempt a of job j
    tasks,       \* records being processed
    accepted,    \* how often the endpoint took the job's event
    faults, dups, lostReplies, redrives

envVars == <<faults, dups, lostReplies, redrives>>
vars == <<target, reg, job, stream, queue, dlq, tasks, accepted, envVars>>

Workers == RetryWorkers \cup {StreamWorker}
Attempts == 1 .. (MaxRetry + 1)

Targets == {"noUrl", "noWebhookId", "hook"}
RegStates == {"active", "unsubscribed", "disabled", "noSecret", "absent"}

(***************************************************************************)
(* A job item.  "expired" is an item its TTL has removed; "ghost" is the   *)
(* item an update creates in its place: delivery attributes and no status. *)
(***************************************************************************)
JobStatus == {"running", "terminal", "expired", "ghost"}
DeliveryStatus == {"none", "retrying", "delivered", "failed", "skipped"}
JobItem == [status: JobStatus, delivered: BOOLEAN, ws: DeliveryStatus]

(***************************************************************************)
(* A stream record: are the new and the old image's status terminal, and   *)
(* does the new image say delivered; tries counts earlier deliveries.      *)
(***************************************************************************)
StreamRecord == [job: Jobs, new: BOOLEAN, old: BOOLEAN, delivered: BOOLEAN,
                 tries: 0 .. (MaxStreamTries - 1)]

PCs == {"check", "post", "mark", "send", "ack"}
Task == [w: Workers, job: Jobs, attempt: Attempts, pc: PCs,
         out: DeliveryStatus, tries: 0 .. (MaxStreamTries - 1)]

NoMessages == [j \in Jobs |-> [a \in Attempts |-> 0]]

Init ==
    /\ target \in [Jobs -> Targets]
    /\ reg \in [Jobs -> RegStates \ {"absent"}]
    /\ job = [j \in Jobs |-> [status |-> "running", delivered |-> FALSE, ws |-> "none"]]
    /\ stream = {}
    /\ queue = NoMessages
    /\ dlq = NoMessages
    /\ tasks = {}
    /\ accepted = [j \in Jobs |-> 0]
    /\ faults = 0 /\ dups = 0 /\ lostReplies = 0 /\ redrives = 0

-----------------------------------------------------------------------------
(* The environment. *)

\* The runtime writes the job's terminal status; the table's stream reports it.
JobReachesTerminal(j) ==
    /\ job[j].status = "running"
    /\ job' = [job EXCEPT ![j].status = "terminal"]
    /\ stream' = stream \cup {[job |-> j, new |-> TRUE, old |-> FALSE,
                               delivered |-> FALSE, tries |-> 0]}
    /\ UNCHANGED <<target, reg, queue, dlq, tasks, accepted, envVars>>

\* handle_delete_webhook removes the registration a pending job refers to.
DeleteWebhook(j) ==
    /\ reg[j] # "absent"
    /\ reg' = [reg EXCEPT ![j] = "absent"]
    /\ UNCHANGED <<target, job, stream, queue, dlq, tasks, accepted, envVars>>

\* The table's TTL removes the item (the REMOVE record has no new image and is
\* filtered like every record that is not a transition).
JobExpires(j) ==
    /\ job[j].status = "terminal"
    /\ job' = [job EXCEPT ![j] = [status |-> "expired", delivered |-> FALSE, ws |-> "none"]]
    /\ UNCHANGED <<target, reg, stream, queue, dlq, tasks, accepted, envVars>>

\* SQS delivers at least once.
DuplicateMessage(j, a) ==
    /\ dups < MaxDups
    /\ queue[j][a] > 0
    /\ queue' = [queue EXCEPT ![j][a] = @ + 1]
    /\ dups' = dups + 1
    /\ UNCHANGED <<target, reg, job, stream, dlq, tasks, accepted, faults, lostReplies, redrives>>

\* An operator redrives a dead letter to its source queue (RUNBOOK-005).
Redrive(j, a) ==
    /\ redrives < MaxRedrives
    /\ dlq[j][a] > 0
    /\ dlq' = [dlq EXCEPT ![j][a] = @ - 1]
    /\ queue' = [queue EXCEPT ![j][a] = @ + 1]
    /\ redrives' = redrives + 1
    /\ UNCHANGED <<target, reg, job, stream, tasks, accepted, faults, dups, lostReplies>>

-----------------------------------------------------------------------------
(* Taking a record. *)

\* Mutant: the old image's status is not looked at.
should_process_any_write(r) ==
    /\ r.new
    /\ target[r.job] # "noUrl"
    /\ ~r.delivered

should_process_stream_transition(r) ==
    /\ r.new
    /\ target[r.job] # "noUrl"
    /\ ~r.delivered
    /\ ~r.old

Free(w) == \A t \in tasks : t.w # w

\* Mutant: attempts are counted from 0.
attempt_from_zero(w, j, attempt, delivered, tries) ==
    [w |-> w, job |-> j, attempt |-> attempt - 1, tries |-> tries,
     pc |-> IF target[j] = "noUrl" \/ delivered THEN "ack" ELSE "check", out |-> "none"]

\* The part of attempt_delivery before its first remote call: nothing to
\* announce, no webhook_id to sign with, or the registration comes next.
attempt_delivery(w, j, attempt, delivered, tries) ==
    [w |-> w, job |-> j, attempt |-> attempt, tries |-> tries,
     pc |-> IF target[j] = "noUrl" \/ delivered THEN "ack"
            ELSE IF target[j] = "noWebhookId" THEN "mark" ELSE "check",
     out |-> IF target[j] = "noWebhookId" /\ ~delivered THEN "failed" ELSE "none"]

FilterStreamRecord ==
    /\ Free(StreamWorker)
    /\ \E r \in stream :
        /\ ~should_process_stream_transition(r)
        /\ stream' = stream \ {r}
    /\ UNCHANGED <<target, reg, job, queue, dlq, tasks, accepted, envVars>>

\* Attempt 1 works on the image the stream recorded, not on the current item.
process_stream_record ==
    /\ Free(StreamWorker)
    /\ \E r \in stream :
        /\ should_process_stream_transition(r)
        /\ stream' = stream \ {r}
        /\ tasks' = tasks \cup {attempt_delivery(StreamWorker, r.job, 1, r.delivered, r.tries)}
    /\ UNCHANGED <<target, reg, job, queue, dlq, accepted, envVars>>

\* A retry reads the item afresh.  A missing item is ignored; a ghost raises in
\* tenant_context_from_job, which the handler catches: either way the message
\* is consumed and nothing is attempted.
process_retry_record(w, j, a) ==
    /\ Free(w)
    /\ queue[j][a] > 0
    /\ queue' = [queue EXCEPT ![j][a] = @ - 1]
    /\ tasks' = tasks \cup
         {IF job[j].status = "terminal"
          THEN attempt_delivery(w, j, a, job[j].delivered, 0)
          ELSE [w |-> w, job |-> j, attempt |-> a, pc |-> "ack", out |-> "none", tries |-> 0]}
    /\ UNCHANGED <<target, reg, job, stream, dlq, accepted, envVars>>

-----------------------------------------------------------------------------
(* The remote calls of one attempt. *)

Step(t, u) == tasks' = (tasks \ {t}) \cup {u}

\* Mutant: the job is marked before the POST is made.
check_and_mark_first(t) ==
    /\ t.pc = "check"
    /\ Step(t, [t EXCEPT !.pc = "mark", !.out = "delivered"])
    /\ UNCHANGED <<target, reg, job, stream, queue, dlq, accepted, envVars>>

\* Read the registration and decide.
check_registration(t) ==
    /\ t.pc = "check"
    /\ Step(t, CASE reg[t.job] \in {"absent", "noSecret"} ->
                        [t EXCEPT !.pc = "mark", !.out = "failed"]
                 [] reg[t.job] \in {"disabled", "unsubscribed"} ->
                        [t EXCEPT !.pc = "mark", !.out = "skipped"]
                 [] OTHER -> [t EXCEPT !.pc = "post"])
    /\ UNCHANGED <<target, reg, job, stream, queue, dlq, accepted, envVars>>

should_retry(attempt) == attempt <= MaxRetry

\* What handle_delivery_failure decides before it writes anything.
AfterFailure(t) ==
    [t EXCEPT !.pc = "mark", !.out = IF should_retry(t.attempt) THEN "retrying" ELSE "failed"]

\* Mutant: the response's status is read the wrong way round.
deliver_webhook_inverted(t) ==
    /\ t.pc = "post"
    /\ accepted' = [accepted EXCEPT ![t.job] = @ + 1]
    /\ Step(t, AfterFailure(t))
    /\ UNCHANGED <<target, reg, job, stream, queue, dlq, envVars>>

\* The signed POST: taken, refused, or taken with the answer lost (timeout).
deliver_webhook(t) ==
    /\ t.pc = "post"
    /\ \/ /\ accepted' = [accepted EXCEPT ![t.job] = @ + 1]
          /\ Step(t, [t EXCEPT !.pc = "mark", !.out = "delivered"])
          /\ UNCHANGED lostReplies
       \/ /\ Step(t, AfterFailure(t))
          /\ UNCHANGED <<accepted, lostReplies>>
       \/ /\ lostReplies < MaxLostReplies
          /\ lostReplies' = lostReplies + 1
          /\ accepted' = [accepted EXCEPT ![t.job] = @ + 1]
          /\ Step(t, AfterFailure(t))
    /\ UNCHANGED <<target, reg, job, stream, queue, dlq, faults, dups, redrives>>

\* Mutant: a failed job is recorded without a dead letter.
mark_without_dlq(t) ==
    /\ t.pc = "mark"
    /\ job' = [job EXCEPT ![t.job].delivered = (t.out = "delivered"), ![t.job].ws = t.out]
    /\ Step(t, [t EXCEPT !.pc = IF t.out = "retrying" THEN "send" ELSE "ack"])
    /\ UNCHANGED <<target, reg, stream, queue, dlq, accepted, envVars>>

\* An unconditional update; it creates the item when the TTL has removed it,
\* and the stream reports it like any other write.
mark_delivery_state(t) ==
    LET old == job[t.job].status IN
    /\ t.pc = "mark"
    /\ job' = [job EXCEPT ![t.job] =
                [status |-> IF old = "terminal" THEN "terminal" ELSE "ghost",
                 delivered |-> t.out = "delivered", ws |-> t.out]]
    /\ stream' = stream \cup {[job |-> t.job, new |-> old = "terminal", old |-> old = "terminal",
                               delivered |-> t.out = "delivered", tries |-> 0]}
    /\ Step(t, [t EXCEPT !.pc = IF t.out \in {"retrying", "failed"} THEN "send" ELSE "ack"])
    /\ UNCHANGED <<target, reg, queue, dlq, accepted, envVars>>

\* Mutant: the message repeats the attempt's number.
enqueue_same_attempt(t) ==
    /\ t.pc = "send" /\ t.out = "retrying"
    /\ queue' = [queue EXCEPT ![t.job][t.attempt] = @ + 1]
    /\ Step(t, [t EXCEPT !.pc = "ack"])
    /\ UNCHANGED <<target, reg, job, stream, dlq, accepted, envVars>>

enqueue_retry(t) ==
    /\ t.pc = "send" /\ t.out = "retrying"
    /\ queue' = [queue EXCEPT ![t.job][t.attempt + 1] = @ + 1]
    /\ Step(t, [t EXCEPT !.pc = "ack"])
    /\ UNCHANGED <<target, reg, job, stream, dlq, accepted, envVars>>

send_to_dlq(t) ==
    /\ t.pc = "send" /\ t.out = "failed"
    /\ dlq' = [dlq EXCEPT ![t.job][t.attempt] = @ + 1]
    /\ Step(t, [t EXCEPT !.pc = "ack"])
    /\ UNCHANGED <<target, reg, job, stream, queue, accepted, envVars>>

\* The batch ends well: the stream moves on, SQS deletes the message.
Acknowledge(t) ==
    /\ t.pc = "ack"
    /\ tasks' = tasks \ {t}
    /\ UNCHANGED <<target, reg, job, stream, queue, dlq, accepted, envVars>>

-----------------------------------------------------------------------------
(* Failures. *)

\* A stream record's exception leaves the handler (and any record of its batch,
\* or a dead invocation, fails the ones already done): the record comes back
\* until its tries are used up, then it is dropped.
StreamBatchFails(t) ==
    /\ faults < MaxFaults
    /\ t.w = StreamWorker
    /\ tasks' = tasks \ {t}
    /\ stream' = IF t.tries + 1 < MaxStreamTries
                 THEN stream \cup {[job |-> t.job, new |-> TRUE, old |-> FALSE,
                                    delivered |-> FALSE, tries |-> t.tries + 1]}
                 ELSE stream
    /\ faults' = faults + 1
    /\ UNCHANGED <<target, reg, job, queue, dlq, accepted, dups, lostReplies, redrives>>

\* A retry's exception is caught and reported as a batch item failure.  The
\* event source mapping does not ask for partial batch responses, so SQS
\* deletes the message all the same.
RetryRaises(t) ==
    /\ faults < MaxFaults
    /\ t.w # StreamWorker
    /\ t.pc # "ack"
    /\ tasks' = tasks \ {t}
    /\ faults' = faults + 1
    /\ UNCHANGED <<target, reg, job, stream, queue, dlq, accepted, dups, lostReplies, redrives>>

\* An invocation that dies or times out never deletes its messages: at their
\* second receive (maxReceiveCount 1) SQS moves them to the DLQ.
RetryInvocationDies(t) ==
    /\ faults < MaxFaults
    /\ t.w # StreamWorker
    /\ tasks' = tasks \ {t}
    /\ dlq' = [dlq EXCEPT ![t.job][t.attempt] = @ + 1]
    /\ faults' = faults + 1
    /\ UNCHANGED <<target, reg, job, stream, queue, accepted, dups, lostReplies, redrives>>

-----------------------------------------------------------------------------

TaskStep(t) ==
    \/ check_registration(t)
    \/ deliver_webhook(t)
    \/ mark_delivery_state(t)
    \/ enqueue_retry(t)
    \/ send_to_dlq(t)
    \/ Acknowledge(t)

\* What the Lambda service does by itself.
Progress ==
    \/ FilterStreamRecord
    \/ process_stream_record
    \/ \E w \in RetryWorkers, j \in Jobs, a \in Attempts : process_retry_record(w, j, a)
    \/ \E t \in tasks : TaskStep(t)

Environment ==
    \/ \E j \in Jobs : JobReachesTerminal(j) \/ DeleteWebhook(j) \/ JobExpires(j)
    \/ \E j \in Jobs, a \in Attempts : DuplicateMessage(j, a) \/ Redrive(j, a)

Failure ==
    \E t \in tasks : StreamBatchFails(t) \/ RetryRaises(t) \/ RetryInvocationDies(t)

Next == Progress \/ Environment \/ Failure

Spec == Init /\ [][Next]_vars

\* Event source mappings poll for as long as there is something to read, and an
\* invocation runs to its end or dies: the service's own steps happen.
FairSpec == Spec /\ WF_vars(Progress)

-----------------------------------------------------------------------------
(* Properties. *)

TypeOK ==
    /\ target \in [Jobs -> Targets]
    /\ reg \in [Jobs -> RegStates]
    /\ job \in [Jobs -> JobItem]
    /\ stream \subseteq StreamRecord
    /\ queue \in [Jobs -> [Attempts -> Nat]]
    /\ dlq \in [Jobs -> [Attempts -> Nat]]
    /\ tasks \subseteq Task
    /\ accepted \in [Jobs -> Nat]
    /\ faults \in Nat /\ dups \in Nat /\ lostReplies \in Nat /\ redrives \in Nat

Trigger(j) == {r \in stream : r.job = j /\ should_process_stream_transition(r)}
TasksOf(j) == {t \in tasks : t.job = j}
Attempting(j) == {t \in tasks : t.job = j /\ t.pc # "ack"}
Queued(j) == {a \in Attempts : queue[j][a] > 0}
Live(j) == Trigger(j) # {} \/ TasksOf(j) # {} \/ Queued(j) # {}
Announced(j) == job[j].status = "terminal" /\ target[j] # "noUrl"

\* Nothing failed, nothing was delivered twice and nobody redrove a message.
Clean == faults = 0 /\ dups = 0 /\ redrives = 0

\* As long as nothing fails, a job has one delivery chain: a trigger, a running
\* attempt or a queued retry, never two of them (process_stream_record starts a
\* chain only on the transition, so the Lambda's own writes never start another;
\* a task hands over to the message it queues).
SingleChain ==
    Clean => \A j \in Jobs :
        /\ \A r \in Trigger(j), s \in Trigger(j) : r = s
        /\ \A t \in Attempting(j), u \in Attempting(j) : t = u
        /\ \A a \in Queued(j), b \in Queued(j) : a = b
        /\ \A a \in Attempts : queue[j][a] <= 1
        /\ Trigger(j) # {} => Attempting(j) = {} /\ Queued(j) = {}
        /\ Attempting(j) # {} => Queued(j) = {}

\* As long as nothing fails and no answer is lost, the endpoint takes a job's
\* event at most once.
AcceptedAtMostOnce ==
    Clean /\ lostReplies = 0 => \A j \in Jobs : accepted[j] <= 1

\* The bridge's get_job_status: what a tenant that polls a job is told of its
\* delivery.  An expired item is not found, a ghost has no status and reads
\* as a pending job.
get_job_status(j) ==
    [found                 |-> job[j].status # "expired",
     status                |-> IF job[j].status = "ghost" THEN "pending" ELSE job[j].status,
     webhookDelivered      |-> job[j].delivered,
     webhookDeliveryStatus |-> job[j].ws]

\* A tenant that polls a job is told that its webhook was delivered only when
\* the endpoint has taken the event, whatever fails and whatever an update
\* makes of an item that has expired.
DeliveredWasAccepted ==
    \A j \in Jobs : get_job_status(j).webhookDelivered => accepted[j] > 0

\* Every failure, duplicate and redrive adds at most one chain of MaxRetry + 1
\* attempts: the endpoint is never asked more often than that.
BoundedDeliveries ==
    \A j \in Jobs : accepted[j] <= (MaxRetry + 1) * (1 + faults + dups + redrives)

\* As long as no handler fails, a job to announce is delivered, skipped, failed
\* with a dead letter to show for it, or still being worked on.
NothingForgotten ==
    faults = 0 => \A j \in Jobs : Announced(j) =>
        \/ job[j].ws \in {"delivered", "skipped"}
        \/ job[j].ws = "failed" /\ \E a \in Attempts : dlq[j][a] > 0
        \/ Live(j)

\* As long as nothing fails, a step never withdraws webhook_delivered (only the
\* TTL, which removes the whole item).
DeliveredIsFinal ==
    [][\A j \in Jobs : Clean /\ job[j].delivered => job'[j].delivered \/ job'[j].status = "expired"]_vars

\* Deliveries end: whatever fails, the retries, the redeliveries and the Lambda's
\* own writes to the table it listens to do not feed each other for ever.
Drains == <>[](\A j \in Jobs : ~Live(j))

\* A job to announce is settled in the end, unless a handler failed.
EventuallySettled ==
    \A j \in Jobs : Announced(j) ~>
        (job[j].ws \in {"delivered", "skipped", "failed"} \/ faults > 0 \/ ~Announced(j))

\* What RUNBOOK-005 says: a delivery that did not work out is in the DLQ (once
\* nothing is pending for the job).
FailuresSurface ==
    \A j \in Jobs : Announced(j) /\ ~Live(j) =>
        \/ job[j].ws \in {"delivered", "skipped"}
        \/ \E a \in Attempts : dlq[j][a] > 0

=============================================================================
