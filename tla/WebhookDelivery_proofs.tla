------------------------ MODULE WebhookDelivery_proofs ------------------------
(***************************************************************************)
(* Theorems about WebhookDelivery, for any number of jobs, workers,        *)
(* retries, faults, duplicates, lost replies and redrives.                 *)
(***************************************************************************)
EXTENDS WebhookDelivery, SetFacts, TLAPS

-----------------------------------------------------------------------------
(* The parts of the inductive invariants. *)

\* What a task has decided fits the place it stopped at, and an attempt that will
\* be retried is not the last one.
TaskShape ==
    \A t \in tasks :
        /\ t.pc \in {"check", "post"} => t.out = "none"
        /\ t.pc = "send" => t.out \in {"retrying", "failed"}
        /\ t.out = "retrying" => t.attempt <= MaxRetry

\* Nothing is under way for a job that still runs.
RunningIsQuiet ==
    \A j \in Jobs : job[j].status = "running" =>
        /\ ~job[j].delivered /\ accepted[j] = 0
        /\ \A r \in stream : r.job # j
        /\ \A t \in tasks : t.job # j
        /\ \A a \in Attempts : queue[j][a] = 0 /\ dlq[j][a] = 0

\* A task says delivered only after the endpoint has taken the event.
TaskDeliveredWasAccepted ==
    \A t \in tasks : t.out = "delivered" => accepted[t.job] > 0

Waiting(r, j) == r.job = j /\ should_process_stream_transition(r)
Working(t, j) == t.job = j /\ t.pc # "ack"

\* The pairs SingleChain excludes, one by one.
OneChain(j) ==
    /\ \A r, s \in stream : Waiting(r, j) /\ Waiting(s, j) => r = s
    /\ \A t, u \in tasks : Working(t, j) /\ Working(u, j) => t = u
    /\ \A a, b \in Attempts : queue[j][a] > 0 /\ queue[j][b] > 0 => a = b
    /\ \A a \in Attempts : queue[j][a] <= 1
    /\ \A r \in stream, t \in tasks : ~(Waiting(r, j) /\ Working(t, j))
    /\ \A r \in stream, a \in Attempts : ~(Waiting(r, j) /\ queue[j][a] > 0)
    /\ \A t \in tasks, a \in Attempts : ~(Working(t, j) /\ queue[j][a] > 0)

Quiet(j) ==
    /\ \A r \in stream : ~Waiting(r, j)
    /\ \A t \in tasks : ~Working(t, j)
    /\ \A a \in Attempts : queue[j][a] = 0

ChainInv == Clean => \A j \in Jobs : OneChain(j)

\* The chain of a job marked delivered is over.
DeliveredEndsChain == Clean => \A j \in Jobs : job[j].delivered => Quiet(j)

\* Once the endpoint has taken the event, all that is left of the chain is the
\* task that is about to record it.
TakenOnce(j) ==
    /\ accepted[j] <= 1
    /\ accepted[j] > 0 =>
        /\ \A r \in stream : ~Waiting(r, j)
        /\ \A t \in tasks : Working(t, j) => t.out = "delivered"
        /\ \A a \in Attempts : queue[j][a] = 0

AcceptedOnce == Clean /\ lostReplies = 0 => \A j \in Jobs : TakenOnce(j)

\* The task is about to send its job's dead letter.
GivingUp(t, j) == t.job = j /\ t.pc = "send" /\ t.out = "failed"

\* Somebody is still to decide about the job: a task that only has a dead letter
\* left to send has decided already.
Undecided(j) ==
    \/ \E r \in stream : Waiting(r, j)
    \/ \E a \in Attempts : queue[j][a] > 0
    \/ \E t \in tasks : Working(t, j) /\ ~GivingUp(t, j)

\* NothingForgotten with the dead letter of a failed job on its way.
Kept(j) ==
    Announced(j) =>
        \/ job[j].ws \in {"delivered", "skipped"}
        \/ Undecided(j)
        \/ /\ job[j].ws = "failed"
           /\ \/ \E a \in Attempts : dlq[j][a] > 0
              \/ \E t \in tasks : GivingUp(t, j)

KeptInv == faults = 0 => \A j \in Jobs : Kept(j)

\* What is recorded was decided, and the two attributes of an item agree.
MarkInv ==
    /\ \A t \in tasks : t.pc = "mark" => t.out # "none"
    /\ \A j \in Jobs : job[j].delivered => job[j].ws = "delivered"

BaseInv == TypeOK /\ TaskShape /\ RunningIsQuiet

-----------------------------------------------------------------------------
(* Tasks and how they move. *)

\* u is what t becomes.
Becomes(t, u) ==
    /\ u \in Task /\ u.job = t.job /\ u.attempt = t.attempt
    /\ tasks' = (tasks \ {t}) \cup {u}

\* What u and the step look like, for each step of a task.
CheckOutcome(t, u) ==
    /\ Becomes(t, u)
    /\ \/ u.pc = "post" /\ u.out = t.out
       \/ u.pc = "mark" /\ u.out \in {"failed", "skipped"}
DeliverOutcome(t, u) ==
    /\ Becomes(t, u) /\ u.pc = "mark"
    /\ \/ /\ u.out = "delivered" /\ lostReplies' = lostReplies
          /\ accepted' = [accepted EXCEPT ![t.job] = @ + 1]
       \/ /\ \/ u.out = "retrying" /\ u.attempt <= MaxRetry
             \/ u.out = "failed"
          /\ \/ accepted' = accepted /\ lostReplies' = lostReplies
             \/ /\ accepted' = [accepted EXCEPT ![t.job] = @ + 1]
                /\ lostReplies' = lostReplies + 1
MarkOutcome(t, u) ==
    /\ Becomes(t, u) /\ u.out = t.out
    /\ u.pc = IF t.out \in {"retrying", "failed"} THEN "send" ELSE "ack"
SendOutcome(t, u) == Becomes(t, u) /\ u.out = t.out /\ u.pc = "ack"
StartOutcome(u) ==
    /\ u \in Task /\ tasks' = tasks \cup {u}
    /\ u.out = "none" \/ (u.out = "failed" /\ u.pc = "mark")
    /\ u.pc \in {"check", "mark", "ack"}
    /\ u.pc = "mark" => u.out = "failed"

\* check_registration goes on to the POST, or to recording why there is none.
LEMMA CheckMoves ==
    ASSUME TypeOK, NEW t \in tasks, check_registration(t)
    PROVE \E u : CheckOutcome(t, u)
<1>0. t \in Task
  BY DEF TypeOK
<1> DEFINE f == [t EXCEPT !.pc = "mark", !.out = "failed"]
           k == [t EXCEPT !.pc = "mark", !.out = "skipped"]
           q == [t EXCEPT !.pc = "post"]
<1>1. /\ f \in Task /\ f.job = t.job /\ f.attempt = t.attempt /\ f.pc = "mark" /\ f.out = "failed"
      /\ k \in Task /\ k.job = t.job /\ k.attempt = t.attempt /\ k.pc = "mark" /\ k.out = "skipped"
      /\ q \in Task /\ q.job = t.job /\ q.attempt = t.attempt /\ q.pc = "post" /\ q.out = t.out
  BY <1>0 DEF Task, PCs, DeliveryStatus
<1>2. Step(t, f) \/ Step(t, k) \/ Step(t, q)
  BY DEF check_registration
<1> HIDE DEF f, k, q
<1> QED
  BY <1>1, <1>2 DEF CheckOutcome, Becomes, Step

\* deliver_webhook: taken, taken with the answer lost, or refused.
LEMMA DeliverMoves ==
    ASSUME TypeOK, NEW t \in tasks, deliver_webhook(t)
    PROVE \E u : DeliverOutcome(t, u)
<1>0. t \in Task
  BY DEF TypeOK
<1> DEFINE d == [t EXCEPT !.pc = "mark", !.out = "delivered"]
           f == AfterFailure(t)
<1>1. d \in Task /\ d.job = t.job /\ d.attempt = t.attempt /\ d.pc = "mark" /\ d.out = "delivered"
  BY <1>0 DEF Task, PCs, DeliveryStatus
<1>2. /\ f \in Task /\ f.job = t.job /\ f.attempt = t.attempt /\ f.pc = "mark"
      /\ f.out = IF should_retry(t.attempt) THEN "retrying" ELSE "failed"
  BY <1>0 DEF Task, PCs, DeliveryStatus, AfterFailure
<1>3. \/ Step(t, d) /\ accepted' = [accepted EXCEPT ![t.job] = @ + 1] /\ lostReplies' = lostReplies
      \/ Step(t, f) /\ accepted' = accepted /\ lostReplies' = lostReplies
      \/ /\ Step(t, f) /\ accepted' = [accepted EXCEPT ![t.job] = @ + 1]
         /\ lostReplies' = lostReplies + 1
  BY DEF deliver_webhook
<1> HIDE DEF d, f
<1> QED
  BY <1>1, <1>2, <1>3 DEF DeliverOutcome, Becomes, Step, should_retry

\* mark_delivery_state goes on to send a message, or is done.
LEMMA MarkMoves ==
    ASSUME TypeOK, NEW t \in tasks, mark_delivery_state(t)
    PROVE \E u : MarkOutcome(t, u)
<1>0. t \in Task
  BY DEF TypeOK
<1> DEFINE u == [t EXCEPT !.pc = IF t.out \in {"retrying", "failed"} THEN "send" ELSE "ack"]
<1>1. /\ u \in Task /\ u.job = t.job /\ u.attempt = t.attempt /\ u.out = t.out
      /\ u.pc = IF t.out \in {"retrying", "failed"} THEN "send" ELSE "ack"
  BY <1>0 DEF Task, PCs, DeliveryStatus
<1>2. Step(t, u)
  BY DEF mark_delivery_state
<1> HIDE DEF u
<1> QED
  BY <1>1, <1>2 DEF MarkOutcome, Becomes, Step

\* A message sent, the task is done.
LEMMA SendMoves ==
    ASSUME TypeOK, NEW t \in tasks, enqueue_retry(t) \/ send_to_dlq(t)
    PROVE \E u : SendOutcome(t, u)
<1>0. t \in Task
  BY DEF TypeOK
<1> DEFINE u == [t EXCEPT !.pc = "ack"]
<1>1. u \in Task /\ u.job = t.job /\ u.attempt = t.attempt /\ u.out = t.out /\ u.pc = "ack"
  BY <1>0 DEF Task, PCs, DeliveryStatus
<1>2. Step(t, u)
  BY DEF enqueue_retry, send_to_dlq
<1> HIDE DEF u
<1> QED
  BY <1>1, <1>2 DEF SendOutcome, Becomes, Step

\* attempt_delivery makes a task of its job, undecided or failed.
LEMMA AttemptIsTask ==
    ASSUME NEW w \in Workers, NEW j \in Jobs, NEW a \in Attempts, NEW d \in BOOLEAN,
           NEW n \in 0 .. (MaxStreamTries - 1)
    PROVE LET u == attempt_delivery(w, j, a, d, n) IN
          /\ u \in Task /\ u.job = j /\ u.attempt = a
          /\ u.out = "none" \/ (u.out = "failed" /\ u.pc = "mark")
          /\ u.pc \in {"check", "mark", "ack"}
          /\ u.pc = "mark" => u.out = "failed"
          /\ target[j] # "noUrl" /\ ~d => u.pc # "ack"
<1> DEFINE u == attempt_delivery(w, j, a, d, n)
<1>1. u \in Task
  BY DEF attempt_delivery, Task, PCs, DeliveryStatus
<1>2. u.job = j /\ u.attempt = a
  BY DEF attempt_delivery
<1>3. CASE d = TRUE
  BY <1>1, <1>2, <1>3 DEF attempt_delivery
<1>4. CASE d = FALSE
  BY <1>1, <1>2, <1>4 DEF attempt_delivery
<1> QED
  BY <1>3, <1>4

\* process_stream_record turns a waiting record into a task of its job.
LEMMA StreamMoves ==
    ASSUME TypeOK, process_stream_record
    PROVE \E r \in stream, u \in Task :
            /\ Waiting(r, u.job) /\ stream' = stream \ {r}
            /\ StartOutcome(u) /\ u.pc # "ack"
<1>1. PICK r \in stream :
        /\ should_process_stream_transition(r)
        /\ stream' = stream \ {r}
        /\ tasks' = tasks \cup {attempt_delivery(StreamWorker, r.job, 1, r.delivered, r.tries)}
  BY DEF process_stream_record
<1> DEFINE u == attempt_delivery(StreamWorker, r.job, 1, r.delivered, r.tries)
<1>2. /\ r.job \in Jobs /\ r.delivered \in BOOLEAN /\ r.tries \in 0 .. (MaxStreamTries - 1)
      /\ StreamWorker \in Workers /\ 1 \in Attempts
  BY BoundsAssumption DEF TypeOK, StreamRecord, Workers, Attempts
<1>a. target[r.job] # "noUrl" /\ ~r.delivered
  BY <1>1 DEF should_process_stream_transition
<1>3. /\ u \in Task /\ u.job = r.job
      /\ u.out = "none" \/ (u.out = "failed" /\ u.pc = "mark")
      /\ u.pc \in {"check", "mark", "ack"}
      /\ u.pc = "mark" => u.out = "failed"
      /\ u.pc # "ack"
  BY <1>2, <1>a, AttemptIsTask
<1>4. stream' = stream \ {r} /\ tasks' = tasks \cup {u}
  BY <1>1
<1> HIDE DEF u
<1> QED
  BY <1>1, <1>3, <1>4 DEF Waiting, StartOutcome

\* process_retry_record turns a message into a task of its job.
LEMMA RetryMoves ==
    ASSUME TypeOK, NEW w \in RetryWorkers, NEW j \in Jobs, NEW a \in Attempts,
           process_retry_record(w, j, a)
    PROVE \E u \in Task :
            /\ u.job = j /\ u.attempt = a /\ StartOutcome(u)
            /\ Announced(j) /\ ~job[j].delivered => u.pc # "ack"
<1> DEFINE v == attempt_delivery(w, j, a, job[j].delivered, 0)
           n == [w |-> w, job |-> j, attempt |-> a, pc |-> "ack", out |-> "none", tries |-> 0]
           u == IF job[j].status = "terminal" THEN v ELSE n
<1>1. w \in Workers /\ job[j].delivered \in BOOLEAN /\ 0 \in 0 .. (MaxStreamTries - 1)
  BY BoundsAssumption DEF TypeOK, JobItem, Workers
<1>2. /\ v \in Task /\ v.job = j /\ v.attempt = a
      /\ v.out = "none" \/ (v.out = "failed" /\ v.pc = "mark")
      /\ v.pc \in {"check", "mark", "ack"}
      /\ v.pc = "mark" => v.out = "failed"
      /\ target[j] # "noUrl" /\ ~job[j].delivered => v.pc # "ack"
  BY <1>1, AttemptIsTask
<1>3. n \in Task
  BY <1>1 DEF Task, PCs, DeliveryStatus
<1>4. n.job = j /\ n.attempt = a /\ n.out = "none" /\ n.pc = "ack"
  OBVIOUS
<1>5. tasks' = tasks \cup {u}
  BY DEF process_retry_record
<1> HIDE DEF v, n
<1> QED
  BY <1>2, <1>3, <1>4, <1>5 DEF StartOutcome, Announced

\* Tries start at 0.
LEMMA FirstTry == 0 \in 0 .. (MaxStreamTries - 1)
  BY BoundsAssumption

-----------------------------------------------------------------------------
(* Types. *)

\* One step keeps the types.
LEMMA TypeStep == TypeOK /\ TaskShape /\ [Next]_vars => TypeOK'
<1> SUFFICES ASSUME TypeOK, TaskShape, [Next]_vars PROVE TypeOK'
  OBVIOUS
<1> USE BoundsAssumption
<1>1. ASSUME NEW j \in Jobs, JobReachesTerminal(j) PROVE TypeOK'
  <2>1. job' \in [Jobs -> JobItem]
    BY <1>1 DEF JobReachesTerminal, TypeOK, JobItem, JobStatus
  <2>2. [job |-> j, new |-> TRUE, old |-> FALSE, delivered |-> FALSE, tries |-> 0]
          \in StreamRecord
    BY FirstTry DEF StreamRecord
  <2>3. stream' \subseteq StreamRecord
    BY <1>1, <2>2 DEF JobReachesTerminal, TypeOK
  <2> QED
    BY <1>1, <2>1, <2>3 DEF JobReachesTerminal, TypeOK, envVars
<1>2. ASSUME NEW j \in Jobs, DeleteWebhook(j) PROVE TypeOK'
  BY <1>2 DEF DeleteWebhook, TypeOK, RegStates, envVars
<1>3. ASSUME NEW j \in Jobs, JobExpires(j) PROVE TypeOK'
  BY <1>3 DEF JobExpires, TypeOK, JobItem, JobStatus, DeliveryStatus, envVars
<1>4. ASSUME NEW j \in Jobs, NEW a \in Attempts, DuplicateMessage(j, a) PROVE TypeOK'
  BY <1>4 DEF DuplicateMessage, TypeOK
<1>5. ASSUME NEW j \in Jobs, NEW a \in Attempts, Redrive(j, a) PROVE TypeOK'
  BY <1>5 DEF Redrive, TypeOK
<1>6. CASE FilterStreamRecord
  BY <1>6 DEF FilterStreamRecord, TypeOK, envVars
<1>7. CASE process_stream_record
  <2>1. PICK r \in stream, u \in Task :
          Waiting(r, u.job) /\ stream' = stream \ {r} /\ StartOutcome(u)
    BY <1>7, StreamMoves
  <2> QED
    BY <1>7, <2>1 DEF process_stream_record, StartOutcome, Waiting, TypeOK, envVars
<1>8. ASSUME NEW w \in RetryWorkers, NEW j \in Jobs, NEW a \in Attempts,
            process_retry_record(w, j, a)
     PROVE TypeOK'
  <2>1. PICK u \in Task : u.job = j /\ StartOutcome(u)
    BY <1>8, RetryMoves
  <2> QED
    BY <1>8, <2>1 DEF process_retry_record, StartOutcome, TypeOK, envVars
<1>9. ASSUME NEW t \in tasks, check_registration(t) PROVE TypeOK'
  <2>1. PICK u : CheckOutcome(t, u)
    BY <1>9, CheckMoves
  <2> QED
    BY <1>9, <2>1 DEF check_registration, CheckOutcome, Becomes, TypeOK, envVars
<1>10. ASSUME NEW t \in tasks, deliver_webhook(t) PROVE TypeOK'
  <2>1. PICK u : DeliverOutcome(t, u)
    BY <1>10, DeliverMoves
  <2>2. accepted' \in [Jobs -> Nat] /\ lostReplies' \in Nat
    BY <1>10 DEF deliver_webhook, TypeOK
  <2> QED
    BY <1>10, <2>1, <2>2 DEF deliver_webhook, DeliverOutcome, Becomes, TypeOK
<1>11. ASSUME NEW t \in tasks, mark_delivery_state(t) PROVE TypeOK'
  <2>1. PICK u : MarkOutcome(t, u)
    BY <1>11, MarkMoves
  <2>2. t.job \in Jobs /\ t.out \in DeliveryStatus
    BY DEF TypeOK, Task
  <2>3. job' \in [Jobs -> JobItem]
    BY <1>11, <2>2 DEF mark_delivery_state, TypeOK, JobItem, JobStatus
  <2>4. ASSUME NEW o \in BOOLEAN, NEW d \in BOOLEAN
        PROVE [job |-> t.job, new |-> o, old |-> o, delivered |-> d, tries |-> 0]
                  \in StreamRecord
    BY <2>2, FirstTry DEF StreamRecord
  <2>5. stream' \subseteq StreamRecord
    BY <1>11, <2>4 DEF mark_delivery_state, TypeOK
  <2> QED
    BY <1>11, <2>1, <2>3, <2>5 DEF mark_delivery_state, MarkOutcome, Becomes, TypeOK, envVars
<1>12. ASSUME NEW t \in tasks, enqueue_retry(t) PROVE TypeOK'
  <2>1. PICK u : SendOutcome(t, u)
    BY <1>12, SendMoves
  <2>2. t.job \in Jobs /\ t.attempt \in Attempts /\ t.attempt <= MaxRetry
    BY <1>12 DEF enqueue_retry, TypeOK, TaskShape, Task
  <2>3. t.attempt + 1 \in Attempts
    BY <2>2 DEF Attempts
  <2>4. queue' \in [Jobs -> [Attempts -> Nat]]
    BY <1>12, <2>2, <2>3 DEF enqueue_retry, TypeOK
  <2> QED
    BY <1>12, <2>1, <2>4 DEF enqueue_retry, SendOutcome, Becomes, TypeOK, envVars
<1>13. ASSUME NEW t \in tasks, send_to_dlq(t) PROVE TypeOK'
  <2>1. PICK u : SendOutcome(t, u)
    BY <1>13, SendMoves
  <2>2. dlq' \in [Jobs -> [Attempts -> Nat]]
    BY <1>13 DEF send_to_dlq, TypeOK, Task
  <2> QED
    BY <1>13, <2>1, <2>2 DEF send_to_dlq, SendOutcome, Becomes, TypeOK, envVars
<1>14. ASSUME NEW t \in tasks, Acknowledge(t) PROVE TypeOK'
  BY <1>14 DEF Acknowledge, TypeOK, envVars
<1>15. ASSUME NEW t \in tasks, StreamBatchFails(t) PROVE TypeOK'
  <2>1. t.job \in Jobs /\ t.tries \in Nat
    BY DEF TypeOK, Task
  <2>2. t.tries + 1 < MaxStreamTries =>
          [job |-> t.job, new |-> TRUE, old |-> FALSE, delivered |-> FALSE,
           tries |-> t.tries + 1] \in StreamRecord
    BY <2>1 DEF StreamRecord
  <2>3. stream' \subseteq StreamRecord
    BY <1>15, <2>2 DEF StreamBatchFails, TypeOK
  <2> QED
    BY <1>15, <2>3 DEF StreamBatchFails, TypeOK
<1>16. ASSUME NEW t \in tasks, RetryRaises(t) PROVE TypeOK'
  BY <1>16 DEF RetryRaises, TypeOK
<1>17. ASSUME NEW t \in tasks, RetryInvocationDies(t) PROVE TypeOK'
  BY <1>17 DEF RetryInvocationDies, TypeOK, Task
<1>18. CASE UNCHANGED vars
  BY <1>18 DEF vars, envVars, TypeOK
<1> QED
  BY <1>1, <1>2, <1>3, <1>4, <1>5, <1>6, <1>7, <1>8, <1>9, <1>10, <1>11, <1>12,
     <1>13, <1>14, <1>15, <1>16, <1>17, <1>18
  DEF Next, Progress, TaskStep, Environment, Failure

\* One step keeps what a task's place says of its decision: only an attempt
\* that is not the last one ever decides to be retried.
LEMMA ShapeStep == TypeOK /\ TaskShape /\ [Next]_vars => TaskShape'
<1> SUFFICES ASSUME TypeOK, TaskShape, [Next]_vars PROVE TaskShape'
  OBVIOUS
<1>1. ASSUME NEW j \in Jobs, JobReachesTerminal(j) PROVE TaskShape'
  BY <1>1 DEF JobReachesTerminal, TaskShape
<1>2. ASSUME NEW j \in Jobs, DeleteWebhook(j) PROVE TaskShape'
  BY <1>2 DEF DeleteWebhook, TaskShape
<1>3. ASSUME NEW j \in Jobs, JobExpires(j) PROVE TaskShape'
  BY <1>3 DEF JobExpires, TaskShape
<1>4. ASSUME NEW j \in Jobs, NEW a \in Attempts, DuplicateMessage(j, a) PROVE TaskShape'
  BY <1>4 DEF DuplicateMessage, TaskShape
<1>5. ASSUME NEW j \in Jobs, NEW a \in Attempts, Redrive(j, a) PROVE TaskShape'
  BY <1>5 DEF Redrive, TaskShape
<1>6. CASE FilterStreamRecord
  BY <1>6 DEF FilterStreamRecord, TaskShape
<1>7. CASE process_stream_record
  <2>1. PICK r \in stream, u \in Task :
          Waiting(r, u.job) /\ stream' = stream \ {r} /\ StartOutcome(u)
    BY <1>7, StreamMoves
  <2> QED
    BY <1>7, <2>1 DEF process_stream_record, StartOutcome, Waiting, TaskShape
<1>8. ASSUME NEW w \in RetryWorkers, NEW j \in Jobs, NEW a \in Attempts,
            process_retry_record(w, j, a)
     PROVE TaskShape'
  <2>1. PICK u \in Task : u.job = j /\ StartOutcome(u)
    BY <1>8, RetryMoves
  <2> QED
    BY <1>8, <2>1 DEF process_retry_record, StartOutcome, TaskShape
<1>9. ASSUME NEW t \in tasks, check_registration(t) PROVE TaskShape'
  <2>1. PICK u : CheckOutcome(t, u)
    BY <1>9, CheckMoves
  <2> QED
    BY <1>9, <2>1 DEF check_registration, CheckOutcome, Becomes, TaskShape
<1>10. ASSUME NEW t \in tasks, deliver_webhook(t) PROVE TaskShape'
  <2>1. PICK u : DeliverOutcome(t, u)
    BY <1>10, DeliverMoves
  <2> QED
    BY <1>10, <2>1 DEF deliver_webhook, DeliverOutcome, Becomes, TaskShape
<1>11. ASSUME NEW t \in tasks, mark_delivery_state(t) PROVE TaskShape'
  <2>1. PICK u : MarkOutcome(t, u)
    BY <1>11, MarkMoves
  <2> QED
    BY <1>11, <2>1 DEF mark_delivery_state, MarkOutcome, Becomes, TaskShape
<1>12. ASSUME NEW t \in tasks, enqueue_retry(t) PROVE TaskShape'
  <2>1. PICK u : SendOutcome(t, u)
    BY <1>12, SendMoves
  <2> QED
    BY <1>12, <2>1 DEF enqueue_retry, SendOutcome, Becomes, TaskShape
<1>13. ASSUME NEW t \in tasks, send_to_dlq(t) PROVE TaskShape'
  <2>1. PICK u : SendOutcome(t, u)
    BY <1>13, SendMoves
  <2> QED
    BY <1>13, <2>1 DEF send_to_dlq, SendOutcome, Becomes, TaskShape
<1>14. ASSUME NEW t \in tasks, Acknowledge(t) PROVE TaskShape'
  BY <1>14 DEF Acknowledge, TaskShape
<1>15. ASSUME NEW t \in tasks, StreamBatchFails(t) PROVE TaskShape'
  BY <1>15 DEF StreamBatchFails, TaskShape
<1>16. ASSUME NEW t \in tasks, RetryRaises(t) PROVE TaskShape'
  BY <1>16 DEF RetryRaises, TaskShape
<1>17. ASSUME NEW t \in tasks, RetryInvocationDies(t) PROVE TaskShape'
  BY <1>17 DEF RetryInvocationDies, TaskShape
<1>18. CASE UNCHANGED vars
  BY <1>18 DEF vars, TaskShape
<1> QED
  BY <1>1, <1>2, <1>3, <1>4, <1>5, <1>6, <1>7, <1>8, <1>9, <1>10, <1>11, <1>12,
     <1>13, <1>14, <1>15, <1>16, <1>17, <1>18
  DEF Next, Progress, TaskStep, Environment, Failure

\* One step starts nothing for a job that still runs.
LEMMA QuietStep == BaseInv /\ [Next]_vars => RunningIsQuiet'
<1> SUFFICES ASSUME TypeOK, TaskShape, RunningIsQuiet, [Next]_vars PROVE RunningIsQuiet'
  BY DEF BaseInv
<1>1. ASSUME NEW j \in Jobs, JobReachesTerminal(j) PROVE RunningIsQuiet'
  BY <1>1 DEF JobReachesTerminal, RunningIsQuiet, TypeOK
<1>2. ASSUME NEW j \in Jobs, DeleteWebhook(j) PROVE RunningIsQuiet'
  BY <1>2 DEF DeleteWebhook, RunningIsQuiet, TypeOK
<1>3. ASSUME NEW j \in Jobs, JobExpires(j) PROVE RunningIsQuiet'
  BY <1>3 DEF JobExpires, RunningIsQuiet, TypeOK
<1>4. ASSUME NEW j \in Jobs, NEW a \in Attempts,
            DuplicateMessage(j, a)
     PROVE RunningIsQuiet'
  BY <1>4 DEF DuplicateMessage, RunningIsQuiet, TypeOK
<1>5. ASSUME NEW j \in Jobs, NEW a \in Attempts, Redrive(j, a) PROVE RunningIsQuiet'
  BY <1>5 DEF Redrive, RunningIsQuiet, TypeOK
<1>6. CASE FilterStreamRecord
  BY <1>6 DEF FilterStreamRecord, RunningIsQuiet, TypeOK
<1>7. CASE process_stream_record
  <2>1. PICK r \in stream, u \in Task :
          Waiting(r, u.job) /\ stream' = stream \ {r} /\ StartOutcome(u)
    BY <1>7, StreamMoves
  <2> QED
    BY <1>7, <2>1 DEF process_stream_record, StartOutcome, Waiting, RunningIsQuiet
<1>8. ASSUME NEW w \in RetryWorkers, NEW j \in Jobs, NEW a \in Attempts,
            process_retry_record(w, j, a)
     PROVE RunningIsQuiet'
  <2>1. PICK u \in Task : u.job = j /\ StartOutcome(u)
    BY <1>8, RetryMoves
  <2> QED
    BY <1>8, <2>1 DEF process_retry_record, StartOutcome, RunningIsQuiet, TypeOK, Task
<1>9. ASSUME NEW t \in tasks, check_registration(t) PROVE RunningIsQuiet'
  <2>1. PICK u : CheckOutcome(t, u)
    BY <1>9, CheckMoves
  <2> QED
    BY <1>9, <2>1 DEF check_registration, CheckOutcome, Becomes, RunningIsQuiet
<1>10. ASSUME NEW t \in tasks, deliver_webhook(t) PROVE RunningIsQuiet'
  <2>1. PICK u : DeliverOutcome(t, u)
    BY <1>10, DeliverMoves
  <2>2. t.job \in Jobs /\ job[t.job].status # "running"
    BY DEF RunningIsQuiet, TypeOK, Task
  <2>3. \A j \in Jobs \ {t.job} : accepted'[j] = accepted[j]
    BY <2>1 DEF DeliverOutcome, TypeOK
  <2> QED
    BY <1>10, <2>1, <2>2, <2>3 DEF deliver_webhook, DeliverOutcome, Becomes, RunningIsQuiet
<1>11. ASSUME NEW t \in tasks, mark_delivery_state(t) PROVE RunningIsQuiet'
  <2>1. PICK u : MarkOutcome(t, u)
    BY <1>11, MarkMoves
  <2> QED
    BY <1>11, <2>1 DEF mark_delivery_state, MarkOutcome, Becomes, RunningIsQuiet, TypeOK, Task
<1>12. ASSUME NEW t \in tasks, enqueue_retry(t) PROVE RunningIsQuiet'
  <2>1. PICK u : SendOutcome(t, u)
    BY <1>12, SendMoves
  <2> QED
    BY <1>12, <2>1 DEF enqueue_retry, SendOutcome, Becomes, RunningIsQuiet, TypeOK, Task
<1>13. ASSUME NEW t \in tasks, send_to_dlq(t) PROVE RunningIsQuiet'
  <2>1. PICK u : SendOutcome(t, u)
    BY <1>13, SendMoves
  <2> QED
    BY <1>13, <2>1 DEF send_to_dlq, SendOutcome, Becomes, RunningIsQuiet, TypeOK, Task
<1>14. ASSUME NEW t \in tasks, Acknowledge(t) PROVE RunningIsQuiet'
  BY <1>14 DEF Acknowledge, RunningIsQuiet, TypeOK
<1>15. ASSUME NEW t \in tasks, StreamBatchFails(t) PROVE RunningIsQuiet'
  BY <1>15 DEF StreamBatchFails, RunningIsQuiet, TypeOK, Task
<1>16. ASSUME NEW t \in tasks, RetryRaises(t) PROVE RunningIsQuiet'
  BY <1>16 DEF RetryRaises, RunningIsQuiet, TypeOK
<1>17. ASSUME NEW t \in tasks, RetryInvocationDies(t) PROVE RunningIsQuiet'
  BY <1>17 DEF RetryInvocationDies, RunningIsQuiet, TypeOK, Task
<1>18. CASE UNCHANGED vars
  BY <1>18 DEF vars, RunningIsQuiet
<1> QED
  BY <1>1, <1>2, <1>3, <1>4, <1>5, <1>6, <1>7, <1>8, <1>9, <1>10, <1>11, <1>12,
     <1>13, <1>14, <1>15, <1>16, <1>17, <1>18
  DEF Next, Progress, TaskStep, Environment, Failure

\* BaseInv is inductive.
LEMMA BaseInvariant == Spec => []BaseInv
<1>1. Init => BaseInv
  BY BoundsAssumption DEF Init, BaseInv, TypeOK, TaskShape, RunningIsQuiet, NoMessages, JobItem,
                          JobStatus, DeliveryStatus
<1>2. BaseInv /\ [Next]_vars => BaseInv'
  BY TypeStep, ShapeStep, QuietStep DEF BaseInv
<1> QED
  BY <1>1, <1>2, PTL DEF Spec

\* The state keeps its types: process_retry_record, enqueue_retry and
\* StreamBatchFails never leave the attempts and tries the code allows.
THEOREM TypeCorrect == Spec => []TypeOK
<1>1. BaseInv => TypeOK
  BY DEF BaseInv
<1> QED
  BY <1>1, BaseInvariant, PTL

-----------------------------------------------------------------------------
(* webhook_delivered is only written after the endpoint took the event. *)

\* One step keeps the two halves: what a task has in hand and what is recorded.
LEMMA DeliveredStep ==
    BaseInv /\ TaskDeliveredWasAccepted /\ DeliveredWasAccepted /\ [Next]_vars
        => TaskDeliveredWasAccepted' /\ DeliveredWasAccepted'
<1> USE DEF get_job_status
<1> SUFFICES ASSUME TypeOK, TaskDeliveredWasAccepted, DeliveredWasAccepted, [Next]_vars
             PROVE TaskDeliveredWasAccepted' /\ DeliveredWasAccepted'
  BY DEF BaseInv
<1>1. ASSUME NEW j \in Jobs,
            JobReachesTerminal(j)
     PROVE TaskDeliveredWasAccepted' /\ DeliveredWasAccepted'
  BY <1>1 DEF JobReachesTerminal, TaskDeliveredWasAccepted, DeliveredWasAccepted, TypeOK
<1>2. ASSUME NEW j \in Jobs,
            DeleteWebhook(j)
     PROVE TaskDeliveredWasAccepted' /\ DeliveredWasAccepted'
  BY <1>2 DEF DeleteWebhook, TaskDeliveredWasAccepted, DeliveredWasAccepted, TypeOK
<1>3. ASSUME NEW j \in Jobs,
            JobExpires(j)
     PROVE TaskDeliveredWasAccepted' /\ DeliveredWasAccepted'
  BY <1>3 DEF JobExpires, TaskDeliveredWasAccepted, DeliveredWasAccepted, TypeOK
<1>4. ASSUME NEW j \in Jobs, NEW a \in Attempts,
            DuplicateMessage(j, a)
     PROVE TaskDeliveredWasAccepted' /\ DeliveredWasAccepted'
  BY <1>4 DEF DuplicateMessage, TaskDeliveredWasAccepted, DeliveredWasAccepted, TypeOK
<1>5. ASSUME NEW j \in Jobs, NEW a \in Attempts,
            Redrive(j, a)
     PROVE TaskDeliveredWasAccepted' /\ DeliveredWasAccepted'
  BY <1>5 DEF Redrive, TaskDeliveredWasAccepted, DeliveredWasAccepted, TypeOK
<1>6. CASE FilterStreamRecord
  BY <1>6 DEF FilterStreamRecord, TaskDeliveredWasAccepted, DeliveredWasAccepted, TypeOK
<1>7. CASE process_stream_record
  <2>1. PICK r \in stream, u \in Task :
          Waiting(r, u.job) /\ stream' = stream \ {r} /\ StartOutcome(u)
    BY <1>7, StreamMoves
  <2> QED
    BY <1>7, <2>1
    DEF process_stream_record, StartOutcome, Waiting, TaskDeliveredWasAccepted,
        DeliveredWasAccepted, TypeOK
<1>8. ASSUME NEW w \in RetryWorkers, NEW j \in Jobs, NEW a \in Attempts,
            process_retry_record(w, j, a)
     PROVE TaskDeliveredWasAccepted' /\ DeliveredWasAccepted'
  <2>1. PICK u \in Task : u.job = j /\ StartOutcome(u)
    BY <1>8, RetryMoves
  <2> QED
    BY <1>8, <2>1
    DEF process_retry_record, StartOutcome, TaskDeliveredWasAccepted, DeliveredWasAccepted,
        TypeOK
<1>9. ASSUME NEW t \in tasks,
            check_registration(t)
     PROVE TaskDeliveredWasAccepted' /\ DeliveredWasAccepted'
  <2>1. PICK u : CheckOutcome(t, u)
    BY <1>9, CheckMoves
  <2> QED
    BY <1>9, <2>1
    DEF check_registration, CheckOutcome, Becomes, TaskDeliveredWasAccepted,
        DeliveredWasAccepted, TypeOK
<1>10. ASSUME NEW t \in tasks,
            deliver_webhook(t)
     PROVE TaskDeliveredWasAccepted' /\ DeliveredWasAccepted'
  <2>1. PICK u : DeliverOutcome(t, u)
    BY <1>10, DeliverMoves
  <2>2. t.job \in Jobs
    BY DEF TypeOK, Task
  <2>3. accepted[t.job] \in Nat
    BY <2>2 DEF TypeOK
  <2>4. u.out = "delivered" => accepted'[t.job] > 0
    BY <2>1, <2>2, <2>3 DEF DeliverOutcome, TypeOK
  <2>5. \A i \in Jobs : accepted[i] > 0 => accepted'[i] > 0
    BY <2>1, <2>2, <2>3 DEF DeliverOutcome, TypeOK
  <2>6. \A v \in tasks : v.job \in Jobs
    BY DEF TypeOK, Task
  <2> QED
    BY <1>10, <2>1, <2>4, <2>5, <2>6
    DEF deliver_webhook, DeliverOutcome, Becomes, TaskDeliveredWasAccepted, DeliveredWasAccepted
<1>11. ASSUME NEW t \in tasks,
            mark_delivery_state(t)
     PROVE TaskDeliveredWasAccepted' /\ DeliveredWasAccepted'
  <2>1. PICK u : MarkOutcome(t, u)
    BY <1>11, MarkMoves
  <2> QED
    BY <1>11, <2>1
    DEF mark_delivery_state, MarkOutcome, Becomes, TaskDeliveredWasAccepted,
        DeliveredWasAccepted, TypeOK
<1>12. ASSUME NEW t \in tasks,
            enqueue_retry(t)
     PROVE TaskDeliveredWasAccepted' /\ DeliveredWasAccepted'
  <2>1. PICK u : SendOutcome(t, u)
    BY <1>12, SendMoves
  <2> QED
    BY <1>12, <2>1
    DEF enqueue_retry, SendOutcome, Becomes, TaskDeliveredWasAccepted, DeliveredWasAccepted,
        TypeOK
<1>13. ASSUME NEW t \in tasks,
            send_to_dlq(t)
     PROVE TaskDeliveredWasAccepted' /\ DeliveredWasAccepted'
  <2>1. PICK u : SendOutcome(t, u)
    BY <1>13, SendMoves
  <2> QED
    BY <1>13, <2>1
    DEF send_to_dlq, SendOutcome, Becomes, TaskDeliveredWasAccepted, DeliveredWasAccepted,
        TypeOK
<1>14. ASSUME NEW t \in tasks,
            Acknowledge(t)
     PROVE TaskDeliveredWasAccepted' /\ DeliveredWasAccepted'
  BY <1>14 DEF Acknowledge, TaskDeliveredWasAccepted, DeliveredWasAccepted, TypeOK
<1>15. ASSUME NEW t \in tasks,
            StreamBatchFails(t)
     PROVE TaskDeliveredWasAccepted' /\ DeliveredWasAccepted'
  BY <1>15 DEF StreamBatchFails, TaskDeliveredWasAccepted, DeliveredWasAccepted, TypeOK
<1>16. ASSUME NEW t \in tasks,
            RetryRaises(t)
     PROVE TaskDeliveredWasAccepted' /\ DeliveredWasAccepted'
  BY <1>16 DEF RetryRaises, TaskDeliveredWasAccepted, DeliveredWasAccepted, TypeOK
<1>17. ASSUME NEW t \in tasks,
            RetryInvocationDies(t)
     PROVE TaskDeliveredWasAccepted' /\ DeliveredWasAccepted'
  BY <1>17 DEF RetryInvocationDies, TaskDeliveredWasAccepted, DeliveredWasAccepted, TypeOK
<1>18. CASE UNCHANGED vars
  BY <1>18 DEF vars, TaskDeliveredWasAccepted, DeliveredWasAccepted, TypeOK
<1> QED
  BY <1>1, <1>2, <1>3, <1>4, <1>5, <1>6, <1>7, <1>8, <1>9, <1>10, <1>11, <1>12,
     <1>13, <1>14, <1>15, <1>16, <1>17, <1>18
  DEF Next, Progress, TaskStep, Environment, Failure

\* A job that says webhook_delivered has been delivered, whatever fails and
\* however attempts interleave (deliver_webhook comes before mark_delivery_state,
\* and nothing else says delivered).
THEOREM DeliveredIsTrue == Spec => []DeliveredWasAccepted
<1>1. Init => TaskDeliveredWasAccepted /\ DeliveredWasAccepted
  BY DEF Init, TaskDeliveredWasAccepted, DeliveredWasAccepted, get_job_status
<1> QED
  BY <1>1, BaseInvariant, DeliveredStep, PTL DEF Spec

-----------------------------------------------------------------------------
(* One chain per job. *)

\* Faults, duplicates and redrives are counted and never forgotten.
LEMMA CleanBefore ==
    TypeOK /\ [Next]_vars /\ Clean' => Clean /\ (lostReplies' = 0 => lostReplies = 0)
<1> DEFINE Before == Clean /\ (lostReplies' = 0 => lostReplies = 0)
<1> SUFFICES ASSUME TypeOK, [Next]_vars, Clean' PROVE Before
  OBVIOUS
<1>1. ASSUME NEW j \in Jobs, JobReachesTerminal(j) PROVE Before
  BY <1>1 DEF JobReachesTerminal, Clean, envVars
<1>2. ASSUME NEW j \in Jobs, DeleteWebhook(j) PROVE Before
  BY <1>2 DEF DeleteWebhook, Clean, envVars
<1>3. ASSUME NEW j \in Jobs, JobExpires(j) PROVE Before
  BY <1>3 DEF JobExpires, Clean, envVars
<1>4. ASSUME NEW j \in Jobs, NEW a \in Attempts, DuplicateMessage(j, a) PROVE Before
  BY <1>4 DEF DuplicateMessage, Clean, TypeOK
<1>5. ASSUME NEW j \in Jobs, NEW a \in Attempts, Redrive(j, a) PROVE Before
  BY <1>5 DEF Redrive, Clean, TypeOK
<1>6. CASE FilterStreamRecord
  BY <1>6 DEF FilterStreamRecord, Clean, envVars
<1>7. CASE process_stream_record
  BY <1>7 DEF process_stream_record, Clean, envVars
<1>8. ASSUME NEW w \in RetryWorkers, NEW j \in Jobs, NEW a \in Attempts,
            process_retry_record(w, j, a)
     PROVE Before
  BY <1>8 DEF process_retry_record, Clean, envVars
<1>9. ASSUME NEW t \in tasks, check_registration(t) PROVE Before
  BY <1>9 DEF check_registration, Clean, envVars
<1>10. ASSUME NEW t \in tasks, deliver_webhook(t) PROVE Before
  BY <1>10 DEF deliver_webhook, Clean, TypeOK
<1>11. ASSUME NEW t \in tasks, mark_delivery_state(t) PROVE Before
  BY <1>11 DEF mark_delivery_state, Clean, envVars
<1>12. ASSUME NEW t \in tasks, enqueue_retry(t) PROVE Before
  BY <1>12 DEF enqueue_retry, Clean, envVars
<1>13. ASSUME NEW t \in tasks, send_to_dlq(t) PROVE Before
  BY <1>13 DEF send_to_dlq, Clean, envVars
<1>14. ASSUME NEW t \in tasks, Acknowledge(t) PROVE Before
  BY <1>14 DEF Acknowledge, Clean, envVars
<1>15. ASSUME NEW t \in tasks, StreamBatchFails(t) PROVE Before
  BY <1>15 DEF StreamBatchFails, Clean, TypeOK
<1>16. ASSUME NEW t \in tasks, RetryRaises(t) PROVE Before
  BY <1>16 DEF RetryRaises, Clean, TypeOK
<1>17. ASSUME NEW t \in tasks, RetryInvocationDies(t) PROVE Before
  BY <1>17 DEF RetryInvocationDies, Clean, TypeOK
<1>18. CASE UNCHANGED vars
  BY <1>18 DEF vars, envVars, Clean
<1> QED
  BY <1>1, <1>2, <1>3, <1>4, <1>5, <1>6, <1>7, <1>8, <1>9, <1>10, <1>11, <1>12,
     <1>13, <1>14, <1>15, <1>16, <1>17, <1>18
  DEF Next, Progress, TaskStep, Environment, Failure

\* One step keeps every job on one chain: a record becomes a task, a task becomes
\* a message, a message becomes a task, and nothing else starts one but the
\* transition of a job for which nothing is under way.
LEMMA ChainStep == BaseInv /\ ChainInv /\ [Next]_vars => ChainInv'
<1> SUFFICES ASSUME BaseInv, ChainInv, [Next]_vars, Clean', NEW i \in Jobs PROVE OneChain(i)'
  BY DEF ChainInv
<1>a. TypeOK /\ TaskShape /\ RunningIsQuiet
  BY DEF BaseInv
<1>b. OneChain(i)
  BY <1>a, CleanBefore DEF ChainInv
<1> USE <1>a, <1>b
<1>1. ASSUME NEW j \in Jobs, JobReachesTerminal(j) PROVE OneChain(i)'
  <2>1. \A r \in stream' : r \notin stream => r.job = j
    BY <1>1 DEF JobReachesTerminal
  <2>2. CASE i # j
    BY <1>1, <2>1, <2>2
    DEF JobReachesTerminal, OneChain, Waiting, Working, should_process_stream_transition
  <2>3. CASE i = j
    <3>1. /\ \A r \in stream : r.job # j
          /\ \A t \in tasks : t.job # j
          /\ \A a \in Attempts : queue[j][a] = 0
      BY <1>1 DEF JobReachesTerminal, RunningIsQuiet
    <3>2. \A r, s \in stream' : r.job = j /\ s.job = j => r = s
      BY <1>1, <3>1 DEF JobReachesTerminal
    <3> QED
      BY <1>1, <2>3, <3>1, <3>2 DEF JobReachesTerminal, OneChain, Waiting, Working
  <2> QED
    BY <2>2, <2>3
<1>2. ASSUME NEW j \in Jobs, DeleteWebhook(j) PROVE OneChain(i)'
  BY <1>2 DEF DeleteWebhook, OneChain, Waiting, Working, should_process_stream_transition
<1>3. ASSUME NEW j \in Jobs, JobExpires(j) PROVE OneChain(i)'
  BY <1>3 DEF JobExpires, OneChain, Waiting, Working, should_process_stream_transition
<1>4. ASSUME NEW j \in Jobs, NEW a \in Attempts, DuplicateMessage(j, a) PROVE OneChain(i)'
  BY <1>4 DEF DuplicateMessage, Clean, TypeOK
<1>5. ASSUME NEW j \in Jobs, NEW a \in Attempts, Redrive(j, a) PROVE OneChain(i)'
  BY <1>5 DEF Redrive, Clean, TypeOK
<1>6. CASE FilterStreamRecord
  BY <1>6 DEF FilterStreamRecord, OneChain, Waiting, Working, should_process_stream_transition
<1>7. CASE process_stream_record
  <2>1. PICK r \in stream, u \in Task :
          Waiting(r, u.job) /\ stream' = stream \ {r} /\ StartOutcome(u)
    BY <1>7, StreamMoves
  <2> QED
    BY <1>7, <2>1
    DEF process_stream_record, StartOutcome, Waiting, OneChain, Waiting, Working,
        should_process_stream_transition
<1>8. ASSUME NEW w \in RetryWorkers, NEW j \in Jobs, NEW a \in Attempts,
            process_retry_record(w, j, a)
     PROVE OneChain(i)'
  <2>1. PICK u \in Task : u.job = j /\ StartOutcome(u)
    BY <1>8, RetryMoves
  <2>2. CASE i # j
    <3>1. queue'[i] = queue[i] /\ stream' = stream /\ target' = target
      BY <1>8, <2>2 DEF process_retry_record, TypeOK
    <3> QED
      BY <2>1, <2>2, <3>1
      DEF StartOutcome, OneChain, Waiting, Working, should_process_stream_transition
  <2>3. CASE i = j
    <3>1. /\ \A b \in Attempts : queue'[j][b] = IF b = a THEN queue[j][a] - 1 ELSE queue[j][b]
          /\ queue[j][a] > 0 /\ stream' = stream /\ target' = target
      BY <1>8 DEF process_retry_record, TypeOK
    <3>2. /\ \A b \in Attempts : queue[j][b] \in Nat
          /\ queue[j][a] <= 1 /\ \A b \in Attempts : queue[j][b] > 0 => b = a
      BY <2>3, <3>1 DEF OneChain, TypeOK
    <3>3. \A b \in Attempts : queue'[j][b] = 0
      BY <3>1, <3>2
    <3>4. /\ \A r \in stream : ~Waiting(r, j)
          /\ \A v \in tasks : ~Working(v, j)
      BY <2>3, <3>1 DEF OneChain
    <3> QED
      BY <2>1, <2>3, <3>1, <3>3, <3>4
      DEF StartOutcome, OneChain, Waiting, Working, should_process_stream_transition
  <2> QED
    BY <2>2, <2>3
<1>9. ASSUME NEW t \in tasks, check_registration(t) PROVE OneChain(i)'
  <2>1. PICK u : CheckOutcome(t, u)
    BY <1>9, CheckMoves
  <2> QED
    BY <1>9, <2>1
    DEF check_registration, CheckOutcome, Becomes, OneChain, Waiting, Working,
        should_process_stream_transition
<1>10. ASSUME NEW t \in tasks, deliver_webhook(t) PROVE OneChain(i)'
  <2>1. PICK u : DeliverOutcome(t, u)
    BY <1>10, DeliverMoves
  <2> QED
    BY <1>10, <2>1
    DEF deliver_webhook, DeliverOutcome, Becomes, OneChain, Waiting, Working,
        should_process_stream_transition
<1>11. ASSUME NEW t \in tasks, mark_delivery_state(t) PROVE OneChain(i)'
  <2>1. PICK u : MarkOutcome(t, u)
    BY <1>11, MarkMoves
  <2> QED
    BY <1>11, <2>1
    DEF mark_delivery_state, MarkOutcome, Becomes, OneChain, Waiting, Working,
        should_process_stream_transition
<1>12. ASSUME NEW t \in tasks, enqueue_retry(t) PROVE OneChain(i)'
  <2>1. PICK u : SendOutcome(t, u)
    BY <1>12, SendMoves
  <2>2. t.job \in Jobs /\ t.pc = "send" /\ stream' = stream /\ target' = target
    BY <1>12 DEF enqueue_retry, TypeOK, Task
  <2>3. CASE i # t.job
    <3>1. queue'[i] = queue[i]
      BY <1>12, <2>3 DEF enqueue_retry, TypeOK
    <3> QED
      BY <2>1, <2>2, <2>3, <3>1
      DEF SendOutcome, Becomes, OneChain, Waiting, Working, should_process_stream_transition
  <2>4. CASE i = t.job
    <3>1. Working(t, i)
      BY <2>2, <2>4 DEF Working
    <3>2. /\ \A b \in Attempts : queue[i][b] = 0
          /\ \A r \in stream : ~Waiting(r, i)
          /\ \A v \in tasks : Working(v, i) => v = t
      BY <3>1 DEF OneChain, TypeOK
    <3>3. \A b \in Attempts :
              queue'[i][b] = IF b = t.attempt + 1 THEN queue[i][b] + 1 ELSE queue[i][b]
      BY <1>12, <2>4 DEF enqueue_retry, TypeOK
    <3>4. \A b \in Attempts : queue'[i][b] = IF b = t.attempt + 1 THEN 1 ELSE 0
      BY <3>2, <3>3
    <3>5. \A v \in tasks' : ~Working(v, i)
      BY <2>1, <3>2 DEF SendOutcome, Becomes, Working
    <3> QED
      BY <2>2, <3>2, <3>4, <3>5 DEF OneChain, Waiting, Working, should_process_stream_transition
  <2> QED
    BY <2>3, <2>4
<1>13. ASSUME NEW t \in tasks, send_to_dlq(t) PROVE OneChain(i)'
  <2>1. PICK u : SendOutcome(t, u)
    BY <1>13, SendMoves
  <2> QED
    BY <1>13, <2>1
    DEF send_to_dlq, SendOutcome, Becomes, OneChain, Waiting, Working,
        should_process_stream_transition
<1>14. ASSUME NEW t \in tasks, Acknowledge(t) PROVE OneChain(i)'
  BY <1>14 DEF Acknowledge, OneChain, Waiting, Working, should_process_stream_transition
<1>15. ASSUME NEW t \in tasks, StreamBatchFails(t) PROVE OneChain(i)'
  BY <1>15 DEF StreamBatchFails, Clean, TypeOK
<1>16. ASSUME NEW t \in tasks, RetryRaises(t) PROVE OneChain(i)'
  BY <1>16 DEF RetryRaises, Clean, TypeOK
<1>17. ASSUME NEW t \in tasks, RetryInvocationDies(t) PROVE OneChain(i)'
  BY <1>17 DEF RetryInvocationDies, Clean, TypeOK
<1>18. CASE UNCHANGED vars
  BY <1>18 DEF vars, OneChain, Waiting, Working, should_process_stream_transition
<1> QED
  BY <1>1, <1>2, <1>3, <1>4, <1>5, <1>6, <1>7, <1>8, <1>9, <1>10, <1>11, <1>12,
     <1>13, <1>14, <1>15, <1>16, <1>17, <1>18
  DEF Next, Progress, TaskStep, Environment, Failure

\* Initially nothing is under way.
LEMMA InitQuiet == Init => ChainInv /\ DeliveredEndsChain
<1>1. Init => /\ stream = {} /\ tasks = {} /\ \A j \in Jobs : ~job[j].delivered
              /\ \A j \in Jobs, a \in Attempts : queue[j][a] = 0
  BY DEF Init, NoMessages
<1> QED
  BY <1>1 DEF ChainInv, OneChain, DeliveredEndsChain

\* The pairs are what SingleChain says with sets.
LEMMA ChainIsSingle == ChainInv => SingleChain
<1> SUFFICES ASSUME ChainInv, Clean, NEW j \in Jobs
             PROVE /\ \A r \in Trigger(j), s \in Trigger(j) : r = s
                   /\ \A t \in Attempting(j), u \in Attempting(j) : t = u
                   /\ \A a \in Queued(j), b \in Queued(j) : a = b
                   /\ \A a \in Attempts : queue[j][a] <= 1
                   /\ Trigger(j) # {} => Attempting(j) = {} /\ Queued(j) = {}
                   /\ Attempting(j) # {} => Queued(j) = {}
  BY DEF SingleChain
<1>1. OneChain(j)
  BY DEF ChainInv
<1>2. /\ \A r \in Trigger(j) : r \in stream /\ Waiting(r, j)
      /\ \A t \in Attempting(j) : t \in tasks /\ Working(t, j)
      /\ \A a \in Queued(j) : a \in Attempts /\ queue[j][a] > 0
  BY DEF Trigger, Attempting, Queued, Waiting, Working
<1> QED
  BY <1>1, <1>2 DEF OneChain

\* A job's event is never in two hands at once: as long as nothing fails, the
\* stream record that starts a delivery, the attempt at it and the message that
\* asks for the next attempt exclude each other, for any number of workers.
THEOREM ChainsAreSingle == Spec => []SingleChain
<1> QED
  BY InitQuiet, BaseInvariant, ChainStep, ChainIsSingle, PTL DEF Spec

-----------------------------------------------------------------------------
(* A chain ends with the delivery. *)

\* One step starts nothing for a job marked delivered, and the attempt that marks
\* it leaves nothing behind.
LEMMA DeliveredEndsStep ==
    BaseInv /\ ChainInv /\ DeliveredEndsChain /\ [Next]_vars => DeliveredEndsChain'
<1> SUFFICES ASSUME BaseInv, ChainInv, DeliveredEndsChain, [Next]_vars, Clean',
                    NEW i \in Jobs, job'[i].delivered
             PROVE Quiet(i)'
  BY DEF DeliveredEndsChain
<1>a. TypeOK /\ TaskShape /\ RunningIsQuiet
  BY DEF BaseInv
<1>b. OneChain(i) /\ (job[i].delivered => Quiet(i))
  BY <1>a, CleanBefore DEF ChainInv, DeliveredEndsChain
<1> USE <1>a, <1>b
<1>1. ASSUME NEW j \in Jobs, JobReachesTerminal(j) PROVE Quiet(i)'
  <2>1. i # j /\ job'[i] = job[i]
    BY <1>1 DEF JobReachesTerminal, RunningIsQuiet, TypeOK, JobItem
  <2> QED
    BY <1>1, <2>1
    DEF JobReachesTerminal, Quiet, Waiting, Working, should_process_stream_transition
<1>2. ASSUME NEW j \in Jobs, DeleteWebhook(j) PROVE Quiet(i)'
  BY <1>2 DEF DeleteWebhook, Quiet, Waiting, Working, should_process_stream_transition
<1>3. ASSUME NEW j \in Jobs, JobExpires(j) PROVE Quiet(i)'
  BY <1>3 DEF JobExpires, Quiet, Waiting, Working, should_process_stream_transition
<1>4. ASSUME NEW j \in Jobs, NEW a \in Attempts, DuplicateMessage(j, a) PROVE Quiet(i)'
  BY <1>4 DEF DuplicateMessage, Clean, TypeOK
<1>5. ASSUME NEW j \in Jobs, NEW a \in Attempts, Redrive(j, a) PROVE Quiet(i)'
  BY <1>5 DEF Redrive, Clean, TypeOK
<1>6. CASE FilterStreamRecord
  BY <1>6 DEF FilterStreamRecord, Quiet, Waiting, Working, should_process_stream_transition
<1>7. CASE process_stream_record
  <2>1. PICK r \in stream, u \in Task :
          Waiting(r, u.job) /\ stream' = stream \ {r} /\ StartOutcome(u)
    BY <1>7, StreamMoves
  <2> QED
    BY <1>7, <2>1
    DEF process_stream_record, StartOutcome, Waiting, Quiet, Waiting, Working,
        should_process_stream_transition
<1>8. ASSUME NEW w \in RetryWorkers, NEW j \in Jobs, NEW a \in Attempts,
            process_retry_record(w, j, a)
     PROVE Quiet(i)'
  <2>1. PICK u \in Task : u.job = j /\ StartOutcome(u)
    BY <1>8, RetryMoves
  <2> QED
    BY <1>8, <2>1
    DEF process_retry_record, StartOutcome, Quiet, Waiting, Working,
        should_process_stream_transition
<1>9. ASSUME NEW t \in tasks, check_registration(t) PROVE Quiet(i)'
  <2>1. PICK u : CheckOutcome(t, u)
    BY <1>9, CheckMoves
  <2> QED
    BY <1>9, <2>1
    DEF check_registration, CheckOutcome, Becomes, Quiet, Waiting, Working,
        should_process_stream_transition
<1>10. ASSUME NEW t \in tasks, deliver_webhook(t) PROVE Quiet(i)'
  <2>1. PICK u : DeliverOutcome(t, u)
    BY <1>10, DeliverMoves
  <2> QED
    BY <1>10, <2>1
    DEF deliver_webhook, DeliverOutcome, Becomes, Quiet, Waiting, Working,
        should_process_stream_transition
<1>11. ASSUME NEW t \in tasks, mark_delivery_state(t) PROVE Quiet(i)'
  <2>1. PICK u : MarkOutcome(t, u)
    BY <1>11, MarkMoves
  <2>2. t.job \in Jobs /\ t.pc = "mark" /\ queue' = queue /\ target' = target
    BY <1>11 DEF mark_delivery_state, TypeOK, Task
  <2>3. \A r \in stream' : r \in stream \/ r.new = r.old
    BY <1>11 DEF mark_delivery_state
  <2>4. CASE i # t.job
    <3>1. job'[i] = job[i]
      BY <1>11, <2>4 DEF mark_delivery_state, TypeOK
    <3> QED
      BY <2>1, <2>2, <2>3, <2>4, <3>1
      DEF MarkOutcome, Becomes, Quiet, Waiting, Working, should_process_stream_transition
  <2>5. CASE i = t.job
    <3>1. t.out = "delivered" /\ Working(t, i)
      BY <1>11, <2>2, <2>5 DEF mark_delivery_state, TypeOK, Working
    <3>2. /\ \A b \in Attempts : queue[i][b] = 0
          /\ \A r \in stream : ~Waiting(r, i)
          /\ \A v \in tasks : Working(v, i) => v = t
      BY <3>1 DEF OneChain, TypeOK
    <3>3. \A v \in tasks' : ~Working(v, i)
      BY <2>1, <3>1, <3>2 DEF MarkOutcome, Becomes, Working
    <3> QED
      BY <2>2, <2>3, <3>2, <3>3 DEF Quiet, Waiting, should_process_stream_transition
  <2> QED
    BY <2>4, <2>5
<1>12. ASSUME NEW t \in tasks, enqueue_retry(t) PROVE Quiet(i)'
  <2>1. PICK u : SendOutcome(t, u)
    BY <1>12, SendMoves
  <2> QED
    BY <1>12, <2>1
    DEF enqueue_retry, SendOutcome, Becomes, Quiet, Waiting, Working,
        should_process_stream_transition
<1>13. ASSUME NEW t \in tasks, send_to_dlq(t) PROVE Quiet(i)'
  <2>1. PICK u : SendOutcome(t, u)
    BY <1>13, SendMoves
  <2> QED
    BY <1>13, <2>1
    DEF send_to_dlq, SendOutcome, Becomes, Quiet, Waiting, Working,
        should_process_stream_transition
<1>14. ASSUME NEW t \in tasks, Acknowledge(t) PROVE Quiet(i)'
  BY <1>14 DEF Acknowledge, Quiet, Waiting, Working, should_process_stream_transition
<1>15. ASSUME NEW t \in tasks, StreamBatchFails(t) PROVE Quiet(i)'
  BY <1>15 DEF StreamBatchFails, Clean, TypeOK
<1>16. ASSUME NEW t \in tasks, RetryRaises(t) PROVE Quiet(i)'
  BY <1>16 DEF RetryRaises, Clean, TypeOK
<1>17. ASSUME NEW t \in tasks, RetryInvocationDies(t) PROVE Quiet(i)'
  BY <1>17 DEF RetryInvocationDies, Clean, TypeOK
<1>18. CASE UNCHANGED vars
  BY <1>18 DEF vars, Quiet, Waiting, Working, should_process_stream_transition
<1> QED
  BY <1>1, <1>2, <1>3, <1>4, <1>5, <1>6, <1>7, <1>8, <1>9, <1>10, <1>11, <1>12,
     <1>13, <1>14, <1>15, <1>16, <1>17, <1>18
  DEF Next, Progress, TaskStep, Environment, Failure

\* With BaseInv and ChainInv, DeliveredEndsChain is inductive.
LEMMA DeliveredEndsInvariant == Spec => []DeliveredEndsChain
  BY InitQuiet, BaseInvariant, ChainStep, DeliveredEndsStep, PTL DEF Spec

\* As long as nothing fails, no step takes webhook_delivered back: no attempt is
\* left that could write another outcome over it.
THEOREM DeliveredStays == Spec => DeliveredIsFinal
<1> DEFINE Mark == \A j \in Jobs : Clean /\ job[j].delivered
                       => job'[j].delivered \/ job'[j].status = "expired"
<1>1. BaseInv /\ DeliveredEndsChain /\ [Next]_vars => [Mark]_vars
  <2> SUFFICES ASSUME TypeOK, RunningIsQuiet, DeliveredEndsChain, [Next]_vars,
                      NEW i \in Jobs, Clean, job[i].delivered
               PROVE job'[i].delivered \/ job'[i].status = "expired"
    BY DEF BaseInv
  <2>a. Quiet(i)
    BY DEF DeliveredEndsChain
  <2>1. ASSUME NEW j \in Jobs,
              JobReachesTerminal(j)
       PROVE job'[i].delivered \/ job'[i].status = "expired"
    BY <2>1 DEF JobReachesTerminal, TypeOK, JobItem
  <2>2. ASSUME NEW j \in Jobs,
              DeleteWebhook(j)
       PROVE job'[i].delivered \/ job'[i].status = "expired"
    BY <2>2 DEF DeleteWebhook
  <2>3. ASSUME NEW j \in Jobs,
              JobExpires(j)
       PROVE job'[i].delivered \/ job'[i].status = "expired"
    BY <2>3 DEF JobExpires, TypeOK
  <2>4. ASSUME NEW j \in Jobs, NEW a \in Attempts,
              DuplicateMessage(j, a)
       PROVE job'[i].delivered \/ job'[i].status = "expired"
    BY <2>4 DEF DuplicateMessage
  <2>5. ASSUME NEW j \in Jobs, NEW a \in Attempts,
              Redrive(j, a)
       PROVE job'[i].delivered \/ job'[i].status = "expired"
    BY <2>5 DEF Redrive
  <2>6. CASE FilterStreamRecord
    BY <2>6 DEF FilterStreamRecord
  <2>7. CASE process_stream_record
    BY <2>7 DEF process_stream_record
  <2>8. ASSUME NEW w \in RetryWorkers, NEW j \in Jobs, NEW a \in Attempts,
              process_retry_record(w, j, a)
       PROVE job'[i].delivered \/ job'[i].status = "expired"
    BY <2>8 DEF process_retry_record
  <2>9. ASSUME NEW t \in tasks,
              check_registration(t)
       PROVE job'[i].delivered \/ job'[i].status = "expired"
    BY <2>9 DEF check_registration
  <2>10. ASSUME NEW t \in tasks,
              deliver_webhook(t)
       PROVE job'[i].delivered \/ job'[i].status = "expired"
    BY <2>10 DEF deliver_webhook
  <2>11. ASSUME NEW t \in tasks,
              mark_delivery_state(t)
       PROVE job'[i].delivered \/ job'[i].status = "expired"
    BY <2>11, <2>a DEF mark_delivery_state, Quiet, Working, TypeOK, Task
  <2>12. ASSUME NEW t \in tasks,
              enqueue_retry(t)
       PROVE job'[i].delivered \/ job'[i].status = "expired"
    BY <2>12 DEF enqueue_retry
  <2>13. ASSUME NEW t \in tasks,
              send_to_dlq(t)
       PROVE job'[i].delivered \/ job'[i].status = "expired"
    BY <2>13 DEF send_to_dlq
  <2>14. ASSUME NEW t \in tasks,
              Acknowledge(t)
       PROVE job'[i].delivered \/ job'[i].status = "expired"
    BY <2>14 DEF Acknowledge
  <2>15. ASSUME NEW t \in tasks,
              StreamBatchFails(t)
       PROVE job'[i].delivered \/ job'[i].status = "expired"
    BY <2>15 DEF StreamBatchFails
  <2>16. ASSUME NEW t \in tasks,
              RetryRaises(t)
       PROVE job'[i].delivered \/ job'[i].status = "expired"
    BY <2>16 DEF RetryRaises
  <2>17. ASSUME NEW t \in tasks,
              RetryInvocationDies(t)
       PROVE job'[i].delivered \/ job'[i].status = "expired"
    BY <2>17 DEF RetryInvocationDies
  <2>18. CASE UNCHANGED vars
    BY <2>18 DEF vars
  <2> QED
    BY <2>1, <2>2, <2>3, <2>4, <2>5, <2>6, <2>7, <2>8, <2>9, <2>10, <2>11, <2>12,
       <2>13, <2>14, <2>15, <2>16, <2>17, <2>18
    DEF Next, Progress, TaskStep, Environment, Failure
<1> QED
  BY <1>1, BaseInvariant, DeliveredEndsInvariant, PTL DEF Spec, DeliveredIsFinal

-----------------------------------------------------------------------------
(* The endpoint takes an event once. *)

\* One step sends nothing after an event was taken: the attempt that sent it is
\* the only one, and it has no reason to retry.
LEMMA AcceptedStep == BaseInv /\ ChainInv /\ AcceptedOnce /\ [Next]_vars => AcceptedOnce'
<1> SUFFICES ASSUME BaseInv, ChainInv, AcceptedOnce, [Next]_vars, Clean', lostReplies' = 0,
                    NEW i \in Jobs
             PROVE TakenOnce(i)'
  BY DEF AcceptedOnce
<1>a. TypeOK /\ TaskShape /\ RunningIsQuiet
  BY DEF BaseInv
<1>b. OneChain(i) /\ TakenOnce(i)
  BY <1>a, CleanBefore DEF ChainInv, AcceptedOnce
<1> USE <1>a, <1>b
<1>1. ASSUME NEW j \in Jobs, JobReachesTerminal(j) PROVE TakenOnce(i)'
  BY <1>1
  DEF JobReachesTerminal, RunningIsQuiet, TakenOnce, Waiting, Working,
      should_process_stream_transition
<1>2. ASSUME NEW j \in Jobs, DeleteWebhook(j) PROVE TakenOnce(i)'
  BY <1>2 DEF DeleteWebhook, TakenOnce, Waiting, Working, should_process_stream_transition
<1>3. ASSUME NEW j \in Jobs, JobExpires(j) PROVE TakenOnce(i)'
  BY <1>3 DEF JobExpires, TakenOnce, Waiting, Working, should_process_stream_transition
<1>4. ASSUME NEW j \in Jobs, NEW a \in Attempts, DuplicateMessage(j, a) PROVE TakenOnce(i)'
  BY <1>4 DEF DuplicateMessage, Clean, TypeOK
<1>5. ASSUME NEW j \in Jobs, NEW a \in Attempts, Redrive(j, a) PROVE TakenOnce(i)'
  BY <1>5 DEF Redrive, Clean, TypeOK
<1>6. CASE FilterStreamRecord
  BY <1>6 DEF FilterStreamRecord, TakenOnce, Waiting, Working, should_process_stream_transition
<1>7. CASE process_stream_record
  <2>1. PICK r \in stream, u \in Task :
          Waiting(r, u.job) /\ stream' = stream \ {r} /\ StartOutcome(u)
    BY <1>7, StreamMoves
  <2> QED
    BY <1>7, <2>1
    DEF process_stream_record, StartOutcome, Waiting, TakenOnce, Waiting, Working,
        should_process_stream_transition
<1>8. ASSUME NEW w \in RetryWorkers, NEW j \in Jobs, NEW a \in Attempts,
            process_retry_record(w, j, a)
     PROVE TakenOnce(i)'
  <2>1. PICK u \in Task : u.job = j /\ StartOutcome(u)
    BY <1>8, RetryMoves
  <2> QED
    BY <1>8, <2>1
    DEF process_retry_record, StartOutcome, TakenOnce, Waiting, Working,
        should_process_stream_transition
<1>9. ASSUME NEW t \in tasks, check_registration(t) PROVE TakenOnce(i)'
  <2>1. PICK u : CheckOutcome(t, u)
    BY <1>9, CheckMoves
  <2>2. /\ t.out = "none" /\ Working(t, t.job) /\ UNCHANGED <<stream, queue, target, accepted>>
    BY <1>9 DEF check_registration, TaskShape, Working
  <2>3. CASE i # t.job
    BY <2>1, <2>2, <2>3
    DEF CheckOutcome, Becomes, TakenOnce, Waiting, Working, should_process_stream_transition
  <2>4. CASE i = t.job
    <3>1. ~(accepted[i] > 0)
      BY <2>2, <2>4 DEF TakenOnce
    <3> QED
      BY <2>2, <3>1 DEF TakenOnce
  <2> QED
    BY <2>3, <2>4
<1>10. ASSUME NEW t \in tasks, deliver_webhook(t) PROVE TakenOnce(i)'
  <2>1. PICK u : DeliverOutcome(t, u)
    BY <1>10, DeliverMoves
  <2>2. /\ t.job \in Jobs /\ t.out = "none" /\ Working(t, t.job) /\ Working(u, t.job)
        /\ stream' = stream /\ queue' = queue /\ target' = target
    BY <1>10, <2>1
    DEF deliver_webhook, DeliverOutcome, Becomes, TaskShape, TypeOK, Task, Working
  <2>3. lostReplies \in Nat /\ lostReplies' = 0
    BY DEF TypeOK
  <2>4. CASE i # t.job
    <3>1. accepted'[i] = accepted[i]
      BY <2>1, <2>4 DEF DeliverOutcome, TypeOK
    <3> QED
      BY <2>1, <2>2, <2>4, <3>1
      DEF DeliverOutcome, Becomes, TakenOnce, Waiting, Working, should_process_stream_transition
  <2>5. CASE i = t.job
    <3>1. accepted[i] = 0
      BY <2>2, <2>5 DEF TakenOnce, TypeOK
    <3>2. /\ \A b \in Attempts : queue[i][b] = 0
          /\ \A r \in stream : ~Waiting(r, i)
          /\ \A v \in tasks : Working(v, i) => v = t
      BY <2>2, <2>5 DEF OneChain, TypeOK
    <3>3. accepted'[i] = 0 \/ (accepted'[i] = 1 /\ u.out = "delivered")
      BY <2>1, <2>3, <2>5, <3>1 DEF DeliverOutcome, TypeOK
    <3>4. \A v \in tasks' : Working(v, i) => v = u
      BY <2>1, <3>2 DEF DeliverOutcome, Becomes
    <3> QED
      BY <2>2, <3>2, <3>3, <3>4 DEF TakenOnce, Waiting, should_process_stream_transition
  <2> QED
    BY <2>4, <2>5
<1>11. ASSUME NEW t \in tasks, mark_delivery_state(t) PROVE TakenOnce(i)'
  <2>1. PICK u : MarkOutcome(t, u)
    BY <1>11, MarkMoves
  <2> QED
    BY <1>11, <2>1
    DEF mark_delivery_state, MarkOutcome, Becomes, TakenOnce, Waiting, Working,
        should_process_stream_transition
<1>12. ASSUME NEW t \in tasks, enqueue_retry(t) PROVE TakenOnce(i)'
  <2>1. PICK u : SendOutcome(t, u)
    BY <1>12, SendMoves
  <2> QED
    BY <1>12, <2>1
    DEF enqueue_retry, SendOutcome, Becomes, TakenOnce, Waiting, Working,
        should_process_stream_transition
<1>13. ASSUME NEW t \in tasks, send_to_dlq(t) PROVE TakenOnce(i)'
  <2>1. PICK u : SendOutcome(t, u)
    BY <1>13, SendMoves
  <2> QED
    BY <1>13, <2>1
    DEF send_to_dlq, SendOutcome, Becomes, TakenOnce, Waiting, Working,
        should_process_stream_transition
<1>14. ASSUME NEW t \in tasks, Acknowledge(t) PROVE TakenOnce(i)'
  BY <1>14 DEF Acknowledge, TakenOnce, Waiting, Working, should_process_stream_transition
<1>15. ASSUME NEW t \in tasks, StreamBatchFails(t) PROVE TakenOnce(i)'
  BY <1>15 DEF StreamBatchFails, Clean, TypeOK
<1>16. ASSUME NEW t \in tasks, RetryRaises(t) PROVE TakenOnce(i)'
  BY <1>16 DEF RetryRaises, Clean, TypeOK
<1>17. ASSUME NEW t \in tasks, RetryInvocationDies(t) PROVE TakenOnce(i)'
  BY <1>17 DEF RetryInvocationDies, Clean, TypeOK
<1>18. CASE UNCHANGED vars
  BY <1>18 DEF vars, TakenOnce, Waiting, should_process_stream_transition
<1> QED
  BY <1>1, <1>2, <1>3, <1>4, <1>5, <1>6, <1>7, <1>8, <1>9, <1>10, <1>11, <1>12,
     <1>13, <1>14, <1>15, <1>16, <1>17, <1>18
  DEF Next, Progress, TaskStep, Environment, Failure

\* As long as nothing fails and no answer is lost, the endpoint takes a job's
\* event at most once, for any number of workers and retries.
THEOREM AcceptedOnlyOnce == Spec => []AcceptedAtMostOnce
<1>1. Init => ChainInv /\ AcceptedOnce
  <2>1. Init => \A j \in Jobs : accepted[j] = 0
    BY DEF Init
  <2> QED
    BY <2>1, InitQuiet DEF AcceptedOnce, TakenOnce
<1>2. AcceptedOnce => AcceptedAtMostOnce
  BY DEF AcceptedOnce, TakenOnce, AcceptedAtMostOnce
<1> QED
  BY <1>1, <1>2, BaseInvariant, ChainStep, AcceptedStep, PTL DEF Spec

-----------------------------------------------------------------------------
(* Nothing is forgotten. *)

\* One step records only what was decided, both attributes at once.
LEMMA MarkStep == BaseInv /\ MarkInv /\ [Next]_vars => MarkInv'
<1> SUFFICES ASSUME TypeOK, TaskShape, MarkInv, [Next]_vars PROVE MarkInv'
  BY DEF BaseInv
<1>1. ASSUME NEW j \in Jobs, JobReachesTerminal(j) PROVE MarkInv'
  BY <1>1 DEF JobReachesTerminal, MarkInv, TypeOK, JobItem
<1>2. ASSUME NEW j \in Jobs, DeleteWebhook(j) PROVE MarkInv'
  BY <1>2 DEF DeleteWebhook, MarkInv
<1>3. ASSUME NEW j \in Jobs, JobExpires(j) PROVE MarkInv'
  BY <1>3 DEF JobExpires, MarkInv, TypeOK, JobItem
<1>4. ASSUME NEW j \in Jobs, NEW a \in Attempts, DuplicateMessage(j, a) PROVE MarkInv'
  BY <1>4 DEF DuplicateMessage, MarkInv
<1>5. ASSUME NEW j \in Jobs, NEW a \in Attempts, Redrive(j, a) PROVE MarkInv'
  BY <1>5 DEF Redrive, MarkInv
<1>6. CASE FilterStreamRecord
  BY <1>6 DEF FilterStreamRecord, MarkInv
<1>7. CASE process_stream_record
  <2>1. PICK r \in stream, u \in Task :
          Waiting(r, u.job) /\ stream' = stream \ {r} /\ StartOutcome(u) /\ u.pc # "ack"
    BY <1>7, StreamMoves
  <2> QED
    BY <1>7, <2>1
    DEF process_stream_record, StartOutcome, Waiting, MarkInv
<1>8. ASSUME NEW w \in RetryWorkers, NEW j \in Jobs, NEW a \in Attempts,
            process_retry_record(w, j, a)
     PROVE MarkInv'
  <2>1. PICK u \in Task : StartOutcome(u)
    BY <1>8, RetryMoves
  <2>2. job' = job
    BY <1>8 DEF process_retry_record
  <2> QED
    BY <2>1, <2>2 DEF StartOutcome, MarkInv
<1>9. ASSUME NEW t \in tasks, check_registration(t) PROVE MarkInv'
  <2>1. PICK u : CheckOutcome(t, u)
    BY <1>9, CheckMoves
  <2> QED
    BY <1>9, <2>1
    DEF check_registration, CheckOutcome, Becomes, MarkInv
<1>10. ASSUME NEW t \in tasks, deliver_webhook(t) PROVE MarkInv'
  <2>1. PICK u : DeliverOutcome(t, u)
    BY <1>10, DeliverMoves
  <2> QED
    BY <1>10, <2>1
    DEF deliver_webhook, DeliverOutcome, Becomes, MarkInv
<1>11. ASSUME NEW t \in tasks, mark_delivery_state(t) PROVE MarkInv'
  <2>1. PICK u : MarkOutcome(t, u)
    BY <1>11, MarkMoves
  <2>2. \A v \in tasks' : v.pc = "mark" => v.out # "none"
    BY <2>1 DEF MarkOutcome, Becomes, MarkInv
  <2>3. \A j \in Jobs : job'[j].delivered => job'[j].ws = "delivered"
    BY <1>11 DEF mark_delivery_state, MarkInv, TypeOK, Task
  <2> QED
    BY <2>2, <2>3 DEF MarkInv
<1>12. ASSUME NEW t \in tasks, enqueue_retry(t) PROVE MarkInv'
  <2>1. PICK u : SendOutcome(t, u)
    BY <1>12, SendMoves
  <2> QED
    BY <1>12, <2>1
    DEF enqueue_retry, SendOutcome, Becomes, MarkInv
<1>13. ASSUME NEW t \in tasks, send_to_dlq(t) PROVE MarkInv'
  <2>1. PICK u : SendOutcome(t, u)
    BY <1>13, SendMoves
  <2> QED
    BY <1>13, <2>1
    DEF send_to_dlq, SendOutcome, Becomes, MarkInv
<1>14. ASSUME NEW t \in tasks, Acknowledge(t) PROVE MarkInv'
  BY <1>14 DEF Acknowledge, MarkInv
<1>15. ASSUME NEW t \in tasks, StreamBatchFails(t) PROVE MarkInv'
  BY <1>15 DEF StreamBatchFails, MarkInv
<1>16. ASSUME NEW t \in tasks, RetryRaises(t) PROVE MarkInv'
  BY <1>16 DEF RetryRaises, MarkInv
<1>17. ASSUME NEW t \in tasks, RetryInvocationDies(t) PROVE MarkInv'
  BY <1>17 DEF RetryInvocationDies, MarkInv
<1>18. CASE UNCHANGED vars
  BY <1>18 DEF vars, MarkInv
<1> QED
  BY <1>1, <1>2, <1>3, <1>4, <1>5, <1>6, <1>7, <1>8, <1>9, <1>10, <1>11, <1>12,
     <1>13, <1>14, <1>15, <1>16, <1>17, <1>18
  DEF Next, Progress, TaskStep, Environment, Failure

\* Failures are counted.
LEMMA FaultsGrow == TypeOK /\ [Next]_vars /\ faults' = 0 => faults = 0
<1> SUFFICES ASSUME TypeOK, [Next]_vars, faults' = 0 PROVE faults = 0
  OBVIOUS
<1>1. ASSUME NEW j \in Jobs, JobReachesTerminal(j) PROVE faults = 0
  BY <1>1 DEF JobReachesTerminal, envVars
<1>2. ASSUME NEW j \in Jobs, DeleteWebhook(j) PROVE faults = 0
  BY <1>2 DEF DeleteWebhook, envVars
<1>3. ASSUME NEW j \in Jobs, JobExpires(j) PROVE faults = 0
  BY <1>3 DEF JobExpires, envVars
<1>4. ASSUME NEW j \in Jobs, NEW a \in Attempts, DuplicateMessage(j, a) PROVE faults = 0
  BY <1>4 DEF DuplicateMessage
<1>5. ASSUME NEW j \in Jobs, NEW a \in Attempts, Redrive(j, a) PROVE faults = 0
  BY <1>5 DEF Redrive
<1>6. CASE FilterStreamRecord
  BY <1>6 DEF FilterStreamRecord, envVars
<1>7. CASE process_stream_record
  BY <1>7 DEF process_stream_record, envVars
<1>8. ASSUME NEW w \in RetryWorkers, NEW j \in Jobs, NEW a \in Attempts,
            process_retry_record(w, j, a)
     PROVE faults = 0
  BY <1>8 DEF process_retry_record, envVars
<1>9. ASSUME NEW t \in tasks, check_registration(t) PROVE faults = 0
  BY <1>9 DEF check_registration, envVars
<1>10. ASSUME NEW t \in tasks, deliver_webhook(t) PROVE faults = 0
  BY <1>10 DEF deliver_webhook
<1>11. ASSUME NEW t \in tasks, mark_delivery_state(t) PROVE faults = 0
  BY <1>11 DEF mark_delivery_state, envVars
<1>12. ASSUME NEW t \in tasks, enqueue_retry(t) PROVE faults = 0
  BY <1>12 DEF enqueue_retry, envVars
<1>13. ASSUME NEW t \in tasks, send_to_dlq(t) PROVE faults = 0
  BY <1>13 DEF send_to_dlq, envVars
<1>14. ASSUME NEW t \in tasks, Acknowledge(t) PROVE faults = 0
  BY <1>14 DEF Acknowledge, envVars
<1>15. ASSUME NEW t \in tasks, StreamBatchFails(t) PROVE faults = 0
  BY <1>15 DEF StreamBatchFails, TypeOK
<1>16. ASSUME NEW t \in tasks, RetryRaises(t) PROVE faults = 0
  BY <1>16 DEF RetryRaises, TypeOK
<1>17. ASSUME NEW t \in tasks, RetryInvocationDies(t) PROVE faults = 0
  BY <1>17 DEF RetryInvocationDies, TypeOK
<1>18. CASE UNCHANGED vars
  BY <1>18 DEF vars, envVars
<1> QED
  BY <1>1, <1>2, <1>3, <1>4, <1>5, <1>6, <1>7, <1>8, <1>9, <1>10, <1>11, <1>12,
     <1>13, <1>14, <1>15, <1>16, <1>17, <1>18
  DEF Next, Progress, TaskStep, Environment, Failure

\* One step forgets no job: whoever holds it hands it on or records the end.
LEMMA KeptStep == BaseInv /\ MarkInv /\ KeptInv /\ [Next]_vars => KeptInv'
<1> SUFFICES ASSUME BaseInv, MarkInv, KeptInv, [Next]_vars, faults' = 0, NEW i \in Jobs
             PROVE Kept(i)'
  BY DEF KeptInv
<1>a. TypeOK /\ TaskShape
  BY DEF BaseInv
<1>b. faults = 0 /\ Kept(i)
  BY <1>a, FaultsGrow DEF KeptInv
<1> USE <1>a, <1>b
<1>1. ASSUME NEW j \in Jobs, JobReachesTerminal(j) PROVE Kept(i)'
  <2> DEFINE r == [job |-> j, new |-> TRUE, old |-> FALSE, delivered |-> FALSE, tries |-> 0]
  <2>1. /\ r.job = j /\ r.new /\ ~r.old /\ ~r.delivered
        /\ stream' = stream \cup {r} /\ UNCHANGED <<target, queue, dlq, tasks>>
    BY <1>1 DEF JobReachesTerminal
  <2>2. i # j => job'[i] = job[i]
    BY <1>1 DEF JobReachesTerminal, TypeOK
  <2> HIDE DEF r
  <2>3. CASE i = j
    BY <2>1, <2>3
    DEF Kept, Undecided, Announced, Waiting, should_process_stream_transition
  <2>4. CASE i # j
    BY <2>1, <2>2, <2>4
    DEF Kept, Undecided, GivingUp, Announced, Waiting, Working, should_process_stream_transition
  <2> QED
    BY <2>3, <2>4
<1>2. ASSUME NEW j \in Jobs, DeleteWebhook(j) PROVE Kept(i)'
  BY <1>2 DEF DeleteWebhook, Kept, Undecided, GivingUp, Announced, Waiting, Working,
      should_process_stream_transition
<1>3. ASSUME NEW j \in Jobs, JobExpires(j) PROVE Kept(i)'
  BY <1>3 DEF JobExpires, Kept, Undecided, GivingUp, Announced, Waiting, Working,
      should_process_stream_transition
<1>4. ASSUME NEW j \in Jobs, NEW a \in Attempts, DuplicateMessage(j, a) PROVE Kept(i)'
  <2>1. \A b \in Attempts : queue[i][b] > 0 => queue'[i][b] > 0
    BY <1>4 DEF DuplicateMessage, TypeOK
  <2>2. UNCHANGED <<target, job, stream, dlq, tasks>>
    BY <1>4 DEF DuplicateMessage
  <2> QED
    BY <2>1, <2>2
    DEF Kept, Undecided, GivingUp, Announced, Waiting, Working, should_process_stream_transition
<1>5. ASSUME NEW j \in Jobs, NEW a \in Attempts, Redrive(j, a) PROVE Kept(i)'
  <2>1. UNCHANGED <<target, job, stream, tasks>>
    BY <1>5 DEF Redrive
  <2>2. CASE i = j
    <3>1. queue'[i][a] > 0
      BY <1>5, <2>2 DEF Redrive, TypeOK
    <3> QED
      BY <3>1 DEF Kept, Undecided
  <2>3. CASE i # j
    <3>1. queue'[i] = queue[i] /\ dlq'[i] = dlq[i]
      BY <1>5, <2>3 DEF Redrive, TypeOK
    <3> QED
      BY <2>1, <3>1
      DEF Kept, Undecided, GivingUp, Announced, Waiting, Working, should_process_stream_transition
  <2> QED
    BY <2>2, <2>3
<1>6. CASE FilterStreamRecord
  BY <1>6 DEF FilterStreamRecord, Kept, Undecided, GivingUp, Announced, Waiting, Working,
      should_process_stream_transition
<1>7. CASE process_stream_record
  <2>1. PICK r \in stream, u \in Task :
          Waiting(r, u.job) /\ stream' = stream \ {r} /\ StartOutcome(u) /\ u.pc # "ack"
    BY <1>7, StreamMoves
  <2> QED
    BY <1>7, <2>1
    DEF process_stream_record, StartOutcome, Waiting, Kept, Undecided, GivingUp, Announced, Waiting, Working,
      should_process_stream_transition
<1>8. ASSUME NEW w \in RetryWorkers, NEW j \in Jobs, NEW a \in Attempts,
            process_retry_record(w, j, a)
     PROVE Kept(i)'
  <2>1. PICK u \in Task :
          /\ u.job = j /\ StartOutcome(u)
          /\ Announced(j) /\ ~job[j].delivered => u.pc # "ack"
    BY <1>8, RetryMoves
  <2>a. u \in tasks' /\ \A t \in tasks : t \in tasks'
    BY <2>1 DEF StartOutcome
  <2>b. UNCHANGED <<target, job, stream, dlq>>
    BY <1>8 DEF process_retry_record
  <2>2. /\ UNCHANGED <<target, job, stream, dlq>>
        /\ u \in tasks' /\ \A t \in tasks : t \in tasks'
    BY <2>a, <2>b
  <2>3. CASE i = j
    <3>1. job[i].delivered => job[i].ws = "delivered"
      BY DEF MarkInv
    <3>2. ASSUME Announced(i), ~job[i].delivered PROVE Undecided(i)'
      <4>1. u.pc # "ack"
        BY <2>1, <2>3, <3>2, Zenon
      <4>2. u.job = i /\ u.pc # "send" /\ u \in tasks'
        BY <2>1, <2>2, <2>3 DEF StartOutcome
      <4> QED
        BY <4>1, <4>2 DEF Undecided, Working, GivingUp
    <3> QED
      BY <2>2, <3>1, <3>2 DEF Kept, Announced
  <2>4. CASE i # j
    <3>1. queue'[i] = queue[i]
      BY <1>8, <2>4 DEF process_retry_record, TypeOK
    <3> QED
      BY <2>2, <3>1
      DEF Kept, Undecided, GivingUp, Announced, Waiting, Working, should_process_stream_transition
  <2> QED
    BY <2>3, <2>4
<1>9. ASSUME NEW t \in tasks, check_registration(t) PROVE Kept(i)'
  <2>1. PICK u : CheckOutcome(t, u)
    BY <1>9, CheckMoves
  <2> QED
    BY <1>9, <2>1
    DEF check_registration, CheckOutcome, Becomes, Kept, Undecided, GivingUp, Announced, Waiting, Working,
      should_process_stream_transition
<1>10. ASSUME NEW t \in tasks, deliver_webhook(t) PROVE Kept(i)'
  <2>1. PICK u : DeliverOutcome(t, u)
    BY <1>10, DeliverMoves
  <2> QED
    BY <1>10, <2>1
    DEF deliver_webhook, DeliverOutcome, Becomes, Kept, Undecided, GivingUp, Announced, Waiting, Working,
      should_process_stream_transition
<1>11. ASSUME NEW t \in tasks, mark_delivery_state(t) PROVE Kept(i)'
  <2>1. PICK u : MarkOutcome(t, u)
    BY <1>11, MarkMoves
  <2>2. /\ t.job \in Jobs /\ t.pc = "mark" /\ t.out # "none" /\ t.out \in DeliveryStatus
        /\ UNCHANGED <<target, queue, dlq>> /\ \A r \in stream : r \in stream'
    BY <1>11 DEF mark_delivery_state, TypeOK, Task, MarkInv
  <2>3. u \in tasks' /\ u.job = t.job /\ u.out = t.out /\ \A v \in tasks : v # t => v \in tasks'
    BY <2>1 DEF MarkOutcome, Becomes
  <2>4. CASE i = t.job
    <3>1. job'[i].ws = t.out
      BY <1>11, <2>2, <2>4 DEF mark_delivery_state, TypeOK
    <3>2. CASE t.out \in {"delivered", "skipped"}
      BY <3>1, <3>2 DEF Kept
    <3>3. CASE t.out = "retrying"
      <4>1. Working(u, i) /\ ~GivingUp(u, i)
        BY <2>1, <2>3, <2>4, <3>3 DEF MarkOutcome, Working, GivingUp
      <4> QED
        BY <2>3, <4>1 DEF Kept, Undecided, Working, GivingUp
    <3>4. CASE t.out = "failed"
      <4>1. GivingUp(u, i)
        BY <2>1, <2>3, <2>4, <3>4 DEF MarkOutcome, GivingUp
      <4> QED
        BY <2>3, <3>1, <3>4, <4>1 DEF Kept, GivingUp
    <3> QED
      BY <2>2, <3>2, <3>3, <3>4 DEF DeliveryStatus
  <2>5. CASE i # t.job
    <3>1. job'[i] = job[i]
      BY <1>11, <2>5 DEF mark_delivery_state, TypeOK
    <3> QED
      BY <2>2, <2>3, <2>5, <3>1
      DEF Kept, Undecided, GivingUp, Announced, Waiting, Working, should_process_stream_transition
  <2> QED
    BY <2>4, <2>5
<1>12. ASSUME NEW t \in tasks, enqueue_retry(t) PROVE Kept(i)'
  <2>1. PICK u : SendOutcome(t, u)
    BY <1>12, SendMoves
  <2>2. /\ t.job \in Jobs /\ t.attempt + 1 \in Attempts
        /\ UNCHANGED <<target, job, stream, dlq>> /\ \A v \in tasks : v # t => v \in tasks'
    <3>1. t.job \in Jobs /\ t.attempt \in Attempts /\ t.attempt <= MaxRetry
      BY <1>12 DEF enqueue_retry, TypeOK, TaskShape, Task
    <3> QED
      BY <1>12, <2>1, <3>1, BoundsAssumption
      DEF enqueue_retry, SendOutcome, Becomes, Attempts
  <2>3. CASE i = t.job
    <3>1. queue'[i][t.attempt + 1] > 0
      BY <1>12, <2>2, <2>3 DEF enqueue_retry, TypeOK
    <3> QED
      BY <2>2, <3>1 DEF Kept, Undecided
  <2>4. CASE i # t.job
    <3>1. queue'[i] = queue[i]
      BY <1>12, <2>4 DEF enqueue_retry, TypeOK
    <3> QED
      BY <2>2, <2>4, <3>1
      DEF Kept, Undecided, GivingUp, Announced, Waiting, Working, should_process_stream_transition
  <2> QED
    BY <2>3, <2>4
<1>13. ASSUME NEW t \in tasks, send_to_dlq(t) PROVE Kept(i)'
  <2>1. PICK u : SendOutcome(t, u)
    BY <1>13, SendMoves
  <2>2. /\ t.job \in Jobs /\ t.attempt \in Attempts /\ GivingUp(t, t.job)
        /\ UNCHANGED <<target, job, stream, queue>> /\ \A v \in tasks : v # t => v \in tasks'
    BY <1>13, <2>1 DEF send_to_dlq, TypeOK, Task, SendOutcome, Becomes, GivingUp
  <2>3. Undecided(i) => Undecided(i)'
    BY <2>2
    DEF Undecided, GivingUp, Working, Waiting, should_process_stream_transition
  <2>4. CASE i = t.job
    <3>1. dlq'[i][t.attempt] > 0
      BY <1>13, <2>2, <2>4 DEF send_to_dlq, TypeOK
    <3> QED
      BY <2>2, <2>3, <3>1 DEF Kept, Announced
  <2>5. CASE i # t.job
    <3>1. dlq'[i] = dlq[i]
      BY <1>13, <2>5 DEF send_to_dlq, TypeOK
    <3> QED
      BY <2>2, <2>3, <2>5, <3>1 DEF Kept, Announced, GivingUp
  <2> QED
    BY <2>4, <2>5
<1>14. ASSUME NEW t \in tasks, Acknowledge(t) PROVE Kept(i)'
  BY <1>14 DEF Acknowledge, Kept, Undecided, GivingUp, Announced, Waiting, Working,
      should_process_stream_transition
<1>15. ASSUME NEW t \in tasks, StreamBatchFails(t) PROVE Kept(i)'
  BY <1>15 DEF StreamBatchFails, TypeOK
<1>16. ASSUME NEW t \in tasks, RetryRaises(t) PROVE Kept(i)'
  BY <1>16 DEF RetryRaises, TypeOK
<1>17. ASSUME NEW t \in tasks, RetryInvocationDies(t) PROVE Kept(i)'
  BY <1>17 DEF RetryInvocationDies, TypeOK
<1>18. CASE UNCHANGED vars
  BY <1>18 DEF vars, Kept, Undecided, GivingUp, Announced, Waiting, Working,
      should_process_stream_transition
<1> QED
  BY <1>1, <1>2, <1>3, <1>4, <1>5, <1>6, <1>7, <1>8, <1>9, <1>10, <1>11, <1>12,
     <1>13, <1>14, <1>15, <1>16, <1>17, <1>18
  DEF Next, Progress, TaskStep, Environment, Failure

\* As long as no handler fails, a job to announce is delivered, skipped, failed
\* with a dead letter, or still being worked on, whatever is duplicated, redriven
\* or lost on the way back.
THEOREM NothingIsForgotten == Spec => []NothingForgotten
<1>1. Init => MarkInv /\ KeptInv
  BY DEF Init, MarkInv, KeptInv, Kept, Announced
<1>2. KeptInv => NothingForgotten
  BY DEF KeptInv, Kept, Undecided, GivingUp, Waiting, Working, NothingForgotten, Live, Trigger,
         TasksOf, Queued
<1> QED
  BY <1>1, <1>2, BaseInvariant, MarkStep, KeptStep, PTL DEF Spec

-----------------------------------------------------------------------------
(* Deliveries are bounded.  What may still be sent for a job is a sum over *)
(* its chains: a record that waits, a task and a message may each lead to  *)
(* as many deliveries as attempts are left.  A step moves a share from one *)
(* to the next, spends it, or is paid for by a failure, a duplicate or a   *)
(* redrive.                                                                *)

\* How many attempts a task may still lead to, its own included.
Owes(t) ==
    IF t.pc \in {"check", "post"} THEN MaxRetry + 2 - t.attempt
    ELSE IF t.pc \in {"mark", "send"} /\ t.out = "retrying" THEN MaxRetry + 1 - t.attempt
    ELSE 0

\* The messages of a job, numbered.
Message == Attempts \X (Nat \ {0})
Messages(q) == {p \in Message : p[2] <= q[p[1]]}

RecordShare == [r \in StreamRecord |-> MaxRetry + 1]
TaskShare == [t \in Task |-> Owes(t)]
MessageShare == [p \in Message |-> MaxRetry + 2 - p[1]]

\* A job that still runs has its first chain before it.
Spare(status) == IF status = "running" THEN MaxRetry + 1 ELSE 0
Allowance(n) == (MaxRetry + 1) * (1 + n)

\* What was taken and what the waiting records R, tasks T and messages q of a job
\* may still lead to is within the allowance.
Covered(R, T, q, acc, sp, al) ==
    /\ R \subseteq StreamRecord /\ IsFiniteSet(R)
    /\ T \subseteq Task /\ IsFiniteSet(T)
    /\ q \in [Attempts -> Nat] /\ IsFiniteSet(Messages(q))
    /\ acc \in Nat /\ sp \in Nat /\ al \in Nat
    /\ acc + Weight(RecordShare, R) + Weight(TaskShare, T) + Weight(MessageShare, Messages(q)) + sp
         <= al

Funded(j) == Covered(Trigger(j), TasksOf(j), queue[j], accepted[j], Spare(job[j].status),
                     Allowance(faults + dups + redrives))
FundedInv == \A j \in Jobs : Funded(j)

\* The shares are numbers, none above that of a whole chain.
LEMMA SharesAre ==
    /\ RecordShare \in [StreamRecord -> Nat] /\ \A r \in StreamRecord : RecordShare[r] = MaxRetry + 1
    /\ TaskShare \in [Task -> Nat] /\ \A t \in Task : TaskShare[t] = Owes(t)
    /\ MessageShare \in [Message -> Nat]
    /\ \A t \in Task : Owes(t) \in Nat /\ Owes(t) <= MaxRetry + 1
<1> USE BoundsAssumption
<1>1. RecordShare \in [StreamRecord -> Nat] /\ \A r \in StreamRecord : RecordShare[r] = MaxRetry + 1
  BY DEF RecordShare
<1>2. \A t \in Task : Owes(t) \in Nat /\ Owes(t) <= MaxRetry + 1
  <2> SUFFICES ASSUME NEW t \in Task PROVE Owes(t) \in Nat /\ Owes(t) <= MaxRetry + 1
    OBVIOUS
  <2>1. t.attempt \in Nat /\ 1 <= t.attempt /\ t.attempt <= MaxRetry + 1
    BY DEF Task, Attempts
  <2> QED
    BY <2>1 DEF Owes
<1>3. TaskShare \in [Task -> Nat] /\ \A t \in Task : TaskShare[t] = Owes(t)
  BY <1>2 DEF TaskShare
<1>4. MessageShare \in [Message -> Nat]
  <2>1. \A p \in Message : p[1] \in Nat /\ p[1] <= MaxRetry + 1
    BY DEF Message, Attempts
  <2>2. \A p \in Message : MaxRetry + 2 - p[1] \in Nat
    BY <2>1
  <2> QED
    BY <2>2 DEF MessageShare
<1> QED
  BY <1>1, <1>2, <1>3, <1>4

\* One message more for attempt a.
LEMMA MessageIn ==
    ASSUME NEW q \in [Attempts -> Nat], IsFiniteSet(Messages(q)), NEW a \in Attempts,
           NEW p, p = [q EXCEPT ![a] = @ + 1]
    PROVE  /\ p \in [Attempts -> Nat] /\ IsFiniteSet(Messages(p))
           /\ Weight(MessageShare, Messages(p)) \in Nat /\ Weight(MessageShare, Messages(q)) \in Nat
           /\ Weight(MessageShare, Messages(p)) <= Weight(MessageShare, Messages(q)) + (MaxRetry + 2 - a)
<1> DEFINE x == <<a, q[a] + 1>>
<1>1. p \in [Attempts -> Nat] /\ p[a] = q[a] + 1 /\ \A b \in Attempts : b # a => p[b] = q[b]
  OBVIOUS
<1>2. x \in Message /\ x[1] = a /\ x[2] = q[a] + 1
  BY DEF Message
<1>3. \A y \in Message : y[1] = a /\ y[2] = q[a] + 1 => y = x
  BY DEF Message
<1> HIDE DEF x
<1>4. Messages(p) = Messages(q) \cup {x}
  <2>1. \A y \in Message : y[1] \in Attempts /\ y[2] \in Nat /\ q[y[1]] \in Nat
    BY DEF Message
  <2>2. \A y \in Message : y[2] <= p[y[1]] <=> y[2] <= q[y[1]] \/ y = x
    BY <1>1, <1>2, <1>3, <2>1
  <2> QED
    BY <1>2, <2>2 DEF Messages
<1>5. MessageShare[x] = MaxRetry + 2 - a
  BY <1>2 DEF MessageShare
<1>6. Messages(q) \subseteq Message
  BY DEF Messages
<1>7. /\ IsFiniteSet(Messages(q) \cup {x}) /\ Weight(MessageShare, Messages(q)) \in Nat
      /\ Weight(MessageShare, Messages(q) \cup {x}) \in Nat
      /\ Weight(MessageShare, Messages(q) \cup {x})
           <= Weight(MessageShare, Messages(q)) + MessageShare[x]
  BY <1>2, <1>6, SharesAre, WeightAdds
<1> QED
  BY <1>1, <1>4, <1>5, <1>7

\* One message less for attempt a.
LEMMA MessageOut ==
    ASSUME NEW q \in [Attempts -> Nat], IsFiniteSet(Messages(q)), NEW a \in Attempts, q[a] > 0,
           NEW p, p = [q EXCEPT ![a] = @ - 1]
    PROVE  /\ p \in [Attempts -> Nat] /\ IsFiniteSet(Messages(p))
           /\ Weight(MessageShare, Messages(p)) \in Nat
           /\ Weight(MessageShare, Messages(q)) = Weight(MessageShare, Messages(p)) + (MaxRetry + 2 - a)
<1> DEFINE x == <<a, q[a]>>
<1>1. p \in [Attempts -> Nat] /\ p[a] = q[a] - 1 /\ \A b \in Attempts : b # a => p[b] = q[b]
  OBVIOUS
<1>2. x \in Message /\ x[1] = a /\ x[2] = q[a]
  BY DEF Message
<1>3. \A y \in Message : y[1] = a /\ y[2] = q[a] => y = x
  BY DEF Message
<1> HIDE DEF x
<1>4. Messages(p) = Messages(q) \ {x} /\ x \in Messages(q)
  <2>1. \A y \in Message : y[1] \in Attempts /\ y[2] \in Nat /\ q[y[1]] \in Nat
    BY DEF Message
  <2>2. \A y \in Message : y[2] <= p[y[1]] <=> y[2] <= q[y[1]] /\ y # x
    BY <1>1, <1>2, <1>3, <2>1
  <2>3. x[2] <= q[x[1]]
    BY <1>2
  <2> QED
    BY <1>2, <2>2, <2>3 DEF Messages
<1>5. MessageShare[x] = MaxRetry + 2 - a
  BY <1>2 DEF MessageShare
<1>6. Messages(q) \subseteq Message
  BY DEF Messages
<1>7. /\ IsFiniteSet(Messages(q) \ {x}) /\ Weight(MessageShare, Messages(q) \ {x}) \in Nat
      /\ Weight(MessageShare, Messages(q))
           = Weight(MessageShare, Messages(q) \ {x}) + MessageShare[x]
  BY <1>4, <1>6, SharesAre, WeightTakes
<1> QED
  BY <1>1, <1>4, <1>5, <1>7

\* What is covered has weights that are numbers.
LEMMA WeightsAre ==
    ASSUME NEW R, NEW T, NEW q, NEW acc, NEW sp, NEW al, Covered(R, T, q, acc, sp, al)
    PROVE  /\ Weight(RecordShare, R) \in Nat /\ Weight(TaskShare, T) \in Nat
           /\ Weight(MessageShare, Messages(q)) \in Nat
<1>1. ASSUME NEW D, NEW w \in [D -> Nat], NEW S, S \subseteq D, IsFiniteSet(S) PROVE Weight(w, S) \in Nat
  BY <1>1, WeighedIs, SumIsNumber DEF Weight
<1>2. Messages(q) \subseteq Message
  BY DEF Messages
<1>3. Weight(RecordShare, R) \in Nat
  BY <1>1, SharesAre DEF Covered
<1>4. Weight(TaskShare, T) \in Nat
  BY <1>1, SharesAre DEF Covered
<1>5. Weight(MessageShare, Messages(q)) \in Nat
  BY <1>1, <1>2, SharesAre DEF Covered
<1> QED
  BY <1>3, <1>4, <1>5

\* Less in reserve or more allowed.
LEMMA CoverEases ==
    ASSUME NEW R, NEW T, NEW q, NEW acc, NEW sp, NEW al, Covered(R, T, q, acc, sp, al),
           NEW sp2 \in Nat, NEW al2 \in Nat, sp2 <= sp, al <= al2
    PROVE  Covered(R, T, q, acc, sp2, al2)
  BY WeightsAre DEF Covered

\* A task moves on, d of its share spent.
LEMMA CoverMoves ==
    ASSUME NEW R, NEW T, NEW q, NEW acc, NEW sp, NEW al, Covered(R, T, q, acc, sp, al),
           NEW t \in T, NEW u \in Task, NEW d \in Nat, Owes(u) + d <= Owes(t)
    PROVE  Covered(R, (T \ {t}) \cup {u}, q, acc + d, sp, al)
<1> DEFINE S == T \ {t}
<1>1. T \subseteq Task /\ IsFiniteSet(T) /\ t \in Task /\ S \subseteq Task
  BY DEF Covered
<1>2. /\ IsFiniteSet(S) /\ Weight(TaskShare, S) \in Nat
      /\ Weight(TaskShare, T) = Weight(TaskShare, S) + Owes(t)
  BY <1>1, SharesAre, WeightTakes
<1> HIDE DEF S
<1>3. /\ IsFiniteSet(S \cup {u}) /\ Weight(TaskShare, S \cup {u}) \in Nat
      /\ Weight(TaskShare, S \cup {u}) <= Weight(TaskShare, S) + Owes(u)
  BY <1>1, <1>2, SharesAre, WeightAdds
<1>4. Owes(t) \in Nat /\ Owes(u) \in Nat
  BY <1>1, SharesAre
<1>5. S \cup {u} \subseteq Task
  BY <1>1
<1>6. Covered(R, S \cup {u}, q, acc + d, sp, al)
  BY <1>2, <1>3, <1>4, <1>5, WeightsAre DEF Covered
<1> QED
  BY <1>6 DEF S

\* A task ends.
LEMMA CoverDrops ==
    ASSUME NEW R, NEW T, NEW q, NEW acc, NEW sp, NEW al, Covered(R, T, q, acc, sp, al), NEW t \in T
    PROVE  Covered(R, T \ {t}, q, acc, sp, al)
<1> DEFINE S == T \ {t}
<1>1. T \subseteq Task /\ IsFiniteSet(T) /\ t \in Task /\ S \subseteq Task
  BY DEF Covered
<1>2. /\ IsFiniteSet(S) /\ Weight(TaskShare, S) \in Nat /\ Owes(t) \in Nat
      /\ Weight(TaskShare, T) = Weight(TaskShare, S) + Owes(t)
  BY <1>1, SharesAre, WeightTakes
<1> HIDE DEF S
<1>3. Covered(R, S, q, acc, sp, al)
  BY <1>1, <1>2, WeightsAre DEF Covered
<1> QED
  BY <1>3 DEF S

\* A record more, paid for by what was in reserve or by a larger allowance.
LEMMA CoverRecord ==
    ASSUME NEW R, NEW T, NEW q, NEW acc, NEW sp, NEW al, Covered(R, T, q, acc, sp, al),
           NEW r \in StreamRecord, NEW sp2 \in Nat, NEW al2 \in Nat, sp2 + al + (MaxRetry + 1) <= sp + al2
    PROVE  Covered(R \cup {r}, T, q, acc, sp2, al2)
<1>1. R \subseteq StreamRecord /\ IsFiniteSet(R)
  BY DEF Covered
<1>a. /\ IsFiniteSet(R \cup {r}) /\ Weight(RecordShare, R \cup {r}) \in Nat
      /\ Weight(RecordShare, R \cup {r}) <= Weight(RecordShare, R) + RecordShare[r]
  BY <1>1, SharesAre, WeightAdds
<1>2. /\ IsFiniteSet(R \cup {r}) /\ Weight(RecordShare, R \cup {r}) \in Nat
      /\ Weight(RecordShare, R \cup {r}) <= Weight(RecordShare, R) + (MaxRetry + 1)
  BY <1>a, SharesAre
<1>3. R \cup {r} \subseteq StreamRecord
  BY <1>1
<1> QED
  BY <1>2, <1>3, WeightsAre, BoundsAssumption DEF Covered

\* A record becomes a task.
LEMMA CoverStarts ==
    ASSUME NEW R, NEW T, NEW q, NEW acc, NEW sp, NEW al, Covered(R, T, q, acc, sp, al),
           NEW r \in R, NEW u \in Task
    PROVE  Covered(R \ {r}, T \cup {u}, q, acc, sp, al)
<1>1. R \subseteq StreamRecord /\ IsFiniteSet(R) /\ T \subseteq Task /\ IsFiniteSet(T) /\ r \in StreamRecord
  BY DEF Covered
<1>2. /\ IsFiniteSet(R \ {r}) /\ Weight(RecordShare, R \ {r}) \in Nat
      /\ Weight(RecordShare, R) = Weight(RecordShare, R \ {r}) + (MaxRetry + 1)
  BY <1>1, SharesAre, WeightTakes
<1>3. /\ IsFiniteSet(T \cup {u}) /\ Weight(TaskShare, T \cup {u}) \in Nat
      /\ Weight(TaskShare, T \cup {u}) <= Weight(TaskShare, T) + Owes(u)
  BY <1>1, SharesAre, WeightAdds
<1>4. Owes(u) \in Nat /\ Owes(u) <= MaxRetry + 1
  BY SharesAre
<1>5. R \ {r} \subseteq StreamRecord /\ T \cup {u} \subseteq Task
  BY <1>1
<1> QED
  BY <1>2, <1>3, <1>4, <1>5, WeightsAre, BoundsAssumption DEF Covered

\* A message more, paid for by a larger allowance.
LEMMA CoverMessage ==
    ASSUME NEW R, NEW T, NEW q, NEW acc, NEW sp, NEW al, Covered(R, T, q, acc, sp, al),
           NEW a \in Attempts, NEW al2 \in Nat, al + (MaxRetry + 1) <= al2,
           NEW p, p = [q EXCEPT ![a] = @ + 1]
    PROVE  Covered(R, T, p, acc, sp, al2)
<1>1. q \in [Attempts -> Nat] /\ IsFiniteSet(Messages(q))
  BY DEF Covered
<1>2. /\ p \in [Attempts -> Nat] /\ IsFiniteSet(Messages(p)) /\ Weight(MessageShare, Messages(p)) \in Nat
      /\ Weight(MessageShare, Messages(p)) <= Weight(MessageShare, Messages(q)) + (MaxRetry + 2 - a)
  BY <1>1, MessageIn
<1>3. a \in Nat /\ 1 <= a /\ MaxRetry \in Nat
  BY BoundsAssumption DEF Attempts
<1> QED
  BY <1>2, <1>3, WeightsAre DEF Covered

\* A message becomes a task.
LEMMA CoverRetries ==
    ASSUME NEW R, NEW T, NEW q, NEW acc, NEW sp, NEW al, Covered(R, T, q, acc, sp, al),
           NEW a \in Attempts, q[a] > 0, NEW p, p = [q EXCEPT ![a] = @ - 1],
           NEW u \in Task, Owes(u) <= MaxRetry + 2 - a
    PROVE  Covered(R, T \cup {u}, p, acc, sp, al)
<1>1. q \in [Attempts -> Nat] /\ IsFiniteSet(Messages(q)) /\ T \subseteq Task /\ IsFiniteSet(T)
  BY DEF Covered
<1>2. /\ p \in [Attempts -> Nat] /\ IsFiniteSet(Messages(p)) /\ Weight(MessageShare, Messages(p)) \in Nat
      /\ Weight(MessageShare, Messages(q)) = Weight(MessageShare, Messages(p)) + (MaxRetry + 2 - a)
  BY <1>1, MessageOut
<1>3. /\ IsFiniteSet(T \cup {u}) /\ Weight(TaskShare, T \cup {u}) \in Nat
      /\ Weight(TaskShare, T \cup {u}) <= Weight(TaskShare, T) + Owes(u)
  BY <1>1, SharesAre, WeightAdds
<1>4. Owes(u) \in Nat /\ a \in Nat /\ MaxRetry \in Nat /\ T \cup {u} \subseteq Task
  BY <1>1, SharesAre, BoundsAssumption DEF Attempts
<1> QED
  BY <1>2, <1>3, <1>4, WeightsAre DEF Covered

\* A task hands its share over to a message.
LEMMA CoverHandsOver ==
    ASSUME NEW R, NEW T, NEW q, NEW acc, NEW sp, NEW al, Covered(R, T, q, acc, sp, al),
           NEW t \in T, NEW u \in Task, NEW b \in Attempts,
           Owes(u) = 0, Owes(t) = MaxRetry + 2 - b, NEW p, p = [q EXCEPT ![b] = @ + 1]
    PROVE  Covered(R, (T \ {t}) \cup {u}, p, acc, sp, al)
<1> DEFINE S == (T \ {t}) \cup {u}
           n == MaxRetry + 2 - b
<1>1. n \in Nat /\ al \in Nat
  BY BoundsAssumption DEF Attempts, Covered
<1> HIDE DEF n
<1>a. Owes(u) + n <= Owes(t)
  BY <1>1 DEF n
<1>2. Covered(R, S, q, acc + n, sp, al)
  BY <1>1, <1>a, CoverMoves
<1> HIDE DEF S
<1>3. q \in [Attempts -> Nat] /\ IsFiniteSet(Messages(q)) /\ acc \in Nat
  BY DEF Covered
<1>4. /\ p \in [Attempts -> Nat] /\ IsFiniteSet(Messages(p)) /\ Weight(MessageShare, Messages(p)) \in Nat
      /\ Weight(MessageShare, Messages(p)) <= Weight(MessageShare, Messages(q)) + n
  BY <1>3, MessageIn DEF n
<1>5. Covered(R, S, p, acc, sp, al)
  BY <1>1, <1>2, <1>3, <1>4, WeightsAre DEF Covered
<1> QED
  BY <1>5 DEF S

\* Every failure, duplicate and redrive pays for a chain.
LEMMA AllowanceGrows ==
    ASSUME NEW n \in Nat
    PROVE  /\ Allowance(n) \in Nat /\ Allowance(n + 1) \in Nat
           /\ Allowance(n + 1) = Allowance(n) + (MaxRetry + 1)
<1>1. \A k \in Nat : k * (1 + n) \in Nat /\ k * (1 + (n + 1)) = k * (1 + n) + k
  OBVIOUS
<1>2. MaxRetry + 1 \in Nat
  BY BoundsAssumption
<1> QED
  BY <1>1, <1>2 DEF Allowance

\* One step spends what it sends and pays for what it starts.
LEMMA FundedStep == BaseInv /\ FundedInv /\ [Next]_vars => FundedInv'
<1> SUFFICES ASSUME BaseInv, FundedInv, [Next]_vars, NEW i \in Jobs PROVE Funded(i)'
  BY DEF FundedInv
<1> DEFINE n == faults + dups + redrives
           sp == Spare(job[i].status)
           al == Allowance(n)
<1>a. TypeOK /\ TaskShape
  BY DEF BaseInv
<1>b. Covered(Trigger(i), TasksOf(i), queue[i], accepted[i], sp, al)
  BY DEF FundedInv, Funded
<1>c. n \in Nat
  BY <1>a DEF TypeOK
<1>d. sp \in Nat /\ al \in Nat /\ Allowance(n + 1) = al + (MaxRetry + 1) /\ Allowance(n + 1) \in Nat
  BY <1>c, AllowanceGrows, BoundsAssumption DEF Spare
<1>e. job[i].status = "running" => sp = MaxRetry + 1
  BY DEF Spare
<1>f. ASSUME NEW s, s # "running" PROVE Spare(s) = 0
  BY <1>f DEF Spare
<1>g. MaxRetry \in Nat
  BY BoundsAssumption
\* Nothing of the job changes.
<1>h. ASSUME Trigger(i)' = Trigger(i), TasksOf(i)' = TasksOf(i), queue'[i] = queue[i],
             accepted'[i] = accepted[i], job'[i].status = job[i].status,
             UNCHANGED <<faults, dups, redrives>>
      PROVE  Funded(i)'
  BY <1>b, <1>h DEF Funded
\* Nothing of the job changes but what it is allowed.
<1>k. ASSUME Trigger(i)' = Trigger(i), TasksOf(i)' = TasksOf(i), queue'[i] = queue[i],
             accepted'[i] = accepted[i], job'[i].status = job[i].status,
             faults' + dups' + redrives' = n + 1
      PROVE  Funded(i)'
  <2>1. Covered(Trigger(i), TasksOf(i), queue[i], accepted[i], sp, Allowance(n + 1))
    <3>1. sp <= sp /\ al <= Allowance(n + 1)
      BY <1>d, <1>g
    <3> HIDE DEF sp, al, n
    <3> QED
      BY <1>b, <1>d, <3>1, CoverEases
  <2> QED
    BY <1>k, <2>1 DEF Funded
\* A task of the job moves on.
<1>m. ASSUME NEW t \in TasksOf(i), NEW u \in Task, NEW d \in Nat, Owes(u) + d <= Owes(t),
             Trigger(i)' = Trigger(i), TasksOf(i)' = (TasksOf(i) \ {t}) \cup {u},
             queue'[i] = queue[i], accepted'[i] = accepted[i] + d,
             Spare(job'[i].status) \in Nat, Spare(job'[i].status) <= sp,
             UNCHANGED <<faults, dups, redrives>>
      PROVE  Funded(i)'
  <2> DEFINE T2 == (TasksOf(i) \ {t}) \cup {u}
  <2>1. Covered(Trigger(i), T2, queue[i], accepted[i] + d, sp, al)
    BY <1>b, <1>m, CoverMoves
  <2>2. Covered(Trigger(i), T2, queue[i], accepted[i] + d, Spare(job'[i].status), al)
    <3> HIDE DEF sp, al, T2
    <3> QED
      BY <1>d, <1>m, <2>1, CoverEases
  <2> QED
    BY <1>m, <2>2 DEF Funded
\* What Trigger and TasksOf are after a step that keeps the records or the tasks.
<1>n. UNCHANGED <<stream, target>> => Trigger(i)' = Trigger(i)
  BY DEF Trigger, should_process_stream_transition
<1>p. tasks' = tasks => TasksOf(i)' = TasksOf(i)
  BY DEF TasksOf
<1>q. ASSUME NEW t \in tasks, NEW u, Becomes(t, u)
      PROVE  /\ t.job = i => t \in TasksOf(i) /\ TasksOf(i)' = (TasksOf(i) \ {t}) \cup {u}
             /\ t.job # i => TasksOf(i)' = TasksOf(i)
  BY <1>q DEF Becomes, TasksOf
<1>r. ASSUME NEW t \in tasks, tasks' = tasks \ {t}
      PROVE  /\ t.job = i => t \in TasksOf(i) /\ TasksOf(i)' = TasksOf(i) \ {t}
             /\ t.job # i => TasksOf(i)' = TasksOf(i)
  BY <1>r DEF TasksOf
<1>s. ASSUME NEW u, tasks' = tasks \cup {u}
      PROVE  /\ u.job = i => TasksOf(i)' = TasksOf(i) \cup {u}
             /\ u.job # i => TasksOf(i)' = TasksOf(i)
  BY <1>s DEF TasksOf
<1>t. \A t \in tasks : t \in Task /\ t.attempt \in Nat /\ 1 <= t.attempt /\ t.attempt <= MaxRetry + 1
  BY <1>a DEF TypeOK, Task, Attempts
<1>1. ASSUME NEW j \in Jobs, JobReachesTerminal(j) PROVE Funded(i)'
  <2> DEFINE r == [job |-> j, new |-> TRUE, old |-> FALSE, delivered |-> FALSE, tries |-> 0]
  <2>1. /\ r \in StreamRecord /\ r.job = j /\ stream' = stream \cup {r} /\ job[j].status = "running"
        /\ UNCHANGED <<target, queue, tasks, accepted, faults, dups, redrives>>
    BY <1>1, FirstTry DEF JobReachesTerminal, StreamRecord, envVars
  <2> HIDE DEF r
  <2>2. CASE i # j
    <3>1. Trigger(i)' = Trigger(i)
      BY <2>1, <2>2 DEF Trigger, should_process_stream_transition
    <3>2. job'[i] = job[i]
      BY <1>1, <2>2, <1>a DEF JobReachesTerminal, TypeOK
    <3> QED
      BY <1>h, <1>p, <2>1, <3>1, <3>2
  <2>3. CASE i = j
    <3>1. Trigger(i)' = Trigger(i) \/ Trigger(i)' = Trigger(i) \cup {r}
      BY <2>1 DEF Trigger, should_process_stream_transition
    <3>2. Spare(job'[i].status) = 0 /\ sp = MaxRetry + 1
      <4>1. job'[i].status = "terminal"
        BY <1>1, <2>3, <1>a DEF JobReachesTerminal, TypeOK, JobItem
      <4> QED
        BY <1>e, <2>1, <2>3, <4>1 DEF Spare
    <3> HIDE DEF sp, al
    <3>3. Covered(Trigger(i), TasksOf(i), queue[i], accepted[i], 0, al)
      BY <1>b, <1>d, <1>g, <3>2, CoverEases
    <3>4. Covered(Trigger(i) \cup {r}, TasksOf(i), queue[i], accepted[i], 0, al)
      BY <1>b, <1>d, <1>g, <2>1, <3>2, CoverRecord
    <3> QED
      BY <1>p, <2>1, <3>1, <3>2, <3>3, <3>4 DEF Funded, al
  <2> QED
    BY <2>2, <2>3
<1>2. ASSUME NEW j \in Jobs, DeleteWebhook(j) PROVE Funded(i)'
  BY <1>2, <1>h, <1>n, <1>p DEF DeleteWebhook, envVars
<1>3. ASSUME NEW j \in Jobs, JobExpires(j) PROVE Funded(i)'
  <2>1. UNCHANGED <<target, stream, queue, tasks, accepted, faults, dups, redrives>>
    BY <1>3 DEF JobExpires, envVars
  <2>2. CASE i # j
    <3>1. job'[i] = job[i]
      BY <1>3, <2>2, <1>a DEF JobExpires, TypeOK
    <3> QED
      BY <1>h, <1>n, <1>p, <2>1, <3>1
  <2>3. CASE i = j
    <3>1. job[i].status # "running" /\ job'[i].status # "running"
      BY <1>3, <2>3, <1>a DEF JobExpires, TypeOK
    <3>2. Spare(job'[i].status) = sp
      BY <1>f, <3>1
    <3> QED
      BY <1>b, <1>n, <1>p, <2>1, <3>2 DEF Funded
  <2> QED
    BY <2>2, <2>3
<1>4. ASSUME NEW j \in Jobs, NEW a \in Attempts, DuplicateMessage(j, a) PROVE Funded(i)'
  <2>1. /\ UNCHANGED <<target, stream, job, tasks, accepted, faults, redrives>>
        /\ dups' = dups + 1 /\ queue' = [queue EXCEPT ![j] = [queue[j] EXCEPT ![a] = @ + 1]]
    BY <1>4 DEF DuplicateMessage
  <2>2. faults' + dups' + redrives' = n + 1
    BY <2>1, <1>a DEF TypeOK
  <2>3. CASE i # j
    <3>1. queue'[i] = queue[i]
      BY <2>1, <2>3, <1>a DEF TypeOK
    <3> QED
      BY <1>k, <1>n, <1>p, <2>1, <2>2, <3>1
  <2>4. CASE i = j
    <3>1. queue'[i] = [queue[i] EXCEPT ![a] = @ + 1]
      BY <2>1, <2>4, <1>a DEF TypeOK
    <3>2. Covered(Trigger(i), TasksOf(i), queue'[i], accepted[i], sp, Allowance(n + 1))
      <4> HIDE DEF sp, al, n
      <4> QED
        BY <1>b, <1>d, <1>g, <3>1, CoverMessage
    <3> QED
      BY <1>n, <1>p, <2>1, <2>2, <3>2 DEF Funded
  <2> QED
    BY <2>3, <2>4
<1>5. ASSUME NEW j \in Jobs, NEW a \in Attempts, Redrive(j, a) PROVE Funded(i)'
  <2>1. /\ UNCHANGED <<target, stream, job, tasks, accepted, faults, dups>>
        /\ redrives' = redrives + 1 /\ queue' = [queue EXCEPT ![j] = [queue[j] EXCEPT ![a] = @ + 1]]
    BY <1>5 DEF Redrive
  <2>2. faults' + dups' + redrives' = n + 1
    BY <2>1, <1>a DEF TypeOK
  <2>3. CASE i # j
    <3>1. queue'[i] = queue[i]
      BY <2>1, <2>3, <1>a DEF TypeOK
    <3> QED
      BY <1>k, <1>n, <1>p, <2>1, <2>2, <3>1
  <2>4. CASE i = j
    <3>1. queue'[i] = [queue[i] EXCEPT ![a] = @ + 1]
      BY <2>1, <2>4, <1>a DEF TypeOK
    <3>2. Covered(Trigger(i), TasksOf(i), queue'[i], accepted[i], sp, Allowance(n + 1))
      <4> HIDE DEF sp, al, n
      <4> QED
        BY <1>b, <1>d, <1>g, <3>1, CoverMessage
    <3> QED
      BY <1>n, <1>p, <2>1, <2>2, <3>2 DEF Funded
  <2> QED
    BY <2>3, <2>4
<1>6. CASE FilterStreamRecord
  <2>1. Trigger(i)' = Trigger(i)
    BY <1>6 DEF FilterStreamRecord, Trigger, should_process_stream_transition
  <2> QED
    BY <1>6, <1>h, <1>p, <2>1 DEF FilterStreamRecord, envVars
<1>7. CASE process_stream_record
  <2>1. PICK r \in stream, u \in Task :
          Waiting(r, u.job) /\ stream' = stream \ {r} /\ StartOutcome(u)
    BY <1>7, <1>a, StreamMoves
  <2>2. /\ UNCHANGED <<target, job, queue, accepted, faults, dups, redrives>>
        /\ tasks' = tasks \cup {u} /\ r.job = u.job
    BY <1>7, <2>1 DEF process_stream_record, StartOutcome, envVars, Waiting
  <2>3. CASE u.job # i
    <3>1. Trigger(i)' = Trigger(i)
      BY <2>1, <2>2, <2>3 DEF Trigger, should_process_stream_transition
    <3> QED
      BY <1>h, <1>s, <2>2, <2>3, <3>1
  <2>4. CASE u.job = i
    <3>1. r \in Trigger(i) /\ Trigger(i)' = Trigger(i) \ {r}
      BY <2>1, <2>2, <2>4 DEF Trigger, Waiting, should_process_stream_transition
    <3>2. Covered(Trigger(i) \ {r}, TasksOf(i) \cup {u}, queue[i], accepted[i], sp, al)
      BY <1>b, <3>1, CoverStarts
    <3> QED
      BY <1>s, <2>2, <2>4, <3>1, <3>2 DEF Funded
  <2> QED
    BY <2>3, <2>4
<1>8. ASSUME NEW w \in RetryWorkers, NEW j \in Jobs, NEW a \in Attempts,
            process_retry_record(w, j, a)
     PROVE Funded(i)'
  <2>1. PICK u \in Task : u.job = j /\ u.attempt = a /\ StartOutcome(u)
    BY <1>8, <1>a, RetryMoves
  <2>2. /\ UNCHANGED <<target, job, stream, accepted, faults, dups, redrives>>
        /\ queue[j][a] > 0 /\ queue' = [queue EXCEPT ![j] = [queue[j] EXCEPT ![a] = @ - 1]]
    BY <1>8 DEF process_retry_record, envVars
  <2>3. tasks' = tasks \cup {u} /\ u.out # "retrying"
    BY <2>1 DEF StartOutcome
  <2>4. CASE i # j
    <3>1. queue'[i] = queue[i]
      BY <2>2, <2>4, <1>a DEF TypeOK
    <3> QED
      BY <1>h, <1>n, <1>s, <2>1, <2>2, <2>3, <2>4, <3>1
  <2>5. CASE i = j
    <3>1. queue'[i] = [queue[i] EXCEPT ![a] = @ - 1] /\ queue[i][a] > 0
      BY <2>2, <2>5, <1>a DEF TypeOK
    <3>2. Owes(u) <= MaxRetry + 2 - a
      BY <1>g, <2>1, <2>3 DEF Owes, Attempts
    <3>3. Covered(Trigger(i), TasksOf(i) \cup {u}, queue'[i], accepted[i], sp, al)
      <4> HIDE DEF sp, al
      <4> QED
        BY <1>b, <3>1, <3>2, CoverRetries
    <3> QED
      BY <1>n, <1>s, <2>1, <2>2, <2>3, <2>5, <3>3 DEF Funded
  <2> QED
    BY <2>4, <2>5
<1>9. ASSUME NEW t \in tasks, check_registration(t) PROVE Funded(i)'
  <2>1. PICK u : CheckOutcome(t, u)
    BY <1>9, <1>a, CheckMoves
  <2>2. /\ UNCHANGED <<target, job, stream, queue, accepted, faults, dups, redrives>>
        /\ Becomes(t, u) /\ u \in Task /\ u.attempt = t.attempt /\ t.pc = "check"
    BY <1>9, <2>1 DEF check_registration, CheckOutcome, Becomes, envVars
  <2>3. Owes(u) + 0 <= Owes(t)
    BY <1>g, <1>t, <2>1, <2>2 DEF CheckOutcome, Owes
  <2>4. accepted'[i] = accepted[i] + 0
    BY <2>2, <1>a DEF TypeOK
  <2>5. CASE t.job # i
    BY <1>h, <1>n, <1>q, <2>2, <2>5
  <2>6. CASE t.job = i
    BY <1>d, <1>m, <1>n, <1>q, <2>2, <2>3, <2>4, <2>6
  <2> QED
    BY <2>5, <2>6
<1>10. ASSUME NEW t \in tasks, deliver_webhook(t) PROVE Funded(i)'
  <2>1. PICK u : DeliverOutcome(t, u)
    BY <1>10, <1>a, DeliverMoves
  <2>2. /\ UNCHANGED <<target, job, stream, queue, faults, dups, redrives>>
        /\ Becomes(t, u) /\ u \in Task /\ u.attempt = t.attempt /\ t.pc = "post"
    BY <1>10, <2>1 DEF deliver_webhook, DeliverOutcome, Becomes
  <2>3. Owes(u) + 1 <= Owes(t) /\ Owes(u) + 0 <= Owes(t)
    BY <1>g, <1>t, <2>1, <2>2 DEF DeliverOutcome, Owes
  <2>4. CASE t.job # i
    <3>1. accepted'[i] = accepted[i]
      BY <2>1, <2>4, <1>a DEF DeliverOutcome, TypeOK
    <3> QED
      BY <1>h, <1>n, <1>q, <2>2, <2>4, <3>1
  <2>5. CASE t.job = i
    <3>1. accepted'[i] = accepted[i] + 1 \/ accepted'[i] = accepted[i] + 0
      BY <2>1, <2>5, <1>a DEF DeliverOutcome, TypeOK
    <3> QED
      BY <1>d, <1>m, <1>n, <1>q, <2>2, <2>3, <2>5, <3>1
  <2> QED
    BY <2>4, <2>5
<1>11. ASSUME NEW t \in tasks, mark_delivery_state(t) PROVE Funded(i)'
  <2>1. PICK u : MarkOutcome(t, u)
    BY <1>11, <1>a, MarkMoves
  <2>2. /\ UNCHANGED <<target, queue, accepted, faults, dups, redrives>>
        /\ Becomes(t, u) /\ u \in Task /\ u.attempt = t.attempt /\ t.pc = "mark" /\ t.job \in Jobs
    BY <1>11, <2>1, <1>a DEF mark_delivery_state, MarkOutcome, Becomes, envVars, TypeOK, Task
  <2>3. Owes(u) + 0 <= Owes(t)
    BY <1>g, <1>t, <2>1, <2>2 DEF MarkOutcome, Owes
  <2>4. Trigger(i)' = Trigger(i)
    <3>1. /\ \A r \in stream' : r \in stream \/ r.new = r.old
          /\ \A r \in stream : r \in stream'
      BY <1>11 DEF mark_delivery_state
    <3> QED
      BY <2>2, <3>1 DEF Trigger, should_process_stream_transition
  <2>5. accepted'[i] = accepted[i] + 0
    BY <2>2, <1>a DEF TypeOK
  <2>6. CASE t.job # i
    <3>1. job'[i] = job[i]
      BY <1>11, <2>6, <1>a DEF mark_delivery_state, TypeOK
    <3> QED
      BY <1>h, <1>q, <2>2, <2>4, <2>6, <3>1
  <2>7. CASE t.job = i
    <3>1. job'[i].status # "running"
      BY <1>11, <2>7, <1>a DEF mark_delivery_state, TypeOK
    <3>2. Spare(job'[i].status) \in Nat /\ Spare(job'[i].status) <= sp
      BY <1>d, <1>f, <3>1
    <3> QED
      BY <1>m, <1>q, <2>2, <2>3, <2>4, <2>5, <2>7, <3>2
  <2> QED
    BY <2>6, <2>7
<1>12. ASSUME NEW t \in tasks, enqueue_retry(t) PROVE Funded(i)'
  <2>1. PICK u : SendOutcome(t, u)
    BY <1>12, <1>a, SendMoves
  <2> DEFINE b == t.attempt + 1
  <2>2. /\ UNCHANGED <<target, job, stream, accepted, faults, dups, redrives>>
        /\ Becomes(t, u) /\ u \in Task /\ u.pc = "ack"
        /\ t.pc = "send" /\ t.out = "retrying" /\ t.attempt <= MaxRetry
        /\ queue' = [queue EXCEPT ![t.job] = [queue[t.job] EXCEPT ![b] = @ + 1]]
    BY <1>12, <2>1, <1>a DEF enqueue_retry, SendOutcome, Becomes, envVars, TaskShape
  <2>3. b \in Attempts /\ Owes(u) = 0 /\ Owes(t) = MaxRetry + 2 - b
    BY <1>g, <1>t, <2>2 DEF Owes, Attempts
  <2> HIDE DEF b
  <2>4. CASE t.job # i
    <3>1. queue'[i] = queue[i]
      BY <2>2, <2>4, <1>a DEF TypeOK
    <3> QED
      BY <1>h, <1>n, <1>q, <2>2, <2>4, <3>1
  <2>5. CASE t.job = i
    <3>1. queue'[i] = [queue[i] EXCEPT ![b] = @ + 1]
      BY <2>2, <2>5, <1>a DEF TypeOK
    <3>2. t \in TasksOf(i) /\ TasksOf(i)' = (TasksOf(i) \ {t}) \cup {u}
      BY <1>q, <2>2, <2>5
    <3>3. Covered(Trigger(i), (TasksOf(i) \ {t}) \cup {u}, queue'[i], accepted[i], sp, al)
      <4> HIDE DEF sp, al
      <4> QED
        BY <1>b, <2>2, <2>3, <3>1, <3>2, CoverHandsOver
    <3> QED
      BY <1>n, <2>2, <3>2, <3>3 DEF Funded
  <2> QED
    BY <2>4, <2>5
<1>13. ASSUME NEW t \in tasks, send_to_dlq(t) PROVE Funded(i)'
  <2>1. PICK u : SendOutcome(t, u)
    BY <1>13, <1>a, SendMoves
  <2>2. /\ UNCHANGED <<target, job, stream, queue, accepted, faults, dups, redrives>>
        /\ Becomes(t, u) /\ u \in Task /\ u.pc = "ack" /\ t.pc = "send" /\ t.out = "failed"
    BY <1>13, <2>1 DEF send_to_dlq, SendOutcome, Becomes, envVars
  <2>3. Owes(u) + 0 <= Owes(t)
    BY <2>2 DEF Owes
  <2>4. accepted'[i] = accepted[i] + 0
    BY <2>2, <1>a DEF TypeOK
  <2>5. CASE t.job # i
    BY <1>h, <1>n, <1>q, <2>2, <2>5
  <2>6. CASE t.job = i
    BY <1>d, <1>m, <1>n, <1>q, <2>2, <2>3, <2>4, <2>6
  <2> QED
    BY <2>5, <2>6
<1>14. ASSUME NEW t \in tasks, Acknowledge(t) PROVE Funded(i)'
  <2>1. /\ UNCHANGED <<target, job, stream, queue, accepted, faults, dups, redrives>>
        /\ tasks' = tasks \ {t}
    BY <1>14 DEF Acknowledge, envVars
  <2>2. CASE t.job # i
    BY <1>h, <1>n, <1>r, <2>1, <2>2
  <2>3. CASE t.job = i
    <3>1. t \in TasksOf(i) /\ TasksOf(i)' = TasksOf(i) \ {t}
      BY <1>r, <2>1, <2>3
    <3>2. Covered(Trigger(i), TasksOf(i) \ {t}, queue[i], accepted[i], sp, al)
      BY <1>b, <3>1, CoverDrops
    <3> QED
      BY <1>n, <2>1, <3>1, <3>2 DEF Funded
  <2> QED
    BY <2>2, <2>3
\* A failure drops a task and pays for a chain.
<1>u. ASSUME NEW t \in tasks, tasks' = tasks \ {t}, faults' = faults + 1,
             UNCHANGED <<target, job, queue, accepted, dups, redrives>>, Trigger(i)' = Trigger(i)
      PROVE  Funded(i)'
  <2>1. faults' + dups' + redrives' = n + 1
    BY <1>u, <1>a DEF TypeOK
  <2>2. CASE t.job # i
    BY <1>k, <1>r, <1>u, <2>1, <2>2
  <2>3. CASE t.job = i
    <3>1. t \in TasksOf(i) /\ TasksOf(i)' = TasksOf(i) \ {t}
      BY <1>r, <1>u, <2>3
    <3>2. Covered(Trigger(i), TasksOf(i) \ {t}, queue[i], accepted[i], sp, al)
      BY <1>b, <3>1, CoverDrops
    <3>3. Covered(Trigger(i), TasksOf(i) \ {t}, queue[i], accepted[i], sp, Allowance(n + 1))
      <4> HIDE DEF sp, al, n
      <4> QED
        BY <1>d, <1>g, <3>2, CoverEases
    <3> QED
      BY <1>u, <2>1, <3>1, <3>3 DEF Funded
  <2> QED
    BY <2>2, <2>3
<1>15. ASSUME NEW t \in tasks, StreamBatchFails(t) PROVE Funded(i)'
  <2> DEFINE r == [job |-> t.job, new |-> TRUE, old |-> FALSE, delivered |-> FALSE, tries |-> t.tries + 1]
  <2>1. /\ UNCHANGED <<target, job, queue, accepted, dups, redrives>>
        /\ tasks' = tasks \ {t} /\ faults' = faults + 1
        /\ stream' = stream \/ (stream' = stream \cup {r} /\ t.tries + 1 < MaxStreamTries)
    BY <1>15 DEF StreamBatchFails
  <2>2. r.job = t.job
    OBVIOUS
  <2>3. t.tries + 1 < MaxStreamTries => r \in StreamRecord
    <3>1. t.job \in Jobs /\ t.tries \in Nat
      BY <1>a DEF TypeOK, Task
    <3> QED
      BY <3>1, BoundsAssumption DEF StreamRecord
  <2> HIDE DEF r
  <2>4. CASE Trigger(i)' = Trigger(i)
    BY <1>u, <2>1, <2>4
  <2>5. CASE Trigger(i)' # Trigger(i)
    <3>1. stream' = stream \cup {r} /\ r \in StreamRecord
      BY <1>n, <2>1, <2>3, <2>5
    <3>2. t.job = i /\ Trigger(i)' = Trigger(i) \cup {r}
      BY <2>1, <2>2, <2>5, <3>1 DEF Trigger, should_process_stream_transition
    <3>3. t \in TasksOf(i) /\ TasksOf(i)' = TasksOf(i) \ {t}
      BY <1>r, <2>1, <3>2
    <3>4. faults' + dups' + redrives' = n + 1
      BY <2>1, <1>a DEF TypeOK
    <3>5. Covered(Trigger(i), TasksOf(i) \ {t}, queue[i], accepted[i], sp, al)
      BY <1>b, <3>3, CoverDrops
    <3>6. Covered(Trigger(i) \cup {r}, TasksOf(i) \ {t}, queue[i], accepted[i], sp, Allowance(n + 1))
      <4> HIDE DEF sp, al, n
      <4> QED
        BY <1>d, <1>g, <3>1, <3>5, CoverRecord
    <3> QED
      BY <2>1, <3>2, <3>3, <3>4, <3>6 DEF Funded
  <2> QED
    BY <2>4, <2>5
<1>16. ASSUME NEW t \in tasks, RetryRaises(t) PROVE Funded(i)'
  BY <1>16, <1>n, <1>u DEF RetryRaises
<1>17. ASSUME NEW t \in tasks, RetryInvocationDies(t) PROVE Funded(i)'
  BY <1>17, <1>n, <1>u DEF RetryInvocationDies
<1>18. CASE UNCHANGED vars
  BY <1>18, <1>h, <1>n, <1>p DEF vars, envVars
<1> QED
  BY <1>1, <1>2, <1>3, <1>4, <1>5, <1>6, <1>7, <1>8, <1>9, <1>10, <1>11, <1>12,
     <1>13, <1>14, <1>15, <1>16, <1>17, <1>18
  DEF Next, Progress, TaskStep, Environment, Failure

\* Before anything has happened the allowance of each job is untouched.
LEMMA FundedInit == Init => FundedInv
<1> SUFFICES ASSUME Init, NEW j \in Jobs PROVE Funded(j)
  BY DEF FundedInv
<1>1. Trigger(j) = {} /\ TasksOf(j) = {}
  BY DEF Init, Trigger, TasksOf
<1>2. /\ queue[j] = [a \in Attempts |-> 0] /\ accepted[j] = 0 /\ job[j].status = "running"
      /\ faults + dups + redrives = 0
  BY DEF Init, NoMessages
<1>3. Messages(queue[j]) = {}
  <2>1. \A p \in Message : p[1] \in Attempts /\ p[2] \in Nat \ {0}
    BY DEF Message
  <2>2. \A p \in Message : ~(p[2] <= queue[j][p[1]])
    BY <1>2, <2>1
  <2> QED
    BY <2>2 DEF Messages
<1>4. Spare(job[j].status) = MaxRetry + 1 /\ MaxRetry \in Nat
  BY <1>2, BoundsAssumption DEF Spare
<1>5. Allowance(0) = MaxRetry + 1
  BY <1>4 DEF Allowance
<1>6. /\ Weight(RecordShare, {}) = 0 /\ Weight(TaskShare, {}) = 0 /\ Weight(MessageShare, {}) = 0
      /\ IsFiniteSet({})
  BY WeightOfNothing, FS_EmptySet
<1>7. queue[j] \in [Attempts -> Nat]
  BY <1>2
<1>8. Covered({}, {}, queue[j], 0, MaxRetry + 1, MaxRetry + 1)
  BY <1>3, <1>4, <1>6, <1>7 DEF Covered
<1> QED
  BY <1>1, <1>2, <1>4, <1>5, <1>8 DEF Funded

\* However many failures, duplicates, lost answers and redrives there are, the
\* endpoint takes a job's event at most MaxRetry + 1 times for the job and for each
\* failure, duplicate and redrive.
THEOREM DeliveriesAreBounded == Spec => []BoundedDeliveries
<1>1. BaseInv /\ FundedInv => BoundedDeliveries
  <2> SUFFICES ASSUME TypeOK, FundedInv, NEW j \in Jobs
               PROVE accepted[j] <= (MaxRetry + 1) * (1 + faults + dups + redrives)
    BY DEF BaseInv, BoundedDeliveries
  <2> DEFINE al == Allowance(faults + dups + redrives)
  <2>1. Covered(Trigger(j), TasksOf(j), queue[j], accepted[j], Spare(job[j].status), al)
    BY DEF FundedInv, Funded
  <2>2. al = (MaxRetry + 1) * (1 + faults + dups + redrives)
    <3>1. 1 + (faults + dups + redrives) = 1 + faults + dups + redrives
      BY DEF TypeOK
    <3> QED
      BY <3>1 DEF Allowance
  <2> HIDE DEF al
  <2>3. accepted[j] <= al
    BY <2>1, WeightsAre DEF Covered
  <2> QED
    BY <2>2, <2>3
<1> QED
  BY <1>1, FundedInit, BaseInvariant, FundedStep, PTL DEF Spec

=============================================================================
