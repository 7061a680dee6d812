----------------------------- MODULE IssueTool -----------------------------
(***************************************************************************)
(* The issue-driven worktree flow of scripts/issue_tool: several processes *)
(* of the tool, in one or several clones of the repository, share one      *)
(* GitLab tracker.  A process claims an issue by editing its labels, links *)
(* a git worktree to it, starts agents, pushes, and closes the issue out.  *)
(*                                                                         *)
(* Nothing is locked: every read of the tracker, every write to it and     *)
(* every git command is a step of its own, and a process may die between   *)
(* any two of them.  Issues are numbers, ordered as the queue orders them. *)
(***************************************************************************)
EXTENDS Integers, FiniteSets

CONSTANTS
    Issues,      \* the task issues, numbered in queue order (Seq)
    DependsOn,   \* the issues each one names in its "Depends on:" line
    Procs,       \* processes of the tool
    Clones       \* clones of the repository

ASSUME IssueAssumption ==
    /\ Issues \subseteq Nat
    /\ DependsOn \in [Issues -> SUBSET Issues]

VARIABLES
    issue,    \* tracker: state, labels, handback comment, merge request, force used
    tree,     \* clone, issue: linked worktree, local branch, unsaved edits, commits
    file,     \* clone, issue: the handoff events kept in .build/worktree-state
    report,   \* clone, issue: the closeout report, none, partial or complete
    agent,    \* clone, issue: whether status.json shows a live agent of wt-batch
    proc      \* process: its clone, where it stands and what it read before

vars == <<issue, tree, file, report, agent, proc>>

StatusLabels == {"not-started", "in-progress", "blocked", "done"}

\* Handoff events.  worktree-created, -reused and -resumed are "start", what is
\* opened in the worktree (shell, agent) is "work", and closeout-failed with the
\* handback-failed that always follows it is "failed".
TerminalEvents == {"closeout-complete", "failed", "handback-complete"}
EventTypes == TerminalEvents \union {"none", "start", "work", "closeout-started", "handback-audited"}

NoFile == [last |-> "none", start |-> FALSE, closing |-> FALSE]
NoTree == [linked |-> FALSE, branch |-> FALSE, dirty |-> FALSE, commits |-> "none"]

Clone(p) == proc[p].clone

Idle(p) == [proc EXCEPT ![p].pc = "idle", ![p].claimed = FALSE, ![p].ready = FALSE, ![p].attach = FALSE,
                        ![p].batch = FALSE, ![p].force = FALSE, ![p].snap = {}]

----------------------------------------------------------------------------
(* Labels and the queue.                                                   *)

Statuses(labels) == labels \cap StatusLabels

lifecycle_status(labels) ==
    IF "blocked" \in labels THEN "blocked"
    ELSE IF "in-progress" \in labels THEN "in-progress"
    ELSE IF "done" \in labels THEN "done"
    ELSE IF "not-started" \in labels THEN "not-started"
    ELSE "unknown"

choose_reconciled_status(state, labels) ==
    IF state = "closed" THEN "done"
    ELSE IF "in-progress" \in labels THEN "in-progress"
    ELSE IF "blocked" \in labels THEN "blocked"
    ELSE "not-started"

\* Mutant: the ready label survives reconciliation.
ReconcileKeepsReady(state, labels) ==
    LET desired == choose_reconciled_status(state, labels)
    IN  [add |-> {desired} \ labels, remove |-> Statuses(labels) \ {desired}]

\* The labels reconcile_issue_label_changes takes away and the one it adds.
ReconcileChanges(state, labels) ==
    LET desired == choose_reconciled_status(state, labels)
    IN  [add    |-> {desired} \ labels,
         remove |-> (Statuses(labels) \ {desired})
                    \union (IF desired # "not-started" THEN labels \cap {"ready"} ELSE {})]

update_issue_labels(labels, change) == (labels \union change.add) \ change.remove

\* A closed issue keeps the label done alone.
normalize_closed_issue(labels) ==
    LET change == ReconcileChanges("closed", labels)
    IN  update_issue_labels(labels, [change EXCEPT !.remove = @ \union (labels \cap {"ready"})])

\* What `issues-audit` reports of one task's labels.
LabelFindings(state, labels) ==
    IF Cardinality(Statuses(labels)) # 1 THEN {"not exactly one status"}
    ELSE LET status == CHOOSE s \in Statuses(labels) : TRUE
         IN  {f \in {"open but done", "closed but not done", "ready but not not-started"} :
                \/ f = "open but done" /\ state = "open" /\ status = "done"
                \/ f = "closed but not done" /\ state = "closed" /\ status # "done"
                \/ f = "ready but not not-started" /\ "ready" \in labels /\ status # "not-started"}

\* build_queue: open tasks that are not in progress; the ready ones alone if
\* the mode says so, or in mode auto if there is one.
Queue(tracker, mode) ==
    LET queued == {i \in Issues : tracker[i].state = "open"
                                  /\ lifecycle_status(tracker[i].labels) # "in-progress"}
        ready == {i \in queued : "ready" \in tracker[i].labels}
    IN  IF mode = "ready" \/ (mode = "auto" /\ ready # {}) THEN ready ELSE queued

Runnable(tracker, i) == /\ lifecycle_status(tracker[i].labels) # "blocked"
                        /\ \A d \in DependsOn[i] : tracker[d].state = "closed"

FirstOf(S) == CHOOSE i \in S : \A j \in S : i <= j

\* What `issues-audit` reports of the queue: the issue it would start next must
\* be one that can be claimed.
QueueFindings(tracker) ==
    LET runnable == {i \in Queue(tracker, "auto") : Runnable(tracker, i)}
    IN  IF runnable = {} \/ lifecycle_status(tracker[FirstOf(runnable)].labels) = "not-started"
        THEN {} ELSE {FirstOf(runnable)}

assert_issue_startable(i) == /\ issue[i].state = "open"
                             /\ lifecycle_status(issue[i].labels) = "not-started"

\* The issues named by the branches of this clone's worktrees, as git lists them.
list_worktrees(c) == {i \in Issues : tree[c][i].linked}

Linked(c, i) == i \in list_worktrees(c)

\* What `worktree-next` may start: runnable, and no worktree here yet.
RunnableWithoutWorktree(c, mode) == {i \in Queue(issue, mode) : Runnable(issue, i) /\ ~Linked(c, i)}

\* The merge request of the issue's branch that the tracker answers with.
merge_request_for_branch(i, state) == issue[i].mr = state

\* run_preflight in a linked worktree: its branch names an issue the tracker has.
Preflight(c, i) == Linked(c, i) /\ issue[i].state # "absent"

\* In progress, with no worktree in this clone and no open merge request.
StaleLock(c, i) == /\ issue[i].state = "open"
                   /\ lifecycle_status(issue[i].labels) = "in-progress"
                   /\ ~Linked(c, i)
                   /\ ~merge_request_for_branch(i, "open")

\* What this clone holds of an issue: a worktree, a handoff file, a report.
issue_evidence_summary(c, i) == [linked_worktree |-> Linked(c, i),
                                 state_path      |-> file[c][i] # NoFile,
                                 closeout_path   |-> report[c][i] # "none"]

\* In progress, and nothing in this clone shows who works on it.
evidence_drift_findings(c, i) == /\ issue[i].state = "open"
                                 /\ lifecycle_status(issue[i].labels) = "in-progress"
                                 /\ ~issue_evidence_summary(c, i).linked_worktree
                                 /\ ~issue_evidence_summary(c, i).state_path

\* Evidence of an issue the tracker does not have.
OrphanedEvidence(c, i) == /\ issue[i].state = "absent"
                          /\ \/ issue_evidence_summary(c, i).state_path
                             \/ issue_evidence_summary(c, i).closeout_path

\* Done or closed, worked on in this clone, and never reported on here.
MissingReport(c, i) == /\ issue[i].state = "closed" \/ lifecycle_status(issue[i].labels) = "done"
                       /\ issue_evidence_summary(c, i).state_path
                       /\ ~issue_evidence_summary(c, i).closeout_path

\* What `issues-audit` reports of an issue's evidence in one clone.
EvidenceFindings(c, i) == \/ evidence_drift_findings(c, i)
                          \/ OrphanedEvidence(c, i)
                          \/ MissingReport(c, i)
                          \/ StaleLock(c, i)

\* record_issue_handoff_event: a start event after a terminal one begins a new
\* list.  The file's state is a function of its last event.
record_issue_handoff_event(f, e) ==
    LET base == IF e = "start" /\ f.last \in TerminalEvents THEN NoFile ELSE f
    IN  [last    |-> e,
         start   |-> base.start \/ e = "start",
         closing |-> base.closing \/ e = "closeout-started"]

Recorded(c, i, e) == [file EXCEPT ![c][i] = record_issue_handoff_event(@, e)]

\* What is opened in a worktree that is ready: nothing, or a shell or an agent.
Opened(f, opened) == IF opened THEN record_issue_handoff_event(f, "work") ELSE f

\* A closeout of a worktree nobody recorded the start of records it now.
ensure_closeout_start_evidence(f) ==
    IF f.start THEN f ELSE record_issue_handoff_event(f, "start")

\* The closeout report is written anew at every stage; only the last is complete.
write_closeout_report(c, i, stage) == [report EXCEPT ![c][i] = stage]

\* What status.json says of the agent in the issue's worktree.
write_worktree_runtime_status(c, i, live) == [agent EXCEPT ![c][i] = live]

----------------------------------------------------------------------------
Init ==
    /\ issue = [i \in Issues |-> [state |-> "absent", labels |-> {}, handback |-> FALSE,
                                  mr |-> "none", forced |-> FALSE]]
    /\ tree = [c \in Clones |-> [i \in Issues |-> NoTree]]
    /\ file = [c \in Clones |-> [i \in Issues |-> NoFile]]
    /\ report = [c \in Clones |-> [i \in Issues |-> "none"]]
    /\ agent = [c \in Clones |-> [i \in Issues |-> FALSE]]
    /\ proc \in [Procs -> [pc : {"idle"}, batch : {FALSE}, clone : Clones, i : {FirstOf(Issues)},
                           claimed : {FALSE}, ready : {FALSE}, attach : {FALSE}, force : {FALSE},
                           snap : {{}}]]

\* `issue-create`: a new open task, not-started, ready if asked.
CreateIssue(i, ready) ==
    /\ issue[i].state = "absent"
    /\ issue' = [issue EXCEPT ![i].state = "open",
                              ![i].labels = {"not-started"} \union (IF ready THEN {"ready"} ELSE {})]
    /\ UNCHANGED <<tree, file, report, agent, proc>>

(* Starting work. ---------------------------------------------------------*)

\* create_worktree_for_issue up to the claim: whether the branch exists is read
\* now and used when the worktree is added.
BeginCreate(p, i, batch, claim) ==
    proc' = [proc EXCEPT ![p].pc = IF claim THEN "read" ELSE "add", ![p].batch = batch, ![p].i = i,
                         ![p].attach = tree[Clone(p)][i].branch]

\* `worktree-next`: the first runnable issue this clone has no worktree for, or
\* any other one picked from the list.
WorktreeNext(p, mode, claim, choose) ==
    LET free == RunnableWithoutWorktree(Clone(p), mode)
    IN  /\ proc[p].pc = "idle"
        /\ \E i \in free : /\ choose \/ i = FirstOf(free)
                          /\ BeginCreate(p, i, FALSE, claim)
        /\ UNCHANGED <<issue, tree, file, report, agent>>

\* `worktree-create`: a named issue.  Dependencies are looked at only if the
\* issue is in the queue the mode selects.
WorktreeCreate(p, i, mode, claim) ==
    /\ proc[p].pc = "idle"
    /\ issue[i].state # "absent"
    /\ ~Linked(Clone(p), i)
    /\ assert_issue_startable(i)
    /\ i \in Queue(issue, mode) => Runnable(issue, i)
    /\ BeginCreate(p, i, FALSE, claim)
    /\ UNCHANGED <<issue, tree, file, report, agent>>

\* `worktree-create`, or a pick in `worktree-next`, of an issue linked already,
\* `worktree-resume`, and the shell or agent opened in the worktree after it.
WorktreeResume(p, i, opened) ==
    LET c == Clone(p)
        f == record_issue_handoff_event(file[c][i], "start")
    IN  /\ proc[p].pc = "idle"
        /\ Linked(c, i)
        /\ file' = [file EXCEPT ![c][i] = Opened(f, opened)]
        /\ UNCHANGED <<issue, tree, report, agent, proc>>

\* `agent-handoff` in a linked worktree.
AgentHandoff(p, i) ==
    /\ proc[p].pc = "idle"
    /\ Linked(Clone(p), i)
    /\ file' = Recorded(Clone(p), i, "work")
    /\ UNCHANGED <<issue, tree, report, agent, proc>>

\* `wt-batch`: the first runnable issue no agent runs for; a worktree that is
\* already there is used as it is, without a claim.
Batch(p, mode) ==
    LET c == Clone(p)
        open == {i \in Queue(issue, mode) : Runnable(issue, i) /\ ~(Linked(c, i) /\ agent[c][i])}
        i == FirstOf(open)
    IN  /\ proc[p].pc = "idle"
        /\ open # {}
        /\ IF Linked(c, i)
           THEN proc' = [proc EXCEPT ![p].pc = "launch", ![p].batch = TRUE, ![p].i = i]
           ELSE BeginCreate(p, i, TRUE, TRUE)
        /\ UNCHANGED <<issue, tree, file, report, agent>>

\* claim_issue reads the labels: exactly one status, not-started.
ClaimRead(p) ==
    LET labels == issue[proc[p].i].labels
    IN  /\ proc[p].pc = "read"
        /\ proc' = IF Statuses(labels) = {"not-started"}
                   THEN [proc EXCEPT ![p].pc = "update", ![p].ready = "ready" \in labels]
                   ELSE Idle(p)
        /\ UNCHANGED <<issue, tree, file, report, agent>>

ClaimUpdate(p) ==
    LET change == [add    |-> {"in-progress"},
                   remove |-> {"not-started"} \union (IF proc[p].ready THEN {"ready"} ELSE {})]
    IN  /\ proc[p].pc = "update"
        /\ issue' = [issue EXCEPT ![proc[p].i].labels = update_issue_labels(@, change)]
        /\ proc' = [proc EXCEPT ![p].pc = "verify"]
        /\ UNCHANGED <<tree, file, report, agent>>

\* The post-condition.  When it fails the labels stay as they are: the caller
\* has not noted the claim, so nothing is rolled back.
ClaimVerify(p) ==
    LET labels == issue[proc[p].i].labels
    IN  /\ proc[p].pc = "verify"
        /\ proc' = IF Statuses(labels) = {"in-progress"} /\ "ready" \notin labels
                   THEN [proc EXCEPT ![p].pc = "add", ![p].claimed = TRUE]
                   ELSE Idle(p)
        /\ UNCHANGED <<issue, tree, file, report, agent>>

\* The exception path of create_worktree_for_issue.
Abandon(p) == proc' = IF proc[p].claimed THEN [proc EXCEPT ![p].pc = "unclaim"] ELSE Idle(p)

\* git links a branch to one worktree, and -b wants a new branch.
WorktreeAdd(p) ==
    LET c == Clone(p)
        i == proc[p].i
        t == tree[c][i]
    IN  /\ proc[p].pc = "add"
        /\ \/ /\ ~t.linked
              /\ t.branch = proc[p].attach
              /\ tree' = [tree EXCEPT ![c][i].linked = TRUE, ![c][i].branch = TRUE]
              /\ proc' = [proc EXCEPT ![p].pc = "provision"]
           \/ Abandon(p) /\ UNCHANGED tree
        /\ UNCHANGED <<issue, file, report, agent>>

\* venv, GitNexus index and pre-provisioning; a timeout of the index's status
\* call or a failed spawn raises after the worktree exists.  A preflight
\* failure only warns.
Provision(p, opened) ==
    LET c == Clone(p)
        i == proc[p].i
        f == record_issue_handoff_event(file[c][i], "start")
    IN  /\ proc[p].pc = "provision"
        /\ \/ /\ file' = [file EXCEPT ![c][i] = Opened(f, opened /\ ~proc[p].batch)]
              /\ proc' = IF proc[p].batch THEN [proc EXCEPT ![p].pc = "launch"] ELSE Idle(p)
           \/ Abandon(p) /\ UNCHANGED file
        /\ UNCHANGED <<issue, tree, report, agent>>

\* unclaim_issue, whoever's claim it is by now.
Unclaim(p) ==
    LET change == [add    |-> {"not-started"} \union (IF proc[p].ready THEN {"ready"} ELSE {}),
                   remove |-> {"in-progress"}]
    IN  /\ proc[p].pc = "unclaim"
        /\ issue' = [issue EXCEPT ![proc[p].i].labels = update_issue_labels(@, change)]
        /\ proc' = Idle(p)
        /\ UNCHANGED <<tree, file, report, agent>>

\* launch_agent_detached, where the startup probe decides.
Launch(p, started) ==
    /\ proc[p].pc = "launch"
    /\ agent' = write_worktree_runtime_status(Clone(p), proc[p].i, started)
    /\ proc' = Idle(p)
    /\ UNCHANGED <<issue, tree, file, report>>

\* An interactive launch is recorded under the session name "pending", which no
\* session has, so the worktree looks free until the real session is there.
record_tmux_agent_launch(p) ==
    /\ proc[p].pc = "launch"
    /\ agent' = write_worktree_runtime_status(Clone(p), proc[p].i, FALSE)
    /\ proc' = [proc EXCEPT ![p].pc = "session"]
    /\ UNCHANGED <<issue, tree, file, report>>

OpenSession(p) ==
    /\ proc[p].pc = "session"
    /\ agent' = write_worktree_runtime_status(Clone(p), proc[p].i, TRUE)
    /\ proc' = Idle(p)
    /\ UNCHANGED <<issue, tree, file, report>>

(* Closing out. -----------------------------------------------------------*)

\* `push-branch` from a linked worktree, after preflight and validation.
Push(p, i) ==
    LET c == Clone(p)
    IN  /\ proc[p].pc = "idle"
        /\ Linked(c, i)
        /\ tree[c][i].commits = "local"
        /\ tree' = [tree EXCEPT ![c][i].commits = "pushed"]
        /\ UNCHANGED <<issue, file, report, agent, proc>>

\* close_issue_done: the worktree must be registered; a missing start event is
\* backfilled, then closeout-started and the report's first stage are written.
FinishStart(p, i, force) ==
    LET c == Clone(p)
        f == ensure_closeout_start_evidence(file[c][i])
    IN  /\ proc[p].pc = "idle"
        /\ Linked(c, i)
        /\ file' = [file EXCEPT ![c][i] = record_issue_handoff_event(f, "closeout-started")]
        /\ report' = write_closeout_report(c, i, "partial")
        /\ proc' = [proc EXCEPT ![p].pc = "merge-check", ![p].i = i, ![p].force = force]
        /\ UNCHANGED <<issue, tree, agent>>

\* Mutant: the issue is closed without asking for a merged merge request.
MergeCheckSkipped(p) ==
    /\ proc[p].pc = "merge-check"
    /\ proc' = [proc EXCEPT ![p].pc = "close"]
    /\ UNCHANGED <<issue, tree, file, report, agent>>

MergeCheck(p) ==
    /\ proc[p].pc = "merge-check"
    /\ merge_request_for_branch(proc[p].i, "merged") \/ proc[p].force
    /\ proc' = [proc EXCEPT ![p].pc = "close"]
    /\ UNCHANGED <<issue, tree, file, report, agent>>

\* An issue found closed is normalised at once, an open one closed and read again.
CloseIssue(p) ==
    LET i == proc[p].i
    IN  /\ proc[p].pc = "close"
        /\ IF issue[i].state = "closed"
           THEN /\ issue' = [issue EXCEPT ![i].labels = normalize_closed_issue(@)]
                /\ report' = write_closeout_report(Clone(p), i, "partial")
                /\ proc' = [proc EXCEPT ![p].pc = "cleanup"]
           ELSE /\ issue' = [issue EXCEPT ![i].state = "closed", ![i].forced = @ \/ proc[p].force]
                /\ proc' = [proc EXCEPT ![p].pc = "normalise"]
                /\ UNCHANGED report
        /\ UNCHANGED <<tree, file, agent>>

Normalise(p) ==
    LET i == proc[p].i
    IN  /\ proc[p].pc = "normalise"
        /\ issue' = [issue EXCEPT ![i].labels = normalize_closed_issue(@)]
        /\ report' = write_closeout_report(Clone(p), i, "partial")
        /\ proc' = [proc EXCEPT ![p].pc = "cleanup"]
        /\ UNCHANGED <<tree, file, agent>>

\* Mutant: the branch is deleted with -D.
CleanupForcesBranch(t) == IF t.dirty THEN t ELSE NoTree

\* `git worktree remove` refuses unsaved edits and `git branch -d` commits that
\* are neither pushed nor merged; what fails is left for the operator.
cleanup_finished_worktree(t) ==
    IF t.dirty THEN t
    ELSE IF t.commits # "local" THEN NoTree
    ELSE [t EXCEPT !.linked = FALSE]

Cleanup(p) ==
    /\ proc[p].pc = "cleanup"
    /\ tree' = [tree EXCEPT ![Clone(p)][proc[p].i] = cleanup_finished_worktree(@)]
    /\ proc' = [proc EXCEPT ![p].pc = "complete"]
    /\ UNCHANGED <<issue, file, report, agent>>

Complete(p) ==
    LET c == Clone(p)
        i == proc[p].i
    IN  /\ proc[p].pc = "complete"
        /\ report' = write_closeout_report(c, i, "complete")
        /\ file' = Recorded(c, i, "closeout-complete")
        /\ proc' = [proc EXCEPT ![p].pc = "audit"]
        /\ UNCHANGED <<issue, tree, agent>>

\* audit_issue_handoff_evidence: a complete report, a start and a closeout-started
\* event, and closeout-complete last.
EvidenceHolds(c, i) == /\ report[c][i] = "complete"
                       /\ file[c][i].start
                       /\ file[c][i].closing
                       /\ file[c][i].last = "closeout-complete"

AuditEvidence(p) ==
    /\ proc[p].pc = "audit"
    /\ EvidenceHolds(Clone(p), proc[p].i)
    /\ file' = Recorded(Clone(p), proc[p].i, "handback-audited")
    /\ proc' = [proc EXCEPT ![p].pc = "comment"]
    /\ UNCHANGED <<issue, tree, report, agent>>

\* append_issue_handback_comment, unless the same evidence is there already.
HandBack(p) ==
    /\ proc[p].pc = "comment"
    /\ issue' = [issue EXCEPT ![proc[p].i].handback = TRUE]
    /\ proc' = [proc EXCEPT ![p].pc = "done"]
    /\ UNCHANGED <<tree, file, report, agent>>

FinishDone(p) ==
    /\ proc[p].pc = "done"
    /\ file' = Recorded(Clone(p), proc[p].i, "handback-complete")
    /\ proc' = Idle(p)
    /\ UNCHANGED <<issue, tree, report, agent>>

\* The exception path of close_issue_done: no merged merge request, evidence
\* that does not hold, or a tracker call that failed.
FinishFail(p) ==
    LET c == Clone(p)
        i == proc[p].i
    IN  /\ proc[p].pc \in {"merge-check", "close", "normalise", "audit", "comment"}
        /\ report' = write_closeout_report(c, i, "partial")
        /\ file' = Recorded(c, i, "failed")
        /\ proc' = Idle(p)
        /\ UNCHANGED <<issue, tree, agent>>

(* Repairs. ---------------------------------------------------------------*)

\* `issues-reconcile` reads every issue, then edits with what it read.
ReconcileRead(p, i) ==
    /\ proc[p].pc = "idle"
    /\ issue[i].state # "absent"
    /\ LET change == ReconcileChanges(issue[i].state, issue[i].labels)
       IN  /\ change.add \union change.remove # {}
           /\ proc' = [proc EXCEPT ![p].pc = "reconcile", ![p].i = i, ![p].snap = issue[i].labels,
                                   ![p].force = issue[i].state = "closed"]
    /\ UNCHANGED <<issue, tree, file, report, agent>>

ReconcileWrite(p) ==
    LET seen == IF proc[p].force THEN "closed" ELSE "open"
    IN  /\ proc[p].pc = "reconcile"
        /\ issue' = [issue EXCEPT ![proc[p].i].labels =
                        update_issue_labels(@, ReconcileChanges(seen, proc[p].snap))]
        /\ proc' = Idle(p)
        /\ UNCHANGED <<tree, file, report, agent>>

\* `issue-repair-stale-locks` collects the stale locks, then resets each one.
RepairRead(p, i) ==
    /\ proc[p].pc = "idle"
    /\ StaleLock(Clone(p), i)
    /\ proc' = [proc EXCEPT ![p].pc = "repair", ![p].i = i]
    /\ UNCHANGED <<issue, tree, file, report, agent>>

RepairWrite(p, ready) ==
    LET change == [add    |-> {"not-started"} \union (IF ready THEN {"ready"} ELSE {}),
                   remove |-> {"in-progress"}]
    IN  /\ proc[p].pc = "repair"
        /\ issue' = [issue EXCEPT ![proc[p].i].labels = update_issue_labels(@, change)]
        /\ proc' = Idle(p)
        /\ UNCHANGED <<tree, file, report, agent>>

(* Around the tool: agents and operators. ---------------------------------*)

Edit(c, i) ==
    /\ Linked(c, i)
    /\ tree' = [tree EXCEPT ![c][i].dirty = TRUE]
    /\ UNCHANGED <<issue, file, report, agent, proc>>

Commit(c, i) ==
    /\ tree[c][i].dirty
    /\ tree' = [tree EXCEPT ![c][i].dirty = FALSE, ![c][i].commits = "local"]
    /\ UNCHANGED <<issue, file, report, agent, proc>>

\* A merge request is opened on a pushed branch and merged; then the branch of
\* every clone that pushed it is merged too.
OpenMergeRequest(i) ==
    /\ issue[i].mr = "none"
    /\ \E c \in Clones : tree[c][i].commits = "pushed"
    /\ issue' = [issue EXCEPT ![i].mr = "open"]
    /\ UNCHANGED <<tree, file, report, agent, proc>>

Merge(i) ==
    /\ issue[i].mr = "open"
    /\ issue' = [issue EXCEPT ![i].mr = "merged"]
    /\ UNCHANGED <<tree, file, report, agent, proc>>

\* An operator moves an open issue to blocked, or back to not-started.
Relabel(i, status) ==
    /\ issue[i].state = "open"
    /\ issue' = [issue EXCEPT ![i].labels = {status}]
    /\ UNCHANGED <<tree, file, report, agent, proc>>

AgentExits(c, i) ==
    /\ agent[c][i]
    /\ agent' = [agent EXCEPT ![c][i] = FALSE]
    /\ UNCHANGED <<issue, tree, file, report, proc>>

\* A process killed between two steps, or one whose tracker call failed where
\* the code has no handler.
Crash(p) ==
    /\ proc[p].pc # "idle"
    /\ proc' = Idle(p)
    /\ UNCHANGED <<issue, tree, file, report, agent>>

Modes == {"auto", "ready", "open-task"}

Next ==
    \/ \E p \in Procs :
        \/ \E mode \in Modes, claim, choose \in BOOLEAN : WorktreeNext(p, mode, claim, choose)
        \/ \E i \in Issues, mode \in Modes, claim \in BOOLEAN : WorktreeCreate(p, i, mode, claim)
        \/ \E mode \in Modes : Batch(p, mode)
        \/ \E i \in Issues, opened \in BOOLEAN : WorktreeResume(p, i, opened)
        \/ \E i \in Issues : AgentHandoff(p, i) \/ Push(p, i)
        \/ \E i \in Issues, force \in BOOLEAN : FinishStart(p, i, force)
        \/ \E i \in Issues : ReconcileRead(p, i) \/ RepairRead(p, i)
        \/ ClaimRead(p) \/ ClaimUpdate(p) \/ ClaimVerify(p) \/ WorktreeAdd(p) \/ Unclaim(p)
        \/ \E opened \in BOOLEAN : Provision(p, opened)
        \/ \E started \in BOOLEAN : Launch(p, started)
        \/ record_tmux_agent_launch(p) \/ OpenSession(p)
        \/ MergeCheck(p) \/ CloseIssue(p) \/ Normalise(p) \/ Cleanup(p) \/ Complete(p)
        \/ AuditEvidence(p) \/ HandBack(p) \/ FinishDone(p) \/ FinishFail(p)
        \/ ReconcileWrite(p) \/ (\E ready \in BOOLEAN : RepairWrite(p, ready))
        \/ Crash(p)
    \/ \E i \in Issues, ready \in BOOLEAN : CreateIssue(i, ready)
    \/ \E i \in Issues : OpenMergeRequest(i) \/ Merge(i)
    \/ \E i \in Issues, status \in {"blocked", "not-started"} : Relabel(i, status)
    \/ \E c \in Clones, i \in Issues : Edit(c, i) \/ Commit(c, i) \/ AgentExits(c, i)

Spec == Init /\ [][Next]_vars

----------------------------------------------------------------------------
(* Properties.                                                             *)

(* No unfinished work disappears: unsaved edits go away only by a commit,  *)
(* and a commit that was never pushed stays on its branch, whatever        *)
(* closeouts (forced ones and two at a time included), crashes and label   *)
(* repairs do (cleanup_finished_worktree runs `git worktree remove` and    *)
(* `git branch -d`, neither with force).                                   *)
WorkIsKept ==
    [][\A c \in Clones, i \in Issues :
          /\ tree[c][i].dirty => (tree'[c][i].dirty \/ tree'[c][i].commits = "local")
          /\ tree[c][i].commits = "local"
                => tree'[c][i].branch /\ tree'[c][i].commits \in {"local", "pushed"}]_vars

(* A handoff file that reads done is backed: the issue is closed and       *)
(* carries the handback comment, and `issues-audit` has nothing to say of  *)
(* its evidence; no clone keeps evidence of an issue the tracker does not  *)
(* have; and an issue is closed only with a merged merge request or by     *)
(* force (close_issue_done and its failure path, crashes and a second      *)
(* closeout in between).                                                   *)
HandbackIsBacked ==
    /\ \A c \in Clones, i \in Issues :
          /\ file[c][i].last = "handback-complete" => /\ issue[i].state = "closed"
                                                      /\ issue[i].handback
                                                      /\ ~EvidenceFindings(c, i)
          /\ ~OrphanedEvidence(c, i)
    /\ \A i \in Issues : issue[i].state = "closed" => issue[i].mr = "merged" \/ issue[i].forced

(* Whatever labels racing claims, rollbacks, repairs and stale reconciles  *)
(* have left, one undisturbed `issues-reconcile` leaves nothing of them    *)
(* for `issues-audit` to report, of an issue or of what the queue would    *)
(* start next (reconcile_issue_label_changes against audit_issues).        *)
ReconcileSettlesLabels ==
    LET reconciled ==
            [i \in Issues |-> [issue[i] EXCEPT !.labels =
                IF issue[i].state = "absent" THEN @
                ELSE update_issue_labels(@, ReconcileChanges(issue[i].state, @))]]
    IN  /\ \A i \in Issues : issue[i].state # "absent" =>
              LabelFindings(reconciled[i].state, reconciled[i].labels) = {}
        /\ QueueFindings(reconciled) = {}

(* Work starts on an issue only when every issue it depends on is closed   *)
(* (no process passes --allow-blocked).                                    *)
DependencyGate ==
    \A p \in Procs : proc[p].pc \in {"read", "add"} =>
        \A d \in DependsOn[proc[p].i] : issue[d].state = "closed"
=============================================================================
