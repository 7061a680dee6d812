------------------------- MODULE IssueTool_proofs -------------------------
(***************************************************************************)
(* Theorems about IssueTool, for any set of numbered issues and their      *)
(* dependencies, any number of processes and of clones.                    *)
(***************************************************************************)
EXTENDS IssueTool, SetFacts, FiniteSetTheorems, TLAPS

-----------------------------------------------------------------------------
(* The inductive invariant. *)

Label == StatusLabels \cup {"ready"}

PCs == {"idle", "read", "update", "verify", "add", "provision", "unclaim", "launch", "session",
        "merge-check", "close", "normalise", "cleanup", "complete", "audit", "comment", "done",
        "reconcile", "repair"}

IssueRec == [state : {"absent", "open", "closed"}, labels : SUBSET Label, handback : BOOLEAN,
             mr : {"none", "open", "merged"}, forced : BOOLEAN]
TreeRec == [linked : BOOLEAN, branch : BOOLEAN, dirty : BOOLEAN,
            commits : {"none", "local", "pushed"}]
FileRec == [last : EventTypes, start : BOOLEAN, closing : BOOLEAN]
ProcRec == [pc : PCs, batch : BOOLEAN, clone : Clones, i : Issues \cup {FirstOf(Issues)},
            claimed : BOOLEAN, ready : BOOLEAN, attach : BOOLEAN, force : BOOLEAN,
            snap : SUBSET Label]

TypeInv ==
    /\ issue \in [Issues -> IssueRec]
    /\ tree \in [Clones -> [Issues -> TreeRec]]
    /\ file \in [Clones -> [Issues -> FileRec]]
    /\ report \in [Clones -> [Issues -> {"none", "partial", "complete"}]]
    /\ agent \in [Clones -> [Issues -> BOOLEAN]]
    /\ proc \in [Procs -> ProcRec]

\* A worktree is on a branch, edits are in a worktree, and commits that were
\* not pushed are on a branch.
TreeOk(t) == /\ t.linked => t.branch
             /\ t.dirty => t.linked
             /\ t.commits = "local" => t.branch

TreeInv == \A c \in Clones, i \in Issues : TreeOk(tree[c][i])

\* Nothing is known in a clone of an issue the tracker does not have, and what
\* reads done was closed, handed back and reported.
EvidenceInv ==
    \A c \in Clones, i \in Issues :
        /\ issue[i].state = "absent" =>
              ~tree[c][i].linked /\ file[c][i] = NoFile /\ report[c][i] = "none"
        /\ file[c][i].last = "handback-complete" =>
              issue[i].state = "closed" /\ issue[i].handback /\ report[c][i] # "none"

ClosedInv == \A i \in Issues : issue[i].state = "closed" => issue[i].mr = "merged" \/ issue[i].forced

\* The stages of close_issue_done, and those behind the closing of the issue.
AfterClose == {"normalise", "cleanup", "complete", "audit", "comment", "done"}
Closing == {"merge-check", "close"} \cup AfterClose

\* What a process at work has established.
ProcOk(q) ==
    q.pc # "idle" =>
        /\ q.i \in Issues /\ issue[q.i].state # "absent"
        /\ q.pc \in Closing => report[q.clone][q.i] # "none"
        /\ q.pc = "close" => issue[q.i].mr = "merged" \/ q.force
        /\ q.pc \in AfterClose => issue[q.i].state = "closed"
        /\ q.pc = "done" => issue[q.i].handback

ProcInv == \A p \in Procs : ProcOk(proc[p])

Inv == TypeInv /\ TreeInv /\ EvidenceInv /\ ClosedInv /\ ProcInv

-----------------------------------------------------------------------------
(* Steps, one variable at a time. *)

\* The tracker forgets nothing that matters to a closeout, and closes an issue
\* only when its merge request is merged or by force.
IssueFrame ==
    /\ issue' \in [Issues -> IssueRec]
    /\ \A i \in Issues :
          /\ issue[i].state # "absent" => issue'[i].state # "absent"
          /\ issue[i].state = "closed" => issue'[i].state = "closed"
          /\ issue[i].handback => issue'[i].handback
          /\ issue[i].mr = "merged" => issue'[i].mr = "merged"
          /\ issue[i].forced => issue'[i].forced
          /\ issue'[i].state = "closed" =>
                issue[i].state = "closed" \/ issue'[i].mr = "merged" \/ issue'[i].forced

\* A worktree appears only for an issue the tracker has.
TreeFrame ==
    /\ tree' \in [Clones -> [Issues -> TreeRec]]
    /\ \A c \in Clones, i \in Issues :
          \/ tree'[c][i] = tree[c][i]
          \/ /\ TreeOk(tree'[c][i])
             /\ tree'[c][i].linked => tree[c][i].linked \/ issue'[i].state # "absent"

FileFrame ==
    /\ file' \in [Clones -> [Issues -> FileRec]]
    /\ \A c \in Clones, i \in Issues :
          \/ file'[c][i] = file[c][i]
          \/ /\ issue'[i].state # "absent"
             /\ file'[c][i].last = "handback-complete" =>
                   issue'[i].state = "closed" /\ issue'[i].handback /\ report'[c][i] # "none"

ReportFrame ==
    /\ report' \in [Clones -> [Issues -> {"none", "partial", "complete"}]]
    /\ \A c \in Clones, i \in Issues :
          report'[c][i] = report[c][i] \/ (report'[c][i] # "none" /\ issue'[i].state # "absent")

AgentFrame == agent' \in [Clones -> [Issues -> BOOLEAN]]

\* ProcOk, of the state after a step.
ProcOkNext(q) ==
    q.pc # "idle" =>
        /\ q.i \in Issues /\ issue'[q.i].state # "absent"
        /\ q.pc \in Closing => report'[q.clone][q.i] # "none"
        /\ q.pc = "close" => issue'[q.i].mr = "merged" \/ q.force
        /\ q.pc \in AfterClose => issue'[q.i].state = "closed"
        /\ q.pc = "done" => issue'[q.i].handback

ProcFrame ==
    /\ proc' \in [Procs -> ProcRec]
    /\ \A p \in Procs : proc'[p] = proc[p] \/ ProcOkNext(proc'[p])

Frames == IssueFrame /\ TreeFrame /\ FileFrame /\ ReportFrame /\ AgentFrame /\ ProcFrame

\* A step of which every part is such keeps the invariant.
LEMMA FramesKeep == Inv /\ Frames => Inv'
<1> SUFFICES ASSUME Inv, Frames PROVE Inv'
  OBVIOUS
<1>1. TypeInv /\ TreeInv /\ EvidenceInv /\ ClosedInv /\ ProcInv
  BY DEF Inv
<1>2. IssueFrame /\ TreeFrame /\ FileFrame /\ ReportFrame /\ AgentFrame /\ ProcFrame
  BY DEF Frames
<1>3. TypeInv'
  BY <1>2 DEF TypeInv, IssueFrame, TreeFrame, FileFrame, ReportFrame, AgentFrame, ProcFrame
<1>4. TreeInv'
  BY <1>1, <1>2 DEF TreeInv, TreeFrame, TreeOk
<1>5. \A c \in Clones, i \in Issues : report[c][i] # "none" => report'[c][i] # "none"
  BY <1>2 DEF ReportFrame
<1>6. EvidenceInv'
  <2> SUFFICES ASSUME NEW c \in Clones, NEW i \in Issues
               PROVE  /\ issue'[i].state = "absent" =>
                            ~tree'[c][i].linked /\ file'[c][i] = NoFile /\ report'[c][i] = "none"
                      /\ file'[c][i].last = "handback-complete" =>
                            issue'[i].state = "closed" /\ issue'[i].handback /\ report'[c][i] # "none"
    BY DEF EvidenceInv, NoFile
  <2>1. issue'[i].state = "absent" => issue[i].state = "absent"
    BY <1>2 DEF IssueFrame
  <2>2. issue'[i].state = "absent" => ~tree'[c][i].linked
    BY <1>1, <1>2, <2>1 DEF EvidenceInv, TreeFrame
  <2>3. issue'[i].state = "absent" => file'[c][i] = NoFile
    BY <1>1, <1>2, <2>1 DEF EvidenceInv, FileFrame
  <2>4. issue'[i].state = "absent" => report'[c][i] = "none"
    BY <1>1, <1>2, <2>1 DEF EvidenceInv, ReportFrame
  <2>5. file[c][i].last = "handback-complete" =>
           issue'[i].state = "closed" /\ issue'[i].handback /\ report'[c][i] # "none"
    BY <1>1, <1>2, <1>5 DEF EvidenceInv, IssueFrame
  <2>6. file'[c][i].last = "handback-complete" =>
           issue'[i].state = "closed" /\ issue'[i].handback /\ report'[c][i] # "none"
    BY <1>2, <2>5 DEF FileFrame
  <2> QED
    BY <2>2, <2>3, <2>4, <2>6
<1>7. ClosedInv'
  BY <1>1, <1>2 DEF ClosedInv, IssueFrame
<1>8. ProcInv'
  <2> SUFFICES ASSUME NEW p \in Procs PROVE ProcOkNext(proc'[p])
    BY DEF ProcInv, ProcOk, ProcOkNext
  <2>1. ASSUME proc'[p] = proc[p] PROVE ProcOkNext(proc[p])
    <3>1. ProcOk(proc[p]) /\ proc[p].clone \in Clones
      BY <1>1 DEF ProcInv, TypeInv, ProcRec
    <3> QED
      BY <1>2, <1>5, <3>1 DEF ProcOk, ProcOkNext, IssueFrame
  <2> QED
    BY <1>2, <2>1 DEF ProcFrame
<1> QED
  BY <1>3, <1>4, <1>6, <1>7, <1>8 DEF Inv

\* What a step leaves alone is such a part.
LEMMA Untouched ==
    ASSUME Inv
    PROVE  /\ UNCHANGED issue => IssueFrame
           /\ UNCHANGED tree => TreeFrame
           /\ UNCHANGED file => FileFrame
           /\ UNCHANGED report => ReportFrame
           /\ UNCHANGED agent => AgentFrame
           /\ UNCHANGED proc => ProcFrame
<1>1. TypeInv
  BY DEF Inv
<1> QED
  BY <1>1 DEF TypeInv, IssueFrame, TreeFrame, FileFrame, ReportFrame, AgentFrame, ProcFrame

\* So are new labels, ...
LEMMA Relabelled ==
    ASSUME Inv, NEW i \in Issues, NEW L \in SUBSET Label, issue' = [issue EXCEPT ![i].labels = L]
    PROVE  IssueFrame
<1>1. issue \in [Issues -> IssueRec]
  BY DEF Inv, TypeInv
<1>2. issue' \in [Issues -> IssueRec]
  BY <1>1 DEF IssueRec
<1>3. \A j \in Issues : /\ issue'[j].state = issue[j].state /\ issue'[j].handback = issue[j].handback
                        /\ issue'[j].mr = issue[j].mr /\ issue'[j].forced = issue[j].forced
  BY <1>1 DEF IssueRec
<1> QED
  BY <1>2, <1>3 DEF IssueFrame

\* ... another event in a handoff file, ...
LEMMA FileWritten ==
    ASSUME Inv, NEW c \in Clones, NEW i \in Issues, NEW f \in FileRec,
           file' = [file EXCEPT ![c][i] = f], issue'[i].state # "absent",
           f.last = "handback-complete" =>
              issue'[i].state = "closed" /\ issue'[i].handback /\ report'[c][i] # "none"
    PROVE  FileFrame
<1>1. file \in [Clones -> [Issues -> FileRec]]
  BY DEF Inv, TypeInv
<1>2. file' = [file EXCEPT ![c] = [file[c] EXCEPT ![i] = f]]
  BY <1>1
<1> QED
  BY <1>1, <1>2 DEF FileFrame

\* ... a report, ...
LEMMA ReportWritten ==
    ASSUME Inv, NEW c \in Clones, NEW i \in Issues, NEW s \in {"partial", "complete"},
           report' = write_closeout_report(c, i, s), issue'[i].state # "absent"
    PROVE  ReportFrame
<1>1. report \in [Clones -> [Issues -> {"none", "partial", "complete"}]]
  BY DEF Inv, TypeInv
<1>2. report' = [report EXCEPT ![c] = [report[c] EXCEPT ![i] = s]]
  BY <1>1 DEF write_closeout_report
<1> QED
  BY <1>1, <1>2 DEF ReportFrame

\* ... an agent's status ...
LEMMA AgentWritten ==
    ASSUME Inv, NEW c \in Clones, NEW i \in Issues, NEW live \in BOOLEAN,
           agent' = [agent EXCEPT ![c][i] = live]
    PROVE  AgentFrame
<1>1. agent \in [Clones -> [Issues -> BOOLEAN]]
  BY DEF Inv, TypeInv
<1>2. agent' = [agent EXCEPT ![c] = [agent[c] EXCEPT ![i] = live]]
  BY <1>1
<1> QED
  BY <1>1, <1>2 DEF AgentFrame

\* ... a process that moves on, or is done.
LEMMA ProcMoved ==
    ASSUME Inv, NEW p \in Procs, NEW q \in ProcRec, proc' = [proc EXCEPT ![p] = q], ProcOkNext(q)
    PROVE  ProcFrame
<1>1. proc \in [Procs -> ProcRec]
  BY DEF Inv, TypeInv
<1> QED
  BY <1>1 DEF ProcFrame

LEMMA ProcIdle ==
    ASSUME Inv, NEW p \in Procs, proc' = Idle(p)
    PROVE  ProcFrame
<1>1. proc \in [Procs -> ProcRec] /\ proc[p] \in ProcRec
  BY DEF Inv, TypeInv
<1> DEFINE q == [proc[p] EXCEPT !.pc = "idle", !.claimed = FALSE, !.ready = FALSE, !.attach = FALSE,
                                !.batch = FALSE, !.force = FALSE, !.snap = {}]
<1>2. q \in ProcRec /\ q.pc = "idle"
  <2> ASSUME NEW x \in ProcRec
      PROVE  LET y == [x EXCEPT !.pc = "idle", !.claimed = FALSE, !.ready = FALSE, !.attach = FALSE,
                                !.batch = FALSE, !.force = FALSE, !.snap = {}]
             IN  y \in ProcRec /\ y.pc = "idle"
    BY DEF ProcRec, PCs
  <2> QED
    BY <1>1
<1>3. proc' = [proc EXCEPT ![p] = q]
  BY <1>1 DEF Idle
<1>4. ProcOkNext(q)
  BY <1>2 DEF ProcOkNext
<1> HIDE DEF q
<1> QED
  BY <1>2, <1>3, <1>4, ProcMoved

-----------------------------------------------------------------------------
(* The parts of a process's steps. *)

\* A process at work is on an issue the tracker has.
LEMMA AtWork ==
    ASSUME Inv, NEW p \in Procs
    PROVE  /\ proc \in [Procs -> ProcRec] /\ proc[p] \in ProcRec /\ Clone(p) \in Clones
           /\ proc[p].pc # "idle" =>
                 /\ proc[p].i \in Issues
                 /\ issue[proc[p].i].state # "absent"
                 /\ proc[p].pc \in Closing => report[Clone(p)][proc[p].i] # "none"
                 /\ proc[p].pc = "close" => issue[proc[p].i].mr = "merged" \/ proc[p].force
                 /\ proc[p].pc \in AfterClose => issue[proc[p].i].state = "closed"
                 /\ proc[p].pc = "done" => issue[proc[p].i].handback
<1>1. proc \in [Procs -> ProcRec] /\ proc[p] \in ProcRec
  BY DEF Inv, TypeInv
<1>2. proc[p].clone \in Clones
  BY <1>1 DEF ProcRec
<1>3. ProcOk(proc[p])
  BY DEF Inv, ProcInv
<1> QED
  BY <1>1, <1>2, <1>3 DEF Clone, ProcOk

\* A process that stays on its issue and moves to a stage it has earned.
LEMMA Advanced ==
    ASSUME Inv, IssueFrame, ReportFrame, NEW p \in Procs, NEW q \in ProcRec,
           proc[p].pc # "idle", proc' = [proc EXCEPT ![p] = q],
           q.clone = proc[p].clone, q.i = proc[p].i,
           q.pc \in Closing => proc[p].pc \in Closing,
           q.pc = "close" => issue'[q.i].mr = "merged" \/ q.force,
           q.pc \in AfterClose => issue'[q.i].state = "closed",
           q.pc = "done" => issue'[q.i].handback
    PROVE  ProcFrame
<1>1. /\ q.i \in Issues /\ q.clone \in Clones /\ issue[q.i].state # "absent"
      /\ proc[p].pc \in Closing => report[q.clone][q.i] # "none"
  BY AtWork DEF Clone
<1>2. issue'[q.i].state # "absent"
  BY <1>1 DEF IssueFrame
<1>3. q.pc \in Closing => report'[q.clone][q.i] # "none"
  BY <1>1 DEF ReportFrame
<1>4. ProcOkNext(q)
  BY <1>1, <1>2, <1>3 DEF ProcOkNext
<1> QED
  BY <1>4, ProcMoved

LEMMA MovedTo ==
    ASSUME Inv, IssueFrame, ReportFrame, NEW p \in Procs, NEW s \in PCs,
           proc[p].pc # "idle", proc' = [proc EXCEPT ![p].pc = s],
           s \in Closing => proc[p].pc \in Closing,
           s = "close" => issue'[proc[p].i].mr = "merged" \/ proc[p].force,
           s \in AfterClose => issue'[proc[p].i].state = "closed",
           s = "done" => issue'[proc[p].i].handback
    PROVE  ProcFrame
<1>1. proc \in [Procs -> ProcRec] /\ proc[p] \in ProcRec
  BY AtWork
<1> DEFINE q == [proc[p] EXCEPT !.pc = s]
<1>2. ASSUME NEW x \in ProcRec
      PROVE  LET y == [x EXCEPT !.pc = s]
             IN  y \in ProcRec /\ y.pc = s /\ y.clone = x.clone /\ y.i = x.i /\ y.force = x.force
  BY DEF ProcRec
<1>3. q \in ProcRec /\ q.pc = s /\ q.clone = proc[p].clone /\ q.i = proc[p].i /\ q.force = proc[p].force
  BY <1>1, <1>2
<1>4. proc' = [proc EXCEPT ![p] = q]
  BY <1>1
<1> HIDE DEF q
<1>5. /\ q.pc \in Closing => proc[p].pc \in Closing
      /\ q.pc = "close" => issue'[q.i].mr = "merged" \/ q.force
      /\ q.pc \in AfterClose => issue'[q.i].state = "closed"
      /\ q.pc = "done" => issue'[q.i].handback
  BY <1>3
<1> QED
  BY <1>3, <1>4, <1>5, Advanced

\* create_worktree_for_issue begins on an issue the tracker has.
LEMMA Begun ==
    ASSUME Inv, UNCHANGED issue, NEW p \in Procs, NEW i \in Issues, NEW batch \in BOOLEAN,
           NEW claim \in BOOLEAN, issue[i].state # "absent", BeginCreate(p, i, batch, claim)
    PROVE  ProcFrame
<1>1. proc \in [Procs -> ProcRec] /\ proc[p] \in ProcRec /\ Clone(p) \in Clones
  BY AtWork
<1>2. tree[Clone(p)][i].branch \in BOOLEAN
  BY <1>1 DEF Inv, TypeInv, TreeRec
<1> DEFINE s == IF claim THEN "read" ELSE "add"
           q == [proc[p] EXCEPT !.pc = s, !.batch = batch, !.i = i,
                                !.attach = tree[Clone(p)][i].branch]
<1>3. s \in PCs /\ s \notin Closing /\ s \notin AfterClose /\ s # "close" /\ s # "done"
  BY DEF PCs, Closing, AfterClose
<1> HIDE DEF s
<1>4. ASSUME NEW x \in ProcRec, NEW a \in BOOLEAN
      PROVE  LET y == [x EXCEPT !.pc = s, !.batch = batch, !.i = i, !.attach = a]
             IN  y \in ProcRec /\ y.pc = s /\ y.i = i
  BY <1>3 DEF ProcRec
<1>5. q \in ProcRec /\ q.pc = s /\ q.i = i
  BY <1>1, <1>2, <1>4
<1>6. proc' = [proc EXCEPT ![p] = q]
  BY <1>1 DEF BeginCreate, s
<1>7. ProcOkNext(q)
  BY <1>3, <1>5 DEF ProcOkNext
<1> HIDE DEF q
<1> QED
  BY <1>5, <1>6, <1>7, ProcMoved

\* The exception path of create_worktree_for_issue.
LEMMA Abandoned ==
    ASSUME Inv, UNCHANGED <<issue, report>>, NEW p \in Procs, proc[p].pc # "idle", Abandon(p)
    PROVE  ProcFrame
<1>1. IssueFrame /\ ReportFrame
  BY Untouched
<1>2. CASE proc[p].claimed
  BY <1>1, <1>2, MovedTo DEF Abandon, PCs, Closing, AfterClose
<1>3. CASE ~proc[p].claimed
  BY <1>3, ProcIdle DEF Abandon
<1> QED
  BY <1>2, <1>3

\* One more event in a handoff file.
LEMMA EventRecorded ==
    ASSUME NEW f \in FileRec, NEW e \in EventTypes
    PROVE  record_issue_handoff_event(f, e) \in FileRec /\ record_issue_handoff_event(f, e).last = e
BY DEF record_issue_handoff_event, FileRec, NoFile, EventTypes

\* Every event but the last of a closeout is recorded of any issue there is.
LEMMA RecordedFrame ==
    ASSUME Inv, NEW c \in Clones, NEW i \in Issues, NEW e \in EventTypes,
           file' = Recorded(c, i, e), issue'[i].state # "absent",
           e = "handback-complete" =>
              issue'[i].state = "closed" /\ issue'[i].handback /\ report'[c][i] # "none"
    PROVE  FileFrame
<1>1. file[c][i] \in FileRec
  BY DEF Inv, TypeInv
<1>2. file' = [file EXCEPT ![c][i] = record_issue_handoff_event(file[c][i], e)]
  BY DEF Recorded
<1> DEFINE f == record_issue_handoff_event(file[c][i], e)
<1>3. f \in FileRec /\ f.last = e
  BY <1>1, EventRecorded
<1>4. file' = [file EXCEPT ![c][i] = f]
  BY <1>2
<1> HIDE DEF f
<1> QED
  BY <1>3, <1>4, FileWritten

\* A worktree is linked only to an issue the tracker has.
LEMMA LinkedIsThere ==
    ASSUME Inv, NEW c \in Clones, NEW i \in Issues, Linked(c, i)
    PROVE  issue[i].state # "absent"
BY DEF Inv, EvidenceInv, Linked, list_worktrees

\* One worktree changed.
LEMMA TreeWritten ==
    ASSUME Inv, NEW c \in Clones, NEW i \in Issues, NEW t \in TreeRec,
           tree' = [tree EXCEPT ![c][i] = t], TreeOk(t),
           t.linked => tree[c][i].linked \/ issue'[i].state # "absent"
    PROVE  TreeFrame
<1>1. tree \in [Clones -> [Issues -> TreeRec]]
  BY DEF Inv, TypeInv
<1>2. tree' = [tree EXCEPT ![c] = [tree[c] EXCEPT ![i] = t]]
  BY <1>1
<1> QED
  BY <1>1, <1>2 DEF TreeFrame

-----------------------------------------------------------------------------
(* The steps, in the order of Next. *)

LEMMA QueueIsOpen ==
    ASSUME NEW mode, NEW i \in Queue(issue, mode)
    PROVE  i \in Issues /\ issue[i].state = "open"
BY DEF Queue

LEMMA FirstIsThere ==
    ASSUME NEW S \in SUBSET Issues, S # {}
    PROVE  FirstOf(S) \in S
<1>1. \E n \in S : \A m \in S : n <= m
  BY IssueAssumption, LeastNumber
<1> QED
  BY <1>1 DEF FirstOf

\* Steps that leave everything but the process alone.
LEMMA OnlyProc ==
    ASSUME Inv, UNCHANGED <<issue, tree, file, report, agent>>, ProcFrame
    PROVE  Frames
BY Untouched DEF Frames

LEMMA StartingFrames ==
    ASSUME Inv, NEW p \in Procs,
           \/ \E mode \in Modes, claim, choose \in BOOLEAN : WorktreeNext(p, mode, claim, choose)
           \/ \E i \in Issues, mode \in Modes, claim \in BOOLEAN : WorktreeCreate(p, i, mode, claim)
           \/ \E mode \in Modes : Batch(p, mode)
    PROVE  Frames
<1>1. ASSUME NEW mode \in Modes, NEW claim \in BOOLEAN, NEW choose \in BOOLEAN,
             WorktreeNext(p, mode, claim, choose)
      PROVE  Frames
  <2>1. PICK i \in RunnableWithoutWorktree(Clone(p), mode) : BeginCreate(p, i, FALSE, claim)
    BY <1>1 DEF WorktreeNext
  <2>2. i \in Issues /\ issue[i].state = "open"
    BY QueueIsOpen DEF RunnableWithoutWorktree
  <2>3. UNCHANGED <<issue, tree, file, report, agent>>
    BY <1>1 DEF WorktreeNext
  <2>4. ProcFrame
    BY <2>1, <2>2, <2>3, Begun
  <2> QED
    BY <2>3, <2>4, OnlyProc
<1>2. ASSUME NEW i \in Issues, NEW mode \in Modes, NEW claim \in BOOLEAN,
             WorktreeCreate(p, i, mode, claim)
      PROVE  Frames
  <2>1. BeginCreate(p, i, FALSE, claim) /\ issue[i].state # "absent"
        /\ UNCHANGED <<issue, tree, file, report, agent>>
    BY <1>2 DEF WorktreeCreate
  <2>2. ProcFrame
    BY <2>1, Begun
  <2> QED
    BY <2>1, <2>2, OnlyProc
<1>3. ASSUME NEW mode \in Modes, Batch(p, mode)
      PROVE  Frames
  <2> DEFINE c == Clone(p)
             open == {j \in Queue(issue, mode) : Runnable(issue, j) /\ ~(Linked(c, j) /\ agent[c][j])}
             i == FirstOf(open)
  <2>1. UNCHANGED <<issue, tree, file, report, agent>> /\ open # {} /\ proc[p].pc = "idle"
    BY <1>3 DEF Batch
  <2>2. IF Linked(c, i) THEN proc' = [proc EXCEPT ![p].pc = "launch", ![p].batch = TRUE, ![p].i = i]
        ELSE BeginCreate(p, i, TRUE, TRUE)
    BY <1>3 DEF Batch
  <2>3. open \in SUBSET Issues
    BY QueueIsOpen
  <2>4. i \in open
    <3> HIDE DEF open
    <3> QED
      BY <2>1, <2>3, FirstIsThere
  <2>5. i \in Issues /\ issue[i].state = "open"
    BY <2>4, QueueIsOpen
  <2> HIDE DEF i, open, c
  <2>6. CASE Linked(c, i)
    <3> DEFINE q == [proc[p] EXCEPT !.pc = "launch", !.batch = TRUE, !.i = i]
    <3>1. proc \in [Procs -> ProcRec] /\ proc[p] \in ProcRec
      BY AtWork
    <3>2. ASSUME NEW x \in ProcRec
          PROVE  LET y == [x EXCEPT !.pc = "launch", !.batch = TRUE, !.i = i]
                 IN  y \in ProcRec /\ y.pc = "launch" /\ y.i = i
      BY <2>5 DEF ProcRec, PCs
    <3>3. q \in ProcRec /\ q.pc = "launch" /\ q.i = i
      BY <3>1, <3>2
    <3>4. proc' = [proc EXCEPT ![p] = q]
      BY <2>2, <2>6, <3>1
    <3>5. ProcOkNext(q)
      BY <2>1, <2>5, <3>3 DEF ProcOkNext, Closing, AfterClose
    <3> HIDE DEF q
    <3>6. ProcFrame
      BY <3>3, <3>4, <3>5, ProcMoved
    <3> QED
      BY <2>1, <3>6, OnlyProc
  <2>7. CASE ~Linked(c, i)
    <3>1. BeginCreate(p, i, TRUE, TRUE) /\ issue[i].state # "absent"
      BY <2>2, <2>5, <2>7
    <3>2. ProcFrame
      BY <2>1, <2>5, <3>1, Begun
    <3> QED
      BY <2>1, <3>2, OnlyProc
  <2> QED
    BY <2>6, <2>7
<1> QED
  BY <1>1, <1>2, <1>3

\* Events of a worktree that is there, and a push from it.
LEMMA ResumeFrames ==
    ASSUME Inv, NEW p \in Procs, NEW i \in Issues, NEW opened \in BOOLEAN,
           WorktreeResume(p, i, opened)
    PROVE  Frames
<1> DEFINE c == Clone(p)
           g == record_issue_handoff_event(file[c][i], "start")
           f == Opened(g, opened)
<1>1. c \in Clones
  BY AtWork
<1>2. issue[i].state # "absent" /\ UNCHANGED <<issue, tree, report, agent, proc>>
  BY <1>1, LinkedIsThere DEF WorktreeResume
<1>3. file' = [file EXCEPT ![c][i] = f]
  BY DEF WorktreeResume
<1>4. g \in FileRec /\ g.last = "start"
  <2>1. file[c][i] \in FileRec
    BY <1>1 DEF Inv, TypeInv
  <2> QED
    BY <2>1, EventRecorded DEF EventTypes
<1>5. f \in FileRec /\ f.last # "handback-complete"
  BY <1>4, EventRecorded DEF EventTypes, Opened
<1> HIDE DEF c, f
<1>6. FileFrame
  BY <1>1, <1>2, <1>3, <1>5, FileWritten
<1> QED
  BY <1>2, <1>6, Untouched DEF Frames

LEMMA HandoffFrames ==
    ASSUME Inv, NEW p \in Procs, NEW i \in Issues, AgentHandoff(p, i)
    PROVE  Frames
<1>1. Clone(p) \in Clones
  BY AtWork
<1>2. issue[i].state # "absent" /\ UNCHANGED <<issue, tree, report, agent, proc>>
  BY <1>1, LinkedIsThere DEF AgentHandoff
<1>3. FileFrame
  BY <1>1, <1>2, RecordedFrame DEF AgentHandoff, EventTypes
<1> QED
  BY <1>2, <1>3, Untouched DEF Frames

LEMMA PushFrames ==
    ASSUME Inv, NEW p \in Procs, NEW i \in Issues, Push(p, i)
    PROVE  Frames
<1> DEFINE c == Clone(p)
           t == [tree[c][i] EXCEPT !.commits = "pushed"]
<1>1. c \in Clones
  BY AtWork
<1>2. UNCHANGED <<issue, file, report, agent, proc>>
  BY DEF Push
<1>3. tree[c][i] \in TreeRec /\ tree \in [Clones -> [Issues -> TreeRec]] /\ TreeOk(tree[c][i])
  BY <1>1 DEF Inv, TypeInv, TreeInv
<1>4. ASSUME NEW x \in TreeRec
      PROVE  LET y == [x EXCEPT !.commits = "pushed"]
             IN  /\ y \in TreeRec /\ y.commits = "pushed" /\ y.linked = x.linked
                 /\ y.branch = x.branch /\ y.dirty = x.dirty
  BY DEF TreeRec
<1>5. t \in TreeRec /\ TreeOk(t) /\ (t.linked => tree[c][i].linked)
  BY <1>3, <1>4 DEF TreeOk
<1>6. tree' = [tree EXCEPT ![c][i] = t]
  BY DEF Push
<1> HIDE DEF c, t
<1>7. TreeFrame
  BY <1>1, <1>5, <1>6, TreeWritten
<1> QED
  BY <1>2, <1>7, Untouched DEF Frames

\* The start of a closeout, in a linked worktree.
LEMMA FinishStartFrames ==
    ASSUME Inv, NEW p \in Procs, NEW i \in Issues, NEW force \in BOOLEAN, FinishStart(p, i, force)
    PROVE  Frames
<1> DEFINE c == Clone(p)
           g == ensure_closeout_start_evidence(file[c][i])
           f == record_issue_handoff_event(g, "closeout-started")
           q == [proc[p] EXCEPT !.pc = "merge-check", !.i = i, !.force = force]
<1>1. c \in Clones /\ c = proc[p].clone /\ proc \in [Procs -> ProcRec] /\ proc[p] \in ProcRec
  BY AtWork DEF Clone
<1>2. issue[i].state # "absent" /\ UNCHANGED <<issue, tree, agent>>
  BY <1>1, LinkedIsThere DEF FinishStart
<1>3. /\ file' = [file EXCEPT ![c][i] = f]
      /\ report' = write_closeout_report(c, i, "partial")
  BY DEF FinishStart
<1>4. f \in FileRec /\ f.last = "closeout-started"
  <2>1. file[c][i] \in FileRec
    BY <1>1 DEF Inv, TypeInv
  <2>2. g \in FileRec
    BY <2>1, EventRecorded DEF EventTypes, ensure_closeout_start_evidence
  <2> QED
    BY <2>2, EventRecorded DEF EventTypes
<1>5. proc' = [proc EXCEPT ![p] = q]
  BY <1>1 DEF FinishStart
<1>6. q \in ProcRec /\ q.pc = "merge-check" /\ q.i = i /\ q.clone = c
  <2> ASSUME NEW x \in ProcRec
      PROVE  LET y == [x EXCEPT !.pc = "merge-check", !.i = i, !.force = force]
             IN  y \in ProcRec /\ y.pc = "merge-check" /\ y.i = i /\ y.clone = x.clone
    BY DEF ProcRec, PCs
  <2> QED
    BY <1>1
<1> HIDE DEF c, f, q
<1>7. FileFrame
  BY <1>1, <1>2, <1>3, <1>4, FileWritten
<1>8. ReportFrame
  BY <1>1, <1>2, <1>3, ReportWritten
<1>9. report'[c][i] = "partial"
  BY <1>1, <1>3 DEF write_closeout_report, Inv, TypeInv
<1>10. ProcFrame
  <2>1. ProcOkNext(q)
    BY <1>2, <1>6, <1>9 DEF ProcOkNext, Closing, AfterClose
  <2> QED
    BY <1>5, <1>6, <2>1, ProcMoved
<1> QED
  BY <1>2, <1>7, <1>8, <1>10, Untouched DEF Frames

\* What the repairs read.
LEMMA RepairReadsFrames ==
    ASSUME Inv, NEW p \in Procs, NEW i \in Issues, ReconcileRead(p, i) \/ RepairRead(p, i)
    PROVE  Frames
<1>1. proc \in [Procs -> ProcRec] /\ proc[p] \in ProcRec
  BY AtWork
<1>2. issue[i].labels \in SUBSET Label
  BY DEF Inv, TypeInv, IssueRec
<1>3. UNCHANGED <<issue, tree, file, report, agent>> /\ issue[i].state # "absent"
  BY DEF ReconcileRead, RepairRead, StaleLock
<1>4. ASSUME NEW s \in {"reconcile", "repair"}, NEW q \in ProcRec,
             q.pc = s, q.i = i, proc' = [proc EXCEPT ![p] = q]
      PROVE  Frames
  <2>1. ProcOkNext(q)
    BY <1>3, <1>4 DEF ProcOkNext, Closing, AfterClose
  <2>2. ProcFrame
    BY <1>4, <2>1, ProcMoved
  <2> QED
    BY <1>3, <2>2, OnlyProc
<1>5. CASE ReconcileRead(p, i)
  <2> DEFINE closed == issue[i].state = "closed"
             q == [proc[p] EXCEPT !.pc = "reconcile", !.i = i, !.snap = issue[i].labels,
                                  !.force = closed]
  <2>1. ASSUME NEW x \in ProcRec, NEW L \in SUBSET Label, NEW b \in BOOLEAN
        PROVE  LET y == [x EXCEPT !.pc = "reconcile", !.i = i, !.snap = L, !.force = b]
               IN  y \in ProcRec /\ y.pc = "reconcile" /\ y.i = i
    BY DEF ProcRec, PCs
  <2>2. q \in ProcRec /\ q.pc = "reconcile" /\ q.i = i
    <3>1. closed \in BOOLEAN
      OBVIOUS
    <3> HIDE DEF closed
    <3> QED
      BY <1>1, <1>2, <2>1, <3>1, Zenon
  <2>3. proc' = [proc EXCEPT ![p] = q]
    BY <1>1, <1>5 DEF ReconcileRead
  <2> HIDE DEF q
  <2> QED
    BY <1>4, <2>2, <2>3
<1>6. CASE RepairRead(p, i)
  <2> DEFINE q == [proc[p] EXCEPT !.pc = "repair", !.i = i]
  <2>1. ASSUME NEW x \in ProcRec
        PROVE  LET y == [x EXCEPT !.pc = "repair", !.i = i]
               IN  y \in ProcRec /\ y.pc = "repair" /\ y.i = i
    BY DEF ProcRec, PCs
  <2>2. q \in ProcRec /\ q.pc = "repair" /\ q.i = i
    BY <1>1, <2>1
  <2>3. proc' = [proc EXCEPT ![p] = q]
    BY <1>1, <1>6 DEF RepairRead
  <2> HIDE DEF q
  <2> QED
    BY <1>4, <2>2, <2>3
<1> QED
  BY <1>5, <1>6

\* Labels stay labels.
LEMMA UpdatedLabels ==
    ASSUME NEW L \in SUBSET Label, NEW change, change.add \in SUBSET Label
    PROVE  update_issue_labels(L, change) \in SUBSET Label
BY DEF update_issue_labels

LEMMA ReconciledLabels ==
    ASSUME NEW L \in SUBSET Label, NEW state, NEW K \in SUBSET Label
    PROVE  update_issue_labels(L, ReconcileChanges(state, K)) \in SUBSET Label
BY DEF update_issue_labels, ReconcileChanges, choose_reconciled_status, Label, StatusLabels

LEMMA NormalLabels ==
    ASSUME NEW L \in SUBSET Label
    PROVE  normalize_closed_issue(L) \in SUBSET Label
BY DEF normalize_closed_issue, update_issue_labels, ReconcileChanges, choose_reconciled_status,
       Label, StatusLabels

\* A process writes the labels of its issue and moves on, or is done.
LEMMA LabelWrite ==
    ASSUME Inv, UNCHANGED <<tree, file, report, agent>>, NEW p \in Procs, proc[p].pc # "idle",
           NEW L \in SUBSET Label, issue' = [issue EXCEPT ![proc[p].i].labels = L],
           proc' = Idle(p) \/ proc' = [proc EXCEPT ![p].pc = "verify"]
    PROVE  Frames
<1>1. proc[p].i \in Issues
  BY AtWork
<1>2. IssueFrame /\ ReportFrame
  BY <1>1, Relabelled, Untouched
<1>3. CASE proc' = Idle(p)
  BY <1>2, <1>3, ProcIdle, Untouched DEF Frames
<1>4. CASE proc' = [proc EXCEPT ![p].pc = "verify"]
  <2>1. ProcFrame
    BY <1>2, <1>4, MovedTo DEF PCs, Closing, AfterClose
  <2> QED
    BY <1>2, <2>1, Untouched DEF Frames
<1> QED
  BY <1>3, <1>4

LEMMA LabelSteps ==
    ASSUME Inv, NEW p \in Procs,
           \/ ClaimUpdate(p) \/ Unclaim(p) \/ ReconcileWrite(p)
           \/ \E ready \in BOOLEAN : RepairWrite(p, ready)
    PROVE  Frames
<1> DEFINE i == proc[p].i
<1>1. proc[p].pc # "idle" /\ UNCHANGED <<tree, file, report, agent>>
      /\ (proc' = Idle(p) \/ proc' = [proc EXCEPT ![p].pc = "verify"])
  BY DEF ClaimUpdate, Unclaim, ReconcileWrite, RepairWrite
<1>2. i \in Issues
  BY <1>1, AtWork
<1>3. issue \in [Issues -> IssueRec] /\ issue[i].labels \in SUBSET Label
  BY <1>2 DEF Inv, TypeInv, IssueRec
<1>4. proc[p].snap \in SUBSET Label
  BY AtWork DEF ProcRec
<1>5. \E L \in SUBSET Label : issue' = [issue EXCEPT ![i].labels = L]
  <2>1. ASSUME NEW change, change.add \in SUBSET Label,
               issue' = [issue EXCEPT ![i].labels = update_issue_labels(@, change)]
        PROVE  \E L \in SUBSET Label : issue' = [issue EXCEPT ![i].labels = L]
    <3>1. issue' = [issue EXCEPT ![i].labels = update_issue_labels(issue[i].labels, change)]
      BY <2>1
    <3> QED
      BY <1>3, <2>1, <3>1, UpdatedLabels
  <2>2. CASE ClaimUpdate(p)
    <3> DEFINE change == [add |-> {"in-progress"},
                          remove |-> {"not-started"} \union (IF proc[p].ready THEN {"ready"} ELSE {})]
    <3>1. issue' = [issue EXCEPT ![i].labels = update_issue_labels(@, change)]
      BY <2>2 DEF ClaimUpdate
    <3>2. change.add \in SUBSET Label
      BY DEF Label, StatusLabels
    <3> HIDE DEF change
    <3> QED
      BY <2>1, <3>1, <3>2
  <2>3. CASE Unclaim(p)
    <3> DEFINE change == [add |-> {"not-started"} \union (IF proc[p].ready THEN {"ready"} ELSE {}),
                          remove |-> {"in-progress"}]
    <3>1. issue' = [issue EXCEPT ![i].labels = update_issue_labels(@, change)]
      BY <2>3 DEF Unclaim
    <3>2. change.add \in SUBSET Label
      BY DEF Label, StatusLabels
    <3> HIDE DEF change
    <3> QED
      BY <2>1, <3>1, <3>2
  <2>4. ASSUME NEW ready \in BOOLEAN, RepairWrite(p, ready)
        PROVE  \E L \in SUBSET Label : issue' = [issue EXCEPT ![i].labels = L]
    <3> DEFINE change == [add |-> {"not-started"} \union (IF ready THEN {"ready"} ELSE {}),
                          remove |-> {"in-progress"}]
    <3>1. issue' = [issue EXCEPT ![i].labels = update_issue_labels(@, change)]
      BY <2>4 DEF RepairWrite
    <3>2. change.add \in SUBSET Label
      BY DEF Label, StatusLabels
    <3> HIDE DEF change
    <3> QED
      BY <2>1, <3>1, <3>2
  <2>5. CASE ReconcileWrite(p)
    <3> DEFINE seen == IF proc[p].force THEN "closed" ELSE "open"
               L == update_issue_labels(issue[i].labels, ReconcileChanges(seen, proc[p].snap))
    <3>1. issue' = [issue EXCEPT ![i].labels = L]
      BY <2>5 DEF ReconcileWrite
    <3>2. L \in SUBSET Label
      BY <1>3, <1>4, ReconciledLabels
    <3> HIDE DEF L
    <3> QED
      BY <3>1, <3>2
  <2> QED
    BY <2>2, <2>3, <2>4, <2>5
<1> QED
  BY <1>1, <1>5, LabelWrite

\* What claim_issue reads, before and after.
LEMMA ClaimReadsFrames ==
    ASSUME Inv, NEW p \in Procs, ClaimRead(p) \/ ClaimVerify(p)
    PROVE  Frames
<1> DEFINE labels == issue[proc[p].i].labels
<1>1. proc \in [Procs -> ProcRec] /\ proc[p] \in ProcRec
  BY AtWork
<1>2. proc[p].pc # "idle" /\ UNCHANGED <<issue, tree, file, report, agent>>
  BY DEF ClaimRead, ClaimVerify
<1>3. IssueFrame /\ ReportFrame
  BY <1>2, Untouched
<1>4. ASSUME NEW q \in ProcRec, q.pc \in {"update", "add"}, q.clone = proc[p].clone, q.i = proc[p].i,
             proc' = [proc EXCEPT ![p] = q]
      PROVE  ProcFrame
  <2>1. q.pc \notin Closing /\ q.pc # "close" /\ q.pc \notin AfterClose /\ q.pc # "done"
    BY <1>4 DEF Closing, AfterClose
  <2> QED
    BY <1>2, <1>3, <1>4, <2>1, Advanced
<1>5. CASE proc' = Idle(p)
  BY <1>2, <1>5, ProcIdle, OnlyProc
<1>6. CASE ClaimRead(p) /\ proc' # Idle(p)
  <2> DEFINE ready == "ready" \in labels
             q == [proc[p] EXCEPT !.pc = "update", !.ready = ready]
  <2>1. proc' = [proc EXCEPT ![p] = q]
    BY <1>1, <1>6 DEF ClaimRead
  <2>2. ASSUME NEW x \in ProcRec, NEW b \in BOOLEAN
        PROVE  LET y == [x EXCEPT !.pc = "update", !.ready = b]
               IN  y \in ProcRec /\ y.pc = "update" /\ y.clone = x.clone /\ y.i = x.i
    BY DEF ProcRec, PCs
  <2>3. q \in ProcRec /\ q.pc = "update" /\ q.clone = proc[p].clone /\ q.i = proc[p].i
    <3>1. ready \in BOOLEAN
      OBVIOUS
    <3> HIDE DEF ready
    <3> QED
      BY <1>1, <2>2, <3>1, Zenon
  <2> HIDE DEF q
  <2>4. ProcFrame
    BY <1>4, <2>1, <2>3
  <2> QED
    BY <1>2, <2>4, OnlyProc
<1>7. CASE ClaimVerify(p) /\ proc' # Idle(p)
  <2> DEFINE q == [proc[p] EXCEPT !.pc = "add", !.claimed = TRUE]
  <2>1. proc' = [proc EXCEPT ![p] = q]
    BY <1>1, <1>7 DEF ClaimVerify
  <2>2. ASSUME NEW x \in ProcRec
        PROVE  LET y == [x EXCEPT !.pc = "add", !.claimed = TRUE]
               IN  y \in ProcRec /\ y.pc = "add" /\ y.clone = x.clone /\ y.i = x.i
    BY DEF ProcRec, PCs
  <2>3. q \in ProcRec /\ q.pc = "add" /\ q.clone = proc[p].clone /\ q.i = proc[p].i
    BY <1>1, <2>2
  <2> HIDE DEF q
  <2>4. ProcFrame
    BY <1>4, <2>1, <2>3
  <2> QED
    BY <1>2, <2>4, OnlyProc
<1> QED
  BY <1>5, <1>6, <1>7

\* git links the worktree of a process's issue, or the creation is abandoned.
LEMMA WorktreeAddFrames ==
    ASSUME Inv, NEW p \in Procs, WorktreeAdd(p)
    PROVE  Frames
<1> DEFINE c == Clone(p)
           i == proc[p].i
           t == [tree[c][i] EXCEPT !.linked = TRUE, !.branch = TRUE]
<1>1. proc[p].pc = "add" /\ UNCHANGED <<issue, file, report, agent>>
  BY DEF WorktreeAdd
<1>2. c \in Clones /\ i \in Issues /\ issue[i].state # "absent"
  BY <1>1, AtWork
<1>3. IssueFrame /\ ReportFrame
  BY <1>1, Untouched
<1>4. CASE Abandon(p) /\ UNCHANGED tree
  BY <1>1, <1>4, Abandoned, Untouched DEF Frames
<1>5. CASE /\ tree' = [tree EXCEPT ![c][i].linked = TRUE, ![c][i].branch = TRUE]
           /\ proc' = [proc EXCEPT ![p].pc = "provision"]
  <2>1. tree[c][i] \in TreeRec /\ tree \in [Clones -> [Issues -> TreeRec]] /\ TreeOk(tree[c][i])
    BY <1>2 DEF Inv, TypeInv, TreeInv
  <2>2. ASSUME NEW x \in TreeRec
        PROVE  LET y == [x EXCEPT !.linked = TRUE, !.branch = TRUE]
               IN  y \in TreeRec /\ y.linked = TRUE /\ y.branch = TRUE
    BY DEF TreeRec
  <2>3. t \in TreeRec /\ TreeOk(t)
    BY <2>1, <2>2 DEF TreeOk
  <2>4. tree' = [tree EXCEPT ![c][i] = t]
    <3>1. tree' = [tree EXCEPT ![c] = [tree[c] EXCEPT ![i] = t]]
      BY <1>2, <1>5, <2>1
    <3> HIDE DEF c, i, t
    <3> QED
      BY <1>2, <2>1, <3>1
  <2>5. ProcFrame
    BY <1>1, <1>3, <1>5, MovedTo DEF PCs, Closing, AfterClose
  <2> HIDE DEF c, i, t
  <2>6. TreeFrame
    BY <1>1, <1>2, <2>3, <2>4, TreeWritten
  <2> QED
    BY <1>1, <2>5, <2>6, Untouched DEF Frames
<1> QED
  BY <1>4, <1>5 DEF WorktreeAdd

LEMMA ProvisionFrames ==
    ASSUME Inv, NEW p \in Procs, NEW opened \in BOOLEAN, Provision(p, opened)
    PROVE  Frames
<1> DEFINE c == Clone(p)
           i == proc[p].i
           g == record_issue_handoff_event(file[c][i], "start")
           f == Opened(g, opened /\ ~proc[p].batch)
<1>1. proc[p].pc = "provision" /\ UNCHANGED <<issue, tree, report, agent>>
  BY DEF Provision
<1>2. c \in Clones /\ i \in Issues /\ issue[i].state # "absent"
  BY <1>1, AtWork
<1>3. IssueFrame /\ ReportFrame
  BY <1>1, Untouched
<1>4. CASE Abandon(p) /\ UNCHANGED file
  BY <1>1, <1>4, Abandoned, Untouched DEF Frames
<1>5. CASE /\ file' = [file EXCEPT ![c][i] = f]
           /\ proc' = IF proc[p].batch THEN [proc EXCEPT ![p].pc = "launch"] ELSE Idle(p)
  <2>1. f \in FileRec /\ f.last # "handback-complete"
    <3>1. file[c][i] \in FileRec
      BY <1>2 DEF Inv, TypeInv
    <3>2. g \in FileRec /\ g.last = "start"
      BY <3>1, EventRecorded DEF EventTypes
    <3> QED
      BY <3>2, EventRecorded DEF EventTypes, Opened
  <2>2. ProcFrame
    <3>1. CASE proc' = [proc EXCEPT ![p].pc = "launch"]
      BY <1>1, <1>3, <3>1, MovedTo DEF PCs, Closing, AfterClose
    <3> QED
      BY <1>5, <3>1, ProcIdle
  <2> HIDE DEF c, i, f
  <2>3. FileFrame
    BY <1>1, <1>2, <1>5, <2>1, FileWritten
  <2> QED
    BY <1>1, <2>2, <2>3, Untouched DEF Frames
<1> QED
  BY <1>4, <1>5 DEF Provision

\* An agent's start, in its two forms.
LEMMA LaunchFrames ==
    ASSUME Inv, NEW p \in Procs,
           \/ \E started \in BOOLEAN : Launch(p, started)
           \/ record_tmux_agent_launch(p) \/ OpenSession(p)
    PROVE  Frames
<1>1. proc[p].pc # "idle" /\ UNCHANGED <<issue, tree, file, report>>
  BY DEF Launch, record_tmux_agent_launch, OpenSession
<1>2. Clone(p) \in Clones /\ proc[p].i \in Issues
  BY <1>1, AtWork
<1>3. IssueFrame /\ ReportFrame
  BY <1>1, Untouched
<1>4. PICK live \in BOOLEAN : agent' = [agent EXCEPT ![Clone(p)][proc[p].i] = live]
  BY DEF Launch, record_tmux_agent_launch, OpenSession, write_worktree_runtime_status
<1>5. AgentFrame
  BY <1>2, <1>4, AgentWritten
<1>6. proc' = Idle(p) \/ proc' = [proc EXCEPT ![p].pc = "session"]
  BY DEF Launch, record_tmux_agent_launch, OpenSession
<1>7. ProcFrame
  <2>1. CASE proc' = [proc EXCEPT ![p].pc = "session"]
    BY <1>1, <1>3, <2>1, MovedTo DEF PCs, Closing, AfterClose
  <2> QED
    BY <1>6, <2>1, ProcIdle
<1> QED
  BY <1>1, <1>5, <1>7, Untouched DEF Frames

\* The gate before the closing, and the closing.
LEMMA MergeCheckFrames ==
    ASSUME Inv, NEW p \in Procs, MergeCheck(p)
    PROVE  Frames
<1>1. proc[p].pc = "merge-check" /\ UNCHANGED <<issue, tree, file, report, agent>>
  BY DEF MergeCheck
<1>2. IssueFrame /\ ReportFrame
  BY <1>1, Untouched
<1>3. ProcFrame
  BY <1>1, <1>2, MovedTo DEF MergeCheck, merge_request_for_branch, PCs, Closing, AfterClose
<1> QED
  BY <1>1, <1>3, OnlyProc

\* A closed issue's labels are normalised and the closeout goes on to the cleanup.
LEMMA Normalised ==
    ASSUME Inv, NEW p \in Procs, proc[p].pc \in {"close", "normalise"},
           issue[proc[p].i].state = "closed",
           issue' = [issue EXCEPT ![proc[p].i].labels = normalize_closed_issue(@)],
           report' = write_closeout_report(Clone(p), proc[p].i, "partial"),
           proc' = [proc EXCEPT ![p].pc = "cleanup"], UNCHANGED <<tree, file, agent>>
    PROVE  Frames
<1> DEFINE i == proc[p].i
           L == normalize_closed_issue(issue[i].labels)
<1>1. Clone(p) \in Clones /\ i \in Issues
  BY AtWork
<1>2. issue \in [Issues -> IssueRec] /\ issue[i].labels \in SUBSET Label
  BY <1>1 DEF Inv, TypeInv, IssueRec
<1>3. L \in SUBSET Label /\ issue' = [issue EXCEPT ![i].labels = L]
  BY <1>2, NormalLabels
<1>4. issue'[i].state = "closed"
  <2> HIDE DEF L
  <2> QED
    BY <1>1, <1>2, <1>3 DEF IssueRec
<1>5. IssueFrame
  <2> HIDE DEF L, i
  <2> QED
    BY <1>1, <1>3, Relabelled
<1>6. ReportFrame
  BY <1>1, <1>4, ReportWritten
<1>7. ProcFrame
  BY <1>4, <1>5, <1>6, MovedTo DEF PCs, Closing, AfterClose
<1> QED
  BY <1>5, <1>6, <1>7, Untouched DEF Frames

LEMMA CloseFrames ==
    ASSUME Inv, NEW p \in Procs, CloseIssue(p)
    PROVE  Frames
<1> DEFINE i == proc[p].i
<1>1. proc[p].pc = "close" /\ UNCHANGED <<tree, file, agent>>
  BY DEF CloseIssue
<1>2. CASE issue[i].state = "closed"
  BY <1>1, <1>2, Normalised DEF CloseIssue
<1>3. CASE issue[i].state # "closed"
  <2>1. /\ issue' = [issue EXCEPT ![i].state = "closed", ![i].forced = @ \/ proc[p].force]
        /\ proc' = [proc EXCEPT ![p].pc = "normalise"]
        /\ UNCHANGED report
    BY <1>3 DEF CloseIssue
  <2>2. i \in Issues /\ (issue[i].mr = "merged" \/ proc[p].force)
    BY <1>1, AtWork
  <2>3. issue \in [Issues -> IssueRec] /\ proc[p].force \in BOOLEAN
    BY AtWork DEF Inv, TypeInv, ProcRec
  <2>4. issue[i].forced \in BOOLEAN /\ issue[i] \in IssueRec
    BY <2>2, <2>3 DEF IssueRec
  <2> DEFINE b == issue[i].forced \/ proc[p].force
             r == [issue[i] EXCEPT !.state = "closed", !.forced = b]
  <2>5. b \in BOOLEAN /\ (issue[i].forced => b) /\ (proc[p].force => b)
    BY <2>3, <2>4
  <2>6. issue' = [issue EXCEPT ![i] = r]
    BY <2>1, <2>2, <2>3
  <2>7. ASSUME NEW x \in IssueRec, NEW a \in BOOLEAN
        PROVE  LET y == [x EXCEPT !.state = "closed", !.forced = a]
               IN  /\ y \in IssueRec /\ y.state = "closed" /\ y.forced = a
                   /\ y.mr = x.mr /\ y.handback = x.handback
    BY DEF IssueRec
  <2>8. /\ r \in IssueRec /\ r.state = "closed" /\ r.forced = b
        /\ r.mr = issue[i].mr /\ r.handback = issue[i].handback
    <3> HIDE DEF b
    <3> QED
      BY <2>4, <2>5, <2>7
  <2> HIDE DEF b, r
  <2>9. IssueFrame /\ issue'[i].state = "closed"
    <3>1. issue' \in [Issues -> IssueRec] /\ issue'[i] = r /\ \A j \in Issues \ {i} : issue'[j] = issue[j]
      BY <2>2, <2>3, <2>6, <2>8
    <3>2. r.mr = "merged" \/ r.forced
      BY <2>2, <2>5, <2>8
    <3>3. \A j \in Issues :
            /\ issue[j].state # "absent" => issue'[j].state # "absent"
            /\ issue[j].state = "closed" => issue'[j].state = "closed"
            /\ issue[j].handback => issue'[j].handback
            /\ issue[j].mr = "merged" => issue'[j].mr = "merged"
            /\ issue[j].forced => issue'[j].forced
            /\ issue'[j].state = "closed" =>
                  issue[j].state = "closed" \/ issue'[j].mr = "merged" \/ issue'[j].forced
      <4> TAKE j \in Issues
      <4>1. CASE j = i
        BY <2>5, <2>8, <3>1, <3>2, <4>1
      <4>2. CASE j # i
        BY <3>1, <4>2
      <4> QED
        BY <4>1, <4>2
    <3> QED
      BY <2>8, <3>1, <3>3 DEF IssueFrame
  <2>10. ReportFrame
    BY <2>1, Untouched
  <2>11. ProcFrame
    BY <1>1, <2>1, <2>9, <2>10, MovedTo DEF PCs, Closing, AfterClose
  <2> QED
    BY <1>1, <2>1, <2>9, <2>10, <2>11, Untouched DEF Frames
<1> QED
  BY <1>2, <1>3

LEMMA NormaliseFrames ==
    ASSUME Inv, NEW p \in Procs, Normalise(p)
    PROVE  Frames
<1>1. proc[p].pc = "normalise"
  BY DEF Normalise
<1>2. issue[proc[p].i].state = "closed"
  BY <1>1, AtWork DEF AfterClose
<1> QED
  BY <1>1, <1>2, Normalised DEF Normalise

\* What the cleanup leaves of a worktree.
LEMMA CleanedUp ==
    ASSUME NEW t \in TreeRec, TreeOk(t)
    PROVE  /\ cleanup_finished_worktree(t) \in TreeRec
           /\ TreeOk(cleanup_finished_worktree(t))
           /\ cleanup_finished_worktree(t).linked => t.linked
           /\ t.dirty => cleanup_finished_worktree(t).dirty
           /\ t.commits = "local" => /\ cleanup_finished_worktree(t).branch
                                     /\ cleanup_finished_worktree(t).commits = "local"
<1>1. CASE t.dirty
  BY <1>1 DEF cleanup_finished_worktree, TreeOk
<1>2. CASE ~t.dirty /\ t.commits # "local"
  BY <1>2 DEF cleanup_finished_worktree, TreeRec, TreeOk, NoTree
<1>3. CASE ~t.dirty /\ t.commits = "local"
  <2>1. cleanup_finished_worktree(t) = [t EXCEPT !.linked = FALSE]
    BY <1>3 DEF cleanup_finished_worktree
  <2>2. LET y == [t EXCEPT !.linked = FALSE]
        IN  /\ y \in TreeRec /\ y.linked = FALSE /\ y.branch = t.branch /\ y.dirty = t.dirty
            /\ y.commits = t.commits
    BY DEF TreeRec
  <2> QED
    BY <1>3, <2>1, <2>2 DEF TreeOk
<1> QED
  BY <1>1, <1>2, <1>3

LEMMA CleanupFrames ==
    ASSUME Inv, NEW p \in Procs, Cleanup(p)
    PROVE  Frames
<1> DEFINE c == Clone(p)
           i == proc[p].i
           t == cleanup_finished_worktree(tree[c][i])
<1>1. proc[p].pc = "cleanup" /\ UNCHANGED <<issue, file, report, agent>>
  BY DEF Cleanup
<1>2. c \in Clones /\ i \in Issues /\ issue[i].state = "closed"
  BY <1>1, AtWork DEF AfterClose
<1>3. IssueFrame /\ ReportFrame
  BY <1>1, Untouched
<1>4. tree[c][i] \in TreeRec /\ TreeOk(tree[c][i])
  BY <1>2 DEF Inv, TypeInv, TreeInv
<1>5. tree' = [tree EXCEPT ![c][i] = t]
  BY DEF Cleanup
<1>6. t \in TreeRec /\ TreeOk(t) /\ (t.linked => tree[c][i].linked)
  BY <1>4, CleanedUp
<1>7. ProcFrame
  BY <1>1, <1>2, <1>3, MovedTo DEF Cleanup, PCs, Closing, AfterClose
<1> HIDE DEF c, i, t
<1>8. TreeFrame
  BY <1>2, <1>5, <1>6, TreeWritten
<1> QED
  BY <1>1, <1>7, <1>8, Untouched DEF Frames

\* The end of a closeout, or its failure.
LEMMA CompleteFrames ==
    ASSUME Inv, NEW p \in Procs, Complete(p)
    PROVE  Frames
<1>1. proc[p].pc = "complete" /\ UNCHANGED <<issue, tree, agent>>
  BY DEF Complete
<1>2. Clone(p) \in Clones /\ proc[p].i \in Issues /\ issue[proc[p].i].state = "closed"
  BY <1>1, AtWork DEF AfterClose
<1>3. IssueFrame
  BY <1>1, Untouched
<1>4. ReportFrame
  BY <1>1, <1>2, ReportWritten DEF Complete
<1>5. FileFrame
  BY <1>1, <1>2, RecordedFrame DEF Complete, EventTypes, TerminalEvents
<1>6. ProcFrame
  BY <1>1, <1>2, <1>3, <1>4, MovedTo DEF Complete, PCs, Closing, AfterClose
<1> QED
  BY <1>1, <1>4, <1>5, <1>6, Untouched DEF Frames

LEMMA AuditFrames ==
    ASSUME Inv, NEW p \in Procs, AuditEvidence(p)
    PROVE  Frames
<1>1. proc[p].pc = "audit" /\ UNCHANGED <<issue, tree, report, agent>>
  BY DEF AuditEvidence
<1>2. Clone(p) \in Clones /\ proc[p].i \in Issues /\ issue[proc[p].i].state = "closed"
  BY <1>1, AtWork DEF AfterClose
<1>3. IssueFrame /\ ReportFrame
  BY <1>1, Untouched
<1>4. FileFrame
  BY <1>1, <1>2, RecordedFrame DEF AuditEvidence, EventTypes
<1>5. ProcFrame
  BY <1>1, <1>2, <1>3, MovedTo DEF AuditEvidence, PCs, Closing, AfterClose
<1> QED
  BY <1>1, <1>4, <1>5, Untouched DEF Frames

LEMMA HandBackFrames ==
    ASSUME Inv, NEW p \in Procs, HandBack(p)
    PROVE  Frames
<1> DEFINE i == proc[p].i
<1>1. /\ proc[p].pc = "comment" /\ UNCHANGED <<tree, file, report, agent>>
      /\ issue' = [issue EXCEPT ![i].handback = TRUE]
      /\ proc' = [proc EXCEPT ![p].pc = "done"]
  BY DEF HandBack
<1>2. i \in Issues /\ issue[i].state = "closed"
  BY <1>1, AtWork DEF AfterClose
<1>3. issue \in [Issues -> IssueRec]
  BY DEF Inv, TypeInv
<1>4. issue' \in [Issues -> IssueRec]
  BY <1>1, <1>3 DEF IssueRec
<1>5. \A j \in Issues : /\ issue'[j].state = issue[j].state
                        /\ issue'[j].mr = issue[j].mr /\ issue'[j].forced = issue[j].forced
  BY <1>1, <1>3 DEF IssueRec
<1>6. issue'[i].handback /\ \A j \in Issues \ {i} : issue'[j] = issue[j]
  BY <1>1, <1>2, <1>3 DEF IssueRec
<1>7. IssueFrame /\ ReportFrame
  BY <1>1, <1>4, <1>5, <1>6, Untouched DEF IssueFrame
<1>8. ProcFrame
  BY <1>1, <1>2, <1>5, <1>6, <1>7, MovedTo DEF PCs, Closing, AfterClose
<1> QED
  BY <1>1, <1>7, <1>8, Untouched DEF Frames

LEMMA FinishDoneFrames ==
    ASSUME Inv, NEW p \in Procs, FinishDone(p)
    PROVE  Frames
<1> DEFINE i == proc[p].i
<1>1. proc[p].pc = "done" /\ UNCHANGED <<issue, tree, report, agent>> /\ proc' = Idle(p)
  BY DEF FinishDone
<1>2. /\ Clone(p) \in Clones /\ i \in Issues /\ issue[i].state = "closed"
      /\ issue[i].handback /\ report[Clone(p)][i] # "none"
  BY <1>1, AtWork DEF AfterClose, Closing
<1>3. FileFrame
  BY <1>1, <1>2, RecordedFrame DEF FinishDone, EventTypes, TerminalEvents
<1>4. ProcFrame
  BY <1>1, ProcIdle
<1> QED
  BY <1>1, <1>3, <1>4, Untouched DEF Frames

LEMMA FinishFailFrames ==
    ASSUME Inv, NEW p \in Procs, FinishFail(p)
    PROVE  Frames
<1>1. proc[p].pc # "idle" /\ UNCHANGED <<issue, tree, agent>> /\ proc' = Idle(p)
  BY DEF FinishFail
<1>2. Clone(p) \in Clones /\ proc[p].i \in Issues /\ issue[proc[p].i].state # "absent"
  BY <1>1, AtWork
<1>3. ReportFrame
  BY <1>1, <1>2, ReportWritten DEF FinishFail
<1>4. FileFrame
  BY <1>1, <1>2, RecordedFrame DEF FinishFail, EventTypes, TerminalEvents
<1>5. ProcFrame
  BY <1>1, ProcIdle
<1> QED
  BY <1>1, <1>3, <1>4, <1>5, Untouched DEF Frames

\* The tracker, agents and operators.
LEMMA TrackerFrames ==
    ASSUME Inv, UNCHANGED <<tree, file, report, agent, proc>>, NEW i \in Issues,
           \/ \E ready \in BOOLEAN : CreateIssue(i, ready)
           \/ OpenMergeRequest(i) \/ Merge(i)
           \/ \E status \in {"blocked", "not-started"} : Relabel(i, status)
    PROVE  Frames
<1>1. issue \in [Issues -> IssueRec]
  BY DEF Inv, TypeInv
<1>2. ASSUME NEW ready \in BOOLEAN, CreateIssue(i, ready)
      PROVE  IssueFrame
  <2> DEFINE L == {"not-started"} \union (IF ready THEN {"ready"} ELSE {})
  <2>1. L \in SUBSET Label
    BY DEF Label, StatusLabels
  <2>2. issue' = [issue EXCEPT ![i].state = "open", ![i].labels = L] /\ issue[i].state = "absent"
    BY <1>2 DEF CreateIssue
  <2> HIDE DEF L
  <2>3. issue' \in [Issues -> IssueRec]
    BY <1>1, <2>1, <2>2 DEF IssueRec
  <2>4. \A j \in Issues : /\ j # i => issue'[j] = issue[j]
                          /\ issue'[j].handback = issue[j].handback
                          /\ issue'[j].mr = issue[j].mr /\ issue'[j].forced = issue[j].forced
    BY <1>1, <2>2 DEF IssueRec
  <2>5. issue'[i].state = "open"
    BY <1>1, <2>2 DEF IssueRec
  <2> QED
    BY <2>2, <2>3, <2>4, <2>5 DEF IssueFrame
<1>3. ASSUME NEW m \in {"open", "merged"}, issue[i].mr # "merged", issue' = [issue EXCEPT ![i].mr = m]
      PROVE  IssueFrame
  <2>1. issue' \in [Issues -> IssueRec]
    BY <1>1, <1>3 DEF IssueRec
  <2>2. \A j \in Issues : /\ j # i => issue'[j] = issue[j]
                          /\ issue'[j].handback = issue[j].handback
                          /\ issue'[j].state = issue[j].state /\ issue'[j].forced = issue[j].forced
    BY <1>1, <1>3 DEF IssueRec
  <2> QED
    BY <1>3, <2>1, <2>2 DEF IssueFrame
<1>4. ASSUME NEW status \in {"blocked", "not-started"}, Relabel(i, status)
      PROVE  IssueFrame
  <2>1. {status} \in SUBSET Label
    BY DEF Label, StatusLabels
  <2> QED
    BY <1>4, <2>1, Relabelled DEF Relabel
<1>5. IssueFrame
  BY <1>2, <1>3, <1>4 DEF OpenMergeRequest, Merge
<1> QED
  BY <1>5, Untouched DEF Frames

LEMMA EditFrames ==
    ASSUME Inv, NEW c \in Clones, NEW i \in Issues, Edit(c, i) \/ Commit(c, i)
    PROVE  Frames
<1>1. UNCHANGED <<issue, file, report, agent, proc>>
  BY DEF Edit, Commit
<1>2. tree[c][i] \in TreeRec /\ tree \in [Clones -> [Issues -> TreeRec]] /\ TreeOk(tree[c][i])
  BY DEF Inv, TypeInv, TreeInv
<1>3. CASE Edit(c, i)
  <2> DEFINE t == [tree[c][i] EXCEPT !.dirty = TRUE]
  <2>1. ASSUME NEW x \in TreeRec
        PROVE  LET y == [x EXCEPT !.dirty = TRUE]
               IN  y \in TreeRec /\ y.linked = x.linked /\ y.branch = x.branch /\ y.commits = x.commits
    BY DEF TreeRec
  <2>2. t \in TreeRec /\ TreeOk(t) /\ t.linked = tree[c][i].linked
    BY <1>2, <1>3, <2>1 DEF TreeOk, Edit, Linked, list_worktrees
  <2>3. tree' = [tree EXCEPT ![c][i] = t]
    BY <1>3 DEF Edit
  <2> HIDE DEF t
  <2> QED
    BY <1>1, <2>2, <2>3, TreeWritten, Untouched DEF Frames
<1>4. CASE Commit(c, i)
  <2> DEFINE t == [tree[c][i] EXCEPT !.dirty = FALSE, !.commits = "local"]
  <2>1. ASSUME NEW x \in TreeRec
        PROVE  LET y == [x EXCEPT !.dirty = FALSE, !.commits = "local"]
               IN  y \in TreeRec /\ y.linked = x.linked /\ y.branch = x.branch /\ y.dirty = FALSE
    BY DEF TreeRec
  <2>2. t \in TreeRec /\ TreeOk(t) /\ t.linked = tree[c][i].linked
    BY <1>2, <1>4, <2>1 DEF TreeOk, Commit
  <2>3. tree' = [tree EXCEPT ![c][i] = t]
    <3>1. tree' = [tree EXCEPT ![c] = [tree[c] EXCEPT ![i] = t]]
      BY <1>2, <1>4 DEF Commit
    <3> HIDE DEF t
    <3> QED
      BY <1>2, <3>1
  <2> HIDE DEF t
  <2> QED
    BY <1>1, <2>2, <2>3, TreeWritten, Untouched DEF Frames
<1> QED
  BY <1>3, <1>4

LEMMA ExitFrames ==
    ASSUME Inv, NEW c \in Clones, NEW i \in Issues, AgentExits(c, i)
    PROVE  Frames
<1>1. AgentFrame
  BY AgentWritten DEF AgentExits
<1> QED
  BY <1>1, Untouched DEF AgentExits, Frames

LEMMA StepKeeps == Inv /\ [Next]_vars => Inv'
<1> SUFFICES ASSUME Inv, [Next]_vars PROVE Frames
  BY FramesKeep
<1>1. CASE UNCHANGED vars
  BY <1>1, Untouched DEF vars, Frames
<1>2. ASSUME NEW p \in Procs, Crash(p)
      PROVE  Frames
  BY <1>2, ProcIdle, OnlyProc DEF Crash
<1>3. ASSUME NEW i \in Issues,
             \/ \E ready \in BOOLEAN : CreateIssue(i, ready)
             \/ OpenMergeRequest(i) \/ Merge(i)
             \/ \E status \in {"blocked", "not-started"} : Relabel(i, status)
      PROVE  Frames
  <2>1. UNCHANGED <<tree, file, report, agent, proc>>
    BY <1>3 DEF CreateIssue, OpenMergeRequest, Merge, Relabel
  <2> QED
    BY <1>3, <2>1, TrackerFrames
<1>4. CASE Next
  BY <1>2, <1>3, <1>4, StartingFrames, ResumeFrames, HandoffFrames, PushFrames, FinishStartFrames,
     RepairReadsFrames, ClaimReadsFrames, LabelSteps, WorktreeAddFrames, ProvisionFrames, LaunchFrames,
     MergeCheckFrames, CloseFrames, NormaliseFrames, CleanupFrames, CompleteFrames, AuditFrames,
     HandBackFrames, FinishDoneFrames, FinishFailFrames, EditFrames, ExitFrames DEF Next
<1> QED
  BY <1>1, <1>4

LEMMA InitHolds == Init => Inv
<1> SUFFICES ASSUME Init PROVE Inv
  OBVIOUS
<1>1. TypeInv
  <2>1. issue \in [Issues -> IssueRec]
    BY DEF Init, IssueRec
  <2>2. tree \in [Clones -> [Issues -> TreeRec]]
    BY DEF Init, TreeRec, NoTree
  <2>3. file \in [Clones -> [Issues -> FileRec]]
    BY DEF Init, FileRec, NoFile, EventTypes
  <2>4. report \in [Clones -> [Issues -> {"none", "partial", "complete"}]]
    BY DEF Init
  <2>5. agent \in [Clones -> [Issues -> BOOLEAN]]
    BY DEF Init
  <2>6. proc \in [Procs -> ProcRec]
    BY DEF Init, ProcRec, PCs
  <2> QED
    BY <2>1, <2>2, <2>3, <2>4, <2>5, <2>6 DEF TypeInv
<1>2. TreeInv
  BY DEF Init, TreeInv, TreeOk, NoTree
<1>3. EvidenceInv
  BY DEF Init, EvidenceInv, NoTree, NoFile
<1>4. ClosedInv
  BY DEF Init, ClosedInv
<1>5. ProcInv
  BY DEF Init, ProcInv, ProcOk
<1> QED
  BY <1>1, <1>2, <1>3, <1>4, <1>5 DEF Inv

(* The inductive invariant holds of every reachable state of the tool's    *)
(* processes, the clones and the tracker.                                  *)
THEOREM Invariant == Spec => []Inv
BY InitHolds, StepKeeps, PTL DEF Spec

-----------------------------------------------------------------------------
(* The results. *)

(* A handoff file that reads done is backed by a closed issue with its     *)
(* handback comment and by evidence the audit accepts, no clone keeps      *)
(* evidence of an issue the tracker does not have, and an issue is closed  *)
(* only with a merged merge request or by force: with any number of        *)
(* processes of close_issue_done, and a crash between any two steps.       *)
THEOREM HandbacksBacked == Spec => []HandbackIsBacked
<1>1. Inv => HandbackIsBacked
  <2> SUFFICES ASSUME Inv PROVE HandbackIsBacked
    OBVIOUS
  <2>1. EvidenceInv /\ ClosedInv /\ TypeInv
    BY DEF Inv
  <2>2. ASSUME NEW c \in Clones, NEW i \in Issues
        PROVE  ~OrphanedEvidence(c, i)
    BY <2>1 DEF OrphanedEvidence, issue_evidence_summary, EvidenceInv
  <2>3. ASSUME NEW c \in Clones, NEW i \in Issues, file[c][i].last = "handback-complete"
        PROVE  issue[i].state = "closed" /\ issue[i].handback /\ ~EvidenceFindings(c, i)
    <3>1. issue[i].state = "closed" /\ issue[i].handback /\ report[c][i] # "none"
      BY <2>1, <2>3 DEF EvidenceInv
    <3>2. ~evidence_drift_findings(c, i) /\ ~StaleLock(c, i)
      BY <3>1 DEF evidence_drift_findings, StaleLock
    <3>3. ~MissingReport(c, i)
      BY <3>1 DEF MissingReport, issue_evidence_summary
    <3> QED
      BY <2>2, <3>1, <3>2, <3>3 DEF EvidenceFindings
  <2> QED
    BY <2>1, <2>2, <2>3 DEF HandbackIsBacked, ClosedInv
<1> QED
  BY <1>1, Invariant, PTL

\* What one reconciliation makes of any labels: exactly the status chosen, which
\* is done only of a closed issue, and ready only beside not-started.
LEMMA Reconciled ==
    ASSUME NEW L \in SUBSET Label, NEW state \in {"open", "closed"}
    PROVE  LET d == choose_reconciled_status(state, L)
               M == update_issue_labels(L, ReconcileChanges(state, L))
           IN  /\ d \in StatusLabels
               /\ Statuses(M) = {d}
               /\ "ready" \in M => d = "not-started"
               /\ d = "done" <=> state = "closed"
               /\ lifecycle_status(M) = d
<1> DEFINE d == choose_reconciled_status(state, L)
           M == update_issue_labels(L, ReconcileChanges(state, L))
<1>1. d \in StatusLabels /\ (d = "done" <=> state = "closed")
  <2>1. CASE state = "closed"
    <3>1. d = "done"
      BY <2>1 DEF choose_reconciled_status
    <3> QED
      BY <2>1, <3>1 DEF StatusLabels
  <2>2. CASE state = "open"
    <3>1. d \in {"in-progress", "blocked", "not-started"}
      BY <2>2 DEF choose_reconciled_status
    <3> QED
      BY <2>2, <3>1 DEF StatusLabels
  <2> QED
    BY <2>1, <2>2
<1>2. M = (L \cup ({d} \ L))
          \ ((Statuses(L) \ {d}) \cup (IF d # "not-started" THEN L \cap {"ready"} ELSE {}))
  BY DEF update_issue_labels, ReconcileChanges
<1> HIDE DEF d, M
<1>3. Statuses(M) = {d}
  BY <1>1, <1>2 DEF Statuses, StatusLabels
<1>4. "ready" \in M => d = "not-started"
  BY <1>1, <1>2 DEF Statuses, StatusLabels
<1>5. lifecycle_status(M) = d
  BY <1>1, <1>3 DEF lifecycle_status, Statuses, StatusLabels
<1> QED
  BY <1>1, <1>3, <1>4, <1>5 DEF d, M

(* Whatever labels racing claims, rollbacks, repairs and stale reconciles  *)
(* have left, one undisturbed `issues-reconcile` leaves nothing for        *)
(* `issues-audit` to report of an issue's labels or of what the queue      *)
(* would start next: for any number of issues and any dependencies.        *)
THEOREM ReconcileSettles == Spec => []ReconcileSettlesLabels
<1>1. Inv => ReconcileSettlesLabels
  <2> SUFFICES ASSUME Inv PROVE ReconcileSettlesLabels
    OBVIOUS
  <2> DEFINE R == [i \in Issues |-> [issue[i] EXCEPT !.labels =
                      IF issue[i].state = "absent" THEN @
                      ELSE update_issue_labels(@, ReconcileChanges(issue[i].state, @))]]
             D(i) == choose_reconciled_status(issue[i].state, issue[i].labels)
  <2>1. issue \in [Issues -> IssueRec]
    BY DEF Inv, TypeInv
  <2>2. ASSUME NEW i \in Issues, issue[i].state # "absent"
        PROVE  /\ R[i].state = issue[i].state
               /\ D(i) \in StatusLabels
               /\ Statuses(R[i].labels) = {D(i)}
               /\ "ready" \in R[i].labels => D(i) = "not-started"
               /\ D(i) = "done" <=> issue[i].state = "closed"
               /\ lifecycle_status(R[i].labels) = D(i)
    <3>1. /\ issue[i].labels \in SUBSET Label /\ issue[i].state \in {"open", "closed"}
          /\ issue[i] \in IssueRec
      BY <2>1, <2>2 DEF IssueRec
    <3>2. /\ R[i].state = issue[i].state
          /\ R[i].labels = update_issue_labels(issue[i].labels,
                                               ReconcileChanges(issue[i].state, issue[i].labels))
      BY <2>2, <3>1 DEF IssueRec
    <3> QED
      BY <3>1, <3>2, Reconciled
  <2>3. ASSUME NEW i \in Issues, issue[i].state = "absent"
        PROVE  R[i].state = "absent"
    BY <2>1, <2>3 DEF IssueRec
  <2> HIDE DEF R
  <2>4. ASSUME NEW i \in Issues, issue[i].state # "absent"
        PROVE  LabelFindings(R[i].state, R[i].labels) = {}
    <3> HIDE DEF D
    <3>1. Cardinality(Statuses(R[i].labels)) = 1
      BY <2>2, <2>4, FS_Singleton
    <3>2. (CHOOSE s \in Statuses(R[i].labels) : TRUE) = D(i)
      BY <2>2, <2>4
    <3>3. issue[i].state \in {"open", "closed"}
      BY <2>1, <2>4 DEF IssueRec
    <3> QED
      BY <2>2, <2>4, <3>1, <3>2, <3>3 DEF LabelFindings
  <2>5. QueueFindings(R) = {}
    <3> DEFINE runnable == {i \in Queue(R, "auto") : Runnable(R, i)}
    <3> SUFFICES ASSUME runnable # {}
                 PROVE  lifecycle_status(R[FirstOf(runnable)].labels) = "not-started"
      BY DEF QueueFindings
    <3>1. \A i \in runnable : /\ i \in Issues /\ R[i].state = "open"
                              /\ lifecycle_status(R[i].labels) \notin {"in-progress", "blocked"}
      BY DEF Queue, Runnable
    <3>2. FirstOf(runnable) \in runnable
      <4>1. runnable \in SUBSET Issues
        BY <3>1
      <4> HIDE DEF runnable
      <4> QED
        BY <4>1, FirstIsThere
    <3> HIDE DEF runnable
    <3> DEFINE i == FirstOf(runnable)
    <3>3. i \in Issues /\ R[i].state = "open"
          /\ lifecycle_status(R[i].labels) \notin {"in-progress", "blocked"}
      BY <3>1, <3>2
    <3> HIDE DEF i
    <3>4. issue[i].state # "absent"
      BY <2>3, <3>3
    <3>5. lifecycle_status(R[i].labels) = "not-started"
      BY <2>2, <3>3, <3>4 DEF StatusLabels
    <3> QED
      BY <3>5 DEF i
  <2> QED
    BY <2>4, <2>5 DEF ReconcileSettlesLabels, R
<1> QED
  BY <1>1, Invariant, PTL

-----------------------------------------------------------------------------
(* Nothing unfinished is lost. *)

Kept(t, u) == /\ t.dirty => (u.dirty \/ u.commits = "local")
              /\ t.commits = "local" => u.branch /\ u.commits \in {"local", "pushed"}

\* A step that changes one worktree keeps what is in the others.
LEMMA OneTreeKept ==
    ASSUME Inv, NEW c \in Clones, NEW i \in Issues, NEW u \in TreeRec,
           tree' = [tree EXCEPT ![c][i] = u], Kept(tree[c][i], u)
    PROVE  \A d \in Clones, j \in Issues : Kept(tree[d][j], tree'[d][j])
<1>1. tree \in [Clones -> [Issues -> TreeRec]] /\ TreeInv
  BY DEF Inv, TypeInv
<1>2. tree' = [tree EXCEPT ![c] = [tree[c] EXCEPT ![i] = u]]
  BY <1>1
<1>3. \A d \in Clones, j \in Issues : Kept(tree[d][j], tree[d][j])
  BY <1>1 DEF TreeInv, TreeOk, Kept
<1> QED
  BY <1>1, <1>2, <1>3

LEMMA StepKeepsWork ==
    ASSUME Inv, [Next]_vars
    PROVE  \A c \in Clones, i \in Issues : Kept(tree[c][i], tree'[c][i])
<1> DEFINE Goal == \A c \in Clones, i \in Issues : Kept(tree[c][i], tree'[c][i])
<1>1. TypeInv /\ TreeInv
  BY DEF Inv
<1>2. CASE UNCHANGED tree
  BY <1>1, <1>2 DEF TreeInv, TreeOk, Kept
<1>3. ASSUME NEW c \in Clones, NEW i \in Issues
      PROVE  tree[c][i] \in TreeRec /\ TreeOk(tree[c][i]) /\ tree \in [Clones -> [Issues -> TreeRec]]
  BY <1>1 DEF TypeInv, TreeInv
<1>4. ASSUME NEW p \in Procs, WorktreeAdd(p), tree' # tree
      PROVE  Goal
  <2> DEFINE c == Clone(p)
             i == proc[p].i
             u == [tree[c][i] EXCEPT !.linked = TRUE, !.branch = TRUE]
  <2>1. c \in Clones /\ i \in Issues
    BY <1>4, AtWork DEF WorktreeAdd
  <2>2. tree' = [tree EXCEPT ![c][i].linked = TRUE, ![c][i].branch = TRUE]
    BY <1>4 DEF WorktreeAdd
  <2>3. tree' = [tree EXCEPT ![c][i] = u]
    <3>1. tree' = [tree EXCEPT ![c] = [tree[c] EXCEPT ![i] = u]]
      BY <1>3, <2>1, <2>2
    <3> HIDE DEF c, i, u
    <3> QED
      BY <1>3, <2>1, <3>1
  <2>4. ASSUME NEW x \in TreeRec
        PROVE  LET y == [x EXCEPT !.linked = TRUE, !.branch = TRUE]
               IN  y \in TreeRec /\ y.branch = TRUE /\ y.dirty = x.dirty /\ y.commits = x.commits
    BY DEF TreeRec
  <2>5. u \in TreeRec /\ Kept(tree[c][i], u)
    BY <1>3, <2>1, <2>4 DEF Kept
  <2> HIDE DEF c, i, u
  <2> QED
    BY <2>1, <2>3, <2>5, OneTreeKept
<1>5. ASSUME NEW p \in Procs, NEW i \in Issues, Push(p, i)
      PROVE  Goal
  <2> DEFINE c == Clone(p)
             u == [tree[c][i] EXCEPT !.commits = "pushed"]
  <2>1. c \in Clones
    BY AtWork
  <2>2. tree' = [tree EXCEPT ![c][i] = u]
    BY <1>5 DEF Push
  <2>3. ASSUME NEW x \in TreeRec
        PROVE  LET y == [x EXCEPT !.commits = "pushed"]
               IN  y \in TreeRec /\ y.branch = x.branch /\ y.dirty = x.dirty /\ y.commits = "pushed"
    BY DEF TreeRec
  <2>4. u \in TreeRec /\ Kept(tree[c][i], u)
    BY <1>3, <2>1, <2>3 DEF Kept, TreeOk
  <2> HIDE DEF c, u
  <2> QED
    BY <2>1, <2>2, <2>4, OneTreeKept
<1>6. ASSUME NEW p \in Procs, Cleanup(p)
      PROVE  Goal
  <2> DEFINE c == Clone(p)
             i == proc[p].i
             u == cleanup_finished_worktree(tree[c][i])
  <2>1. c \in Clones /\ i \in Issues
    BY <1>6, AtWork DEF Cleanup
  <2>2. tree' = [tree EXCEPT ![c][i] = u]
    BY <1>6 DEF Cleanup
  <2>3. u \in TreeRec /\ Kept(tree[c][i], u)
    BY <1>3, <2>1, CleanedUp DEF Kept
  <2> HIDE DEF c, i, u
  <2> QED
    BY <2>1, <2>2, <2>3, OneTreeKept
<1>7. ASSUME NEW c \in Clones, NEW i \in Issues, Edit(c, i)
      PROVE  Goal
  <2> DEFINE u == [tree[c][i] EXCEPT !.dirty = TRUE]
  <2>1. tree' = [tree EXCEPT ![c][i] = u]
    BY <1>7 DEF Edit
  <2>2. ASSUME NEW x \in TreeRec
        PROVE  LET y == [x EXCEPT !.dirty = TRUE]
               IN  y \in TreeRec /\ y.branch = x.branch /\ y.dirty = TRUE /\ y.commits = x.commits
    BY DEF TreeRec
  <2>3. u \in TreeRec /\ Kept(tree[c][i], u)
    BY <1>3, <2>2 DEF Kept, TreeOk
  <2> HIDE DEF u
  <2> QED
    BY <2>1, <2>3, OneTreeKept
<1>8. ASSUME NEW c \in Clones, NEW i \in Issues, Commit(c, i)
      PROVE  Goal
  <2> DEFINE u == [tree[c][i] EXCEPT !.dirty = FALSE, !.commits = "local"]
  <2>1. tree' = [tree EXCEPT ![c][i] = u]
    <3>1. tree' = [tree EXCEPT ![c] = [tree[c] EXCEPT ![i] = u]]
      BY <1>3, <1>8 DEF Commit
    <3> HIDE DEF u
    <3> QED
      BY <1>3, <3>1
  <2>2. ASSUME NEW x \in TreeRec
        PROVE  LET y == [x EXCEPT !.dirty = FALSE, !.commits = "local"]
               IN  y \in TreeRec /\ y.branch = x.branch /\ y.commits = "local"
    BY DEF TreeRec
  <2>3. u \in TreeRec /\ Kept(tree[c][i], u)
    BY <1>3, <1>8, <2>2 DEF Kept, TreeOk, Commit
  <2> HIDE DEF u
  <2> QED
    BY <2>1, <2>3, OneTreeKept
<1>9. CASE UNCHANGED vars
  BY <1>2, <1>9 DEF vars
<1>10. CASE Next
  <2>1. ASSUME NEW p \in Procs,
               \/ \E mode \in Modes, claim, choose \in BOOLEAN : WorktreeNext(p, mode, claim, choose)
               \/ \E i \in Issues, mode \in Modes, claim \in BOOLEAN : WorktreeCreate(p, i, mode, claim)
               \/ \E mode \in Modes : Batch(p, mode)
               \/ \E i \in Issues, opened \in BOOLEAN : WorktreeResume(p, i, opened)
               \/ \E i \in Issues : AgentHandoff(p, i)
               \/ \E i \in Issues, force \in BOOLEAN : FinishStart(p, i, force)
               \/ \E i \in Issues : ReconcileRead(p, i) \/ RepairRead(p, i)
        PROVE  UNCHANGED tree
    BY <2>1 DEF WorktreeNext, WorktreeCreate, Batch, WorktreeResume, AgentHandoff, FinishStart,
                ReconcileRead, RepairRead
  <2>2. ASSUME NEW p \in Procs,
               \/ ClaimRead(p) \/ ClaimUpdate(p) \/ ClaimVerify(p) \/ Unclaim(p)
               \/ \E opened \in BOOLEAN : Provision(p, opened)
               \/ \E started \in BOOLEAN : Launch(p, started)
               \/ record_tmux_agent_launch(p) \/ OpenSession(p)
               \/ MergeCheck(p) \/ CloseIssue(p) \/ Normalise(p) \/ Complete(p)
               \/ AuditEvidence(p) \/ HandBack(p) \/ FinishDone(p) \/ FinishFail(p)
               \/ ReconcileWrite(p) \/ (\E ready \in BOOLEAN : RepairWrite(p, ready))
               \/ Crash(p)
        PROVE  UNCHANGED tree
    BY <2>2 DEF ClaimRead, ClaimUpdate, ClaimVerify, Unclaim, Provision, Launch,
                record_tmux_agent_launch, OpenSession, MergeCheck, CloseIssue, Normalise, Complete,
                AuditEvidence, HandBack, FinishDone, FinishFail, ReconcileWrite, RepairWrite, Crash
  <2>3. ASSUME NEW i \in Issues,
               \/ \E ready \in BOOLEAN : CreateIssue(i, ready)
               \/ OpenMergeRequest(i) \/ Merge(i)
               \/ \E status \in {"blocked", "not-started"} : Relabel(i, status)
               \/ \E c \in Clones : AgentExits(c, i)
        PROVE  UNCHANGED tree
    BY <2>3 DEF CreateIssue, OpenMergeRequest, Merge, Relabel, AgentExits
  <2>4. \/ UNCHANGED tree
        \/ \E p \in Procs : \/ WorktreeAdd(p) \/ Cleanup(p)
                             \/ \E i \in Issues : Push(p, i)
        \/ \E c \in Clones, i \in Issues : Edit(c, i) \/ Commit(c, i)
    BY <1>10, <2>1, <2>2, <2>3 DEF Next
  <2> HIDE DEF Goal
  <2>5. UNCHANGED tree \/ Goal
    BY <1>4, <1>5, <1>6, <1>7, <1>8, <2>4
  <2> QED
    BY <1>2, <2>5 DEF Goal
<1> QED
  BY <1>9, <1>10

(* No unfinished work disappears: unsaved edits go away only by a commit,  *)
(* and a commit that was never pushed stays on its branch, whatever        *)
(* closeouts, crashes and label repairs of any number of processes do      *)
(* (cleanup_finished_worktree runs `git worktree remove` and `git branch   *)
(* -d`, neither with force).                                               *)
THEOREM WorkKept == Spec => WorkIsKept
<1>1. Inv /\ [Next]_vars =>
         [\A c \in Clones, i \in Issues :
             /\ tree[c][i].dirty => (tree'[c][i].dirty \/ tree'[c][i].commits = "local")
             /\ tree[c][i].commits = "local"
                   => tree'[c][i].branch /\ tree'[c][i].commits \in {"local", "pushed"}]_vars
  BY StepKeepsWork DEF Kept
<1> QED
  BY <1>1, Invariant, PTL DEF Spec, WorkIsKept
=============================================================================
