------------------------------ MODULE TpmLimiter ------------------------------
(***************************************************************************)
(* Tokens per minute: what the bridge does to the Valkey counters of one   *)
(* tenant around an invocation.                                            *)
(*                                                                         *)
(* A request is estimated and checked against the counter of the current   *)
(* window (route_invocation, check_and_increment: one Lua script), the     *)
(* runtime is called, the outcome is logged (log_invocation, which counts  *)
(* the tokens used) and, for a synchronous agent's success, corrected      *)
(* (_perform_tpm_correction).  Each of the four may fall in another window *)
(* and each Valkey call may fail, before it ran or after.                  *)
(*                                                                         *)
(* The three calls name their counter differently.  No agent record the    *)
(* bridge loads has a model_id, so the check always uses the model         *)
(* "unknown", the correction the agent's name, and the log the model the   *)
(* runtime's answer names, or else the agent's name.                       *)
(***************************************************************************)
EXTENDS Integers, FiniteSets, FiniteSetsExt

CONSTANTS
    Requests,     \* invocations
    Agents,       \* agents of the tenant
    Models,       \* model ids a runtime's answer may name
    Unknown,      \* the model id of an agent that has none
    Limit,        \* TPM limit of the model "unknown"; 0 is unlimited
    Estimates,    \* what estimate_tokens may return
    Actuals,      \* what the runtime may say was used
    MaxWindow,    \* bound: windows after the first
    MaxFaults     \* bound: failed Valkey calls and failed audit writes

ASSUME KeysAssumption == Unknown \notin Agents \cup Models
ASSUME NumbersAssumption ==
    /\ Limit \in Nat /\ MaxWindow \in Nat /\ MaxFaults \in Nat
    /\ Estimates \subseteq Nat /\ Actuals \subseteq Nat

VARIABLES
    window,    \* the current 60 s window
    used,      \* used[k][w]: the counter LIMITER/tenant:k:tpm/w
    live,      \* the <<k, w>> that exist
    ttl,       \* the <<k, w>> that have an expiry
    reqs,      \* the requests that have arrived, answered ones too
    spent,     \* spent[k][w]: tokens used, by the name they are logged under and the window
    faults

vars == <<window, used, live, ttl, reqs, spent, faults>>

LogKeys == Agents \cup Models
Keys == LogKeys \cup {Unknown}
Windows == 0 .. MaxWindow
Never == -1

(***************************************************************************)
(* One request.  counted is the window its estimate was added to, refused  *)
(* the one that had no room for it; told is how x-ratelimit-used-tpm       *)
(* compares with what was used in the window under the name it logged.     *)
(***************************************************************************)
PCs == {"check", "invoke", "log", "logError", "correct", "done"}
Request == [id: Requests, pc: PCs, agent: Agents, est: Estimates, act: Actuals \cup {0},
            counted: Windows \cup {Never}, refused: Windows \cup {Never},
            told: {"nothing", "right", "wrong"}]

Init ==
    /\ window = 0
    /\ used = [k \in Keys |-> [w \in Windows |-> 0]]
    /\ live = {} /\ ttl = {}
    /\ reqs = {}
    /\ spent = [k \in LogKeys |-> [w \in Windows |-> 0]]
    /\ faults = 0

Become(q, q2) == reqs' = (reqs \ {q}) \cup {q2}
Fault == faults < MaxFaults /\ faults' = faults + 1

\* Mutant: the window's end is rounded up twice.
IncrbyNextWindow(k, n) ==
    /\ used' = [used EXCEPT ![k][window + 1] = @ + n]
    /\ live' = live \cup {<<k, window + 1>>}

\* INCRBY on a counter of the current window.
Incrby(k, n) ==
    /\ used' = [used EXCEPT ![k][window] = @ + n]
    /\ live' = live \cup {<<k, window>>}

NoCall == UNCHANGED <<used, live, ttl>>

-----------------------------------------------------------------------------
(* Time. *)

Tick ==
    /\ window < MaxWindow
    /\ window' = window + 1
    /\ UNCHANGED <<used, live, ttl, reqs, spent, faults>>

\* A counter lives 90 s from its first write, so it outlives its window.
KeyExpires(k, w) ==
    /\ <<k, w>> \in ttl /\ w < window
    /\ used' = [used EXCEPT ![k][w] = 0]
    /\ live' = live \ {<<k, w>>}
    /\ ttl' = ttl \ {<<k, w>>}
    /\ UNCHANGED <<window, reqs, spent, faults>>

-----------------------------------------------------------------------------
(* An invocation. *)

Arrive(r) ==
    /\ \A q \in reqs : q.id # r
    /\ \E a \in Agents, e \in Estimates :
        reqs' = reqs \cup {[id |-> r, pc |-> "check", agent |-> a, est |-> e, act |-> 0,
                            counted |-> Never, refused |-> Never, told |-> "nothing"]}
    /\ UNCHANGED <<window, used, live, ttl, spent, faults>>

\* Mutant: the estimate is not part of the comparison.
RefusesOnlyWhenPast(est) ==
    /\ Limit > 0
    /\ <<Unknown, window>> \in live
    /\ used[Unknown][window] > Limit

\* The script refuses only on a counter that exists: the first request of a
\* window passes whatever its size.
Refuses(est) ==
    /\ Limit > 0
    /\ <<Unknown, window>> \in live
    /\ used[Unknown][window] + est > Limit

\* Mutant: EXPIRE is left to the first request that finds a counter.
PreRequestLuaLateExpire(est) ==
    /\ Incrby(Unknown, est)
    /\ ttl' = IF used[Unknown][window] # 0 THEN ttl \cup {<<Unknown, window>>} ELSE ttl

\* The part of the script that changes the counter.
PreRequestLua(est) ==
    /\ Incrby(Unknown, est)
    /\ ttl' = IF used[Unknown][window] + est = est THEN ttl \cup {<<Unknown, window>>} ELSE ttl

\* check_and_increment: refused with a 429, counted and let through, or, when
\* Valkey fails before or after it ran the script, let through.
check_and_increment(q) ==
    /\ q.pc = "check"
    /\ \/ /\ Refuses(q.est)
          /\ Become(q, [q EXCEPT !.pc = "done", !.refused = window])
          /\ NoCall /\ UNCHANGED faults
       \/ /\ ~Refuses(q.est)
          /\ PreRequestLua(q.est)
          /\ Become(q, [q EXCEPT !.pc = "invoke", !.counted = window])
          /\ \/ UNCHANGED faults
             \/ Fault
       \/ /\ Fault
          /\ Become(q, [q EXCEPT !.pc = "invoke"])
          /\ NoCall
    /\ UNCHANGED <<window, spent>>

\* The agent's runtime answers, fails, or is misconfigured (an INVALID_RUNTIME
\* response, which is not logged).  The estimate stays counted in each case.
invoke_runtime(q) ==
    /\ q.pc = "invoke"
    /\ \/ \E n \in Actuals : Become(q, [q EXCEPT !.pc = "log", !.act = n])
       \/ Become(q, [q EXCEPT !.pc = "logError"])
       \/ Become(q, [q EXCEPT !.pc = "done"])
    /\ UNCHANGED <<window, used, live, ttl, spent, faults>>

\* increment_windows: one transaction, EXPIRE included.
IncrementWindows(k, n) ==
    /\ Incrby(k, n)
    /\ ttl' = ttl \cup {<<k, window>>}

\* extract_token_usage: the model the answer names, or else the agent.
MetricModels(q) == {q.agent} \cup Models

\* record_log_only_tpm: what it returns as the window's usage, 0 when Valkey
\* gave no answer, whether or not it ran the transaction.
record_log_only_tpm(k, n, usage) ==
    \/ IncrementWindows(k, n) /\ usage = used[k][window] + n /\ UNCHANGED faults
    \/ IncrementWindows(k, n) /\ usage = 0 /\ Fault
    \/ NoCall /\ usage = 0 /\ Fault

\* build_rate_limit_headers: x-ratelimit-used-tpm against what was used.
UsedHeader(usage, now) == IF usage = now THEN "right" ELSE "wrong"

\* A success is logged: the audit record, then the counter.  It is corrected
\* next, unless the runtime's status is not 200.
log_invocation(q) ==
    /\ q.pc = "log"
    /\ \E k \in MetricModels(q), pc \in {"correct", "done"} :
        LET now == spent[k][window] + q.act
        IN  \E usage \in {0, used[k][window] + q.act} :
                /\ record_log_only_tpm(k, q.act, usage)
                /\ spent' = [spent EXCEPT ![k][window] = now]
                /\ Become(q, [q EXCEPT !.pc = pc, !.told = UsedHeader(usage, now)])
    /\ UNCHANGED window

\* A failure is logged with no tokens, and not corrected.
log_failure(q) ==
    /\ q.pc = "logError"
    /\ Become(q, [q EXCEPT !.pc = "done"])
    /\ \/ IncrementWindows(q.agent, 0) /\ (UNCHANGED faults \/ Fault)
       \/ Fault /\ NoCall
    /\ UNCHANGED <<window, spent>>

\* Mutant: the correction goes to the counter the check used.
correct_checked_counter(k, est, act) == Incrby(Unknown, act - est) /\ UNCHANGED <<ttl, faults>>

\* The counter of the window that is current now, and no EXPIRE.  Nothing is
\* sent when there is nothing to correct.
correct_usage(k, est, act) ==
    \/ act # est /\ Incrby(k, act - est) /\ UNCHANGED ttl /\ (UNCHANGED faults \/ Fault)
    \/ act # est /\ NoCall /\ Fault
    \/ act = est /\ NoCall /\ UNCHANGED faults

\* _perform_tpm_correction: an agent that streams is not corrected, nor one that
\* neither asked nor used anything; the others on the counter of their name.
perform_tpm_correction(q, streaming) ==
    /\ q.pc = "correct"
    /\ Become(q, [q EXCEPT !.pc = "done"])
    /\ IF ~streaming /\ (q.act > 0 \/ q.est > 0)
       THEN correct_usage(q.agent, q.est, q.act)
       ELSE NoCall /\ UNCHANGED faults
    /\ UNCHANGED <<window, spent>>

-----------------------------------------------------------------------------

RequestStep(q) ==
    \/ check_and_increment(q)
    \/ invoke_runtime(q)
    \/ log_invocation(q)
    \/ log_failure(q)
    \/ \E streaming \in BOOLEAN : perform_tpm_correction(q, streaming)

Next ==
    \/ Tick
    \/ \E k \in Keys, w \in Windows : KeyExpires(k, w)
    \/ \E r \in Requests : Arrive(r)
    \/ \E q \in reqs : RequestStep(q)

Spec == Init /\ [][Next]_vars

-----------------------------------------------------------------------------
(* Properties. *)

TypeOK ==
    /\ window \in Windows
    /\ used \in [Keys -> [Windows -> Int]]
    /\ live \subseteq Keys \X Windows
    /\ ttl \subseteq live
    /\ reqs \subseteq Request
    /\ spent \in [LogKeys -> [Windows -> Nat]]
    /\ faults \in Nat

Counted(w) == {q \in reqs : q.counted = w}

\* The requests let through in a window and counted fit in the limit together,
\* unless there is only one, and the counter is exactly their estimates: no
\* interleaving, late answer or window change lets another one in.
BudgetHeld ==
    \A w \in Windows : <<Unknown, w>> \in live =>
        /\ used[Unknown][w] = MapThenSumSet(LAMBDA q : q.est, Counted(w))
        /\ Limit > 0 /\ Cardinality(Counted(w)) > 1 => used[Unknown][w] <= Limit

\* A 429 stays right for as long as its window's counter exists: nothing gives
\* tokens back, so the same request would be refused again.
RefusedStaysRefused ==
    \A q \in reqs : q.refused # Never /\ <<Unknown, q.refused>> \in live =>
        used[Unknown][q.refused] + q.est > Limit

\* The counters the limit is checked on go away by themselves.
CheckedCountersExpire ==
    \A w \in Windows : <<Unknown, w>> \in live => <<Unknown, w>> \in ttl

\* What SPEC-DEV-EXPERIENCE-AND-ADR704 says of x-ratelimit-used-tpm: the current
\* window's consumption after this request (no call having failed).
UsedHeaderIsConsumption ==
    faults = 0 => \A q \in reqs : q.told # "wrong"

=============================================================================
