------------------------- MODULE TpmLimiter_proofs -------------------------
(***************************************************************************)
(* Theorems about TpmLimiter, for any sets of requests, agents and models, *)
(* any limit and any bounds.                                               *)
(***************************************************************************)
EXTENDS TpmLimiter, SetFacts, FiniteSetTheorems, TLAPS

-----------------------------------------------------------------------------
(* The inductive invariant. *)

\* One record for each request, and nothing decided for it before the check.
Requested ==
    /\ IsFiniteSet(reqs)
    /\ \A q1, q2 \in reqs : q1.id = q2.id => q1 = q2
    /\ \A q \in reqs : q.pc = "check" => q.counted = Never /\ q.refused = Never

\* A counter that is not there, in the current window or a later one, was never
\* written, and no later window has one.
Unwritten ==
    \A w \in Windows : w >= window =>
        /\ w > window => <<Unknown, w>> \notin live
        /\ <<Unknown, w>> \notin live => used[Unknown][w] = 0 /\ Counted(w) = {}

\* A refusal was made on a counter that exists for as long as its window lasts.
RefusedOnCounter ==
    \A q \in reqs : q.refused # Never =>
        q.refused <= window /\ (q.refused = window => <<Unknown, window>> \in live)

Inv == /\ TypeOK /\ Requested /\ Unwritten /\ RefusedOnCounter
       /\ CheckedCountersExpire /\ BudgetHeld /\ RefusedStaysRefused

-----------------------------------------------------------------------------
(* Steps. *)

\* The windows are numbers, and none of them is Never.
LEMMA WindowsAre == Windows \subseteq Nat /\ Never \notin Windows /\ Never \in Int
  BY NumbersAssumption DEF Windows, Never

\* INCRBY changes one counter of the current window.
LEMMA IncrbyIs ==
    ASSUME TypeOK, NEW k \in Keys, NEW n \in Int, Incrby(k, n)
    PROVE  /\ used' \in [Keys -> [Windows -> Int]]
           /\ \A j \in Keys, w \in Windows :
                 used'[j][w] = IF j = k /\ w = window THEN used[j][w] + n ELSE used[j][w]
           /\ live' = live \cup {<<k, window>>} /\ live' \subseteq Keys \X Windows
<1>1. used \in [Keys -> [Windows -> Int]] /\ window \in Windows /\ live \subseteq Keys \X Windows
  BY DEF TypeOK
<1>2. used' = [used EXCEPT ![k] = [used[k] EXCEPT ![window] = used[k][window] + n]]
  BY <1>1 DEF Incrby
<1>3. used[k][window] + n \in Int
  BY <1>1
<1> QED
  BY <1>1, <1>2, <1>3 DEF Incrby

\* What happens to a request after its check: its estimate and what the check
\* decided stay.
Same(q, q2) == /\ q2 \in Request /\ q2.pc # "check"
               /\ q2.id = q.id /\ q2.est = q.est
               /\ q2.counted = q.counted /\ q2.refused = q.refused

\* The counters the limit is checked on stay as they are.
Aside == /\ UNCHANGED window
         /\ \A w \in Windows : /\ used'[Unknown][w] = used[Unknown][w]
                               /\ <<Unknown, w>> \in live' <=> <<Unknown, w>> \in live
                               /\ <<Unknown, w>> \in ttl' <=> <<Unknown, w>> \in ttl

\* The requests counted in a window, after a step.
CountedNext(w) == {q \in reqs' : q.counted = w}

\* BudgetHeld, of one counter and the requests counted on it.
Budget(n, C) == /\ n = Sum(C)
                /\ Limit > 0 /\ Cardinality(C) > 1 => n <= Limit

LEMMA BudgetIs ==
    BudgetHeld <=> \A w \in Windows : <<Unknown, w>> \in live => Budget(used[Unknown][w], Counted(w))
  BY DEF BudgetHeld, Budget, Sum

LEMMA BudgetNext ==
    BudgetHeld' <=> \A w \in Windows : <<Unknown, w>> \in live' => Budget(used'[Unknown][w], CountedNext(w))
<1>1. BudgetHeld' <=> (\A w \in Windows : <<Unknown, w>> \in live => Budget(used[Unknown][w], Counted(w)))'
  BY BudgetIs, PTL
<1> QED
  BY <1>1 DEF Counted, CountedNext

\* A request is replaced by another record of it that is counted in the same
\* window: the sum and the number of the counted stay.
LEMMA CountedKeeps ==
    ASSUME TypeOK, Requested, NEW q \in reqs, NEW q2, Same(q, q2), Become(q, q2), NEW w \in Windows
    PROVE  /\ Sum(CountedNext(w)) = Sum(Counted(w))
           /\ Cardinality(CountedNext(w)) = Cardinality(Counted(w))
           /\ Counted(w) = {} => CountedNext(w) = {}
<1>1. reqs \subseteq Request /\ q2 \in Request /\ reqs' = (reqs \ {q}) \cup {q2}
  BY DEF TypeOK, Same, Become
<1>2. CASE q.counted # w
  <2>1. CountedNext(w) = Counted(w)
    BY <1>1, <1>2 DEF CountedNext, Counted, Same
  <2> QED
    BY <2>1
<1>3. CASE q.counted = w
  <2> DEFINE C == {x \in reqs : x.counted = w /\ x # q}
  <2>1. Counted(w) = C \cup {q} /\ q \notin C
    BY <1>3 DEF Counted
  <2>2. q2 \notin C
    BY DEF Requested, Same
  <2>3. CountedNext(w) = C \cup {q2}
    BY <1>1, <1>3 DEF CountedNext, Same
  <2>4. IsFiniteSet(C)
    BY FS_Subset DEF Requested
  <2>5. (\A x \in C : x.est \in Nat) /\ q.est \in Nat /\ q2.est \in Nat /\ q2.est = q.est
    BY <1>1, NumbersAssumption DEF Request, Same
  <2> HIDE DEF C
  <2>6. Sum(C \cup {q}) = Sum(C) + q.est /\ Sum(C \cup {q2}) = Sum(C) + q2.est
    BY <2>1, <2>2, <2>4, <2>5, SumAdds
  <2>7. Cardinality(C \cup {q}) = Cardinality(C) + 1 /\ Cardinality(C \cup {q2}) = Cardinality(C) + 1
    BY <2>1, <2>2, <2>4, FS_AddElement
  <2> QED
    BY <2>1, <2>3, <2>5, <2>6, <2>7
<1> QED
  BY <1>2, <1>3

\* A step that only moves a request on and leaves the checked counters alone
\* keeps the invariant.
LEMMA AsideStep ==
    ASSUME Inv, NEW q \in reqs, NEW q2, Same(q, q2), Become(q, q2), Aside, TypeOK'
    PROVE  Inv'
<1>1. TypeOK /\ Requested /\ Unwritten /\ RefusedOnCounter
      /\ CheckedCountersExpire /\ BudgetHeld /\ RefusedStaysRefused
  BY DEF Inv
<1>2. \A w \in Windows : /\ Sum(CountedNext(w)) = Sum(Counted(w))
                         /\ Cardinality(CountedNext(w)) = Cardinality(Counted(w))
                         /\ Counted(w) = {} => CountedNext(w) = {}
  BY <1>1, CountedKeeps
<1>3. window' = window /\ window \in Windows /\ reqs' = (reqs \ {q}) \cup {q2}
  BY <1>1 DEF Aside, Become, TypeOK
<1>4. \A x \in reqs' : \E y \in reqs : x.refused = y.refused /\ x.est = y.est
  BY <1>3 DEF Same
<1>5. Requested'
  <2>1. IsFiniteSet(reqs')
    BY <1>1, <1>3, FS_AddElement, FS_RemoveElement DEF Requested
  <2>2. \A x, y \in reqs' : x.id = y.id => x = y
    BY <1>1, <1>3 DEF Requested, Same
  <2> QED
    BY <1>1, <1>3, <2>1, <2>2 DEF Requested, Same
<1>6. Unwritten'
  <2> SUFFICES ASSUME NEW w \in Windows, w >= window
               PROVE  /\ w > window => <<Unknown, w>> \notin live'
                      /\ <<Unknown, w>> \notin live' => used'[Unknown][w] = 0 /\ CountedNext(w) = {}
    BY <1>3 DEF Unwritten, CountedNext, Counted
  <2> QED
    BY <1>1, <1>2 DEF Unwritten, Aside
<1>7. RefusedOnCounter'
  BY <1>1, <1>3, <1>4 DEF RefusedOnCounter, Aside
<1>8. CheckedCountersExpire'
  BY <1>1 DEF CheckedCountersExpire, Aside
<1>9. BudgetHeld'
  <2> SUFFICES ASSUME NEW w \in Windows, <<Unknown, w>> \in live'
               PROVE  Budget(used'[Unknown][w], CountedNext(w))
    BY BudgetNext
  <2>1. Budget(used[Unknown][w], Counted(w))
    BY <1>1, BudgetIs DEF Aside
  <2> QED
    BY <1>2, <2>1 DEF Budget, Aside
<1>10. RefusedStaysRefused'
  <2> SUFFICES ASSUME NEW x \in reqs', x.refused # Never, <<Unknown, x.refused>> \in live'
               PROVE  used'[Unknown][x.refused] + x.est > Limit
    BY DEF RefusedStaysRefused
  <2>1. PICK y \in reqs : x.refused = y.refused /\ x.est = y.est
    BY <1>4
  <2>2. x.refused \in Windows
    BY <1>1, <2>1 DEF TypeOK, Request
  <2> QED
    BY <1>1, <2>1, <2>2 DEF RefusedStaysRefused, Aside
<1> QED
  BY <1>5, <1>6, <1>7, <1>8, <1>9, <1>10 DEF Inv

\* The start of the next window keeps the invariant.
LEMMA TickStep == Inv /\ Tick => Inv'
<1> SUFFICES ASSUME Inv, Tick PROVE Inv'
  OBVIOUS
<1>1. TypeOK /\ Requested /\ Unwritten /\ RefusedOnCounter
      /\ CheckedCountersExpire /\ BudgetHeld /\ RefusedStaysRefused
  BY DEF Inv
<1>2. window \in Windows /\ window' = window + 1 /\ window' \in Windows
  BY <1>1, NumbersAssumption DEF TypeOK, Tick, Windows
<1>3. UNCHANGED <<used, live, ttl, reqs, spent, faults>> /\ Windows \subseteq Nat
  BY WindowsAre DEF Tick
<1>4. TypeOK'
  BY <1>1, <1>2, <1>3 DEF TypeOK
<1>5. \A w \in Windows : CountedNext(w) = Counted(w)
  BY <1>3 DEF CountedNext, Counted
<1>6. Unwritten'
  <2> SUFFICES ASSUME NEW w \in Windows, w >= window + 1
               PROVE  /\ w > window + 1 => <<Unknown, w>> \notin live
                      /\ <<Unknown, w>> \notin live => used[Unknown][w] = 0 /\ Counted(w) = {}
    BY <1>2, <1>3, <1>5 DEF Unwritten, CountedNext, Counted
  <2>1. w >= window /\ w > window
    BY <1>2, <1>3
  <2> QED
    BY <1>1, <2>1 DEF Unwritten
<1>7. RefusedOnCounter'
  <2> SUFFICES ASSUME NEW q \in reqs, q.refused # Never
               PROVE  q.refused <= window + 1 /\ q.refused # window + 1
    BY <1>2, <1>3 DEF RefusedOnCounter
  <2>1. q.refused <= window
    BY <1>1 DEF RefusedOnCounter
  <2>2. q.refused \in Windows
    BY <1>1 DEF TypeOK, Request
  <2>3. q.refused \in Nat /\ window \in Nat
    BY <1>2, <1>3, <2>2
  <2> QED
    BY <2>1, <2>3
<1>8. BudgetHeld'
  BY <1>1, <1>3, <1>5, BudgetIs, BudgetNext
<1>9. Requested' /\ CheckedCountersExpire' /\ RefusedStaysRefused'
  BY <1>1, <1>3 DEF Requested, CheckedCountersExpire, RefusedStaysRefused
<1> QED
  BY <1>4, <1>6, <1>7, <1>8, <1>9 DEF Inv

\* A counter that expires is one of a window that is over.
LEMMA ExpireStep ==
    ASSUME Inv, NEW k \in Keys, NEW v \in Windows, KeyExpires(k, v)
    PROVE  Inv'
<1>1. TypeOK /\ Requested /\ Unwritten /\ RefusedOnCounter
      /\ CheckedCountersExpire /\ BudgetHeld /\ RefusedStaysRefused
  BY DEF Inv
<1>2. /\ <<k, v>> \in ttl /\ v < window
      /\ live' = live \ {<<k, v>>} /\ ttl' = ttl \ {<<k, v>>}
      /\ UNCHANGED <<window, reqs, spent, faults>>
  BY DEF KeyExpires
<1>3. used' \in [Keys -> [Windows -> Int]]
      /\ \A j \in Keys, w \in Windows : ~(j = k /\ w = v) => used'[j][w] = used[j][w]
  BY <1>1 DEF TypeOK, KeyExpires
<1>4. Unknown \in Keys /\ Windows \subseteq Nat /\ window \in Windows
  BY <1>1, WindowsAre DEF Keys, TypeOK
<1>5. \A w \in Windows : <<Unknown, w>> \in live' =>
          <<Unknown, w>> \in live /\ used'[Unknown][w] = used[Unknown][w]
  BY <1>2, <1>3, <1>4
<1>6. \A w \in Windows : CountedNext(w) = Counted(w)
  BY <1>2 DEF CountedNext, Counted
<1>7. TypeOK'
  BY <1>1, <1>2, <1>3 DEF TypeOK
<1>8. Unwritten'
  <2> SUFFICES ASSUME NEW w \in Windows, w >= window
               PROVE  /\ w > window => <<Unknown, w>> \notin live'
                      /\ <<Unknown, w>> \notin live' => used'[Unknown][w] = 0 /\ Counted(w) = {}
    BY <1>2, <1>6 DEF Unwritten, CountedNext, Counted
  <2>1. w # v
    BY <1>2, <1>4
  <2>2. used'[Unknown][w] = used[Unknown][w] /\ (<<Unknown, w>> \in live' <=> <<Unknown, w>> \in live)
    BY <1>2, <1>3, <1>4, <2>1
  <2> QED
    BY <1>1, <2>2 DEF Unwritten
<1>9. RefusedOnCounter'
  <2>1. v # window
    BY <1>2, <1>4
  <2> QED
    BY <1>1, <1>2, <2>1 DEF RefusedOnCounter
<1>10. CheckedCountersExpire'
  BY <1>1, <1>2 DEF CheckedCountersExpire
<1>11. BudgetHeld'
  BY <1>1, <1>5, <1>6, BudgetIs, BudgetNext
<1>12. RefusedStaysRefused'
  <2> SUFFICES ASSUME NEW q \in reqs, q.refused # Never, <<Unknown, q.refused>> \in live'
               PROVE  used'[Unknown][q.refused] + q.est > Limit
    BY <1>2 DEF RefusedStaysRefused
  <2>1. q.refused \in Windows
    BY <1>1 DEF TypeOK, Request
  <2> QED
    BY <1>1, <1>5, <2>1 DEF RefusedStaysRefused
<1>13. Requested'
  BY <1>1, <1>2 DEF Requested
<1> QED
  BY <1>7, <1>8, <1>9, <1>10, <1>11, <1>12, <1>13 DEF Inv

\* A new request is not counted and not refused.
LEMMA ArriveStep ==
    ASSUME Inv, NEW r \in Requests, Arrive(r)
    PROVE  Inv'
<1>1. TypeOK /\ Requested /\ Unwritten /\ RefusedOnCounter
      /\ CheckedCountersExpire /\ BudgetHeld /\ RefusedStaysRefused
  BY DEF Inv
<1>2. PICK q2 \in Request : /\ reqs' = reqs \cup {q2} /\ q2.id = r
                            /\ q2.counted = Never /\ q2.refused = Never
  <2>1. PICK a \in Agents, e \in Estimates :
           reqs' = reqs \cup {[id |-> r, pc |-> "check", agent |-> a, est |-> e, act |-> 0,
                               counted |-> Never, refused |-> Never, told |-> "nothing"]}
    BY DEF Arrive
  <2> DEFINE q2 == [id |-> r, pc |-> "check", agent |-> a, est |-> e, act |-> 0,
                    counted |-> Never, refused |-> Never, told |-> "nothing"]
  <2>2. q2 \in Request /\ q2.id = r /\ q2.counted = Never /\ q2.refused = Never
    BY DEF Request, PCs
  <2> QED
    BY <2>1, <2>2
<1>3. UNCHANGED <<window, used, live, ttl, spent, faults>> /\ \A q \in reqs : q.id # r
  BY DEF Arrive
<1>4. \A w \in Windows : CountedNext(w) = Counted(w)
  BY <1>2, WindowsAre DEF CountedNext, Counted
<1>5. TypeOK'
  BY <1>1, <1>2, <1>3 DEF TypeOK
<1>6. Requested'
  <2>1. IsFiniteSet(reqs')
    BY <1>1, <1>2, FS_AddElement DEF Requested
  <2>2. \A x, y \in reqs' : x.id = y.id => x = y
    BY <1>1, <1>2, <1>3 DEF Requested
  <2> QED
    BY <1>1, <1>2, <2>1, <2>2 DEF Requested
<1>7. Unwritten'
  BY <1>1, <1>3, <1>4 DEF Unwritten, CountedNext, Counted
<1>8. RefusedOnCounter'
  BY <1>1, <1>2, <1>3 DEF RefusedOnCounter
<1>9. CheckedCountersExpire'
  BY <1>1, <1>3 DEF CheckedCountersExpire
<1>10. BudgetHeld'
  BY <1>1, <1>3, <1>4, BudgetIs, BudgetNext
<1>11. RefusedStaysRefused'
  BY <1>1, <1>2, <1>3 DEF RefusedStaysRefused
<1> QED
  BY <1>5, <1>6, <1>7, <1>8, <1>9, <1>10, <1>11 DEF Inv

\* A request that is refused found a counter without room for it.
LEMMA RefuseStep ==
    ASSUME Inv, NEW q \in reqs, q.pc = "check", Refuses(q.est),
           Become(q, [q EXCEPT !.pc = "done", !.refused = window]),
           UNCHANGED <<window, used, live, ttl, spent, faults>>
    PROVE  Inv'
<1> DEFINE q2 == [q EXCEPT !.pc = "done", !.refused = window]
<1>1. TypeOK /\ Requested /\ Unwritten /\ RefusedOnCounter
      /\ CheckedCountersExpire /\ BudgetHeld /\ RefusedStaysRefused
  BY DEF Inv
<1>2. window \in Windows /\ q \in Request /\ q.counted = Never
  BY <1>1 DEF TypeOK, Requested
<1>3. /\ q2 \in Request /\ q2.pc = "done" /\ q2.refused = window
      /\ q2.id = q.id /\ q2.est = q.est /\ q2.counted = Never
  BY <1>2 DEF Request, PCs
<1>4. reqs' = (reqs \ {q}) \cup {q2}
  BY DEF Become
<1> HIDE DEF q2
<1>5. \A w \in Windows : CountedNext(w) = Counted(w)
  BY <1>2, <1>3, <1>4, WindowsAre DEF CountedNext, Counted
<1>6. TypeOK'
  BY <1>1, <1>3, <1>4 DEF TypeOK
<1>7. Requested'
  <2>1. IsFiniteSet(reqs')
    BY <1>1, <1>4, FS_AddElement, FS_RemoveElement DEF Requested
  <2>2. \A x, y \in reqs' : x.id = y.id => x = y
    BY <1>1, <1>3, <1>4 DEF Requested
  <2> QED
    BY <1>1, <1>3, <1>4, <2>1, <2>2 DEF Requested
<1>8. Unwritten'
  BY <1>1, <1>5 DEF Unwritten, CountedNext, Counted
<1>9. RefusedOnCounter'
  <2>1. window <= window /\ <<Unknown, window>> \in live
    BY <1>2, WindowsAre DEF Refuses
  <2> QED
    BY <1>1, <1>3, <1>4, <2>1 DEF RefusedOnCounter
<1>10. CheckedCountersExpire'
  BY <1>1 DEF CheckedCountersExpire
<1>11. BudgetHeld'
  BY <1>1, <1>5, BudgetIs, BudgetNext
<1>12. RefusedStaysRefused'
  BY <1>1, <1>3, <1>4 DEF RefusedStaysRefused, Refuses
<1> QED
  BY <1>6, <1>7, <1>8, <1>9, <1>10, <1>11, <1>12 DEF Inv

\* A request that is let through and counted fits in the limit, or is the first
\* one of its window.
LEMMA AdmitStep ==
    ASSUME Inv, NEW q \in reqs, q.pc = "check", ~Refuses(q.est), PreRequestLua(q.est),
           Become(q, [q EXCEPT !.pc = "invoke", !.counted = window]),
           UNCHANGED <<window, spent>>, faults' \in Nat
    PROVE  Inv'
<1> DEFINE q2 == [q EXCEPT !.pc = "invoke", !.counted = window]
           here == <<Unknown, window>>
<1>1. TypeOK /\ Requested /\ Unwritten /\ RefusedOnCounter
      /\ CheckedCountersExpire /\ BudgetHeld /\ RefusedStaysRefused
  BY DEF Inv
<1>2. window \in Windows /\ q \in Request /\ q.counted = Never /\ q.refused = Never
  BY <1>1 DEF TypeOK, Requested
<1>3. /\ q2 \in Request /\ q2.pc = "invoke" /\ q2.counted = window
      /\ q2.id = q.id /\ q2.est = q.est /\ q2.refused = Never
  BY <1>2 DEF Request, PCs
<1>4. reqs' = (reqs \ {q}) \cup {q2}
  BY DEF Become
<1> HIDE DEF q2
<1>5. q.est \in Nat /\ q.est \in Int /\ Unknown \in Keys
  BY <1>2, NumbersAssumption DEF Request, Keys
<1>6. /\ used' \in [Keys -> [Windows -> Int]]
      /\ \A w \in Windows :
            used'[Unknown][w] = IF w = window THEN used[Unknown][w] + q.est ELSE used[Unknown][w]
      /\ live' = live \cup {here} /\ live' \subseteq Keys \X Windows
  BY <1>1, <1>5, IncrbyIs DEF PreRequestLua
<1>7. used[Unknown][window] \in Int /\ Windows \subseteq Nat /\ window \in Nat /\ Limit \in Nat
  BY <1>1, <1>2, <1>5, WindowsAre, NumbersAssumption DEF TypeOK
<1>8. here \notin live => used[Unknown][window] = 0 /\ Counted(window) = {}
  BY <1>1, <1>2, <1>7 DEF Unwritten
<1>9. ttl' \subseteq live' /\ here \in ttl' /\ \A x \in ttl : x \in ttl'
  <2>1. ttl' = IF used[Unknown][window] + q.est = q.est THEN ttl \cup {here} ELSE ttl
    BY DEF PreRequestLua
  <2>2. used[Unknown][window] = 0 => used[Unknown][window] + q.est = q.est
    BY <1>5
  <2>3. used[Unknown][window] # 0 => here \in ttl
    BY <1>1, <1>2, <1>8 DEF CheckedCountersExpire
  <2>4. ttl \subseteq live
    BY <1>1 DEF TypeOK
  <2> QED
    BY <1>6, <2>1, <2>2, <2>3, <2>4
<1>10. TypeOK'
  BY <1>1, <1>3, <1>4, <1>6, <1>9 DEF TypeOK
<1>11. Requested'
  <2>1. IsFiniteSet(reqs')
    BY <1>1, <1>4, FS_AddElement, FS_RemoveElement DEF Requested
  <2>2. \A x, y \in reqs' : x.id = y.id => x = y
    BY <1>1, <1>3, <1>4 DEF Requested
  <2> QED
    BY <1>1, <1>3, <1>4, <2>1, <2>2 DEF Requested
<1>12. CountedNext(window) = Counted(window) \cup {q2} /\ q2 \notin Counted(window)
  <2>1. q \notin Counted(window)
    BY <1>2, WindowsAre DEF Counted
  <2>2. q2 \notin Counted(window)
    BY <1>1, <1>3, <2>1 DEF Counted, Requested
  <2> QED
    BY <1>3, <1>4, <2>1, <2>2 DEF Counted, CountedNext
<1>13. \A w \in Windows : w # window => CountedNext(w) = Counted(w)
  BY <1>2, <1>3, <1>4, WindowsAre DEF Counted, CountedNext
<1>14. Unwritten'
  <2> SUFFICES ASSUME NEW w \in Windows, w >= window
               PROVE  /\ w > window => <<Unknown, w>> \notin live'
                      /\ <<Unknown, w>> \notin live' => used'[Unknown][w] = 0 /\ CountedNext(w) = {}
    BY DEF Unwritten, CountedNext, Counted
  <2>1. CASE w = window
    BY <1>6, <1>7, <2>1
  <2>2. CASE w # window
    BY <1>1, <1>6, <1>13, <2>2 DEF Unwritten
  <2> QED
    BY <2>1, <2>2
<1>15. RefusedOnCounter'
  BY <1>1, <1>3, <1>4, <1>6 DEF RefusedOnCounter
<1>16. CheckedCountersExpire'
  BY <1>1, <1>6, <1>9 DEF CheckedCountersExpire
<1>17. Budget(used'[Unknown][window], CountedNext(window))
  <2> DEFINE C == Counted(window)
  <2>1. IsFiniteSet(C) /\ \A x \in C : x.est \in Nat
    <3>1. C \subseteq reqs /\ IsFiniteSet(reqs) /\ reqs \subseteq Request
      BY <1>1 DEF Counted, TypeOK, Requested
    <3> QED
      BY <3>1, FS_Subset, NumbersAssumption DEF Request
  <2>2. Sum({}) = 0 /\ Sum(C) \in Nat /\ Sum(C \cup {q2}) = Sum(C) + q.est
    <3> HIDE DEF C
    <3> QED
      BY <1>3, <1>5, <1>12, <2>1, SumAdds DEF C
  <2>3. CASE here \in live
    <3>1. used[Unknown][window] = Sum(C)
      BY <1>1, <1>2, <2>3, BudgetIs DEF Budget
    <3>2. Limit > 0 => used[Unknown][window] + q.est <= Limit
      BY <1>5, <1>7, <2>3 DEF Refuses
    <3> QED
      BY <1>2, <1>6, <1>12, <2>2, <3>1, <3>2 DEF Budget
  <2>4. CASE here \notin live
    <3>1. used[Unknown][window] = 0 /\ C = {}
      BY <1>8, <2>4
    <3>2. CountedNext(window) = {q2} /\ Cardinality({q2}) = 1
      BY <1>12, <3>1, FS_Singleton
    <3>3. used'[Unknown][window] = q.est /\ Sum({q2}) = q.est
      <4>1. C \cup {q2} = {q2}
        BY <3>1
      <4>2. Sum(C) = 0
        BY <2>2, <3>1
      <4> HIDE DEF C
      <4> QED
        BY <1>2, <1>5, <1>6, <2>2, <3>1, <4>1, <4>2
    <3> QED
      BY <3>2, <3>3 DEF Budget
  <2> QED
    BY <2>3, <2>4
<1>18. BudgetHeld'
  <2> SUFFICES ASSUME NEW w \in Windows, <<Unknown, w>> \in live'
               PROVE  Budget(used'[Unknown][w], CountedNext(w))
    BY BudgetNext
  <2>1. CASE w # window
    <3>1. Budget(used[Unknown][w], Counted(w))
      BY <1>1, <1>6, <2>1, BudgetIs
    <3> QED
      BY <1>6, <1>13, <2>1, <3>1
  <2> QED
    BY <1>17, <2>1
<1>19. RefusedStaysRefused'
  <2> SUFFICES ASSUME NEW x \in reqs', x.refused # Never, <<Unknown, x.refused>> \in live'
               PROVE  used'[Unknown][x.refused] + x.est > Limit
    BY DEF RefusedStaysRefused
  <2>1. x \in reqs /\ x \in Request
    BY <1>1, <1>3, <1>4 DEF TypeOK
  <2>2. x.refused \in Windows /\ x.est \in Nat
    BY <2>1, NumbersAssumption DEF Request
  <2>3. <<Unknown, x.refused>> \in live
    BY <1>1, <1>6, <2>1 DEF RefusedOnCounter
  <2>4. used[Unknown][x.refused] + x.est > Limit /\ used[Unknown][x.refused] \in Int
    BY <1>1, <1>5, <2>1, <2>2, <2>3 DEF RefusedStaysRefused, TypeOK
  <2>5. used'[Unknown][x.refused] = used[Unknown][x.refused]
        \/ used'[Unknown][x.refused] = used[Unknown][x.refused] + q.est
    BY <1>6, <2>2
  <2> QED
    BY <1>5, <1>7, <2>2, <2>4, <2>5
<1> QED
  BY <1>10, <1>11, <1>14, <1>15, <1>16, <1>18, <1>19 DEF Inv

\* The types of the counters.
Counters == /\ used \in [Keys -> [Windows -> Int]]
            /\ live \subseteq Keys \X Windows
            /\ ttl \subseteq live

\* The names used after the check are never the one the check uses, so what is
\* logged or corrected leaves the checked counters alone.
LEMMA LoggedAside ==
    ASSUME TypeOK, NEW k \in LogKeys, NEW n \in Int, Incrby(k, n), UNCHANGED window,
           ttl' = ttl \/ ttl' = ttl \cup {<<k, window>>}
    PROVE  Aside /\ Counters'
<1>1. k \in Keys /\ Unknown \in Keys /\ k # Unknown
  BY KeysAssumption DEF Keys, LogKeys
<1>2. /\ used' \in [Keys -> [Windows -> Int]]
      /\ \A j \in Keys, w \in Windows :
            used'[j][w] = IF j = k /\ w = window THEN used[j][w] + n ELSE used[j][w]
      /\ live' = live \cup {<<k, window>>} /\ live' \subseteq Keys \X Windows
  BY <1>1, IncrbyIs
<1>3. ttl \subseteq live
  BY DEF TypeOK
<1>4. Counters'
  BY <1>2, <1>3 DEF Counters
<1> QED
  BY <1>1, <1>2, <1>4 DEF Aside

\* So does a step without a call.
LEMMA NoCallAside ==
    ASSUME TypeOK, NoCall, UNCHANGED window
    PROVE  Aside /\ Counters'
  BY DEF NoCall, Aside, TypeOK, Counters

\* A fault is counted.
LEMMA FaultIs == faults \in Nat /\ (Fault \/ UNCHANGED faults) => faults' \in Nat
  BY DEF Fault

\* What a step after the check makes of a request.
LEMMA MovedOn ==
    ASSUME NEW q \in Request, NEW p \in PCs \ {"check"}
    PROVE  /\ Same(q, [q EXCEPT !.pc = p])
           /\ \A n \in Actuals : Same(q, [q EXCEPT !.pc = p, !.act = n])
           /\ \A s \in {"nothing", "right", "wrong"} : Same(q, [q EXCEPT !.pc = p, !.told = s])
<1>1. LET e == [q EXCEPT !.pc = p]
      IN  /\ e \in Request /\ e.pc = p /\ e.id = q.id /\ e.est = q.est
          /\ e.counted = q.counted /\ e.refused = q.refused
  BY DEF Request
<1>2. ASSUME NEW n \in Actuals
      PROVE  LET e == [q EXCEPT !.pc = p, !.act = n]
             IN  /\ e \in Request /\ e.pc = p /\ e.id = q.id /\ e.est = q.est
                 /\ e.counted = q.counted /\ e.refused = q.refused
  BY DEF Request
<1>3. ASSUME NEW s \in {"nothing", "right", "wrong"}
      PROVE  LET e == [q EXCEPT !.pc = p, !.told = s]
             IN  /\ e \in Request /\ e.pc = p /\ e.id = q.id /\ e.est = q.est
                 /\ e.counted = q.counted /\ e.refused = q.refused
  BY DEF Request
<1> QED
  BY <1>1, <1>2, <1>3 DEF Same

\* The rest of the type invariant, after a step that moves a request on.
LEMMA TypeAfter ==
    ASSUME TypeOK, NEW q \in reqs, NEW q2, Same(q, q2), Become(q, q2), Counters', UNCHANGED window,
           spent' \in [LogKeys -> [Windows -> Nat]], faults' \in Nat
    PROVE  TypeOK'
  BY DEF TypeOK, Same, Become, Counters

\* Every step of a request keeps the invariant.
LEMMA StepOfRequest ==
    ASSUME Inv, NEW q \in reqs, RequestStep(q)
    PROVE  Inv'
<1>1. TypeOK /\ reqs \subseteq Request /\ q \in Request /\ window \in Windows /\ faults \in Nat
      /\ spent \in [LogKeys -> [Windows -> Nat]]
  BY DEF Inv, TypeOK
<1>2. q.agent \in LogKeys /\ q.act \in Nat /\ q.est \in Nat
  <2>1. q.agent \in Agents /\ q.act \in Actuals \cup {0} /\ q.est \in Estimates
    BY <1>1 DEF Request
  <2>2. \A n \in Actuals \cup {0} : n \in Nat
    BY NumbersAssumption
  <2> QED
    BY <2>1, <2>2, NumbersAssumption DEF LogKeys
<1>3. ASSUME NEW q2, Same(q, q2), Become(q, q2), Aside, Counters',
             spent' \in [LogKeys -> [Windows -> Nat]], faults' \in Nat
      PROVE  Inv'
  <2>1. TypeOK'
    BY <1>1, <1>3, TypeAfter DEF Aside
  <2> QED
    BY <1>3, <2>1, AsideStep
<1>4. ASSUME check_and_increment(q) PROVE Inv'
  <2>1. CASE /\ Refuses(q.est)
             /\ Become(q, [q EXCEPT !.pc = "done", !.refused = window])
             /\ NoCall /\ UNCHANGED faults
    BY <1>4, <2>1, RefuseStep DEF check_and_increment, NoCall
  <2>2. CASE /\ ~Refuses(q.est)
             /\ PreRequestLua(q.est)
             /\ Become(q, [q EXCEPT !.pc = "invoke", !.counted = window])
             /\ UNCHANGED faults \/ Fault
    BY <1>1, <1>4, <2>2, FaultIs, AdmitStep DEF check_and_increment
  <2>3. CASE Fault /\ Become(q, [q EXCEPT !.pc = "invoke"]) /\ NoCall
    <3>1. UNCHANGED <<window, spent>>
      BY <1>4 DEF check_and_increment
    <3>2. Same(q, [q EXCEPT !.pc = "invoke"])
      BY <1>1, MovedOn DEF PCs
    <3>3. Aside /\ Counters' /\ faults' \in Nat
      BY <1>1, <2>3, <3>1, NoCallAside, FaultIs
    <3> QED
      BY <1>1, <1>3, <2>3, <3>1, <3>2, <3>3
  <2> QED
    BY <1>4, <2>1, <2>2, <2>3 DEF check_and_increment
<1>5. ASSUME invoke_runtime(q) PROVE Inv'
  <2>1. UNCHANGED <<window, used, live, ttl, spent, faults>>
    BY <1>5 DEF invoke_runtime
  <2>2. Aside /\ Counters' /\ faults' \in Nat /\ spent' \in [LogKeys -> [Windows -> Nat]]
    BY <1>1, <2>1, NoCallAside DEF NoCall
  <2>3. \E q2 : Same(q, q2) /\ Become(q, q2)
    BY <1>1, <1>5, MovedOn DEF invoke_runtime, PCs
  <2> QED
    BY <1>3, <2>2, <2>3
<1>6. ASSUME log_invocation(q) PROVE Inv'
  <2>a. PICK k \in MetricModels(q), pc \in {"correct", "done"} : \E usage :
           /\ record_log_only_tpm(k, q.act, usage)
           /\ spent' = [spent EXCEPT ![k][window] = spent[k][window] + q.act]
           /\ Become(q, [q EXCEPT !.pc = pc, !.told = UsedHeader(usage, spent[k][window] + q.act)])
    BY <1>6 DEF log_invocation
  <2>1. PICK usage :
           /\ record_log_only_tpm(k, q.act, usage)
           /\ spent' = [spent EXCEPT ![k][window] = spent[k][window] + q.act]
           /\ Become(q, [q EXCEPT !.pc = pc, !.told = UsedHeader(usage, spent[k][window] + q.act)])
    BY <2>a
  <2>2. k \in LogKeys /\ q.act \in Int /\ UNCHANGED window
    BY <1>2, <1>6 DEF MetricModels, LogKeys, log_invocation
  <2>3. Aside /\ Counters' /\ faults' \in Nat
    <3>1. CASE IncrementWindows(k, q.act) /\ (UNCHANGED faults \/ Fault)
      BY <1>1, <2>2, <3>1, LoggedAside, FaultIs DEF IncrementWindows
    <3>2. CASE NoCall /\ Fault
      BY <1>1, <2>2, <3>2, NoCallAside, FaultIs
    <3> QED
      BY <2>1, <3>1, <3>2 DEF record_log_only_tpm
  <2>4. spent' \in [LogKeys -> [Windows -> Nat]]
    <3>1. spent[k][window] + q.act \in Nat
      BY <1>1, <1>2, <2>2
    <3>2. spent' = [spent EXCEPT ![k] = [spent[k] EXCEPT ![window] = spent[k][window] + q.act]]
      BY <1>1, <2>1
    <3> QED
      BY <1>1, <2>2, <3>1, <3>2
  <2>5. \E q2 : Same(q, q2) /\ Become(q, q2)
    BY <1>1, <2>1, MovedOn DEF PCs, UsedHeader
  <2> QED
    BY <1>3, <2>3, <2>4, <2>5
<1>7. ASSUME log_failure(q) PROVE Inv'
  <2>1. Become(q, [q EXCEPT !.pc = "done"]) /\ UNCHANGED <<window, spent>>
    BY <1>7 DEF log_failure
  <2>2. Same(q, [q EXCEPT !.pc = "done"])
    BY <1>1, MovedOn DEF PCs
  <2>3. Aside /\ Counters' /\ faults' \in Nat
    <3>1. CASE IncrementWindows(q.agent, 0) /\ (UNCHANGED faults \/ Fault)
      BY <1>1, <1>2, <2>1, <3>1, LoggedAside, FaultIs DEF IncrementWindows
    <3>2. CASE Fault /\ NoCall
      BY <1>1, <2>1, <3>2, NoCallAside, FaultIs
    <3> QED
      BY <1>7, <3>1, <3>2 DEF log_failure
  <2> QED
    BY <1>1, <1>3, <2>1, <2>2, <2>3
<1>8. ASSUME NEW streaming \in BOOLEAN, perform_tpm_correction(q, streaming) PROVE Inv'
  <2>1. Become(q, [q EXCEPT !.pc = "done"]) /\ UNCHANGED <<window, spent>>
    BY <1>8 DEF perform_tpm_correction
  <2>2. Same(q, [q EXCEPT !.pc = "done"])
    BY <1>1, MovedOn DEF PCs
  <2>3. Aside /\ Counters' /\ faults' \in Nat
    <3>1. CASE Incrby(q.agent, q.act - q.est) /\ UNCHANGED ttl /\ (UNCHANGED faults \/ Fault)
      <4>1. q.act - q.est \in Int
        BY <1>2
      <4> QED
        BY <1>1, <1>2, <2>1, <3>1, <4>1, LoggedAside, FaultIs
    <3>2. CASE NoCall /\ (UNCHANGED faults \/ Fault)
      BY <1>1, <2>1, <3>2, NoCallAside, FaultIs
    <3> QED
      BY <1>8, <3>1, <3>2 DEF perform_tpm_correction, correct_usage
  <2> QED
    BY <1>1, <1>3, <2>1, <2>2, <2>3
<1> QED
  BY <1>4, <1>5, <1>6, <1>7, <1>8 DEF RequestStep

-----------------------------------------------------------------------------
(* Theorems. *)

\* The limiter starts in the invariant.
LEMMA InitInv == Init => Inv
<1> SUFFICES ASSUME Init PROVE Inv
  OBVIOUS
<1>1. TypeOK
  BY NumbersAssumption DEF Init, TypeOK, Windows
<1>2. Requested
  BY FS_EmptySet DEF Init, Requested
<1>3. Unwritten
  BY DEF Init, Unwritten, Counted, Keys
<1>4. RefusedOnCounter /\ CheckedCountersExpire /\ RefusedStaysRefused
  BY DEF Init, RefusedOnCounter, CheckedCountersExpire, RefusedStaysRefused
<1>5. BudgetHeld
  BY BudgetIs DEF Init
<1> QED
  BY <1>1, <1>2, <1>3, <1>4, <1>5 DEF Inv

\* A step that changes nothing keeps the invariant.
LEMMA StutterInv == Inv /\ UNCHANGED vars => Inv'
<1> SUFFICES ASSUME Inv, UNCHANGED vars PROVE Inv'
  OBVIOUS
<1>1. UNCHANGED <<window, used, live, ttl, reqs, spent, faults>>
  BY DEF vars
<1>2. BudgetHeld'
  <2>1. \A w \in Windows : CountedNext(w) = Counted(w)
    BY <1>1 DEF CountedNext, Counted
  <2> QED
    BY <1>1, <2>1, BudgetIs, BudgetNext DEF Inv
<1>3. TypeOK' /\ Requested' /\ RefusedOnCounter' /\ CheckedCountersExpire' /\ RefusedStaysRefused'
  BY <1>1 DEF Inv, TypeOK, Requested, RefusedOnCounter, CheckedCountersExpire, RefusedStaysRefused
<1>4. Unwritten'
  BY <1>1 DEF Inv, Unwritten, Counted
<1> QED
  BY <1>2, <1>3, <1>4 DEF Inv

\* The invariant holds in every state.
THEOREM Invariant == Spec => []Inv
<1>1. Inv /\ [Next]_vars => Inv'
  BY TickStep, ExpireStep, ArriveStep, StepOfRequest, StutterInv DEF Next
<1> QED
  BY <1>1, InitInv, PTL DEF Spec

\* The counters, the requests and what was spent keep their types, and only
\* counters that exist have an expiry.
THEOREM TypeCorrect == Spec => []TypeOK
<1>1. Inv => TypeOK
  BY DEF Inv
<1> QED
  BY <1>1, Invariant, PTL

\* The requests check_and_increment lets through in a window fit in the limit
\* together, or are one, and its counter is the sum of their estimates.
THEOREM BudgetIsHeld == Spec => []BudgetHeld
<1>1. Inv => BudgetHeld
  BY DEF Inv
<1> QED
  BY <1>1, Invariant, PTL

\* A 429 stays right for as long as the counter it was decided on exists.
THEOREM RefusalsStand == Spec => []RefusedStaysRefused
<1>1. Inv => RefusedStaysRefused
  BY DEF Inv
<1> QED
  BY <1>1, Invariant, PTL

\* Every counter the limit is checked on has an expiry.
THEOREM CountersExpire == Spec => []CheckedCountersExpire
<1>1. Inv => CheckedCountersExpire
  BY DEF Inv
<1> QED
  BY <1>1, Invariant, PTL
=============================================================================
