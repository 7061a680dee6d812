------------------------ MODULE BridgeInvoke_proofs ------------------------
(***************************************************************************)
(* Theorems about BridgeInvoke, for any finite set of versions, any number *)
(* of operators and invocations, any registration bodies and circumstances *)
(* of a request.                                                           *)
(***************************************************************************)
EXTENDS BridgeInvoke, SetFacts, FiniteSetTheorems, TLAPS

-----------------------------------------------------------------------------
(* The inductive invariant. *)

Patch == [kind : {"patch"}, v : Versions, target : Status, stale : BOOLEAN]
Chosen == [kind : {"chosen"}, v : Versions]

\* The registry's state, with the operators' requests and the history that
\* TypeOK says nothing about.
RegistryType ==
    /\ registry \in [Versions -> Item \cup {None}]
    /\ op \in [Operators -> {Idle} \cup Chosen \cup Patch]
    /\ reused \in 0..MaxReuse
    /\ reached \in [Versions -> SUBSET Status]
    /\ lost \in BOOLEAN /\ direct \in BOOLEAN

\* The status an item has was written for it, and a request that is about to
\* write one has read, at some time, a status it may follow.
History ==
    /\ \A v \in Versions : registry[v] # None => registry[v].status \in reached[v]
    /\ \A o \in Operators : op[o].kind = "patch" =>
          /\ registry[op[o].v] # None
          /\ \E s \in reached[op[o].v] : ValidTransition(s, op[o].target)

\* A request that has seen the item as it is now writes a legal status.
FreshIsLegal ==
    \A o \in Operators : op[o].kind = "patch" /\ ~op[o].stale =>
        ValidTransition(registry[op[o].v].status, op[o].target)

\* No version was registered twice and no status written over a newer one.
Calm == reused = 0 /\ ~lost

\* Once promoted, a version is promoted or rolled back.
PromotedStays ==
    Calm => \A v \in Versions : "promoted" \in reached[v] =>
                registry[v].status \in {"promoted", "rolled_back"}

\* A lower version has been promoted.
HasLower(v) == \E u \in Versions : u < v /\ "promoted" \in reached[u]

\* Whatever is rolled back, or about to be, has a lower version behind it that
\* was promoted, as long as only the script rolls back.
LowerIsBehind ==
    Calm /\ ~direct =>
        /\ \A v \in Versions : registry[v].status = "rolled_back" => HasLower(v)
        /\ \A o \in Operators :
              /\ op[o].kind = "chosen" => HasLower(op[o].v)
              /\ op[o].kind = "patch" /\ op[o].target = "rolled_back" => HasLower(op[o].v)

RegistryInv == RegistryType /\ History /\ FreshIsLegal /\ PromotedStays /\ LowerIsBehind

\* What is settled about an invocation at each of its stages.
Stage(q) ==
    /\ q.pc \in {"new", "received", "resolved", "calling"}
          => q.calls = 0 /\ q.logs = 0 /\ q.preambles = 0
    /\ q.pc = "received" => q.env \in Envs
    /\ q.pc \in {"resolved", "calling", "streaming"}
          => q.env \in Envs /\ q.agent \in Body /\ q.version \in Versions
    /\ q.pc = "calling" => q.env.role = "own"
    /\ q.pc = "streaming"
          => q.calls = 1 /\ q.logs = 0 /\ q.preambles = 1 /\ q.env.mock /\ q.env.stream
    /\ q.calls = 1 => q.version \in Versions
    /\ q.pc = "answered" =>
          /\ q.calls = 1 => q.logs = 1 /\ (q.env.mock \/ q.env.role = "own")
          /\ q.preambles # 1 => q.calls = 1 /\ q.env.stream /\ q.env.mock

\* The version resolved was promoted, and not one that was rolled back before.
Sound(q) ==
    /\ q.version \in Versions => "promoted" \in reached[q.version]
    /\ Calm => /\ q.pc = "received" => q.barred \subseteq RolledBack
               /\ q.pc \notin {"new", "received"} => q.version \notin q.barred

RequestInv == /\ req \in [Requests -> Request]
              /\ sessions \subseteq Requests
              /\ \A r \in Requests : Stage(req[r]) /\ Sound(req[r])

Inv == RegistryInv /\ RequestInv

-----------------------------------------------------------------------------
(* The registry. *)

OpState == {Idle} \cup Chosen \cup Patch

\* The kind of an operator's request tells which fields it has.
LEMMA KindOf ==
    ASSUME NEW x \in OpState
    PROVE  /\ x.kind = "patch" => x \in Patch
           /\ x.kind = "chosen" => x \in Chosen
           /\ x.kind \in {"idle", "chosen", "patch"}
  BY DEF OpState, Idle, Chosen, Patch

\* An item is there exactly when its status is one.
LEMMA ItemOrNone ==
    ASSUME NEW x \in Item \cup {None}
    PROVE  /\ x # None => x \in Item
           /\ x # None <=> x.status # "none"
           /\ x # None => x.status \in Status
  BY DEF Item, None, Status

\* Touched only makes the requests that have read v stale.
LEMMA TouchedIs ==
    ASSUME RegistryType, NEW v \in Versions, NEW o \in Operators
    PROVE  LET t == Touched(v)[o]
           IN  /\ t \in OpState
               /\ t.kind = op[o].kind
               /\ t.kind \in {"chosen", "patch"} => t.v = op[o].v
               /\ t.kind = "patch" => t.target = op[o].target
               /\ t.kind = "patch" /\ ~t.stale => t = op[o] /\ op[o].v # v
<1>1. op[o] \in OpState
  BY DEF RegistryType, OpState
<1>2. CASE op[o].kind = "patch" /\ op[o].v = v
  <2>1. op[o] \in Patch
    BY <1>1, <1>2, KindOf
  <2>2. Touched(v)[o] = [op[o] EXCEPT !.stale = TRUE]
    BY <1>2 DEF Touched
  <2>3. ASSUME NEW x \in Patch
        PROVE  LET e == [x EXCEPT !.stale = TRUE]
               IN  e \in Patch /\ e.v = x.v /\ e.target = x.target /\ e.stale /\ e.kind = "patch"
    BY DEF Patch
  <2> QED
    BY <1>2, <2>1, <2>2, <2>3 DEF OpState
<1>3. CASE ~(op[o].kind = "patch" /\ op[o].v = v)
  <2>1. Touched(v)[o] = op[o]
    BY <1>3 DEF Touched
  <2> QED
    BY <1>1, <1>3, <2>1
<1> QED
  BY <1>2, <1>3

\* What every step of the registry leaves as it was: the history grows, and in
\* a calm history nothing is taken back.
Onward ==
    /\ \A v \in Versions : reached[v] \subseteq reached'[v]
    /\ Calm' => Calm /\ RolledBack \subseteq RolledBack'

\* A registration keeps the invariant of the registry.
LEMMA PutStep ==
    ASSUME RegistryInv, NEW v \in Versions, NEW b \in Body, b.status = "built",
           PutVersion(v, b), UNCHANGED <<lost, direct>>
    PROVE  RegistryInv' /\ Onward
<1> DEFINE it == [status |-> b.status, approved |-> FALSE, body |-> b]
<1>1. RegistryType /\ History /\ FreshIsLegal /\ PromotedStays /\ LowerIsBehind
  BY DEF RegistryInv
<1>2. it \in Item /\ it.status = "built" /\ it # None /\ registry' = [registry EXCEPT ![v] = it]
  BY DEF Item, None, Status, PutVersion
<1>3. \A u \in Versions : registry'[u] = IF u = v THEN it ELSE registry[u]
  BY <1>1, <1>2 DEF RegistryType
<1>4. \A u \in Versions : reached'[u] = IF u = v THEN reached[v] \cup {"built"} ELSE reached[u]
  BY <1>1 DEF RegistryType, PutVersion
<1>5. \A o \in Operators :
        /\ op'[o] \in OpState
        /\ op'[o].kind = op[o].kind
        /\ op'[o].kind \in {"chosen", "patch"} => op'[o].v = op[o].v
        /\ op'[o].kind = "patch" => op'[o].target = op[o].target
        /\ op'[o].kind = "patch" /\ ~op'[o].stale => op'[o] = op[o] /\ op[o].v # v
  BY <1>1, TouchedIs DEF PutVersion
<1>6. \A o \in Operators : op[o].kind \in {"chosen", "patch"} => op[o].v \in Versions
  BY <1>1, KindOf DEF RegistryType, OpState, Chosen, Patch
<1>7. Calm' => Calm /\ registry[v] = None
  BY <1>1, RegistryAssumption DEF Calm, PutVersion, RegistryType
<1>8. \A u \in Versions : reached[u] \subseteq reached'[u]
  BY <1>4
<1>a. \A w : HasLower(w) => HasLower(w)'
  BY <1>8 DEF HasLower
<1>9. RegistryType'
  <2>1. registry' \in [Versions -> Item \cup {None}]
    BY <1>1, <1>2 DEF RegistryType
  <2>2. op' \in [Operators -> OpState]
    BY <1>5 DEF PutVersion, Touched
  <2>3. reused' \in 0..MaxReuse
    BY <1>1, RegistryAssumption DEF RegistryType, PutVersion
  <2>4. reached' \in [Versions -> SUBSET Status]
    BY <1>1 DEF RegistryType, PutVersion, Status
  <2> QED
    BY <1>1, <2>1, <2>2, <2>3, <2>4 DEF RegistryType, OpState
<1>10. History'
  <2>1. \A u \in Versions : registry'[u] # None => registry'[u].status \in reached'[u]
    BY <1>1, <1>2, <1>3, <1>4 DEF History
  <2>2. ASSUME NEW o \in Operators, op'[o].kind = "patch"
        PROVE  /\ registry'[op'[o].v] # None
               /\ \E s \in reached'[op'[o].v] : ValidTransition(s, op'[o].target)
    <3>1. op[o].kind = "patch" /\ op'[o].v = op[o].v /\ op'[o].target = op[o].target
      BY <1>5, <2>2
    <3>2. op[o].v \in Versions /\ registry[op[o].v] # None
      BY <1>1, <1>6, <3>1 DEF History
    <3>3. PICK s \in reached[op[o].v] : ValidTransition(s, op[o].target)
      BY <1>1, <3>1 DEF History
    <3> QED
      BY <1>2, <1>3, <1>8, <3>1, <3>2, <3>3
  <2> QED
    BY <2>1, <2>2 DEF History, ValidTransition
<1>11. FreshIsLegal'
  <2> SUFFICES ASSUME NEW o \in Operators, op'[o].kind = "patch", ~op'[o].stale
               PROVE  ValidTransition(registry'[op'[o].v].status, op'[o].target)
    BY DEF FreshIsLegal, ValidTransition
  <2>1. op'[o] = op[o] /\ op[o].v # v /\ op[o].v \in Versions
    BY <1>5, <1>6
  <2>2. registry'[op'[o].v] = registry[op[o].v]
    BY <1>3, <2>1
  <2> QED
    BY <1>1, <2>1, <2>2 DEF FreshIsLegal
<1>12. PromotedStays'
  <2> SUFFICES ASSUME Calm', NEW u \in Versions, "promoted" \in reached'[u]
               PROVE  registry'[u].status \in {"promoted", "rolled_back"}
    BY DEF PromotedStays
  <2>1. registry[u].status \in {"promoted", "rolled_back"}
    BY <1>1, <1>4, <1>7 DEF PromotedStays
  <2>2. u # v
    BY <1>7, <2>1 DEF None
  <2> QED
    BY <1>3, <2>1, <2>2
<1>13. LowerIsBehind'
  <2> SUFFICES ASSUME Calm', ~direct'
               PROVE  /\ \A u \in Versions : registry'[u].status = "rolled_back" => HasLower(u)'
                      /\ \A o \in Operators :
                            /\ op'[o].kind = "chosen" => HasLower(op[o].v)'
                            /\ op'[o].kind = "patch" /\ op'[o].target = "rolled_back" => HasLower(op[o].v)'
    BY <1>5 DEF LowerIsBehind, HasLower
  <2>1. Calm /\ ~direct
    BY <1>7
  <2>2. \A u \in Versions : registry'[u].status = "rolled_back" => registry[u].status = "rolled_back"
    BY <1>2, <1>3
  <2> QED
    BY <1>1, <1>5, <1>a, <2>1, <2>2 DEF LowerIsBehind
<1>14. Onward
  <2>1. ASSUME Calm' PROVE RolledBack \subseteq RolledBack'
    BY <1>3, <1>7, <2>1 DEF RolledBack, None
  <2> QED
    BY <1>7, <1>8, <2>1 DEF Onward
<1> QED
  BY <1>9, <1>10, <1>11, <1>12, <1>13, <1>14 DEF RegistryInv

\* A step of one operator's request that leaves the registry alone keeps its
\* invariant, if what the request holds now was read from the registry.
LEMMA OpStep ==
    ASSUME RegistryInv, NEW o \in Operators, NEW x \in OpState,
           op' = [op EXCEPT ![o] = x],
           UNCHANGED <<registry, reused, reached, lost>>,
           direct' \in BOOLEAN, direct => direct',
           x.kind = "patch" => /\ registry[x.v] # None
                               /\ ValidTransition(registry[x.v].status, x.target),
           (Calm /\ ~direct' /\ (x.kind = "chosen" \/ (x.kind = "patch" /\ x.target = "rolled_back")))
               => HasLower(x.v)
    PROVE  RegistryInv' /\ Onward
<1>1. RegistryType /\ History /\ FreshIsLegal /\ PromotedStays /\ LowerIsBehind
  BY DEF RegistryInv
<1>2. \A p \in Operators : op'[p] = IF p = o THEN x ELSE op[p]
  BY <1>1 DEF RegistryType
<1>3. RegistryType'
  BY <1>1 DEF RegistryType, OpState
<1>4. History'
  <2>1. ASSUME NEW p \in Operators, op'[p].kind = "patch"
        PROVE  /\ registry[op'[p].v] # None
               /\ \E s \in reached[op'[p].v] : ValidTransition(s, op'[p].target)
    <3>1. CASE p = o
      <4>1. x \in Patch
        BY <1>2, <2>1, <3>1, KindOf
      <4>2. x.v \in Versions
        BY <4>1 DEF Patch
      <4> QED
        BY <1>1, <1>2, <2>1, <3>1, <4>2 DEF History
    <3>2. CASE p # o
      BY <1>1, <1>2, <2>1, <3>2 DEF History
    <3> QED
      BY <3>1, <3>2
  <2> QED
    BY <1>1, <2>1 DEF History, ValidTransition
<1>5. FreshIsLegal'
  BY <1>1, <1>2 DEF FreshIsLegal, ValidTransition
<1>6. Calm' <=> Calm
  BY DEF Calm
<1>7. PromotedStays'
  BY <1>1, <1>6 DEF PromotedStays
<1>8. LowerIsBehind'
  <2> SUFFICES ASSUME Calm', ~direct'
               PROVE  /\ \A u \in Versions : registry'[u].status = "rolled_back" => HasLower(u)
                      /\ \A p \in Operators :
                            /\ op'[p].kind = "chosen" => HasLower(op'[p].v)
                            /\ op'[p].kind = "patch" /\ op'[p].target = "rolled_back" => HasLower(op'[p].v)
    BY DEF LowerIsBehind, HasLower
  <2>1. Calm /\ ~direct
    BY <1>6
  <2>2. \A u \in Versions : registry'[u].status = "rolled_back" => HasLower(u)
    BY <1>1, <2>1 DEF LowerIsBehind
  <2>3. ASSUME NEW p \in Operators
        PROVE  /\ op'[p].kind = "chosen" => HasLower(op'[p].v)
               /\ op'[p].kind = "patch" /\ op'[p].target = "rolled_back" => HasLower(op'[p].v)
    <3>1. CASE p = o
      <4>1. op'[p] = x
        BY <1>2, <3>1
      <4> QED
        BY <2>1, <4>1
    <3>2. CASE p # o
      BY <1>1, <1>2, <2>1, <3>2 DEF LowerIsBehind
    <3> QED
      BY <3>1, <3>2
  <2> QED
    BY <2>2, <2>3
<1>9. Onward
  BY <1>6 DEF Onward, RolledBack
<1> QED
  BY <1>3, <1>4, <1>5, <1>7, <1>8, <1>9 DEF RegistryInv

\* A status written by a request keeps the invariant of the registry.
LEMMA WriteStep ==
    ASSUME RegistryInv, NEW o \in Operators, PatchWrite(o)
    PROVE  RegistryInv' /\ Onward
<1> DEFINE v == op[o].v
           target == op[o].target
<1>1. RegistryType /\ History /\ FreshIsLegal /\ PromotedStays /\ LowerIsBehind
  BY DEF RegistryInv
<1>2. op[o] \in Patch /\ v \in Versions /\ target \in Status
  BY <1>1, KindOf DEF PatchWrite, RegistryType, OpState, Patch
<1>3. registry[v] \in Item /\ registry[v] # None
  BY <1>1, <1>2, ItemOrNone DEF PatchWrite, History, RegistryType
<1>4. PICK it \in Item : it.status = target /\ registry' = [registry EXCEPT ![v] = it]
  <2> DEFINE it == [registry[v] EXCEPT !.status = target, !.approved = @ \/ target = "approved"]
  <2>1. it \in Item /\ it.status = target
    BY <1>2, <1>3 DEF Item
  <2>2. registry' = [registry EXCEPT ![v] = it]
    BY <1>1, <1>2 DEF PatchWrite, RegistryType
  <2> QED
    BY <2>1, <2>2
<1>5. it # None
  BY ItemOrNone DEF Item, None, Status
<1>6. \A u \in Versions : registry'[u] = IF u = v THEN it ELSE registry[u]
  BY <1>1, <1>4 DEF RegistryType
<1>7. \A u \in Versions : reached'[u] = IF u = v THEN reached[v] \cup {target} ELSE reached[u]
  BY <1>1, <1>2 DEF RegistryType, PatchWrite
<1>8. \A p \in Operators :
        /\ op'[p] \in OpState
        /\ p = o => op'[p].kind = "idle"
        /\ p # o => /\ op'[p].kind = op[p].kind
                    /\ op'[p].kind \in {"chosen", "patch"} => op'[p].v = op[p].v
                    /\ op'[p].kind = "patch" => op'[p].target = op[p].target
                    /\ op'[p].kind = "patch" /\ ~op'[p].stale =>
                          op'[p] = op[p] /\ (op[p].v # v \/ registry' = registry)
  <2>1. CASE registry'[v] = registry[v]
    <3>1. op' = [op EXCEPT ![o] = Idle]
      BY <2>1 DEF PatchWrite
    <3>2. it = registry[v]
      BY <1>1, <1>2, <1>4, <2>1 DEF RegistryType
    <3>3. registry' = registry
      BY <1>1, <1>2, <1>4, <3>2 DEF RegistryType
    <3> QED
      BY <1>1, <3>1, <3>3 DEF RegistryType, OpState, Idle
  <2>2. CASE registry'[v] # registry[v]
    <3>1. op' = [Touched(v) EXCEPT ![o] = Idle]
      BY <2>2 DEF PatchWrite
    <3>2. \A p \in Operators : op'[p] = IF p = o THEN Idle ELSE Touched(v)[p]
      BY <3>1 DEF Touched
    <3> QED
      BY <1>1, <1>2, <3>2, TouchedIs DEF OpState, Idle
  <2> QED
    BY <2>1, <2>2
<1>9. \A p \in Operators : op[p].kind \in {"chosen", "patch"} => op[p].v \in Versions
  BY <1>1, KindOf DEF RegistryType, OpState, Chosen, Patch
<1>10. Calm' => Calm /\ ValidTransition(registry[v].status, target)
  BY <1>1, <1>2 DEF Calm, PatchWrite, FreshIsLegal, RegistryType, Patch
<1>11. \A u \in Versions : reached[u] \subseteq reached'[u]
  BY <1>7
<1>12. \A w : HasLower(w) => HasLower(w)'
  BY <1>11 DEF HasLower
<1>13. ASSUME Calm', registry[v].status \in {"promoted", "rolled_back"}
      PROVE  /\ target \in {"promoted", "rolled_back"}
             /\ registry[v].status = "rolled_back" => target = "rolled_back"
  BY <1>10, <1>13 DEF ValidTransition, AGENT_STATUS_TRANSITIONS
<1>14. RegistryType'
  <2>1. registry' \in [Versions -> Item \cup {None}]
    BY <1>1, <1>4 DEF RegistryType
  <2>2. op' \in [Operators -> OpState]
    <3>1. DOMAIN op' = Operators /\ op' = [p \in Operators |-> op'[p]]
      BY <1>1 DEF PatchWrite, Touched, RegistryType
    <3> QED
      BY <1>8, <3>1
  <2>3. reached' \in [Versions -> SUBSET Status]
    BY <1>1, <1>2 DEF RegistryType, PatchWrite
  <2>4. reused' \in 0..MaxReuse /\ direct' \in BOOLEAN
    BY <1>1 DEF RegistryType, PatchWrite
  <2>5. lost' \in BOOLEAN
    BY <1>1, <1>2 DEF RegistryType, PatchWrite, Patch
  <2> QED
    BY <2>1, <2>2, <2>3, <2>4, <2>5 DEF RegistryType, OpState
<1>15. History'
  <2>1. \A u \in Versions : registry'[u] # None => registry'[u].status \in reached'[u]
    BY <1>1, <1>4, <1>6, <1>7 DEF History
  <2>2. ASSUME NEW p \in Operators, op'[p].kind = "patch"
        PROVE  /\ registry'[op'[p].v] # None
               /\ \E s \in reached'[op'[p].v] : ValidTransition(s, op'[p].target)
    <3>1. op[p].kind = "patch" /\ op'[p].v = op[p].v /\ op'[p].target = op[p].target
      BY <1>8, <2>2
    <3>2. op[p].v \in Versions /\ registry[op[p].v] # None
      BY <1>1, <1>9, <3>1 DEF History
    <3>3. PICK s \in reached[op[p].v] : ValidTransition(s, op[p].target)
      BY <1>1, <3>1 DEF History
    <3> QED
      BY <1>5, <1>6, <1>11, <3>1, <3>2, <3>3
  <2> QED
    BY <2>1, <2>2 DEF History, ValidTransition
<1>16. FreshIsLegal'
  <2> SUFFICES ASSUME NEW p \in Operators, op'[p].kind = "patch", ~op'[p].stale
               PROVE  ValidTransition(registry'[op'[p].v].status, op'[p].target)
    BY DEF FreshIsLegal, ValidTransition
  <2>1. op'[p] = op[p] /\ (op[p].v # v \/ registry' = registry) /\ op[p].v \in Versions
    BY <1>8, <1>9
  <2>2. registry'[op'[p].v] = registry[op[p].v]
    BY <1>6, <2>1
  <2> QED
    BY <1>1, <2>1, <2>2 DEF FreshIsLegal
<1>17. PromotedStays'
  <2> SUFFICES ASSUME Calm', NEW u \in Versions, "promoted" \in reached'[u]
               PROVE  registry'[u].status \in {"promoted", "rolled_back"}
    BY DEF PromotedStays
  <2>1. CASE "promoted" \in reached[u]
    <3>1. registry[u].status \in {"promoted", "rolled_back"}
      BY <1>1, <1>10, <2>1 DEF PromotedStays
    <3> QED
      BY <1>4, <1>6, <1>13, <3>1
  <2>2. CASE "promoted" \notin reached[u]
    BY <1>4, <1>6, <1>7, <2>2
  <2> QED
    BY <2>1, <2>2
<1>18. LowerIsBehind'
  <2> SUFFICES ASSUME Calm', ~direct'
               PROVE  /\ \A u \in Versions : registry'[u].status = "rolled_back" => HasLower(u)'
                      /\ \A p \in Operators :
                            /\ op'[p].kind = "chosen" => HasLower(op[p].v)'
                            /\ op'[p].kind = "patch" /\ op'[p].target = "rolled_back" => HasLower(op[p].v)'
    BY <1>8 DEF LowerIsBehind, HasLower
  <2>1. Calm /\ ~direct
    BY <1>10 DEF PatchWrite
  <2>2. \A u \in Versions : registry'[u].status = "rolled_back" => HasLower(u)
    BY <1>1, <1>4, <1>6, <2>1 DEF LowerIsBehind, PatchWrite
  <2> QED
    BY <1>1, <1>8, <1>12, <2>1, <2>2 DEF LowerIsBehind
<1>19. Onward
  <2>1. ASSUME Calm' PROVE RolledBack \subseteq RolledBack'
    BY <1>4, <1>6, <1>13, <2>1 DEF RolledBack
  <2> QED
    BY <1>10, <1>11, <2>1 DEF Onward
<1> QED
  BY <1>14, <1>15, <1>16, <1>17, <1>18, <1>19 DEF RegistryInv

\* Every step of the registry keeps its invariant.
LEMMA RegistryStep ==
    ASSUME RegistryInv, RegistryNext
    PROVE  RegistryInv' /\ Onward
<1>1. RegistryType /\ History /\ FreshIsLegal /\ PromotedStays /\ LowerIsBehind
  BY DEF RegistryInv
<1>2. PICK o \in Operators :
         \/ \E v \in Versions : \E b \in Bodies[v] : RegisterAgent(o, v, b) \/ RegisterScript(o, v, b)
         \/ \E v \in Versions, target \in Status : PatchBegin(o, v, target)
         \/ PatchWrite(o) \/ PatchLost(o) \/ ScriptList(o) \/ ScriptPatch(o)
  BY DEF RegistryNext, PromoteScript, Status
<1>3. ASSUME NEW v \in Versions, NEW b \in Body, RegisterAgent(o, v, b)
      PROVE  RegistryInv' /\ Onward
  <2>1. b.status = "built"
    BY <1>3 DEF RegisterAgent, ValidRegistration, REGISTERABLE_AGENT_STATUSES
  <2> QED
    BY <1>3, <2>1, PutStep DEF RegisterAgent
<1>4. ASSUME NEW v \in Versions, NEW b \in Bodies[v], RegisterAgent(o, v, b) \/ RegisterScript(o, v, b)
      PROVE  RegistryInv' /\ Onward
  <2>1. b \in Body
    BY RegistryAssumption
  <2>2. [b EXCEPT !.status = "built", !.runtime = TRUE, !.endpoint = "full"] \in Body
    BY <2>1 DEF Body, Status
  <2> QED
    BY <1>3, <1>4, <2>1, <2>2 DEF RegisterScript
<1>5. ASSUME NEW v \in Versions, NEW target \in Status, PatchBegin(o, v, target)
      PROVE  RegistryInv' /\ Onward
  <2> DEFINE x == [kind |-> "patch", v |-> v, target |-> target, stale |-> FALSE]
  <2>1. x \in OpState /\ x.v = v /\ x.target = target /\ x.kind = "patch"
    BY DEF OpState, Patch
  <2>2. op' = [op EXCEPT ![o] = x] /\ UNCHANGED <<registry, reused, reached, lost>>
    BY <1>5 DEF PatchBegin
  <2>3. direct' \in BOOLEAN /\ (direct => direct') /\ (target = "rolled_back" => direct')
    BY <1>1, <1>5 DEF PatchBegin, RegistryType
  <2>4. registry[v] # None /\ ValidTransition(registry[v].status, target)
    BY <1>5 DEF PatchBegin, ReadStatus
  <2> HIDE DEF x
  <2> QED
    BY <2>1, <2>2, <2>3, <2>4, OpStep
<1>6. ASSUME PatchLost(o) PROVE RegistryInv' /\ Onward
  <2>1. Idle \in OpState /\ Idle.kind = "idle"
    BY DEF OpState, Idle
  <2>2. op' = [op EXCEPT ![o] = Idle] /\ UNCHANGED <<registry, reused, reached, lost, direct>>
    BY <1>6 DEF PatchLost
  <2>3. direct' \in BOOLEAN
    BY <1>1, <2>2 DEF RegistryType
  <2> QED
    BY <2>1, <2>2, <2>3, OpStep
<1>7. ASSUME ScriptList(o) PROVE RegistryInv' /\ Onward
  <2> DEFINE x == [kind |-> "chosen", v |-> Max(Promoted)]
  <2>1. Promoted \subseteq Versions /\ Promoted \subseteq Nat /\ IsFiniteSet(Promoted)
    BY RegistryAssumption, FS_Subset DEF Promoted
  <2>2. Max(Promoted) \in Promoted /\ \E u \in Promoted : u < Max(Promoted)
    BY <1>7, <2>1, SecondIsBelow DEF ScriptList
  <2>3. \A u \in Promoted : "promoted" \in reached[u]
    <3> SUFFICES ASSUME NEW u \in Promoted PROVE "promoted" \in reached[u]
      OBVIOUS
    <3>1. u \in Versions /\ registry[u].status = "promoted"
      BY DEF Promoted, INVOKABLE_AGENT_STATUSES
    <3>2. registry[u] # None
      BY <3>1 DEF None
    <3> QED
      BY <1>1, <3>1, <3>2 DEF History
  <2>4. x \in OpState /\ x.kind = "chosen" /\ x.v = Max(Promoted)
    BY <2>1, <2>2 DEF OpState, Chosen
  <2>5. HasLower(x.v)
    BY <2>1, <2>2, <2>3, <2>4 DEF HasLower
  <2>6. op' = [op EXCEPT ![o] = x] /\ UNCHANGED <<registry, reused, reached, lost, direct>>
    BY <1>7 DEF ScriptList
  <2>7. direct' \in BOOLEAN
    BY <1>1, <2>6 DEF RegistryType
  <2> HIDE DEF x
  <2> QED
    BY <2>4, <2>5, <2>6, <2>7, OpStep
<1>8. ASSUME ScriptPatch(o) PROVE RegistryInv' /\ Onward
  <2> DEFINE v == op[o].v
             x == IF ReadStatus(v, "rolled_back")
                  THEN [kind |-> "patch", v |-> v, target |-> "rolled_back", stale |-> FALSE]
                  ELSE Idle
  <2>1. op[o].kind = "chosen" /\ v \in Versions
    BY <1>1, <1>8, KindOf DEF ScriptPatch, RegistryType, OpState, Chosen
  <2>2. x \in OpState
    BY <2>1 DEF OpState, Patch, Status
  <2>3. x.kind = "patch" => ReadStatus(v, "rolled_back") /\ x.v = v /\ x.target = "rolled_back"
    BY DEF Idle
  <2>4. x.kind # "chosen"
    BY DEF Idle
  <2>5. x.kind = "patch" => registry[x.v] # None /\ ValidTransition(registry[x.v].status, x.target)
    BY <2>3 DEF ReadStatus
  <2>6. Calm /\ ~direct => HasLower(v)
    BY <1>1, <2>1 DEF LowerIsBehind
  <2>7. op' = [op EXCEPT ![o] = x] /\ UNCHANGED <<registry, reused, reached, lost, direct>>
    BY <1>8 DEF ScriptPatch
  <2>8. direct' \in BOOLEAN
    BY <1>1, <2>7 DEF RegistryType
  <2> HIDE DEF x
  <2> QED
    BY <2>2, <2>3, <2>4, <2>5, <2>6, <2>7, <2>8, OpStep
<1> QED
  BY <1>2, <1>4, <1>5, <1>6, <1>7, <1>8, WriteStep

-----------------------------------------------------------------------------
(* The invocations. *)

\* What the end of a request keeps of it.
LEMMA OverIs ==
    ASSUME NEW q \in Request, NEW p \in {"answered", "raised", "killed"}
    PROVE  LET e == Over(q, p)
           IN  /\ e \in Request
               /\ e.pc = p /\ e.calls = q.calls /\ e.logs = q.logs /\ e.preambles = q.preambles
               /\ e.version = IF q.calls = 1 THEN q.version ELSE 0
               /\ e.env = IF q.calls = 1 /\ p = "answered" THEN q.env ELSE None
               /\ e.barred = IF q.calls = 1 THEN q.barred \cap {q.version} ELSE {}
  BY DEF Over, Request

\* An answer is the end of a request and a status line.
LEMMA AnswerIs ==
    ASSUME NEW q \in Request, q.preambles \in 0..1
    PROVE  LET e == Answer(q)
           IN  /\ e \in Request
               /\ e.pc = "answered" /\ e.calls = q.calls /\ e.logs = q.logs
               /\ e.preambles = q.preambles + 1
               /\ e.version = IF q.calls = 1 THEN q.version ELSE 0
               /\ e.env = IF q.calls = 1 THEN q.env ELSE None
               /\ e.barred = IF q.calls = 1 THEN q.barred \cap {q.version} ELSE {}
<1>1. ASSUME NEW x \in Request, x.preambles \in 0..1
      PROVE  LET e == [x EXCEPT !.preambles = @ + 1]
             IN  /\ e \in Request
                 /\ e.pc = x.pc /\ e.calls = x.calls /\ e.logs = x.logs
                 /\ e.preambles = x.preambles + 1
                 /\ e.version = x.version /\ e.env = x.env /\ e.barred = x.barred
  BY <1>1 DEF Request
<1> QED
  BY <1>1, OverIs DEF Answer

\* An audit record is counted and changes nothing else.
LEMMA LoggedIs ==
    ASSUME NEW q \in Request, q.logs \in 0..1
    PROVE  LET e == Logged(q)
           IN  /\ e \in Request
               /\ e.pc = q.pc /\ e.calls = q.calls /\ e.logs = q.logs + 1
               /\ e.preambles = q.preambles
               /\ e.version = q.version /\ e.env = q.env /\ e.barred = q.barred
  BY DEF Logged, Request

\* So is a call of the runtime.
Call(q, c) == [q EXCEPT !.calls = c]

LEMMA CallIs ==
    ASSUME NEW q \in Request, NEW c \in 0..1
    PROVE  /\ Call(q, c) \in Request
           /\ Call(q, c).pc = q.pc /\ Call(q, c).calls = c /\ Call(q, c).logs = q.logs
           /\ Call(q, c).preambles = q.preambles /\ Call(q, c).version = q.version
           /\ Call(q, c).env = q.env /\ Call(q, c).barred = q.barred
  BY DEF Call, Request

\* A version that is promoted now was promoted at some time, and is not rolled back.
LEMMA PromotedIs ==
    ASSUME RegistryInv, NEW v \in Promoted
    PROVE  /\ v \in Versions /\ registry[v] \in Item
           /\ "promoted" \in reached[v] /\ v \notin RolledBack
<1>1. v \in Versions /\ registry[v].status = "promoted"
  BY DEF Promoted, INVOKABLE_AGENT_STATUSES
<1>2. registry[v] # None
  BY <1>1 DEF None
<1>3. registry[v] \in Item
  BY <1>1, <1>2, ItemOrNone DEF RegistryInv, RegistryType
<1> QED
  BY <1>1, <1>2, <1>3 DEF RegistryInv, History, RolledBack

\* The version an invocation resolves, if there is one, is promoted.
LEMMA ResolveIs == Resolve = 0 \/ Resolve \in Promoted
<1>1. Resolvable \subseteq Promoted /\ Promoted \subseteq Versions
  BY DEF Resolvable, Promoted
<1>2. Resolvable \subseteq Nat /\ IsFiniteSet(Resolvable)
  BY <1>1, RegistryAssumption, FS_Subset
<1>3. Resolvable # {} => Max(Resolvable) \in Resolvable
  BY <1>2, HighestIsThere
<1> QED
  BY <1>1, <1>3 DEF Resolve, Latest

\* What a step of the invocation r may make of it: the invariant's part about
\* it holds, and a call once made stays made, of the same version.
Moved(r, rec) ==
    /\ rec \in Request /\ Stage(rec) /\ Sound(rec)
    /\ req[r].calls = 1 => rec.calls = 1 /\ rec.version = req[r].version

\* Every end of an invocation is such a step.
LEMMA EndIs ==
    ASSUME RequestInv, NEW r \in Requests, NEW rec \in Request, NEW c \in 0..1,
           req[r].pc \in {"received", "resolved", "calling", "streaming"},
           req[r].calls = 1 => c = 1,
           c = 1 => req[r].pc \in {"resolved", "calling", "streaming"},
           rec.pc \in {"answered", "raised", "killed"}, rec.calls = c,
           rec.version = IF c = 1 THEN req[r].version ELSE 0,
           rec.barred = IF c = 1 THEN req[r].barred \cap {req[r].version} ELSE {},
           rec.pc = "answered" =>
              /\ c = 1 => /\ rec.logs = 1 /\ rec.env = req[r].env
                          /\ req[r].env.mock \/ req[r].env.role = "own"
              /\ rec.preambles # 1 => c = 1 /\ req[r].env.stream /\ req[r].env.mock
    PROVE  Moved(r, rec)
<1>1. Stage(req[r]) /\ Sound(req[r]) /\ req[r] \in Request
  BY DEF RequestInv
<1>2. 0 \notin Versions
  BY RegistryAssumption
<1>3. Stage(rec)
  BY <1>1, <1>2 DEF Stage
<1>4. Sound(rec)
  <2>1. CASE c = 1
    BY <1>1, <2>1 DEF Sound
  <2>2. CASE c # 1
    BY <1>2, <2>2 DEF Sound
  <2> QED
    BY <2>1, <2>2
<1> QED
  BY <1>3, <1>4 DEF Moved

\* An answer, once the audit record of a call is counted, is such an end.
LEMMA AnswerMoves ==
    ASSUME RequestInv, NEW r \in Requests, NEW x \in Request, x.preambles \in 0..1,
           req[r].pc \in {"received", "resolved", "calling", "streaming"},
           req[r].calls = 1 => x.calls = 1,
           x.calls = 1 => /\ req[r].pc \in {"resolved", "calling", "streaming"}
                          /\ x.version = req[r].version /\ x.barred = req[r].barred
                          /\ x.env = req[r].env /\ x.logs = 1
                          /\ req[r].env.mock \/ req[r].env.role = "own",
           x.preambles = 1 => x.calls = 1 /\ req[r].env.stream /\ req[r].env.mock
    PROVE  Answer(x) \in Request /\ Moved(r, Answer(x))
<1> DEFINE e == Answer(x)
<1>1. /\ e \in Request
      /\ e.pc = "answered" /\ e.calls = x.calls /\ e.logs = x.logs
      /\ e.preambles = x.preambles + 1
      /\ e.version = IF x.calls = 1 THEN x.version ELSE 0
      /\ e.env = IF x.calls = 1 THEN x.env ELSE None
      /\ e.barred = IF x.calls = 1 THEN x.barred \cap {x.version} ELSE {}
  BY AnswerIs
<1>2. x.calls \in 0..1
  BY DEF Request
<1> DEFINE c == x.calls
<1>3. /\ e.version = IF c = 1 THEN req[r].version ELSE 0
      /\ e.barred = IF c = 1 THEN req[r].barred \cap {req[r].version} ELSE {}
      /\ c = 1 => /\ e.logs = 1 /\ e.env = req[r].env
                  /\ req[r].env.mock \/ req[r].env.role = "own"
      /\ e.preambles # 1 => c = 1 /\ req[r].env.stream /\ req[r].env.mock
      /\ e.calls = c
  BY <1>1
<1> HIDE DEF e
<1>4. Moved(r, e)
  BY <1>1, <1>2, <1>3, EndIs
<1> QED
  BY <1>1, <1>4 DEF e

\* So is the end of one that never gets an answer.
LEMMA OverMoves ==
    ASSUME RequestInv, NEW r \in Requests, NEW c \in 0..1, NEW p \in {"raised", "killed"},
           req[r].pc \in {"received", "resolved", "calling", "streaming"},
           req[r].calls = 1 => c = 1,
           c = 1 => req[r].pc \in {"resolved", "calling", "streaming"}
    PROVE  Over(Call(req[r], c), p) \in Request /\ Moved(r, Over(Call(req[r], c), p))
<1> DEFINE x == Call(req[r], c)
           e == Over(x, p)
<1>1. x \in Request /\ x.calls = c /\ x.version = req[r].version /\ x.barred = req[r].barred
  BY CallIs DEF RequestInv
<1> HIDE DEF x
<1>p. p \in {"answered", "raised", "killed"} /\ p # "answered"
  OBVIOUS
<1>2. /\ e \in Request /\ e.pc = p /\ e.calls = x.calls
      /\ e.version = IF x.calls = 1 THEN x.version ELSE 0
      /\ e.barred = IF x.calls = 1 THEN x.barred \cap {x.version} ELSE {}
  BY <1>1, <1>p, OverIs
<1> HIDE DEF e
<1>3. Moved(r, e)
  BY <1>1, <1>p, <1>2, EndIs
<1> QED
  BY <1>2, <1>3 DEF e, x

\* A call, its audit record and its answer.
LEMMA CallMoves ==
    ASSUME RequestInv, NEW r \in Requests, req[r].pc \in {"resolved", "calling"},
           req[r].env.mock \/ req[r].env.role = "own"
    PROVE  LET e == Answer(Logged(Call(req[r], 1))) IN e \in Request /\ Moved(r, e)
<1> DEFINE q == req[r]
           x == Call(q, 1)
           l == Logged(x)
<1>1. q \in Request /\ q.calls = 0 /\ q.logs = 0 /\ q.preambles = 0
  BY DEF RequestInv, Stage
<1>2. /\ x \in Request /\ x.calls = 1 /\ x.logs = 0 /\ x.preambles = 0
      /\ x.version = q.version /\ x.env = q.env /\ x.barred = q.barred
  BY <1>1, CallIs
<1> HIDE DEF x
<1>3. /\ l \in Request /\ l.calls = 1 /\ l.logs = 1 /\ l.preambles = 0
      /\ l.version = q.version /\ l.env = q.env /\ l.barred = q.barred
  BY <1>2, LoggedIs
<1> HIDE DEF l
<1>4. Answer(l) \in Request /\ Moved(r, Answer(l))
  BY <1>1, <1>3, AnswerMoves
<1> QED
  BY <1>4 DEF l, x

\* The preamble of a stream goes out.
LEMMA StreamMoves ==
    ASSUME RequestInv, NEW r \in Requests, req[r].pc = "resolved",
           req[r].env.mock, req[r].env.stream
    PROVE  LET e == [req[r] EXCEPT !.pc = "streaming", !.calls = 1, !.preambles = 1]
           IN  e \in Request /\ Moved(r, e)
<1> DEFINE q == req[r]
           e == [q EXCEPT !.pc = "streaming", !.calls = 1, !.preambles = 1]
<1>1. q \in Request /\ Stage(q) /\ Sound(q)
  BY DEF RequestInv
<1> HIDE DEF q
<1>2. /\ e \in Request /\ e.pc = "streaming" /\ e.calls = 1 /\ e.preambles = 1
      /\ e.logs = q.logs /\ e.env = q.env /\ e.version = q.version
      /\ e.agent = q.agent /\ e.barred = q.barred
  <2>1. q \in Request /\ 1 \in 0..1 /\ 1 \in 0..2
    BY <1>1
  <2>2. e \in Request
    BY <2>1 DEF Request
  <2> QED
    BY <2>1 DEF Request
<1> HIDE DEF e
<1>3. Stage(e) /\ q.calls = 0
  BY <1>1, <1>2 DEF Stage, q
<1>4. Sound(e)
  BY <1>1, <1>2 DEF Sound, q
<1> QED
  BY <1>2, <1>3, <1>4 DEF Moved, e, q

\* Every step of an invocation keeps the invariant's part about it.
LEMMA InvokeStep ==
    ASSUME Inv, NEW r \in Requests,
           \/ \E e \in Envs : Receive(r, e)
           \/ HandleInvokeRequest(r) \/ BootstrapAgentSession(r)
           \/ MockCall(r) \/ MockStreamOpen(r) \/ MockStreamEnd(r) \/ MockStreamBreak(r)
           \/ RefuseRuntime(r) \/ AssumeTenantRole(r) \/ InvokeRealRuntime(r) \/ Killed(r)
    PROVE  /\ \E rec \in Request : req' = [req EXCEPT ![r] = rec] /\ Moved(r, rec)
           /\ UNCHANGED registryVars
           /\ sessions' \subseteq Requests
<1> DEFINE q == req[r]
           Goal == /\ \E rec \in Request : req' = [req EXCEPT ![r] = rec] /\ Moved(r, rec)
                   /\ UNCHANGED registryVars
                   /\ sessions' \subseteq Requests
<1>1. RegistryInv /\ RequestInv
  BY DEF Inv
<1>2. q \in Request /\ Stage(q) /\ Sound(q) /\ sessions \subseteq Requests
  BY <1>1 DEF RequestInv
<1>3. ASSUME NEW rec \in Request, Moved(r, rec), Step(r, rec) PROVE Goal
  BY <1>2, <1>3 DEF Step
<1>4. ASSUME NEW e \in Envs, Receive(r, e) PROVE Goal
  <2> DEFINE rec == [q EXCEPT !.pc = "received", !.env = e, !.barred = RolledBack]
  <2>1. q.pc = "new" /\ Step(r, rec)
    BY <1>4 DEF Receive
  <2>2. /\ rec \in Request /\ rec.pc = "received" /\ rec.env = e /\ rec.barred = RolledBack
        /\ rec.calls = q.calls /\ rec.logs = q.logs /\ rec.preambles = q.preambles
        /\ rec.version = q.version
    BY <1>2 DEF Request, RolledBack
  <2> HIDE DEF rec
  <2>3. Stage(rec) /\ q.calls = 0
    BY <1>2, <2>1, <2>2 DEF Stage
  <2>4. Sound(rec)
    BY <1>2, <2>2 DEF Sound
  <2>5. Moved(r, rec)
    BY <2>2, <2>3, <2>4 DEF Moved
  <2> QED
    BY <1>3, <2>1, <2>2, <2>5
<1>5. ASSUME q.pc \in {"received", "resolved"}, Step(r, Answer(q)) PROVE Goal
  <2>1. q.calls = 0 /\ q.preambles = 0
    BY <1>2, <1>5 DEF Stage
  <2>2. Answer(q) \in Request /\ Moved(r, Answer(q))
    BY <1>1, <1>2, <1>5, <2>1, AnswerMoves
  <2> QED
    BY <1>3, <1>5, <2>2
<1>6. ASSUME HandleInvokeRequest(r) PROVE Goal
  <2> DEFINE v == Resolve
             rec == [q EXCEPT !.pc = "resolved", !.version = v,
                              !.agent = registry[v].body, !.barred = @ \cap {v}]
  <2>1. q.pc = "received"
    BY <1>6 DEF HandleInvokeRequest
  <2>2. CASE v # 0 /\ Step(r, rec)
    <3>1. v \in Promoted
      BY <2>2, ResolveIs
    <3>2. v \in Versions /\ registry[v] \in Item /\ "promoted" \in reached[v] /\ v \notin RolledBack
      BY <1>1, <3>1, PromotedIs
    <3> HIDE DEF v
    <3>3. registry[v].body \in Body
      BY <3>2 DEF Item
    <3>4. /\ rec \in Request /\ rec.pc = "resolved" /\ rec.version = v
          /\ rec.agent = registry[v].body /\ rec.barred = q.barred \cap {v}
          /\ rec.calls = q.calls /\ rec.logs = q.logs /\ rec.preambles = q.preambles
          /\ rec.env = q.env
      BY <1>2, <3>2, <3>3 DEF Request
    <3> HIDE DEF rec
    <3>5. Stage(rec) /\ q.calls = 0
      BY <1>2, <2>1, <3>2, <3>3, <3>4 DEF Stage
    <3>6. Sound(rec)
      BY <1>2, <2>1, <3>2, <3>4 DEF Sound
    <3>7. Moved(r, rec)
      BY <3>4, <3>5, <3>6 DEF Moved
    <3> QED
      BY <1>3, <2>2, <3>4, <3>7
  <2>3. CASE Step(r, Answer(q))
    BY <1>5, <2>1, <2>3
  <2> QED
    BY <1>6, <2>2, <2>3 DEF HandleInvokeRequest
<1>7. ASSUME BootstrapAgentSession(r) PROVE Goal
  <2>1. q.pc = "received" /\ req' = [req EXCEPT ![r] = Answer(q)] /\ UNCHANGED registryVars
    BY <1>1, <1>7 DEF BootstrapAgentSession, RequestInv
  <2>2. q.calls = 0 /\ q.preambles = 0
    BY <1>2, <2>1 DEF Stage
  <2>3. Answer(q) \in Request /\ Moved(r, Answer(q))
    BY <1>1, <1>2, <2>1, <2>2, AnswerMoves
  <2>4. sessions' \subseteq Requests
    BY <1>2, <1>7 DEF BootstrapAgentSession
  <2> QED
    BY <2>1, <2>3, <2>4
<1>8. ASSUME q.pc \in {"resolved", "calling"}, q.env.mock \/ q.env.role = "own",
             Step(r, Answer(Logged([q EXCEPT !.calls = 1])))
      PROVE  Goal
  <2> DEFINE e == Answer(Logged(Call(q, 1)))
  <2>1. e \in Request /\ Moved(r, e)
    BY <1>1, <1>8, CallMoves
  <2>2. Step(r, e)
    BY <1>8 DEF Call
  <2> HIDE DEF e
  <2> QED
    BY <1>3, <2>1, <2>2
<1>9. ASSUME MockStreamOpen(r) PROVE Goal
  <2> DEFINE e == [q EXCEPT !.pc = "streaming", !.calls = 1, !.preambles = 1]
             x == Over(Call(q, 1), "raised")
  <2>1. q.pc = "resolved" /\ q.env.mock /\ q.env.stream /\ (Step(r, e) \/ Step(r, x))
    BY <1>9 DEF MockStreamOpen, Call
  <2>2. e \in Request /\ Moved(r, e)
    BY <1>1, <2>1, StreamMoves
  <2>3. x \in Request /\ Moved(r, x)
    BY <1>1, <2>1, OverMoves
  <2> HIDE DEF e, x
  <2> QED
    BY <1>3, <2>1, <2>2, <2>3
<1>10. ASSUME MockStreamEnd(r) PROVE Goal
  <2> DEFINE e == Over(q, "answered")
  <2>1. q.pc = "streaming" /\ Step(r, Logged(e))
    BY <1>10 DEF MockStreamEnd
  <2>2. q.calls = 1 /\ q.logs = 0 /\ q.preambles = 1 /\ q.env.mock
    BY <1>2, <2>1 DEF Stage
  <2>3. /\ e \in Request /\ e.pc = "answered" /\ e.calls = 1 /\ e.logs = 0 /\ e.preambles = 1
        /\ e.version = q.version /\ e.env = q.env /\ e.barred = q.barred \cap {q.version}
    BY <1>2, <2>2, OverIs
  <2> HIDE DEF e
  <2>4. Logged(e) \in Request /\ Moved(r, Logged(e))
    BY <1>1, <1>2, <2>1, <2>2, <2>3, LoggedIs, EndIs
  <2> QED
    BY <1>3, <2>1, <2>4
<1>11. ASSUME MockStreamBreak(r) PROVE Goal
  <2> DEFINE l == Logged(q)
  <2>1. q.pc = "streaming" /\ Step(r, Answer(l))
    BY <1>11 DEF MockStreamBreak
  <2>2. q.calls = 1 /\ q.logs = 0 /\ q.preambles = 1 /\ q.env.mock /\ q.env.stream
    BY <1>2, <2>1 DEF Stage
  <2>3. /\ l \in Request /\ l.calls = 1 /\ l.logs = 1 /\ l.preambles = 1
        /\ l.version = q.version /\ l.env = q.env /\ l.barred = q.barred
    BY <1>2, <2>2, LoggedIs
  <2> HIDE DEF l
  <2>4. Answer(l) \in Request /\ Moved(r, Answer(l))
    BY <1>1, <1>2, <2>1, <2>2, <2>3, AnswerMoves
  <2> QED
    BY <1>3, <2>1, <2>4
<1>12. ASSUME AssumeTenantRole(r) PROVE Goal
  <2> DEFINE rec == [q EXCEPT !.pc = "calling"]
             l == Logged(q)
  <2>1. q.pc = "resolved" /\ q.env.role = "own"
    BY <1>12 DEF AssumeTenantRole, RuntimeUsable
  <2>2. q.calls = 0 /\ q.logs = 0 /\ q.preambles = 0
    BY <1>2, <2>1 DEF Stage
  <2>3. CASE Step(r, rec)
    <3>1. /\ rec \in Request /\ rec.pc = "calling" /\ rec.calls = q.calls
          /\ rec.preambles = q.preambles /\ rec.logs = q.logs /\ rec.env = q.env
          /\ rec.version = q.version /\ rec.agent = q.agent /\ rec.barred = q.barred
      BY <1>2 DEF Request
    <3> HIDE DEF rec
    <3>2. Stage(rec)
      BY <1>2, <2>1, <2>2, <3>1 DEF Stage
    <3>3. Sound(rec)
      BY <1>2, <2>1, <3>1 DEF Sound
    <3>4. Moved(r, rec)
      BY <2>2, <3>1, <3>2, <3>3 DEF Moved
    <3> QED
      BY <1>3, <2>3, <3>1, <3>4
  <2>4. CASE Step(r, Answer(l))
    <3>1. /\ l \in Request /\ l.calls = 0 /\ l.preambles = 0
      BY <1>2, <2>2, LoggedIs
    <3> HIDE DEF l
    <3>2. Answer(l) \in Request /\ Moved(r, Answer(l))
      BY <1>1, <1>2, <2>1, <2>2, <3>1, AnswerMoves
    <3> QED
      BY <1>3, <2>4, <3>2
  <2> QED
    BY <1>12, <2>3, <2>4 DEF AssumeTenantRole, FailureResponse
<1>13. ASSUME Killed(r) PROVE Goal
  <2>1. PICK c \in {q.calls} \cup (IF q.pc = "calling" THEN {1} ELSE {}) :
           Step(r, Over([q EXCEPT !.calls = c], "killed"))
    BY <1>13 DEF Killed
  <2>2. q.pc \in {"received", "resolved", "calling", "streaming"} /\ c \in 0..1
    BY <1>2, <1>13 DEF Killed, Request
  <2>3. (q.calls = 1 => c = 1) /\ (c = 1 => q.pc \in {"resolved", "calling", "streaming"})
    BY <1>2, <2>1, <2>2 DEF Stage
  <2> DEFINE e == Over(Call(q, c), "killed")
  <2>4. e \in Request /\ Moved(r, e)
    BY <1>1, <2>2, <2>3, OverMoves
  <2>5. Step(r, e)
    BY <2>1 DEF Call
  <2> HIDE DEF e
  <2> QED
    BY <1>3, <2>4, <2>5
<1>14. ASSUME MockCall(r) PROVE Goal
  BY <1>8, <1>14 DEF MockCall
<1>15. ASSUME InvokeRealRuntime(r) PROVE Goal
  BY <1>2, <1>8, <1>15 DEF InvokeRealRuntime, Stage
<1>16. ASSUME RefuseRuntime(r) PROVE Goal
  BY <1>5, <1>16 DEF RefuseRuntime
<1> QED
  BY <1>4, <1>6, <1>7, <1>9, <1>10, <1>11, <1>12, <1>13, <1>14, <1>15, <1>16

-----------------------------------------------------------------------------
(* The invariant holds, and what follows from it. *)

\* The registry and the requests start in the invariant.
LEMMA InitInv == InvokeInit => Inv
<1> SUFFICES ASSUME InvokeInit PROVE Inv
  OBVIOUS
<1>1. PICK body : /\ \A v \in Versions : body[v] \in Bodies[v]
                  /\ registry = [v \in Versions |->
                         IF v \in Released
                         THEN [status |-> "promoted", approved |-> TRUE, body |-> body[v]]
                         ELSE None]
  BY DEF InvokeInit, RegistryInit
<1>2. ASSUME NEW v \in Versions
      PROVE  /\ registry[v] \in Item \cup {None}
             /\ v \in Released => registry[v].status = "promoted"
             /\ v \notin Released => registry[v] = None
             /\ reached[v] = IF v \in Released THEN Gates ELSE {}
  <2>1. body[v] \in Body
    BY <1>1, RegistryAssumption
  <2> QED
    BY <1>1, <2>1 DEF Item, Status, InvokeInit, RegistryInit
<1>3. \A o \in Operators : op[o] = Idle /\ op[o].kind = "idle"
  BY DEF InvokeInit, RegistryInit, Idle
<1>4. RegistryType
  <2>1. registry \in [Versions -> Item \cup {None}]
    BY <1>1, <1>2
  <2>2. reached \in [Versions -> SUBSET Status]
    BY <1>2 DEF InvokeInit, RegistryInit, Gates
  <2>3. op \in [Operators -> {Idle} \cup Chosen \cup Patch]
    BY DEF InvokeInit, RegistryInit
  <2>4. reused = 0 /\ lost \in BOOLEAN /\ direct \in BOOLEAN
    BY DEF InvokeInit, RegistryInit
  <2>5. 0 \in 0..MaxReuse
    BY RegistryAssumption
  <2> QED
    BY <2>1, <2>2, <2>3, <2>4, <2>5 DEF RegistryType
<1>5. \A v \in Versions : registry[v].status # "rolled_back"
  BY <1>2 DEF None
<1>6. RegistryInv
  BY <1>2, <1>3, <1>4, <1>5
     DEF RegistryInv, History, FreshIsLegal, PromotedStays, LowerIsBehind, Gates, Status
<1>7. NewRequest \in Request /\ Stage(NewRequest) /\ Sound(NewRequest)
  BY RegistryAssumption DEF NewRequest, Request, Stage, Sound
<1>8. RequestInv
  BY <1>7 DEF RequestInv, InvokeInit
<1> QED
  BY <1>6, <1>8 DEF Inv

\* A step of one invocation keeps what is settled about the others.
LEMMA InvokeKeeps ==
    ASSUME Inv, NEW r \in Requests, NEW rec \in Request, Moved(r, rec),
           req' = [req EXCEPT ![r] = rec], UNCHANGED registryVars, sessions' \subseteq Requests
    PROVE  Inv'
<1>1. RegistryInv'
  BY DEF Inv, RegistryInv, registryVars, RegistryType, History, FreshIsLegal, PromotedStays,
         LowerIsBehind, HasLower, Calm, ValidTransition
<1>2. req' \in [Requests -> Request]
  BY DEF Inv, RequestInv
<1>3. ASSUME NEW x \in Requests PROVE Stage(req'[x]) /\ Sound(req'[x])
  <2>1. req'[x] = IF x = r THEN rec ELSE req[x]
    BY DEF Inv, RequestInv
  <2> QED
    BY <2>1 DEF Moved, Inv, RequestInv
<1>4. \A x \in Requests : Stage(req[x])' /\ Sound(req[x])'
  BY <1>3 DEF Sound, Calm, RolledBack, registryVars, Stage
<1> QED
  BY <1>1, <1>2, <1>4 DEF Inv, RequestInv

\* A step of the registry keeps what is settled about every invocation.
LEMMA RegistryKeeps ==
    ASSUME Inv, RegistryNext, UNCHANGED <<req, sessions>>
    PROVE  Inv'
<1>1. RegistryInv' /\ Onward
  BY RegistryStep DEF Inv
<1>2. ASSUME NEW x \in Requests PROVE Stage(req[x])' /\ Sound(req[x])'
  <2>1. Stage(req[x]) /\ Sound(req[x])
    BY DEF Inv, RequestInv
  <2>2. Stage(req[x])'
    BY <2>1 DEF Stage
  <2>3. Sound(req[x])'
    BY <1>1, <2>1 DEF Sound, Onward
  <2> QED
    BY <2>2, <2>3
<1> QED
  BY <1>1, <1>2 DEF Inv, RequestInv

\* Every step keeps the invariant.
LEMMA NextInv == Inv /\ [Next]_vars => Inv'
<1> SUFFICES ASSUME Inv, [Next]_vars PROVE Inv'
  OBVIOUS
<1>1. CASE RegistryNext /\ UNCHANGED <<req, sessions>>
  BY <1>1, RegistryKeeps
<1>2. CASE InvokeNext
  <2>1. PICK r \in Requests :
           /\ \E rec \in Request : req' = [req EXCEPT ![r] = rec] /\ Moved(r, rec)
           /\ UNCHANGED registryVars
           /\ sessions' \subseteq Requests
    BY <1>2, InvokeStep DEF InvokeNext
  <2> QED
    BY <2>1, InvokeKeeps
<1>3. CASE UNCHANGED vars
  <2>1. RegistryInv'
    BY <1>3 DEF vars, Inv, RegistryInv, registryVars, RegistryType, History, FreshIsLegal,
                PromotedStays, LowerIsBehind, HasLower, Calm, ValidTransition
  <2>2. RequestInv'
    BY <1>3 DEF vars, Inv, RequestInv, registryVars, Stage, Sound, Calm, RolledBack
  <2> QED
    BY <2>1, <2>2 DEF Inv
<1> QED
  BY <1>1, <1>2, <1>3 DEF Next

\* The invariant holds in every state.
THEOREM Invariant == Spec => []Inv
  BY InitInv, NextInv, PTL DEF Spec

\* The registry, the operators' requests and the invocations keep the shapes
\* of the items that the code stores.
THEOREM TypeCorrect == Spec => []TypeOK
<1>1. Inv => TypeOK
  BY DEF Inv, RegistryInv, RegistryType, RequestInv, TypeOK
<1> QED
  BY <1>1, Invariant, PTL

\* rollback_agent.py never takes the last promoted version away, however many
\* scripts work from an old list: the lowest version that was ever promoted has
\* no lower one behind it, so no script can have chosen it.
THEOREM ServiceKept == Spec => []ServiceContinues
<1>1. ASSUME Inv, reused = 0, ~lost, ~direct, \E v \in Versions : "promoted" \in reached[v]
      PROVE  Promoted # {}
  <2> DEFINE S == {v \in Versions : "promoted" \in reached[v]}
  <2>1. S \subseteq Nat /\ S # {}
    BY <1>1, RegistryAssumption
  <2>2. PICK x \in S : \A y \in S : x <= y
    BY <2>1, LeastNumber
  <2>3. registry[x].status \in {"promoted", "rolled_back"}
    BY <1>1 DEF Inv, RegistryInv, PromotedStays, Calm
  <2>4. ~HasLower(x)
    <3>1. \A u \in S : u \in Nat /\ x \in Nat /\ x <= u
      BY <2>1, <2>2
    <3> QED
      BY <3>1 DEF HasLower
  <2>5. registry[x].status # "rolled_back"
    BY <1>1, <2>4 DEF Inv, RegistryInv, LowerIsBehind, Calm
  <2> QED
    BY <2>3, <2>5 DEF Promoted, INVOKABLE_AGENT_STATUSES
<1>2. Inv => ServiceContinues
  BY <1>1 DEF ServiceContinues
<1> QED
  BY <1>2, Invariant, PTL

\* resolve_agent_record never hands a version to an invocation that began
\* after its rollback, unless it was registered again or an update was lost.
THEOREM RolledBackOut == Spec => []RolledBackStaysOut
<1>1. ASSUME Inv, reused = 0, ~lost, NEW r \in Called
      PROVE  req[r].version \notin req[r].barred
  <2>1. r \in Requests /\ req[r].calls = 1 /\ Stage(req[r]) /\ Sound(req[r])
    BY <1>1 DEF Called, Inv, RequestInv
  <2>2. req[r].pc \notin {"new", "received"}
    BY <2>1 DEF Stage
  <2> QED
    BY <1>1, <2>1, <2>2 DEF Sound, Calm
<1>2. Inv => RolledBackStaysOut
  BY <1>1 DEF RolledBackStaysOut
<1> QED
  BY <1>2, Invariant, PTL

\* The catalogue shows the version an invocation runs, to the tenants whose
\* tier it does not refuse, when every promoted item parses.
THEOREM CatalogueIsHonest == Spec => []CatalogueAgrees
<1>1. CatalogueAgrees
  <2> SUFFICES ASSUME \A v \in Promoted : Parses(registry[v])
               PROVE  /\ Detail = Resolve
                      /\ \A tier \in 0..2 :
                            Listed(tier) = IF Resolve # 0 /\ TierAllows(tier, registry[Resolve].body)
                                           THEN Resolve ELSE 0
    BY DEF CatalogueAgrees
  <2>1. Resolvable = Promoted
    BY DEF Resolvable
  <2>2. Detail = Resolve
    BY <2>1 DEF Detail, Resolve
  <2> QED
    BY <2>2 DEF Listed
<1> QED
  BY <1>1, PTL

\* Every answered invocation that reached a runtime left one audit record and
\* used the tenant's own role, and a caller gets a second status line only on a
\* mock stream that broke.
THEOREM AnswersAudited == Spec => []AnsweredAndAudited
<1>1. Inv => AnsweredAndAudited
  BY DEF Inv, RequestInv, Stage, AnsweredAndAudited, Called
<1> QED
  BY <1>1, Invariant, PTL

-----------------------------------------------------------------------------
(* The refinement of the release process. *)

Served == {req[r].version : r \in Called}

\* A registration builds the version.
LEMMA PutBuilds ==
    ASSUME NEW v \in Versions, NEW b, b.status = "built", PutVersion(v, b), UNCHANGED req
    PROVE  Governance!Next
<1>1. UNCHANGED {req[r].version : r \in Called}
  BY DEF Called
<1>2. Governance!Build(v)
  BY <1>1 DEF PutVersion, Governance!Build
<1> QED
  BY <1>2 DEF Governance!Next

\* A status written follows one that was written before: it passes a gate, is
\* a failure in front of one, or adds nothing.
LEMMA WritePasses ==
    ASSUME Inv, NEW o \in Operators, PatchWrite(o), UNCHANGED req
    PROVE  [Governance!Next]_(Governance!vars)
<1> DEFINE v == op[o].v
           target == op[o].target
<1>1. UNCHANGED {req[r].version : r \in Called}
  BY DEF Called
<1>2. RegistryType /\ History
  BY DEF Inv, RegistryInv
<1>3. v \in Versions /\ target \in Status
  BY <1>2, KindOf DEF PatchWrite, RegistryType, OpState, Patch
<1>4. PICK s \in reached[v] : ValidTransition(s, target)
  BY <1>2 DEF PatchWrite, History
<1>5. reached' = [reached EXCEPT ![v] = @ \cup {target}]
  BY DEF PatchWrite
<1>6. s \in Status
  BY <1>2, <1>3 DEF RegistryType
<1>7. CASE target = s
  <2>1. reached' = reached
    BY <1>2, <1>3, <1>5, <1>7 DEF RegistryType
  <2> QED
    BY <1>1, <2>1 DEF Governance!vars
<1>8. CASE target # s /\ target = "failed"
  <2>1. Governance!Fail(v)
    BY <1>1, <1>5, <1>8 DEF Governance!Fail
  <2> QED
    BY <1>3, <2>1 DEF Governance!Next
<1>9. CASE target # s /\ target # "failed"
  <2>1. target \in AGENT_STATUS_TRANSITIONS[s]
    BY <1>4, <1>9 DEF ValidTransition
  <2>2. target \in DOMAIN Governance!Before /\ Governance!Before[target] = s
    BY <1>6, <1>9, <2>1 DEF Status, AGENT_STATUS_TRANSITIONS, Governance!Before
  <2>3. Governance!Pass(v, target)
    BY <1>1, <1>5, <2>2 DEF Governance!Pass
  <2> QED
    BY <1>3, <2>2, <2>3 DEF Governance!Next
<1> QED
  BY <1>7, <1>8, <1>9

\* A step of an invocation runs a version that was promoted, or no version.
LEMMA InvokeServes ==
    ASSUME Inv, NEW r \in Requests, NEW rec \in Request, Moved(r, rec),
           req' = [req EXCEPT ![r] = rec], UNCHANGED registryVars
    PROVE  [Governance!Next]_(Governance!vars)
<1>1. req \in [Requests -> Request] /\ req' \in [Requests -> Request]
  BY DEF Inv, RequestInv
<1>2. \A x \in Requests : req'[x] = IF x = r THEN rec ELSE req[x]
  BY <1>1
<1>3. UNCHANGED reached
  BY DEF registryVars
<1>4. rec.calls \in 0..1 /\ req[r].calls \in 0..1
  BY <1>1 DEF Request
<1>5. CASE rec.calls = 1 /\ req[r].calls # 1
  <2>1. rec.version \in Versions /\ "promoted" \in reached[rec.version]
    BY <1>5 DEF Moved, Stage, Sound
  <2>2. Served' = Served \cup {rec.version}
    BY <1>2, <1>5 DEF Served, Called
  <2>3. Governance!Serve(rec.version)
    BY <1>3, <2>1, <2>2 DEF Served, Governance!Serve
  <2> QED
    BY <2>1, <2>3 DEF Governance!Next
<1>6. CASE ~(rec.calls = 1 /\ req[r].calls # 1)
  <2>1. (rec.calls = 1 <=> req[r].calls = 1) /\ (rec.calls = 1 => rec.version = req[r].version)
    BY <1>4, <1>6 DEF Moved
  <2>2. Called' = Called
    BY <1>2, <2>1 DEF Called
  <2>3. \A x \in Called : req'[x].version = req[x].version
    BY <1>2, <2>1 DEF Called
  <2>4. Served' = Served
    BY <2>2, <2>3 DEF Served
  <2> QED
    BY <1>3, <2>4 DEF Served, Governance!vars
<1> QED
  BY <1>5, <1>6

\* Every step of the registry and the bridge is a step of the release process.
LEMMA NextGoverned == Inv /\ [Next]_vars => [Governance!Next]_(Governance!vars)
<1> SUFFICES ASSUME Inv, [Next]_vars PROVE [Governance!Next]_(Governance!vars)
  OBVIOUS
<1>1. CASE RegistryNext /\ UNCHANGED <<req, sessions>>
  <2>1. PICK o \in Operators :
           \/ \E v \in Versions : \E b \in Bodies[v] : RegisterAgent(o, v, b) \/ RegisterScript(o, v, b)
           \/ \E v \in Versions, target \in Status : PatchBegin(o, v, target)
           \/ PatchWrite(o) \/ PatchLost(o) \/ ScriptList(o) \/ ScriptPatch(o)
    BY <1>1 DEF RegistryNext, PromoteScript, Status
  <2>2. ASSUME NEW v \in Versions, NEW b, RegisterAgent(o, v, b)
        PROVE  Governance!Next
    <3>1. b.status = "built" /\ PutVersion(v, b)
      BY <2>2 DEF RegisterAgent, ValidRegistration, REGISTERABLE_AGENT_STATUSES
    <3> QED
      BY <1>1, <3>1, PutBuilds
  <2>3. ASSUME NEW v \in Versions, NEW b \in Bodies[v], RegisterAgent(o, v, b) \/ RegisterScript(o, v, b)
        PROVE  Governance!Next
    BY <2>2, <2>3 DEF RegisterScript
  <2>4. ASSUME UNCHANGED reached PROVE UNCHANGED (Governance!vars)
    BY <1>1, <2>4 DEF Governance!vars, Called
  <2>5. ASSUME NEW v \in Versions, NEW target \in Status, PatchBegin(o, v, target)
        PROVE  UNCHANGED reached
    BY <2>5 DEF PatchBegin
  <2>6. ASSUME PatchLost(o) \/ ScriptList(o) \/ ScriptPatch(o) PROVE UNCHANGED reached
    BY <2>6 DEF PatchLost, ScriptList, ScriptPatch
  <2>7. ASSUME PatchWrite(o) PROVE [Governance!Next]_(Governance!vars)
    BY <1>1, <2>7, WritePasses
  <2> QED
    BY <2>1, <2>3, <2>4, <2>5, <2>6, <2>7
<1>2. CASE InvokeNext
  <2>1. PICK r \in Requests :
           /\ \E rec \in Request : req' = [req EXCEPT ![r] = rec] /\ Moved(r, rec)
           /\ UNCHANGED registryVars
           /\ sessions' \subseteq Requests
    BY <1>2, InvokeStep DEF InvokeNext
  <2> QED
    BY <2>1, InvokeServes
<1>3. CASE UNCHANGED vars
  BY <1>3 DEF vars, registryVars, Governance!vars, Called
<1> QED
  BY <1>1, <1>2, <1>3 DEF Next

\* The registry and the bridge implement the release process: a status is
\* written only after the one before it, and a runtime is called only for a
\* version that was promoted.
THEOREM ReleaseIsGoverned == Spec => GovernedRelease
<1>1. InvokeInit => Governance!Init
  <2> SUFFICES ASSUME InvokeInit PROVE Governance!Init
    OBVIOUS
  <2>1. Called = {}
    BY DEF InvokeInit, NewRequest, Called
  <2>2. Gates = Governance!Passed
    BY DEF Gates, Status, Governance!Passed
  <2> QED
    BY <2>1, <2>2 DEF InvokeInit, RegistryInit, Governance!Init
<1> QED
  BY <1>1, NextGoverned, Invariant, PTL DEF Spec, GovernedRelease, Governance!Spec
=============================================================================
