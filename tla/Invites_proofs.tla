--------------------------- MODULE Invites_proofs ---------------------------
(***************************************************************************)
(* Theorems about Invites, for any set of requests and any number of       *)
(* failures.                                                               *)
(***************************************************************************)
EXTENDS Invites, FiniteSetTheorems, TLAPS

-----------------------------------------------------------------------------
(* Types. *)

\* Reading a lookup item keeps the types of what the request remembers.
LEMMA SeesTyped ==
    ASSUME TypeOK, NEW r \in Requests, NEW item \in LookupItem, NEW none \in PCs,
           Sees(r, item, none)
    PROVE  /\ pc' \in [Requests -> PCs]
           /\ on' \in [Requests -> Requests]
           /\ copy' \in [Requests -> Notification]
  BY DEF Sees, Goto, TypeOK, LookupItem, PCs

\* The same for a read that may lag.
LEMMA ReadTyped ==
    ASSUME TypeOK, NEW r \in Requests, NEW none \in PCs, ReadLookup(r, none)
    PROVE  TypeOK'
<1>1. NoItem \in LookupItem
  BY DEF NoItem, LookupItem, Notification
<1>2. PICK item \in LookupItem : Sees(r, item, none)
  BY <1>1 DEF ReadLookup, TypeOK
<1>3. /\ pc' \in [Requests -> PCs]
      /\ on' \in [Requests -> Requests]
      /\ copy' \in [Requests -> Notification]
  BY <1>2, SeesTyped
<1> QED
  BY <1>3 DEF ReadLookup, Fault, TypeOK, items

\* Every step of a request keeps the types.
LEMMA StepTyped ==
    ASSUME TypeOK, NEW r \in Requests, Step(r) \/ Dies(r)
    PROVE  TypeOK'
<1>1. CASE Start(r)
  BY <1>1, ReadTyped DEF Start, PCs
<1>2. CASE GetInvite(r)
  BY <1>2 DEF GetInvite, AfterInvite, Goto, Fault, TypeOK, items, PCs
<1>3. CASE Repair(r)
  BY <1>3 DEF Repair, Goto, TypeOK, PCs
<1>4. CASE PutLookup(r)
  <2>1. [id |-> r, says |-> "pending"] \in LookupItem
    BY DEF LookupItem, Notification
  <2> QED
    BY <1>4, <2>1 DEF PutLookup, WriteLookup, Goto, Fault, TypeOK, PCs
<1>5. CASE GetLookup(r)
  BY <1>5, ReadTyped DEF GetLookup, PCs
<1>6. CASE PutLookupAgain(r)
  <2>1. [id |-> r, says |-> "pending"] \in LookupItem
    BY DEF LookupItem, Notification
  <2> QED
    BY <1>6, <2>1 DEF PutLookupAgain, WriteLookup, Goto, Fault, TypeOK, PCs
<1>7. CASE PutInvite(r)
  BY <1>7 DEF PutInvite, Goto, Fault, TypeOK, PCs, Notification
<1>8. CASE GetLookupLast(r)
  BY <1>8, ReadTyped DEF GetLookupLast, PCs
<1>9. CASE DeleteLookup(r)
  BY <1>9 DEF DeleteLookup, Goto, TypeOK, PCs, NoItem, LookupItem, Notification
<1>10. CASE Publish(r)
  BY <1>10 DEF Publish, Goto, Fault, TypeOK, items, PCs
<1>11. CASE MarkInvite(r)
  BY <1>11 DEF MarkInvite, Goto, TypeOK, PCs, Notification
<1>12. CASE MarkLookup(r)
  <2>1. lookup' \in LookupItem
    BY <1>12 DEF MarkLookup, TypeOK, LookupItem, Notification
  <2> QED
    BY <1>12, <2>1 DEF MarkLookup, Goto, TypeOK, PCs
<1>13. CASE Dies(r)
  BY <1>13 DEF Dies, Goto, Fault, TypeOK, items, PCs
<1> QED
  BY <1>1, <1>2, <1>3, <1>4, <1>5, <1>6, <1>7, <1>8, <1>9, <1>10, <1>11, <1>12, <1>13 DEF Step

\* The items, and what each request remembers of them, keep their types.
THEOREM TypeCorrect == Spec => []TypeOK
<1>1. Init => TypeOK
  BY DEF Init, TypeOK, NoItem, LookupItem, Notification, PCs
<1>2. TypeOK /\ [Next]_vars => TypeOK'
  <2>1. ASSUME TypeOK, UNCHANGED vars PROVE TypeOK'
    BY <2>1 DEF vars, items, TypeOK
  <2> QED
    BY <2>1, StepTyped DEF Next
<1> QED
  BY <1>1, <1>2, PTL DEF Spec

-----------------------------------------------------------------------------
(* What a read does, once for the three places that read the lookup. *)

\* The request finds nothing, or works on the invite that the present or the
\* last deleted lookup names; only a lagging read sees something else than what
\* is there.
ReadOutcome(r, none) ==
    /\ UNCHANGED <<lookup, before, invite, published>>
    /\ \/ /\ pc' = [pc EXCEPT ![r] = none]
          /\ UNCHANGED <<on, copy>>
          /\ (lookup.id = None /\ UNCHANGED faults) \/ faults' = faults + 1
       \/ /\ pc' = [pc EXCEPT ![r] = "getInvite"]
          /\ \E item \in {lookup, before} :
                /\ item.id # None
                /\ on' = [on EXCEPT ![r] = item.id]
                /\ copy' = [copy EXCEPT ![r] = item.says]
                /\ (item = lookup /\ UNCHANGED faults) \/ faults' = faults + 1

\* Every read of the lookup has one of these outcomes.
LEMMA ReadEffect ==
    ASSUME NEW r \in Requests, NEW none, ReadLookup(r, none)
    PROVE  ReadOutcome(r, none)
<1>1. CASE Sees(r, lookup, none) /\ UNCHANGED faults
  BY <1>1 DEF Sees, ReadLookup, ReadOutcome, Goto, items
<1>2. CASE \E item \in {NoItem, before} : Sees(r, item, none) /\ Fault
  <2>1. CASE Sees(r, NoItem, none) /\ Fault
    BY <2>1 DEF Sees, ReadLookup, ReadOutcome, Goto, items, Fault, NoItem
  <2>2. CASE Sees(r, before, none) /\ Fault
    BY <2>2 DEF Sees, ReadLookup, ReadOutcome, Goto, items, Fault
  <2> QED
    BY <1>2, <2>1, <2>2
<1> QED
  BY <1>1, <1>2 DEF ReadLookup

-----------------------------------------------------------------------------
(* An accepted request has an invite. *)

\* Where a request works on the invite it would create itself ...
OwnPCs == {"start", "putLookup", "getLookup", "putLookupAgain", "putInvite",
           "getLookupLast", "deleteLookup"}
\* ... and where the invite it works on has been seen or put.
InvitePCs == {"publish", "markSent", "markFailed", "markLookupSent", "markLookupFailed",
              "accepted", "undelivered"}

ExistsInv ==
    /\ TypeOK
    /\ \A r \in Requests : pc[r] \in OwnPCs => on[r] = r
    /\ \A r \in Requests : pc[r] \in InvitePCs => invite[on[r]] # "absent"

\* Every step preserves it: invite items are never removed, and a request moves
\* to InvitePCs only with an invite it has seen or put.
LEMMA StepExists ==
    ASSUME ExistsInv, NEW r \in Requests, Step(r) \/ Dies(r)
    PROVE  ExistsInv'
<1>0. TypeOK'
  BY StepTyped DEF ExistsInv
<1>a. ASSUME NEW none \in OwnPCs, pc[r] \in OwnPCs, ReadLookup(r, none) PROVE ExistsInv'
  <2>1. ReadOutcome(r, none)
    BY <1>a, ReadEffect
  <2> QED
    BY <1>0, <1>a, <2>1 DEF ReadOutcome, ExistsInv, TypeOK, OwnPCs, InvitePCs
<1>1. CASE Start(r)
  BY <1>1, <1>a DEF Start, OwnPCs
<1>2. CASE GetInvite(r)
  BY <1>0, <1>2 DEF GetInvite, AfterInvite, Goto, ExistsInv, TypeOK, items, OwnPCs, InvitePCs
<1>3. CASE Repair(r)
  BY <1>0, <1>3 DEF Repair, Goto, ExistsInv, TypeOK, OwnPCs, InvitePCs, Notification
<1>4. CASE PutLookup(r)
  BY <1>0, <1>4 DEF PutLookup, Goto, ExistsInv, TypeOK, OwnPCs, InvitePCs
<1>5. CASE GetLookup(r)
  BY <1>5, <1>a DEF GetLookup, OwnPCs
<1>6. CASE PutLookupAgain(r)
  BY <1>0, <1>6 DEF PutLookupAgain, Goto, ExistsInv, TypeOK, OwnPCs, InvitePCs
<1>7. CASE PutInvite(r)
  BY <1>0, <1>7 DEF PutInvite, Goto, ExistsInv, TypeOK, OwnPCs, InvitePCs
<1>8. CASE GetLookupLast(r)
  BY <1>8, <1>a DEF GetLookupLast, OwnPCs
<1>9. CASE DeleteLookup(r)
  BY <1>0, <1>9 DEF DeleteLookup, Goto, ExistsInv, TypeOK, OwnPCs, InvitePCs
<1>10. CASE Publish(r)
  BY <1>0, <1>10 DEF Publish, Goto, ExistsInv, TypeOK, items, OwnPCs, InvitePCs
<1>11. CASE MarkInvite(r)
  BY <1>0, <1>11 DEF MarkInvite, Goto, ExistsInv, TypeOK, OwnPCs, InvitePCs
<1>12. CASE MarkLookup(r)
  BY <1>0, <1>12 DEF MarkLookup, Goto, ExistsInv, TypeOK, OwnPCs, InvitePCs
<1>13. CASE Dies(r)
  BY <1>0, <1>13 DEF Dies, Goto, ExistsInv, TypeOK, items, OwnPCs, InvitePCs
<1> QED
  BY <1>1, <1>2, <1>3, <1>4, <1>5, <1>6, <1>7, <1>8, <1>9, <1>10, <1>11, <1>12, <1>13 DEF Step

\* A request works on its own invite or on one that exists, at the places where
\* ExistsInv says so.
LEMMA ExistsAlways == Spec => []ExistsInv
<1>1. Init => ExistsInv
  BY DEF Init, ExistsInv, TypeOK, NoItem, LookupItem, Notification, PCs, OwnPCs, InvitePCs
<1>2. ExistsInv /\ [Next]_vars => ExistsInv'
  <2>1. ASSUME ExistsInv, UNCHANGED vars PROVE ExistsInv'
    BY <2>1 DEF vars, items, ExistsInv, TypeOK
  <2> QED
    BY <2>1, StepExists DEF Next
<1> QED
  BY <1>1, <1>2, PTL DEF Spec

\* A request is answered 202 only with an invite that exists, whatever fails.
THEOREM AcceptedHasInvite == Spec => []AcceptedInviteExists
<1>1. ExistsInv => AcceptedInviteExists
  BY DEF ExistsInv, AcceptedInviteExists, InvitePCs
<1> QED
  BY <1>1, ExistsAlways, PTL

-----------------------------------------------------------------------------
(* Rollbacks. *)

HolderPCs == {"putInvite", "getLookupLast", "deleteLookup"}

\* RollbackIsOwn is inductive: the lookup is deleted only by a holder, which is
\* the request it names and holds no longer.
LEMMA StepRollback ==
    ASSUME TypeOK, RollbackIsOwn, NEW r \in Requests, Step(r) \/ Dies(r)
    PROVE  RollbackIsOwn'
<1> USE NoneAssumption
<1>a. ASSUME NEW none, none \in HolderPCs => lookup.id = r, ReadLookup(r, none)
      PROVE  RollbackIsOwn'
  <2>1. ReadOutcome(r, none)
    BY <1>a, ReadEffect
  <2> QED
    BY <1>a, <2>1 DEF ReadOutcome, RollbackIsOwn, TypeOK, HolderPCs
<1>1. CASE Start(r)
  BY <1>1, <1>a DEF Start, HolderPCs
<1>2. CASE GetInvite(r)
  BY <1>2 DEF GetInvite, AfterInvite, Goto, RollbackIsOwn, TypeOK, items
<1>3. CASE Repair(r)
  BY <1>3 DEF Repair, Goto, RollbackIsOwn, TypeOK
<1>4. CASE PutLookup(r)
  BY <1>4 DEF PutLookup, WriteLookup, Goto, RollbackIsOwn, TypeOK
<1>5. CASE GetLookup(r)
  BY <1>5, <1>a DEF GetLookup, HolderPCs
<1>6. CASE PutLookupAgain(r)
  BY <1>6 DEF PutLookupAgain, WriteLookup, Goto, RollbackIsOwn, TypeOK
<1>7. CASE PutInvite(r)
  BY <1>7 DEF PutInvite, Goto, RollbackIsOwn, TypeOK
<1>8. CASE GetLookupLast(r)
  BY <1>8, <1>a DEF GetLookupLast, RollbackIsOwn
<1>9. CASE DeleteLookup(r)
  BY <1>9 DEF DeleteLookup, Goto, RollbackIsOwn, TypeOK
<1>10. CASE Publish(r)
  BY <1>10 DEF Publish, Goto, RollbackIsOwn, TypeOK, items
<1>11. CASE MarkInvite(r)
  BY <1>11 DEF MarkInvite, Goto, RollbackIsOwn, TypeOK
<1>12. CASE MarkLookup(r)
  <2>1. lookup'.id = lookup.id
    BY <1>12 DEF MarkLookup, TypeOK, LookupItem
  <2> QED
    BY <1>12, <2>1 DEF MarkLookup, Goto, RollbackIsOwn, TypeOK
<1>13. CASE Dies(r)
  BY <1>13 DEF Dies, Goto, RollbackIsOwn, TypeOK, items
<1> QED
  BY <1>1, <1>2, <1>3, <1>4, <1>5, <1>6, <1>7, <1>8, <1>9, <1>10, <1>11, <1>12, <1>13 DEF Step

\* A rollback deletes the request's own lookup and nobody else's, whatever fails.
THEOREM RollbackOnlyOwn == Spec => []RollbackIsOwn
<1>1. Init => RollbackIsOwn
  BY DEF Init, RollbackIsOwn
<1>2. TypeOK /\ RollbackIsOwn /\ [Next]_vars => RollbackIsOwn'
  <2>1. ASSUME RollbackIsOwn, UNCHANGED vars PROVE RollbackIsOwn'
    BY <2>1 DEF vars, items, RollbackIsOwn
  <2> QED
    BY <2>1, StepRollback DEF Next
<1> QED
  BY <1>1, <1>2, TypeCorrect, PTL DEF Spec

-----------------------------------------------------------------------------
(* The number of invites. *)

\* G is the set of requests whose lookup has been rolled back.  Each of them has
\* cost a failure, one that is about to roll back has had its failure already,
\* and no request knows, or has put, an invite that is neither in G nor named by
\* the present lookup.
Accounts(G) ==
    /\ G \subseteq Requests
    /\ IsFiniteSet(G)
    /\ Cardinality(G) <= faults
    /\ \A r \in Requests : pc[r] = "deleteLookup" => Cardinality(G) + 1 <= faults
    /\ before.id \in G \cup {None}
    /\ \A r \in Requests : pc[r] \in {"getInvite", "repair"} => on[r] \in G \cup {lookup.id}
    /\ Invited \subseteq G \cup {lookup.id}

BoundInv == \E G \in SUBSET Requests : Accounts(G)

\* A step that deletes no lookup keeps the accounts; a rollback adds its request.
LEMMA StepAccounts ==
    ASSUME ExistsInv, RollbackIsOwn, NEW G \in SUBSET Requests, Accounts(G),
           NEW r \in Requests, Step(r) \/ Dies(r)
    PROVE  BoundInv'
<1> USE NoneAssumption
<1>0. TypeOK /\ Cardinality(G) \in Nat
  BY FS_CardinalityType DEF Accounts, ExistsInv
<1>s. SUFFICES ASSUME ~DeleteLookup(r) PROVE Accounts(G)'
  <2>1. CASE ~DeleteLookup(r)
    BY <2>1, <1>s DEF BoundInv
  <2>2. CASE DeleteLookup(r)
    <3>1. lookup.id = r
      BY <1>0, <2>2 DEF DeleteLookup, RollbackIsOwn
    <3>2. IsFiniteSet(G \cup {r}) /\ Cardinality(G \cup {r}) <= Cardinality(G) + 1
      <4>1. /\ IsFiniteSet(G \cup {r})
            /\ Cardinality(G \cup {r}) = IF r \in G THEN Cardinality(G) ELSE Cardinality(G) + 1
        BY FS_AddElement DEF Accounts
      <4> QED
        BY <1>0, <4>1
    <3>3. IsFiniteSet(G \cup {r}) /\ Cardinality(G \cup {r}) \in Nat
      BY <3>2, FS_CardinalityType
    <3>4. Cardinality(G \cup {r}) <= faults'
      BY <1>0, <2>2, <3>2, <3>3 DEF DeleteLookup, Accounts, TypeOK
    <3>5. \A q \in Requests : pc'[q] # "deleteLookup"
      BY <1>0, <2>2, <3>1 DEF DeleteLookup, Goto, RollbackIsOwn, TypeOK
    <3>6. before'.id \in G \cup {r}
      BY <1>0, <2>2, <3>1 DEF DeleteLookup
    <3>7. \A q \in Requests : pc'[q] \in {"getInvite", "repair"} => on'[q] \in G \cup {r}
      BY <1>0, <2>2, <3>1 DEF DeleteLookup, Goto, Accounts, TypeOK
    <3>8. Invited' \subseteq G \cup {r}
      BY <1>0, <2>2, <3>1 DEF DeleteLookup, Accounts, Invited
    <3>9. Accounts(G \cup {r})'
      BY <3>2, <3>4, <3>5, <3>6, <3>7, <3>8 DEF Accounts
    <3> QED
      BY <3>9 DEF BoundInv
  <2> QED
    BY <2>1, <2>2
<1>a. ASSUME NEW none \in {"putLookup", "putLookupAgain", "deleteLookup"},
             none = "deleteLookup" => lookup.id = r, ReadLookup(r, none)
      PROVE  Accounts(G)'
  <2>1. ReadOutcome(r, none)
    BY <1>a, ReadEffect
  <2>2. faults' \in Nat /\ faults <= faults'
    BY <1>0, <2>1 DEF ReadOutcome, TypeOK
  <2>3. \A q \in Requests : pc'[q] = "deleteLookup" => Cardinality(G) + 1 <= faults'
    BY <1>0, <1>a, <2>1, <2>2 DEF ReadOutcome, Accounts, TypeOK
  <2>4. \A q \in Requests : pc'[q] \in {"getInvite", "repair"} => on'[q] \in G \cup {lookup.id}
    BY <1>0, <1>a, <2>1 DEF ReadOutcome, Accounts, TypeOK
  <2> QED
    BY <1>0, <2>1, <2>2, <2>3, <2>4 DEF ReadOutcome, Accounts, Invited, TypeOK
<1>1. CASE Start(r)
  BY <1>1, <1>a DEF Start
<1>2. CASE GetInvite(r)
  BY <1>0, <1>2 DEF GetInvite, AfterInvite, Goto, Fault, Accounts, Invited, TypeOK, items
<1>3. CASE Repair(r)
  <2>1. Invited' \subseteq G \cup {lookup.id}
    BY <1>0, <1>3 DEF Repair, Accounts, Invited, TypeOK
  <2> QED
    BY <1>0, <1>3, <2>1 DEF Repair, Goto, Accounts, TypeOK
<1>4. CASE PutLookup(r)
  BY <1>0, <1>4 DEF PutLookup, WriteLookup, Goto, Fault, Accounts, Invited, TypeOK
<1>5. CASE GetLookup(r)
  BY <1>5, <1>a DEF GetLookup
<1>6. CASE PutLookupAgain(r)
  BY <1>0, <1>6 DEF PutLookupAgain, WriteLookup, Goto, Fault, Accounts, Invited, TypeOK
<1>7. CASE PutInvite(r)
  <2>1. lookup.id = r
    BY <1>7 DEF PutInvite, RollbackIsOwn
  <2>2. Invited' \subseteq G \cup {lookup.id}
    BY <1>0, <1>7, <2>1 DEF PutInvite, Accounts, Invited, TypeOK
  <2> QED
    BY <1>0, <1>7, <2>2 DEF PutInvite, Goto, Fault, Accounts, TypeOK
<1>8. CASE GetLookupLast(r)
  BY <1>8, <1>a DEF GetLookupLast, RollbackIsOwn
<1>9. CASE Publish(r)
  BY <1>0, <1>9 DEF Publish, Goto, Fault, Accounts, Invited, TypeOK, items
<1>10. CASE MarkInvite(r)
  <2>1. Invited' \subseteq G \cup {lookup.id}
    BY <1>0, <1>10 DEF MarkInvite, Accounts, Invited, ExistsInv, InvitePCs, TypeOK
  <2> QED
    BY <1>0, <1>10, <2>1 DEF MarkInvite, Goto, Accounts, TypeOK
<1>11. CASE MarkLookup(r)
  <2>1. lookup'.id = lookup.id
    BY <1>0, <1>11 DEF MarkLookup, TypeOK, LookupItem
  <2> QED
    BY <1>0, <1>11, <2>1 DEF MarkLookup, Goto, Accounts, Invited, TypeOK
<1>12. CASE Dies(r)
  BY <1>0, <1>12 DEF Dies, Goto, Fault, Accounts, Invited, TypeOK, items
<1> QED
  BY <1>s, <1>1, <1>2, <1>3, <1>4, <1>5, <1>6, <1>7, <1>8, <1>9, <1>10, <1>11, <1>12 DEF Step

\* One invite for the address, and at most one more for each failure.
THEOREM InvitesAreBounded == Spec => []InvitesBounded
<1>1. Init => BoundInv
  <2>1. IsFiniteSet({}) /\ Cardinality({}) = 0
    BY FS_EmptySet
  <2>2. Init => Accounts({})
    BY <2>1 DEF Init, Accounts, Invited, NoItem
  <2> QED
    BY <2>2 DEF BoundInv
<1>2. ExistsInv /\ RollbackIsOwn /\ BoundInv /\ [Next]_vars => BoundInv'
  <2>1. ASSUME BoundInv, UNCHANGED vars PROVE BoundInv'
    BY <2>1 DEF vars, items, BoundInv, Accounts, Invited
  <2> QED
    BY <2>1, StepAccounts DEF Next, BoundInv
<1>3. TypeOK /\ BoundInv => InvitesBounded
  <2> SUFFICES ASSUME TypeOK, BoundInv PROVE InvitesBounded
    OBVIOUS
  <2>1. PICK G \in SUBSET Requests : Accounts(G)
    BY DEF BoundInv
  <2>2. /\ IsFiniteSet(G \cup {lookup.id})
        /\ Cardinality(G \cup {lookup.id}) <= Cardinality(G) + 1
        /\ Cardinality(G) \in Nat
    BY <2>1, FS_AddElement, FS_CardinalityType DEF Accounts
  <2>3. Invited \in SUBSET (G \cup {lookup.id})
    BY <2>1 DEF Accounts
  <2>4. IsFiniteSet(Invited) /\ Cardinality(Invited) <= Cardinality(G \cup {lookup.id})
    BY <2>2, <2>3, FS_Subset
  <2>5. Cardinality(Invited) \in Nat /\ Cardinality(G \cup {lookup.id}) \in Nat
    BY <2>2, <2>4, FS_CardinalityType
  <2> QED
    BY <2>1, <2>2, <2>4, <2>5 DEF Accounts, InvitesBounded, TypeOK
<1> QED
  BY <1>1, <1>2, <1>3, TypeCorrect, ExistsAlways, RollbackOnlyOwn, PTL DEF Spec

-----------------------------------------------------------------------------
(* Notifications. *)

\* PendingHasNotifier is preserved: the request that puts a pending invite is
\* its notifier, and stays so until it marks it.
LEMMA StepPending ==
    ASSUME ExistsInv, PendingHasNotifier, NEW r \in Requests, Step(r) \/ Dies(r)
    PROVE  PendingHasNotifier'
<1> USE NoneAssumption
<1>0. TypeOK
  BY DEF ExistsInv
<1>s. SUFFICES ASSUME faults' = 0, faults = 0 PROVE PendingHasNotifier'
  <2>1. ASSUME faults' = 0 PROVE faults = 0
    <3>1. faults' = faults \/ faults' = faults + 1
      <4>1. \A none : ReadLookup(r, none) => faults' = faults \/ faults' = faults + 1
        BY DEF ReadLookup, Fault
      <4> QED
        BY <4>1 DEF Step, Start, GetInvite, Repair, PutLookup, GetLookup, PutLookupAgain, PutInvite,
           GetLookupLast, DeleteLookup, Publish, MarkInvite, MarkLookup, Dies, Fault
    <3> QED
      BY <1>0, <2>1, <3>1 DEF TypeOK
  <2> QED
    BY <1>s, <2>1 DEF PendingHasNotifier
<1>a. ASSUME NEW none, pc[r] \in {"start", "getLookup", "getLookupLast"}, ReadLookup(r, none)
      PROVE  PendingHasNotifier'
  <2>1. ReadOutcome(r, none)
    BY <1>a, ReadEffect
  <2> QED
    BY <1>0, <1>s, <1>a, <2>1 DEF ReadOutcome, PendingHasNotifier, TypeOK, LookupItem
<1>1. CASE Start(r)
  BY <1>1, <1>a DEF Start
<1>2. CASE GetInvite(r)
  BY <1>0, <1>s, <1>2 DEF GetInvite, Goto, PendingHasNotifier, TypeOK, LookupItem, items
<1>3. CASE Repair(r)
  BY <1>0, <1>s, <1>3 DEF Repair, Goto, PendingHasNotifier, TypeOK, LookupItem, Notification
<1>4. CASE PutLookup(r)
  BY <1>0, <1>s, <1>4 DEF PutLookup, WriteLookup, Goto, Fault, PendingHasNotifier, TypeOK, LookupItem
<1>5. CASE GetLookup(r)
  BY <1>5, <1>a DEF GetLookup
<1>6. CASE PutLookupAgain(r)
  BY <1>0, <1>s, <1>6
     DEF PutLookupAgain, WriteLookup, Goto, Fault, PendingHasNotifier, TypeOK, LookupItem
<1>7. CASE PutInvite(r)
  <2>1. on[r] = r
    BY <1>7 DEF PutInvite, ExistsInv, OwnPCs
  <2> QED
    BY <1>0, <1>s, <1>7, <2>1 DEF PutInvite, Goto, Fault, PendingHasNotifier, TypeOK, LookupItem
<1>8. CASE GetLookupLast(r)
  BY <1>8, <1>a DEF GetLookupLast
<1>9. CASE DeleteLookup(r)
  BY <1>0, <1>s, <1>9 DEF DeleteLookup, Goto, PendingHasNotifier, TypeOK, NoItem
<1>10. CASE Publish(r)
  BY <1>0, <1>s, <1>10 DEF Publish, Goto, Fault, PendingHasNotifier, TypeOK, LookupItem, items
<1>11. CASE MarkInvite(r)
  BY <1>0, <1>s, <1>11 DEF MarkInvite, Goto, PendingHasNotifier, TypeOK, LookupItem
<1>12. CASE MarkLookup(r)
  <2>1. lookup'.id = lookup.id
    BY <1>0, <1>12 DEF MarkLookup, TypeOK, LookupItem
  <2> QED
    BY <1>0, <1>s, <1>12, <2>1 DEF MarkLookup, Goto, PendingHasNotifier, TypeOK, LookupItem
<1>13. CASE Dies(r)
  BY <1>0, <1>s, <1>13 DEF Dies, Fault
<1> QED
  BY <1>1, <1>2, <1>3, <1>4, <1>5, <1>6, <1>7, <1>8, <1>9, <1>10, <1>11, <1>12, <1>13 DEF Step

\* Without failures an invite that waits for its notification, or a lookup that
\* waits for its invite, has a request that will see to it.
THEOREM PendingIsNotified == Spec => []PendingHasNotifier
<1>1. Init => PendingHasNotifier
  BY DEF Init, PendingHasNotifier, NoItem
<1>2. ExistsInv /\ PendingHasNotifier /\ [Next]_vars => PendingHasNotifier'
  <2>1. ASSUME PendingHasNotifier, UNCHANGED vars PROVE PendingHasNotifier'
    BY <2>1 DEF vars, items, PendingHasNotifier
  <2> QED
    BY <2>1, StepPending DEF Next
<1> QED
  BY <1>1, <1>2, ExistsAlways, PTL DEF Spec

-----------------------------------------------------------------------------
(* Sent means published. *)

SentPCs == {"markSent", "markLookupSent"}
FoundPCs == {"getInvite", "repair"} \cup InvitePCs

\* Wherever the word sent may come from, something was published.
SentOnlyAfter ==
    \/ \E j \in Requests : published[j] > 0
    \/ /\ \A i \in Requests : invite[i] # "sent" /\ copy[i] # "sent" /\ pc[i] \notin SentPCs
       /\ lookup.says # "sent" /\ before.says # "sent"

\* Without failures there is one lookup for good, everybody who has found an
\* invite works on the one it names, and each source of the word sent is about
\* the invite it names.
SentIsOwn ==
    /\ \A r \in Requests : pc[r] # "deleteLookup"
    /\ \A r \in Requests : pc[r] \in FoundPCs => on[r] = lookup.id
    /\ \A r \in Requests : pc[r] \in SentPCs \/ copy[r] = "sent" => published[on[r]] > 0
    /\ \A i \in Requests : invite[i] = "sent" => published[i] > 0
    /\ lookup.says = "sent" => lookup.id # None /\ published[lookup.id] > 0

\* The first part is preserved by every step.
LEMMA StepSentOnlyAfter ==
    ASSUME TypeOK, SentOnlyAfter, NEW r \in Requests, Step(r) \/ Dies(r)
    PROVE  SentOnlyAfter'
<1>a. ASSUME NEW none \in PCs \ SentPCs, ReadLookup(r, none) PROVE SentOnlyAfter'
  <2>1. ReadOutcome(r, none)
    BY <1>a, ReadEffect
  <2> QED
    BY <1>a, <2>1 DEF ReadOutcome, SentOnlyAfter, SentPCs, TypeOK
<1>1. CASE Start(r)
  BY <1>1, <1>a DEF Start, PCs, SentPCs
<1>2. CASE GetInvite(r)
  BY <1>2 DEF GetInvite, AfterInvite, Goto, SentOnlyAfter, SentPCs, TypeOK, items
<1>3. CASE Repair(r)
  BY <1>3 DEF Repair, Goto, SentOnlyAfter, SentPCs, TypeOK
<1>4. CASE PutLookup(r)
  BY <1>4 DEF PutLookup, WriteLookup, Goto, SentOnlyAfter, SentPCs, TypeOK
<1>5. CASE GetLookup(r)
  BY <1>5, <1>a DEF GetLookup, PCs, SentPCs
<1>6. CASE PutLookupAgain(r)
  BY <1>6 DEF PutLookupAgain, WriteLookup, Goto, SentOnlyAfter, SentPCs, TypeOK
<1>7. CASE PutInvite(r)
  BY <1>7 DEF PutInvite, Goto, SentOnlyAfter, SentPCs, TypeOK
<1>8. CASE GetLookupLast(r)
  BY <1>8, <1>a DEF GetLookupLast, PCs, SentPCs
<1>9. CASE DeleteLookup(r)
  BY <1>9 DEF DeleteLookup, Goto, SentOnlyAfter, SentPCs, TypeOK, NoItem
<1>10. CASE Publish(r)
  BY <1>10 DEF Publish, Goto, SentOnlyAfter, SentPCs, TypeOK, items
<1>11. CASE MarkInvite(r)
  BY <1>11 DEF MarkInvite, Goto, SentOnlyAfter, SentPCs, TypeOK
<1>12. CASE MarkLookup(r)
  BY <1>12 DEF MarkLookup, Goto, SentOnlyAfter, SentPCs, TypeOK, LookupItem
<1>13. CASE Dies(r)
  BY <1>13 DEF Dies, Goto, SentOnlyAfter, SentPCs, TypeOK, items
<1> QED
  BY <1>1, <1>2, <1>3, <1>4, <1>5, <1>6, <1>7, <1>8, <1>9, <1>10, <1>11, <1>12, <1>13 DEF Step

\* The second part is preserved by every step that does not fail.
LEMMA StepSentIsOwn ==
    ASSUME ExistsInv, RollbackIsOwn, faults = 0 => SentIsOwn,
           NEW r \in Requests, Step(r) \/ Dies(r), faults' = 0
    PROVE  SentIsOwn'
<1> USE NoneAssumption
<1>0. TypeOK
  BY DEF ExistsInv
<1>s. faults = 0 /\ SentIsOwn
  <2>1. faults' = faults \/ faults' = faults + 1
    <3>1. \A none : ReadLookup(r, none) => faults' = faults \/ faults' = faults + 1
      BY DEF ReadLookup, Fault
    <3> QED
      BY <3>1 DEF Step, Start, GetInvite, Repair, PutLookup, GetLookup, PutLookupAgain, PutInvite,
         GetLookupLast, DeleteLookup, Publish, MarkInvite, MarkLookup, Dies, Fault
  <2> QED
    BY <1>0, <2>1 DEF TypeOK
<1>a. ASSUME NEW none \in OwnPCs, none = "deleteLookup" => lookup.id = r, ReadLookup(r, none)
      PROVE  SentIsOwn'
  <2>1. ReadOutcome(r, none)
    BY <1>a, ReadEffect
  <2>2. CASE pc' = [pc EXCEPT ![r] = none] /\ lookup.id = None /\ UNCHANGED <<on, copy>>
    BY <1>0, <1>s, <1>a, <2>1, <2>2
       DEF ReadOutcome, SentIsOwn, SentPCs, FoundPCs, InvitePCs, OwnPCs, TypeOK
  <2>3. CASE /\ pc' = [pc EXCEPT ![r] = "getInvite"]
             /\ lookup.id # None
             /\ on' = [on EXCEPT ![r] = lookup.id]
             /\ copy' = [copy EXCEPT ![r] = lookup.says]
    BY <1>0, <1>s, <1>a, <2>1, <2>3
       DEF ReadOutcome, SentIsOwn, SentPCs, FoundPCs, InvitePCs, OwnPCs, TypeOK
  <2> QED
    BY <1>s, <2>1, <2>2, <2>3 DEF ReadOutcome
<1>1. CASE Start(r)
  BY <1>1, <1>a DEF Start, OwnPCs
<1>2. CASE GetInvite(r)
  BY <1>0, <1>s, <1>2
     DEF GetInvite, AfterInvite, Goto, SentIsOwn, SentPCs, FoundPCs, InvitePCs, TypeOK, items
<1>3. CASE Repair(r)
  BY <1>0, <1>s, <1>3 DEF Repair, Goto, SentIsOwn, SentPCs, FoundPCs, InvitePCs, TypeOK
<1>4. CASE PutLookup(r)
  BY <1>0, <1>s, <1>4
     DEF PutLookup, WriteLookup, Goto, Fault, SentIsOwn, SentPCs, FoundPCs, InvitePCs, TypeOK
<1>5. CASE GetLookup(r)
  BY <1>5, <1>a DEF GetLookup, OwnPCs
<1>6. CASE PutLookupAgain(r)
  BY <1>0, <1>s, <1>6
     DEF PutLookupAgain, WriteLookup, Goto, Fault, SentIsOwn, SentPCs, FoundPCs, InvitePCs, TypeOK
<1>7. CASE PutInvite(r)
  <2>1. on[r] = r /\ lookup.id = r
    BY <1>7 DEF PutInvite, ExistsInv, OwnPCs, RollbackIsOwn
  <2> QED
    BY <1>0, <1>s, <1>7, <2>1
       DEF PutInvite, Goto, Fault, SentIsOwn, SentPCs, FoundPCs, InvitePCs, TypeOK
<1>8. CASE GetLookupLast(r)
  BY <1>8, <1>a DEF GetLookupLast, OwnPCs, RollbackIsOwn
<1>9. CASE DeleteLookup(r)
  BY <1>s, <1>9 DEF DeleteLookup, SentIsOwn
<1>10. CASE Publish(r)
  BY <1>0, <1>s, <1>10
     DEF Publish, Goto, Fault, SentIsOwn, SentPCs, FoundPCs, InvitePCs, TypeOK, items, LookupItem
<1>11. CASE MarkInvite(r)
  BY <1>0, <1>s, <1>11 DEF MarkInvite, Goto, SentIsOwn, SentPCs, FoundPCs, InvitePCs, TypeOK
<1>12. CASE MarkLookup(r)
  <2>1. /\ lookup'.id = lookup.id
        /\ lookup'.says = "sent" => lookup' = lookup \/ pc[r] = "markLookupSent"
    BY <1>0, <1>12 DEF MarkLookup, TypeOK, LookupItem
  <2> QED
    BY <1>0, <1>s, <1>12, <2>1 DEF MarkLookup, Goto, SentIsOwn, SentPCs, FoundPCs, InvitePCs, TypeOK
<1>13. CASE Dies(r)
  BY <1>0, <1>s, <1>13 DEF Dies, Fault
<1> QED
  BY <1>1, <1>2, <1>3, <1>4, <1>5, <1>6, <1>7, <1>8, <1>9, <1>10, <1>11, <1>12, <1>13 DEF Step

\* An invite says sent only when it, or after a failure some invite of the
\* address, was announced.
THEOREM SentIsPublished == Spec => []SentWasPublished
<1> DEFINE Inv == SentOnlyAfter /\ (faults = 0 => SentIsOwn)
<1>1. Init => Inv
  BY DEF Init, SentOnlyAfter, SentIsOwn, SentPCs, FoundPCs, InvitePCs, NoItem
<1>2. ExistsInv /\ RollbackIsOwn /\ Inv /\ [Next]_vars => Inv'
  <2>1. ASSUME Inv, UNCHANGED vars PROVE Inv'
    BY <2>1 DEF vars, items, SentOnlyAfter, SentIsOwn
  <2>2. ASSUME ExistsInv, RollbackIsOwn, Inv, Next PROVE Inv'
    <3>1. PICK r \in Requests : Step(r) \/ Dies(r)
      BY <2>2 DEF Next
    <3>2. SentOnlyAfter'
      BY <2>2, <3>1, StepSentOnlyAfter DEF ExistsInv
    <3>3. faults' = 0 => SentIsOwn'
      BY <2>2, <3>1, StepSentIsOwn
    <3> QED
      BY <3>2, <3>3
  <2> QED
    BY <2>1, <2>2
<1>3. Inv => SentWasPublished
  BY DEF SentOnlyAfter, SentIsOwn, SentWasPublished
<1> QED
  BY <1>1, <1>2, <1>3, ExistsAlways, RollbackOnlyOwn, PTL DEF Spec

=============================================================================
