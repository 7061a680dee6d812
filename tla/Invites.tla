-------------------------------- MODULE Invites --------------------------------
(***************************************************************************)
(* handle_invite_user: concurrent POST .../users/invite requests for one   *)
(* e-mail address of one tenant (addresses share nothing).                 *)
(*                                                                         *)
(* An invite is two items: the lookup item, whose key is the address, and  *)
(* the invite item, whose key is a fresh id.  The lookup is put first; a   *)
(* request that finds a lookup without its invite puts the invite itself   *)
(* (repair); a request that cannot put its invite deletes the lookup again *)
(* (rollback).  Then tenant.user_invited is published and its outcome is   *)
(* recorded on both items.  Every remote call is a step.                   *)
(*                                                                         *)
(* Nothing in the repository moves an invite out of status pending, and    *)
(* the table has no TTL, so invite items are never removed and the         *)
(* branches for another status are not taken.                              *)
(***************************************************************************)
EXTENDS Naturals, FiniteSets

CONSTANTS
    Requests,    \* the requests; also the id of the invite each would create
    None,        \* no lookup item
    MaxFaults    \* bound: calls that fail, answers that are lost, reads that lag, deaths

ASSUME NoneAssumption == None \notin Requests
ASSUME BoundsAssumption == MaxFaults \in Nat

VARIABLES
    lookup,      \* the lookup item: the invite it names, its notificationStatus
    before,      \* the lookup item that was deleted last
    invite,      \* the invite items: their notificationStatus, or "absent"
    pc,          \* what each request does next
    on,          \* the invite each request works on: its own, or the one it found
    copy,        \* the notificationStatus in the lookup it found
    published,   \* how often tenant.user_invited was published for an invite
    faults

items == <<lookup, before, invite>>
vars == <<items, pc, on, copy, published, faults>>

Notification == {"pending", "sent", "failed"}
LookupItem == [id: Requests \cup {None}, says: Notification]
NoItem == [id |-> None, says |-> "pending"]
PCs == {"start", "getInvite", "repair", "putLookup", "getLookup", "putLookupAgain", "putInvite",
        "getLookupLast", "deleteLookup", "publish", "markSent", "markFailed",
        "markLookupSent", "markLookupFailed", "accepted", "undelivered", "error"}
Answers == {"accepted", "undelivered", "error"}

Init ==
    /\ lookup = NoItem /\ before = NoItem
    /\ invite = [i \in Requests |-> "absent"]
    /\ pc = [r \in Requests |-> "start"]
    /\ on = [r \in Requests |-> r]
    /\ copy = [r \in Requests |-> "pending"]
    /\ published = [i \in Requests |-> 0]
    /\ faults = 0

Goto(r, p) == pc' = [pc EXCEPT ![r] = p]
Fault == faults < MaxFaults /\ faults' = faults + 1

-----------------------------------------------------------------------------
(* _handle_existing_lookup. *)

\* Mutant: a missing item is not told from an empty one.
SeesAnything(r, item, none) ==
    /\ on' = [on EXCEPT ![r] = item.id]
    /\ copy' = [copy EXCEPT ![r] = item.says]
    /\ Goto(r, IF item.id = None THEN none ELSE "getInvite")

\* The request reads a lookup item: there is none and it goes on to none, or it
\* works on the invite the item names.
Sees(r, item, none) ==
    \/ /\ item.id = None
       /\ Goto(r, none)
       /\ UNCHANGED <<on, copy>>
    \/ /\ item.id # None
       /\ on' = [on EXCEPT ![r] = item.id]
       /\ copy' = [copy EXCEPT ![r] = item.says]
       /\ Goto(r, "getInvite")

\* get_item is eventually consistent: it may lag and see what was there before.
ReadLookup(r, none) ==
    /\ \/ Sees(r, lookup, none) /\ UNCHANGED faults
       \/ \E item \in {NoItem, before} : Sees(r, item, none) /\ Fault
    /\ UNCHANGED <<items, published>>

\* A missing invite is repaired, a failed notification repeated; otherwise the
\* answer is the existing invite.
AfterInvite(status) ==
    CASE status = "absent" -> "repair"
      [] status = "failed" -> "publish"
      [] OTHER -> "accepted"

\* Mutant: the lookup item is trusted.
GetInviteUnseen(r) ==
    /\ pc[r] = "getInvite"
    /\ Goto(r, "accepted")
    /\ UNCHANGED <<items, on, copy, published, faults>>

\* This read may lag too, and find an existing invite in another state.
GetInvite(r) ==
    /\ pc[r] = "getInvite"
    /\ \/ Goto(r, AfterInvite(invite[on[r]])) /\ UNCHANGED faults
       \/ /\ invite[on[r]] # "absent"
          /\ \E status \in {"absent", "failed", "pending"} : Goto(r, AfterInvite(status))
          /\ Fault
    /\ UNCHANGED <<items, on, copy, published>>

\* Mutant: a repaired invite is answered like one that was found.
RepairOnly(r) ==
    /\ pc[r] = "repair"
    /\ invite' = IF invite[on[r]] = "absent" THEN [invite EXCEPT ![on[r]] = copy[r]] ELSE invite
    /\ Goto(r, "accepted")
    /\ UNCHANGED <<lookup, before, on, copy, published, faults>>

\* _invite_from_lookup, put if it does not exist; another repair's invite does
\* as well.  Both notify.
Repair(r) ==
    /\ pc[r] = "repair"
    /\ invite' = IF invite[on[r]] = "absent" THEN [invite EXCEPT ![on[r]] = copy[r]] ELSE invite
    /\ Goto(r, "publish")
    /\ UNCHANGED <<lookup, before, on, copy, published, faults>>

-----------------------------------------------------------------------------
(* A new invite. *)

Start(r) == pc[r] = "start" /\ ReadLookup(r, "putLookup")

WriteLookup(r) == lookup' = [id |-> r, says |-> "pending"]

\* Mutant: the put has no condition.
PutLookupAlways(r) ==
    /\ pc[r] = "putLookup"
    /\ WriteLookup(r)
    /\ Goto(r, "putInvite")
    /\ UNCHANGED <<before, invite, on, copy, published, faults>>

\* The lookup is put if there is none.  When the answer to a put is lost, the
\* SDK repeats it and is refused by the item it has put itself.
PutLookup(r) ==
    /\ pc[r] = "putLookup"
    /\ \/ /\ lookup.id = None
          /\ WriteLookup(r)
          /\ \/ Goto(r, "putInvite") /\ UNCHANGED faults
             \/ Goto(r, "getLookup") /\ Fault
       \/ /\ lookup.id # None
          /\ Goto(r, "getLookup")
          /\ UNCHANGED <<lookup, faults>>
    /\ UNCHANGED <<before, invite, on, copy, published>>

\* Refused: somebody's lookup should be there, and if it is gone again the put
\* is tried once more; a second refusal is an error.
GetLookup(r) == pc[r] = "getLookup" /\ ReadLookup(r, "putLookupAgain")

PutLookupAgain(r) ==
    /\ pc[r] = "putLookupAgain"
    /\ \/ /\ lookup.id = None
          /\ WriteLookup(r)
          /\ \/ Goto(r, "putInvite") /\ UNCHANGED faults
             \/ Goto(r, "error") /\ Fault
       \/ /\ lookup.id # None
          /\ Goto(r, "error")
          /\ UNCHANGED <<lookup, faults>>
    /\ UNCHANGED <<before, invite, on, copy, published>>

\* The invite is put if it does not exist: done, refused (somebody repaired it,
\* or the SDK repeated a put whose answer was lost), or failed with or without
\* having been done, which rolls the lookup back.
PutInvite(r) ==
    /\ pc[r] = "putInvite"
    /\ \/ /\ invite[r] = "absent"
          /\ invite' = [invite EXCEPT ![r] = "pending"]
          /\ \/ Goto(r, "publish") /\ UNCHANGED faults
             \/ Goto(r, "getLookupLast") /\ Fault
             \/ Goto(r, "deleteLookup") /\ Fault
       \/ /\ invite[r] # "absent"
          /\ Goto(r, "getLookupLast")
          /\ UNCHANGED <<invite, faults>>
       \/ /\ Goto(r, "deleteLookup")
          /\ Fault
          /\ UNCHANGED invite
    /\ UNCHANGED <<lookup, before, on, copy, published>>

GetLookupLast(r) == pc[r] = "getLookupLast" /\ ReadLookup(r, "deleteLookup")

\* The rollback, by the lookup's key alone; the exception goes on.
DeleteLookup(r) ==
    /\ pc[r] = "deleteLookup"
    /\ lookup' = NoItem
    /\ before' = IF lookup.id = None THEN before ELSE lookup
    /\ Goto(r, "error")
    /\ UNCHANGED <<invite, on, copy, published, faults>>

-----------------------------------------------------------------------------
(* _deliver_invite_notification. *)

\* Mutant: the outcome is recorded before it is known.
MarkSentFirst(r) ==
    /\ pc[r] = "publish"
    /\ invite' = [invite EXCEPT ![on[r]] = "sent"]
    /\ Goto(r, "markLookupSent")
    /\ UNCHANGED <<lookup, before, on, copy, published, faults>>

\* Published and confirmed, published with the answer lost, or not published.
Publish(r) ==
    /\ pc[r] = "publish"
    /\ \/ /\ published' = [published EXCEPT ![on[r]] = @ + 1]
          /\ \/ Goto(r, "markSent") /\ UNCHANGED faults
             \/ Goto(r, "markFailed") /\ Fault
       \/ /\ Goto(r, "markFailed")
          /\ Fault
          /\ UNCHANGED published
    /\ UNCHANGED <<items, on, copy>>

\* The outcome on the invite item, which exists ...
MarkInvite(r) ==
    /\ \/ /\ pc[r] = "markSent"
          /\ invite' = [invite EXCEPT ![on[r]] = "sent"]
          /\ Goto(r, "markLookupSent")
       \/ /\ pc[r] = "markFailed"
          /\ invite' = [invite EXCEPT ![on[r]] = "failed"]
          /\ Goto(r, "markLookupFailed")
    /\ UNCHANGED <<lookup, before, on, copy, published, faults>>

\* ... and on the lookup item, whichever invite it names by now; when there is
\* none the update raises.
MarkLookup(r) ==
    /\ pc[r] \in {"markLookupSent", "markLookupFailed"}
    /\ \/ /\ lookup.id = None
          /\ Goto(r, "error")
          /\ UNCHANGED lookup
       \/ /\ lookup.id # None
          /\ lookup' = [lookup EXCEPT !.says = IF pc[r] = "markLookupSent" THEN "sent" ELSE "failed"]
          /\ Goto(r, IF pc[r] = "markLookupSent" THEN "accepted" ELSE "undelivered")
    /\ UNCHANGED <<before, invite, on, copy, published, faults>>

\* Any other call raises, or the invocation dies, between two calls.
Dies(r) ==
    /\ pc[r] \notin Answers
    /\ Fault
    /\ Goto(r, "error")
    /\ UNCHANGED <<items, on, copy, published>>

-----------------------------------------------------------------------------

Step(r) ==
    \/ Start(r) \/ GetInvite(r) \/ Repair(r)
    \/ PutLookup(r) \/ GetLookup(r) \/ PutLookupAgain(r)
    \/ PutInvite(r) \/ GetLookupLast(r) \/ DeleteLookup(r)
    \/ Publish(r) \/ MarkInvite(r) \/ MarkLookup(r)

Next == \E r \in Requests : Step(r) \/ Dies(r)

Spec == Init /\ [][Next]_vars

-----------------------------------------------------------------------------
(* Properties. *)

TypeOK ==
    /\ lookup \in LookupItem /\ before \in LookupItem
    /\ invite \in [Requests -> Notification \cup {"absent"}]
    /\ pc \in [Requests -> PCs]
    /\ on \in [Requests -> Requests]
    /\ copy \in [Requests -> Notification]
    /\ published \in [Requests -> Nat]
    /\ faults \in Nat

Invited == {i \in Requests : invite[i] # "absent"}

\* However requests, repairs and rollbacks interleave, an address has one invite,
\* and each failure leaves at most one more (an invite whose lookup was rolled
\* back after it was put or repaired).
InvitesBounded == Cardinality(Invited) <= 1 + faults

\* A request that still has to put its invite, or to roll back, has its own
\* lookup: although the rollback deletes by the address alone, it never takes
\* another request's lookup away, whatever fails.
RollbackIsOwn ==
    \A r \in Requests :
        pc[r] \in {"putInvite", "getLookupLast", "deleteLookup"} => lookup.id = r

\* As long as nothing fails, an invite says sent only when its event was
\* published.  Whatever fails, some invite of the address was announced (a
\* late update may mark the lookup of a successor, which a repair copies).
SentWasPublished ==
    \A i \in Requests : invite[i] = "sent" =>
        \E j \in Requests : published[j] > 0 /\ (faults = 0 => j = i)

\* As long as nothing fails, an invite that waits for its notification has a
\* request that is about to notify, and a lookup without an invite one that is
\* about to put it: a repeated request is answered without doing either.
PendingHasNotifier ==
    faults = 0 =>
        /\ \A i \in Requests : invite[i] = "pending" =>
            \E r \in Requests : on[r] = i /\ pc[r] \in {"publish", "markSent"}
        /\ lookup.id # None /\ invite[lookup.id] = "absent" => pc[lookup.id] = "putInvite"

\* A request is answered 202 only with an invite that exists, whatever fails.
AcceptedInviteExists ==
    \A r \in Requests : pc[r] = "accepted" => invite[on[r]] # "absent"

=============================================================================
