---------------------------- MODULE InviteLedger ----------------------------
(***************************************************************************)
(* What coach invites promise, without transactions or locks: an offer is  *)
(* open until it is accepted, once, or withdrawn; accepting it and joining *)
(* the trainer are one step; a coach never changes trainer.                *)
(***************************************************************************)
CONSTANTS Trainers, Emails, LinkIds, None

VARIABLES offer,    \* state of every invite
          coachOf   \* the trainer each account coaches for

ledger == <<offer, coachOf>>

Offers == [state : {"none", "open", "accepted", "withdrawn"},
           trainer : Trainers \cup {None}]

Init ==
    /\ offer = [l \in LinkIds |-> [state |-> "none", trainer |-> None]]
    /\ coachOf \in [Emails -> Trainers \cup {None}]

Invite(l, t) ==
    /\ offer[l].state = "none"
    /\ offer' = [offer EXCEPT ![l] = [state |-> "open", trainer |-> t]]
    /\ UNCHANGED coachOf

Withdraw(l) ==
    /\ offer[l].state = "open"
    /\ offer' = [offer EXCEPT ![l].state = "withdrawn"]
    /\ UNCHANGED coachOf

(* A coach of the same trainer may accept another invite; nothing changes. *)
Accept(l, e) ==
    /\ offer[l].state = "open"
    /\ coachOf[e] \in {None, offer[l].trainer}
    /\ offer' = [offer EXCEPT ![l].state = "accepted"]
    /\ coachOf' = [coachOf EXCEPT ![e] = offer[l].trainer]

Next ==
    \E l \in LinkIds :
        \/ \E t \in Trainers : Invite(l, t)
        \/ Withdraw(l)
        \/ \E e \in Emails : Accept(l, e)

Spec == Init /\ [][Next]_ledger
=============================================================================
