-------------------------- MODULE ApprovalLifecycle --------------------------
(***************************************************************************)
(* What a purchase approval promises.  Whoever answers it or lets it       *)
(* expire has come across it while it was pending, does so once, and       *)
(* announces each expiry at most once: so what was answered after the last *)
(* of them left stays answered.  Handlers that came across it together may *)
(* overrule each other; nobody who comes later can.                        *)
(***************************************************************************)
EXTENDS Naturals

CONSTANTS Approvals, Handlers

VARIABLES status,     \* of every request
          takers,     \* handlers that came across it and may still write
          announcers, \* handlers that let it expire and are to announce it
          notices     \* announcements of its expiry

vars == <<status, takers, announcers, notices>>

Init ==
    /\ status = [a \in Approvals |-> "NONE"]
    /\ takers = [a \in Approvals |-> {}]
    /\ announcers = [a \in Approvals |-> {}]
    /\ notices = [a \in Approvals |-> 0]

(* A token purchase may be approved as it is made.                         *)
Create(a, outcome) ==
    /\ status[a] = "NONE"
    /\ status' = [status EXCEPT ![a] = outcome]
    /\ UNCHANGED <<takers, announcers, notices>>

(* A handler comes across any number of pending requests.                  *)
Take(h, requests) ==
    /\ \A a \in requests : status[a] = "PENDING"
    /\ \A a \in Approvals : h \notin takers[a] \cup announcers[a]
    /\ takers' = [a \in Approvals |->
                    takers[a] \cup {k \in {h} : a \in requests}]
    /\ UNCHANGED <<status, announcers, notices>>

Answer(h, a, answer) ==
    /\ h \in takers[a]
    /\ status' = [status EXCEPT ![a] = answer]
    /\ takers' = [takers EXCEPT ![a] = takers[a] \ {h}]
    /\ UNCHANGED <<announcers, notices>>

Expire(h, a) ==
    /\ h \in takers[a]
    /\ status' = [status EXCEPT ![a] = "EXPIRED"]
    /\ takers' = [takers EXCEPT ![a] = takers[a] \ {h}]
    /\ announcers' = [announcers EXCEPT ![a] = announcers[a] \cup {h}]
    /\ UNCHANGED notices

Announce(h, a) ==
    /\ h \in announcers[a]
    /\ notices' = [notices EXCEPT ![a] = notices[a] + 1]
    /\ announcers' = [announcers EXCEPT ![a] = announcers[a] \ {h}]
    /\ UNCHANGED <<status, takers>>

(* It gives some requests up, or stops.                                    *)
Leave(h, requests) ==
    /\ takers' = [a \in Approvals |->
                    takers[a] \ {k \in {h} : a \in requests}]
    /\ announcers' = [a \in Approvals |->
                        announcers[a] \ {k \in {h} : a \in requests}]
    /\ UNCHANGED <<status, notices>>

Next ==
    \/ \E a \in Approvals, outcome \in {"PENDING", "APPROVED"} :
          Create(a, outcome)
    \/ \E h \in Handlers :
          \/ \E requests \in SUBSET Approvals :
                Take(h, requests) \/ Leave(h, requests)
          \/ \E a \in Approvals :
                \/ \E answer \in {"APPROVED", "DENIED"} : Answer(h, a, answer)
                \/ Expire(h, a) \/ Announce(h, a)

Spec == Init /\ [][Next]_vars
=============================================================================
