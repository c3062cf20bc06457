-------------------------- MODULE PurchaseApprovals --------------------------
(***************************************************************************)
(* PurchaseApprovalService: a child's purchase waits for its parent's      *)
(* approval.  Nothing runs in the background: a request that is overdue    *)
(* turns EXPIRED when a handler comes across it (expireIfStale).  One      *)
(* action per database call; every update is by id, whatever the row has   *)
(* become since the handler read it.                                       *)
(***************************************************************************)
EXTENDS Naturals

CONSTANTS Approvals,   \* ChildPurchaseApproval rows that may be created
          Parents,
          Requests,    \* handlers that may be in flight together
          ApprovalTtl, \* APPROVAL_TTL_MS
          MaxTime,     \* bound of the clock
          None

ASSUME TtlAssumption == ApprovalTtl \in Nat \ {0} /\ MaxTime \in Nat
ASSUME NoneAssumption == None \notin Parents /\ None \notin Approvals

VARIABLES now,     \* Date.now()
          row,     \* table ChildPurchaseApproval
          notices, \* expiry e-mails sent for each request
          req,     \* handlers in flight
          lost     \* history: requests whose announcement failed

vars == <<now, row, notices, req, lost>>

-----------------------------------------------------------------------------
Answers == {"APPROVED", "DENIED"}

Row == [status : {"NONE", "PENDING", "EXPIRED"} \cup Answers,
        parent : Parents \cup {None}, expires : Nat]

(* A handler expires and announces the row it is at, decides it with its   *)
(* answer, or goes on with the rows it read as PENDING and has not come to.*)
Handler == [at : {"idle", "list", "expire", "notify", "decide"},
            row : Approvals \cup {None}, answer : Answers \cup {None},
            todo : SUBSET Approvals]

Idle == [at |-> "idle", row |-> None, answer |-> None, todo |-> {}]

TypeOK ==
    /\ now \in Nat
    /\ row \in [Approvals -> Row]
    /\ notices \in [Approvals -> Nat]
    /\ req \in [Requests -> Handler]
    /\ lost \in SUBSET Approvals

Init ==
    /\ now = 0
    /\ row = [a \in Approvals |->
                [status |-> "NONE", parent |-> None, expires |-> 0]]
    /\ notices = [a \in Approvals |-> 0]
    /\ req = [r \in Requests |-> Idle]
    /\ lost = {}

-----------------------------------------------------------------------------
Begin(r, handler) ==
    /\ req[r].at = "idle"
    /\ req' = [req EXCEPT ![r] = handler]

Suspend(r, handler) == req' = [req EXCEPT ![r] = handler]

Resume(r, stage) == req' = [req EXCEPT ![r].at = stage]

Respond(r) == req' = [req EXCEPT ![r] = Idle]

Overdue(a) == row[a].expires <= now

(* Mutant of Create: the expiry is left at its default.                    *)
CreateWithoutExpiry(a, p, auto) ==
    /\ row[a].status = "NONE"
    /\ row' = [row EXCEPT ![a] =
                 [status |-> IF auto THEN "APPROVED" ELSE "PENDING",
                  parent |-> p, expires |-> None]]
    /\ UNCHANGED <<now, notices, req, lost>>

(* createApprovalRequest: one insert; auto is the outcome of the           *)
(* payment-type and tokenAutoApprove test.                                 *)
Create(a, p, auto) ==
    /\ row[a].status = "NONE"
    /\ row' = [row EXCEPT ![a] =
                 [status |-> IF auto THEN "APPROVED" ELSE "PENDING",
                  parent |-> p, expires |-> now + ApprovalTtl]]
    /\ UNCHANGED <<now, notices, req, lost>>

(* listForParent reads the parent's rows and then goes through what it     *)
(* read.                                                                   *)
List(r, p) ==
    /\ Begin(r, [Idle EXCEPT !.at = "list",
                   !.todo = {a \in Approvals : /\ row[a].parent = p
                                               /\ row[a].status = "PENDING"}])
    /\ UNCHANGED <<now, row, notices, lost>>

(* Mutant of ListNext: every pending row is taken for stale.               *)
ListNextExpires(r) ==
    /\ req[r].at = "list"
    /\ \/ req[r].todo = {} /\ Respond(r)
       \/ \E a \in req[r].todo :
             Suspend(r, [req[r] EXCEPT !.at = "expire", !.row = a,
                                       !.todo = @ \ {a}])
    /\ UNCHANGED <<now, row, notices, lost>>

(* expireIfStale tests the clock when its turn comes, on the row as read.  *)
ListNext(r) ==
    /\ req[r].at = "list"
    /\ \/ req[r].todo = {} /\ Respond(r)
       \/ \E a \in req[r].todo :
             LET rest == [req[r] EXCEPT !.todo = @ \ {a}]
             IN  Suspend(r, IF Overdue(a)
                            THEN [rest EXCEPT !.at = "expire", !.row = a]
                            ELSE rest)
    /\ UNCHANGED <<now, row, notices, lost>>

(* Mutant of Answer: overdue requests are not refused, nor answered ones.  *)
AnswerUnchecked(r, a, answer) ==
    /\ row[a].status # "NONE"
    /\ Begin(r, [Idle EXCEPT !.at = "decide", !.row = a, !.answer = answer])
    /\ UNCHANGED <<now, row, notices, lost>>

(* approve and deny start with assertOwnedAndPending.  A row that is       *)
(* another parent's, or answered, is refused and nothing changes.          *)
Answer(r, a, answer) ==
    /\ row[a].status = "PENDING"
    /\ Begin(r, [Idle EXCEPT !.at = IF Overdue(a) THEN "expire" ELSE "decide",
                             !.row = a, !.answer = answer])
    /\ UNCHANGED <<now, row, notices, lost>>

(* Mutant of Expire: the notification is forgotten.                        *)
ExpireSilently(r) ==
    /\ req[r].at = "expire"
    /\ row' = [row EXCEPT ![req[r].row].status = "EXPIRED"]
    /\ IF req[r].answer = None THEN Resume(r, "list") ELSE Respond(r)
    /\ UNCHANGED <<now, notices, lost>>

Expire(r) ==
    /\ req[r].at = "expire"
    /\ row' = [row EXCEPT ![req[r].row].status = "EXPIRED"]
    /\ Resume(r, "notify")
    /\ UNCHANGED <<now, notices, lost>>

(* notifyOfExpiry: the child or the parent always has an address.  Then a  *)
(* listing goes on and an answer is refused.                               *)
Notify(r) ==
    /\ req[r].at = "notify"
    /\ notices' = [notices EXCEPT ![req[r].row] = @ + 1]
    /\ IF req[r].answer = None THEN Resume(r, "list") ELSE Respond(r)
    /\ UNCHANGED <<now, row, lost>>

Decide(r) ==
    /\ req[r].at = "decide"
    /\ row' = [row EXCEPT ![req[r].row].status = req[r].answer]
    /\ Respond(r)
    /\ UNCHANGED <<now, notices, lost>>

(* The end of the process, an error of the database or of the e-mail.      *)
Fail(r) ==
    /\ req[r].at # "idle"
    /\ Respond(r)
    /\ lost' = IF req[r].at = "notify" THEN lost \cup {req[r].row} ELSE lost
    /\ UNCHANGED <<now, row, notices>>

Tick ==
    /\ now < MaxTime
    /\ now' = now + 1
    /\ UNCHANGED <<row, notices, req, lost>>

Arrive(r) ==
    \/ \E p \in Parents : List(r, p)
    \/ \E a \in Approvals, answer \in Answers : Answer(r, a, answer)

Continue(r) == ListNext(r) \/ Expire(r) \/ Notify(r) \/ Decide(r)

Next ==
    \/ Tick
    \/ \E a \in Approvals, p \in Parents, auto \in BOOLEAN : Create(a, p, auto)
    \/ \E r \in Requests : Arrive(r) \/ Continue(r) \/ Fail(r)

Spec == Init /\ [][Next]_vars

(* Every await settles.                                                    *)
FairSpec == Spec /\ \A r \in Requests : WF_vars(Continue(r))

-----------------------------------------------------------------------------
(* Properties.                                                             *)

(* No request turns EXPIRED, and nobody is told it did, before its time;   *)
(* however long the listing that expires it worked on rows read earlier.   *)
(* (expireIfStale.)                                                        *)
OnlyOverdueExpires ==
    \A a \in Approvals :
        row[a].status = "EXPIRED" \/ notices[a] > 0 => Overdue(a)

(* A request that expired is announced, unless the handler that expired it *)
(* fails before it has.  (expireIfStale notifies after the update.)        *)
ExpiryIsAnnounced ==
    \A a \in Approvals :
        row[a].status = "EXPIRED" ~> notices[a] > 0 \/ a \in lost

(* The service keeps the life cycle, however listings and answers overlap  *)
(* and wherever they stop: a request is answered or expires only by a      *)
(* handler that read it as pending, which writes once, and one that        *)
(* expired it announces that once.  (assertOwnedAndPending, expireIfStale  *)
(* and the updates by id.)                                                 *)
Takers(a) ==
    {r \in Requests : a \in req[r].todo
                      \/ (req[r].at \in {"expire", "decide"} /\ req[r].row = a)}

Announcers(a) == {r \in Requests : req[r].at = "notify" /\ req[r].row = a}

Lifecycle == INSTANCE ApprovalLifecycle
                 WITH Handlers <- Requests,
                      status <- [a \in Approvals |-> row[a].status],
                      takers <- [a \in Approvals |-> Takers(a)],
                      announcers <- [a \in Approvals |-> Announcers(a)]

ImplementsLifecycle == Lifecycle!Spec
=============================================================================
