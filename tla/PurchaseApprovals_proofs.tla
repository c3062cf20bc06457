----------------------- MODULE PurchaseApprovals_proofs -----------------------
(* Proofs about PurchaseApprovals, for any requests, parents, lifetimes and *)
(* handlers.                                                                *)
EXTENDS PurchaseApprovals, TLAPS

(* What a handler knows of its rows: they exist, so their expiry is fixed,  *)
(* and the one it expires or announces is overdue, which does not change.   *)
HandlerInv ==
    \A r \in Requests :
        /\ \A a \in req[r].todo : row[a].status # "NONE"
        /\ req[r].at \in {"expire", "notify", "decide"} =>
               /\ req[r].row \in Approvals /\ row[req[r].row].status # "NONE"
               /\ req[r].row \notin req[r].todo
        /\ req[r].at \in {"expire", "notify"} => Overdue(req[r].row)
        /\ req[r].at = "decide" => req[r].answer \in Answers
        /\ req[r].at \in {"idle", "decide"} \/ req[r].answer # None =>
               req[r].todo = {}

(* Nothing is announced of a row that does not exist.                       *)
NoticeInv == \A a \in Approvals : notices[a] > 0 => row[a].status # "NONE"

IInv == TypeOK /\ HandlerInv /\ NoticeInv /\ OnlyOverdueExpires

(* The invariant holds at the start.                                        *)
LEMMA InitInv == Init => IInv
BY DEF Init, IInv, TypeOK, Row, Handler, Idle, HandlerInv, NoticeInv,
       OnlyOverdueExpires

(* A step that only changes what a handler holds keeps the invariant if     *)
(* what it comes to hold is right.                                          *)
LEMMA HandlerStep ==
    ASSUME IInv, NEW r \in Requests, NEW handler \in Handler,
           req' = [req EXCEPT ![r] = handler],
           UNCHANGED <<now, row, notices>>,
           lost' \in SUBSET Approvals,
           \A a \in handler.todo : row[a].status # "NONE",
           handler.at \in {"expire", "notify", "decide"} =>
               /\ handler.row \in Approvals
               /\ row[handler.row].status # "NONE"
               /\ handler.row \notin handler.todo,
           handler.at \in {"expire", "notify"} => Overdue(handler.row),
           handler.at = "decide" => handler.answer \in Answers,
           handler.at \in {"idle", "decide"} \/ handler.answer # None =>
               handler.todo = {}
    PROVE  IInv'
<1>1. TypeOK'
  BY DEF IInv, TypeOK
<1>2. HandlerInv'
  BY DEF IInv, TypeOK, HandlerInv, Overdue
<1>3. NoticeInv' /\ OnlyOverdueExpires'
  BY DEF IInv, NoticeInv, OnlyOverdueExpires, Overdue
<1> QED BY <1>1, <1>2, <1>3 DEF IInv

(* A created row is neither expired nor announced, and no handler knew it.  *)
LEMMA CreateStep ==
    ASSUME IInv, NEW a \in Approvals, NEW p \in Parents, NEW auto \in BOOLEAN,
           Create(a, p, auto)
    PROVE  IInv'
<1> DEFINE new == [status |-> IF auto THEN "APPROVED" ELSE "PENDING",
                   parent |-> p, expires |-> now + ApprovalTtl]
<1>1. /\ row[a].status = "NONE" /\ row' = [row EXCEPT ![a] = new]
      /\ UNCHANGED <<now, notices, req, lost>>
  BY DEF Create
<1>2. new \in Row /\ new.status \in {"APPROVED", "PENDING"}
  BY TtlAssumption DEF IInv, TypeOK, Row, Answers
<1> HIDE DEF new
<1>3. TypeOK'
  BY <1>1, <1>2 DEF IInv, TypeOK
<1>4. HandlerInv'
  BY <1>1, <1>2 DEF IInv, TypeOK, Handler, HandlerInv, Overdue
<1>5. NoticeInv'
  BY <1>1, <1>2 DEF IInv, TypeOK, NoticeInv
<1>6. OnlyOverdueExpires'
  BY <1>1, <1>2 DEF IInv, TypeOK, NoticeInv, OnlyOverdueExpires, Overdue
<1> QED BY <1>3, <1>4, <1>5, <1>6 DEF IInv

LEMMA ListStep ==
    ASSUME IInv, NEW r \in Requests, NEW p \in Parents, List(r, p)
    PROVE  IInv'
<1> DEFINE handler ==
             [Idle EXCEPT !.at = "list",
                          !.todo = {a \in Approvals :
                                      /\ row[a].parent = p
                                      /\ row[a].status = "PENDING"}]
<1>1. handler \in Handler /\ handler.at = "list" /\ handler.answer = None
  BY DEF Handler, Idle
<1>2. \A a \in handler.todo : row[a].status # "NONE"
  BY DEF Idle
<1>3. req' = [req EXCEPT ![r] = handler] /\ UNCHANGED <<now, row, notices>>
  BY DEF List, Begin
<1>4. lost' \in SUBSET Approvals
  BY <1>1 DEF List, Begin, Handler, IInv, TypeOK
<1> HIDE DEF handler
<1> QED BY <1>1, <1>2, <1>3, <1>4, HandlerStep

LEMMA ListNextStep ==
    ASSUME IInv, NEW r \in Requests, ListNext(r)
    PROVE  IInv'
<1>0. lost' \in SUBSET Approvals
  BY DEF ListNext, IInv, TypeOK
<1>1. CASE req[r].todo = {} /\ Respond(r)
  <2>1. Idle \in Handler /\ Idle.todo = {} /\ Idle.at = "idle"
    BY DEF Handler, Idle
  <2> QED BY <1>0, <1>1, <2>1, HandlerStep DEF ListNext, Respond
<1> DEFINE rest(a) == [req[r] EXCEPT !.todo = @ \ {a}]
           next(a) == IF Overdue(a)
                      THEN [rest(a) EXCEPT !.at = "expire", !.row = a]
                      ELSE rest(a)
<1>2. ASSUME NEW a \in req[r].todo, Suspend(r, next(a))
      PROVE  IInv'
  <2>1. req[r] \in Handler /\ req[r].at = "list" /\ a \in Approvals
    BY DEF IInv, TypeOK, ListNext, Handler
  <2>2. next(a) \in Handler
    BY <2>1 DEF Handler
  <2>3. /\ next(a).at = IF Overdue(a) THEN "expire" ELSE "list"
        /\ Overdue(a) => next(a).row = a
        /\ next(a).todo = req[r].todo \ {a}
        /\ next(a).answer = req[r].answer
    BY <2>1 DEF Handler
  <2>4. req' = [req EXCEPT ![r] = next(a)] /\ UNCHANGED <<now, row, notices>>
    BY <1>2 DEF ListNext, Suspend
  <2>5. /\ \A b \in req[r].todo : row[b].status # "NONE"
        /\ req[r].answer # None => req[r].todo = {}
    BY DEF IInv, HandlerInv
  <2> HIDE DEF next
  <2> QED BY <1>0, <2>1, <2>2, <2>3, <2>4, <2>5, HandlerStep
<1> QED BY <1>1, <1>2 DEF ListNext

LEMMA AnswerStep ==
    ASSUME IInv, NEW r \in Requests, NEW a \in Approvals,
           NEW answer \in Answers, Answer(r, a, answer)
    PROVE  IInv'
<1> DEFINE handler == [Idle EXCEPT !.at = IF Overdue(a) THEN "expire"
                                          ELSE "decide",
                                   !.row = a, !.answer = answer]
<1>1. handler \in Handler
  BY DEF Handler, Idle
<1>2. /\ handler.at = IF Overdue(a) THEN "expire" ELSE "decide"
      /\ handler.row = a /\ handler.answer = answer /\ handler.todo = {}
  BY DEF Idle
<1>3. /\ row[a].status = "PENDING"
      /\ req' = [req EXCEPT ![r] = handler] /\ UNCHANGED <<now, row, notices>>
  BY DEF Answer, Begin
<1>4. lost' \in SUBSET Approvals
  BY DEF Answer, Begin, Idle, IInv, TypeOK
<1> HIDE DEF handler
<1> QED BY <1>1, <1>2, <1>3, <1>4, HandlerStep

(* Updates of a row that exists: it stays one, and keeps its expiry.        *)
LEMMA StatusWritten ==
    ASSUME IInv, NEW a \in Approvals, NEW s \in Answers \cup {"EXPIRED"},
           row' = [row EXCEPT ![a].status = s], now' = now
    PROVE  /\ row' \in [Approvals -> Row]
           /\ \A b \in Approvals :
                 /\ Overdue(b)' <=> Overdue(b)
                 /\ row'[b].status = IF b = a THEN s ELSE row[b].status
<1>1. [row[a] EXCEPT !.status = s] \in Row
  BY DEF IInv, TypeOK, Row
<1> QED BY <1>1 DEF IInv, TypeOK, Row, Overdue

LEMMA ExpireStep ==
    ASSUME IInv, NEW r \in Requests, Expire(r)
    PROVE  IInv'
<1> DEFINE a == req[r].row
<1>1. /\ a \in Approvals /\ Overdue(a) /\ req[r] \in Handler
      /\ row' = [row EXCEPT ![a].status = "EXPIRED"]
      /\ req' = [req EXCEPT ![r].at = "notify"]
      /\ UNCHANGED <<now, notices, lost>>
  BY DEF Expire, Resume, IInv, TypeOK, HandlerInv
<1> HIDE DEF a
<1>2. /\ row' \in [Approvals -> Row]
      /\ \A b \in Approvals :
            /\ Overdue(b)' <=> Overdue(b)
            /\ row'[b].status = IF b = a THEN "EXPIRED" ELSE row[b].status
  BY <1>1, StatusWritten
<1>3. req' \in [Requests -> Handler]
  BY <1>1 DEF IInv, TypeOK, Handler
<1>4. TypeOK'
  BY <1>1, <1>2, <1>3 DEF IInv, TypeOK
<1>5. \A s \in Requests :
          /\ req'[s].row = req[s].row /\ req'[s].todo = req[s].todo
          /\ req'[s].answer = req[s].answer
          /\ req'[s].at = IF s = r THEN "notify" ELSE req[s].at
  BY <1>1 DEF IInv, TypeOK, Handler
<1>6. HandlerInv'
  BY <1>1, <1>2, <1>5, req[r].at = "expire"
     DEF IInv, TypeOK, Handler, HandlerInv, Expire, a
<1>7. NoticeInv' /\ OnlyOverdueExpires'
  BY <1>1, <1>2 DEF IInv, NoticeInv, OnlyOverdueExpires
<1> QED BY <1>4, <1>6, <1>7 DEF IInv

LEMMA NotifyStep ==
    ASSUME IInv, NEW r \in Requests, Notify(r)
    PROVE  IInv'
<1>1. /\ req[r].row \in Approvals /\ Overdue(req[r].row)
      /\ row[req[r].row].status # "NONE"
      /\ UNCHANGED <<now, row, lost>>
      /\ notices' = [notices EXCEPT ![req[r].row] = @ + 1]
  BY DEF Notify, IInv, HandlerInv
<1>2. req' = [req EXCEPT ![r] = IF req[r].answer = None
                                THEN [req[r] EXCEPT !.at = "list"] ELSE Idle]
  BY DEF Notify, Resume, Respond, IInv, TypeOK
<1>3. /\ [req[r] EXCEPT !.at = "list"] \in Handler /\ Idle \in Handler
      /\ [req[r] EXCEPT !.at = "list"].todo = req[r].todo
      /\ [req[r] EXCEPT !.at = "list"].at = "list"
      /\ [req[r] EXCEPT !.at = "list"].answer = req[r].answer
      /\ Idle.todo = {} /\ Idle.at = "idle"
  BY DEF IInv, TypeOK, Handler, Idle
<1>4. TypeOK'
  BY <1>1, <1>2, <1>3 DEF IInv, TypeOK
<1>5. HandlerInv'
  BY <1>1, <1>2, <1>3 DEF IInv, TypeOK, HandlerInv, Overdue
<1>6. NoticeInv' /\ OnlyOverdueExpires'
  BY <1>1 DEF IInv, TypeOK, NoticeInv, OnlyOverdueExpires, Overdue
<1> QED BY <1>4, <1>5, <1>6 DEF IInv

LEMMA DecideStep ==
    ASSUME IInv, NEW r \in Requests, Decide(r)
    PROVE  IInv'
<1> DEFINE a == req[r].row
<1>1. /\ a \in Approvals /\ req[r].answer \in Answers
      /\ row' = [row EXCEPT ![a].status = req[r].answer]
      /\ req' = [req EXCEPT ![r] = Idle]
      /\ UNCHANGED <<now, notices, lost>>
  BY DEF Decide, Respond, IInv, HandlerInv
<1> HIDE DEF a
<1>2. /\ row' \in [Approvals -> Row]
      /\ \A b \in Approvals :
            /\ Overdue(b)' <=> Overdue(b)
            /\ row'[b].status = IF b = a THEN req[r].answer ELSE row[b].status
  BY <1>1, StatusWritten
<1>3. Idle \in Handler /\ Idle.todo = {} /\ Idle.at = "idle"
  BY DEF Handler, Idle
<1>4. TypeOK'
  BY <1>1, <1>2, <1>3 DEF IInv, TypeOK
<1>5. HandlerInv'
  BY <1>1, <1>2, <1>3 DEF IInv, TypeOK, Handler, HandlerInv, Answers
<1>6. NoticeInv' /\ OnlyOverdueExpires'
  BY <1>1, <1>2 DEF IInv, NoticeInv, OnlyOverdueExpires, Answers
<1> QED BY <1>4, <1>5, <1>6 DEF IInv

LEMMA FailStep ==
    ASSUME IInv, NEW r \in Requests, Fail(r)
    PROVE  IInv'
<1>1. Idle \in Handler /\ Idle.todo = {} /\ Idle.at = "idle"
  BY DEF Handler, Idle
<1>2. lost' \in SUBSET Approvals
  BY DEF Fail, IInv, TypeOK, HandlerInv
<1> QED BY <1>1, <1>2, HandlerStep DEF Fail, Respond

(* What is overdue stays overdue.                                           *)
LEMMA TickStep ==
    ASSUME IInv, Tick
    PROVE  IInv'
<1>1. \A a \in Approvals : Overdue(a) => Overdue(a)'
  BY TtlAssumption DEF IInv, TypeOK, Row, Overdue, Tick
<1>2. TypeOK' /\ NoticeInv'
  BY DEF IInv, TypeOK, NoticeInv, Tick
<1>3. HandlerInv' /\ OnlyOverdueExpires'
  BY <1>1 DEF IInv, HandlerInv, OnlyOverdueExpires, Tick
<1> QED BY <1>2, <1>3 DEF IInv

(* So every step preserves the invariant.                                   *)
LEMMA NextInv == IInv /\ [Next]_vars => IInv'
<1> SUFFICES ASSUME IInv, [Next]_vars PROVE IInv'
  OBVIOUS
<1>1. ASSUME NEW r \in Requests, Arrive(r) \/ Continue(r) \/ Fail(r)
      PROVE  IInv'
  BY <1>1, ListStep, AnswerStep, ListNextStep, ExpireStep, NotifyStep,
     DecideStep, FailStep DEF Arrive, Continue
<1>2. CASE UNCHANGED vars
  BY <1>2 DEF vars, IInv, TypeOK, HandlerInv, NoticeInv, OnlyOverdueExpires,
     Overdue
<1> QED BY <1>1, <1>2, CreateStep, TickStep DEF Next

(* listForParent, approve and deny work on rows they read before other      *)
(* handlers ran: what they know of them is still true.                      *)
THEOREM InductiveInvariant == Spec => []IInv
BY InitInv, NextInv, PTL DEF Spec

(* Every variable keeps its type.                                           *)
THEOREM TypeCorrect == Spec => []TypeOK
<1>1. IInv => TypeOK
  BY DEF IInv
<1> QED BY <1>1, InductiveInvariant, PTL

(* No interleaving of listings, answers and failures lets expireIfStale     *)
(* expire a request, or announce it, before its time.                       *)
THEOREM NothingExpiresEarly == Spec => []OnlyOverdueExpires
<1>1. IInv => OnlyOverdueExpires
  BY DEF IInv
<1> QED BY <1>1, InductiveInvariant, PTL

-----------------------------------------------------------------------------
(* What a handler may still write, or announce, of a request.               *)
Takes(handler, a) ==
    \/ a \in handler.todo
    \/ handler.at \in {"expire", "decide"} /\ handler.row = a

Announces(handler, a) == handler.at = "notify" /\ handler.row = a

TakersIn(handlers, a) == {r \in Requests : Takes(handlers[r], a)}
AnnouncersIn(handlers, a) == {r \in Requests : Announces(handlers[r], a)}

(* Only what the handler that steps holds changes hands.                    *)
LEMMA HandsChange ==
    ASSUME IInv, NEW r \in Requests, NEW handler \in Handler,
           req' = [req EXCEPT ![r] = handler], NEW a \in Approvals
    PROVE  /\ TakersIn(req', a) = IF Takes(handler, a)
                                  THEN TakersIn(req, a) \cup {r}
                                  ELSE TakersIn(req, a) \ {r}
           /\ AnnouncersIn(req', a) = IF Announces(handler, a)
                                      THEN AnnouncersIn(req, a) \cup {r}
                                      ELSE AnnouncersIn(req, a) \ {r}
           /\ r \in TakersIn(req, a) <=> Takes(req[r], a)
           /\ r \in AnnouncersIn(req, a) <=> Announces(req[r], a)
<1>1. \A s \in Requests : req'[s] = IF s = r THEN handler ELSE req[s]
  BY DEF IInv, TypeOK
<1> QED BY <1>1 DEF TakersIn, AnnouncersIn

(* Whoever begins comes across pending requests.                            *)
LEMMA BeginRefines ==
    ASSUME IInv, NEW r \in Requests, NEW handler \in Handler,
           Begin(r, handler), UNCHANGED <<row, notices>>,
           handler.at # "notify",
           \A a \in Approvals : Takes(handler, a) => row[a].status = "PENDING"
    PROVE  Lifecycle!Next
<1> DEFINE requests == {a \in Approvals : Takes(handler, a)}
<1>1. /\ req[r].at = "idle" /\ req[r].todo = {}
      /\ req' = [req EXCEPT ![r] = handler]
  BY DEF Begin, IInv, HandlerInv
<1>2. ASSUME NEW a \in Approvals
      PROVE  /\ r \notin Takers(a) \cup Announcers(a)
             /\ Takers(a)' = Takers(a) \cup {k \in {r} : a \in requests}
             /\ Announcers(a)' = Announcers(a)
             /\ row'[a].status = row[a].status
  <2>1. ~Takes(req[r], a) /\ ~Announces(req[r], a) /\ ~Announces(handler, a)
    BY <1>1 DEF Takes, Announces
  <2>2. /\ Takers(a) = TakersIn(req, a)
        /\ Takers(a)' = TakersIn(req', a)
        /\ Announcers(a) = AnnouncersIn(req, a)
        /\ Announcers(a)' = AnnouncersIn(req', a)
    BY DEF Takers, Announcers, TakersIn, AnnouncersIn, Takes, Announces
  <2>3. /\ TakersIn(req', a) = IF Takes(handler, a)
                               THEN TakersIn(req, a) \cup {r}
                               ELSE TakersIn(req, a) \ {r}
        /\ AnnouncersIn(req', a) = IF Announces(handler, a)
                                   THEN AnnouncersIn(req, a) \cup {r}
                                   ELSE AnnouncersIn(req, a) \ {r}
        /\ r \in TakersIn(req, a) <=> Takes(req[r], a)
        /\ r \in AnnouncersIn(req, a) <=> Announces(req[r], a)
    BY <1>1, HandsChange
  <2> QED BY <2>1, <2>2, <2>3
<1>3. requests \in SUBSET Approvals
  OBVIOUS
<1>4. \A a \in requests : row[a].status = "PENDING"
  OBVIOUS
<1> HIDE DEF requests
<1>5. Lifecycle!Take(r, requests)
  BY <1>2, <1>3, <1>4 DEF Lifecycle!Take
<1> QED BY <1>3, <1>5 DEF Lifecycle!Next

(* Letting go of requests.                                                  *)
LEMMA LeaveRefines ==
    ASSUME IInv, NEW r \in Requests, NEW handler \in Handler,
           req' = [req EXCEPT ![r] = handler], UNCHANGED <<row, notices>>,
           \A a \in Approvals :
              /\ Takes(handler, a) => Takes(req[r], a)
              /\ Announces(handler, a) => Announces(req[r], a)
              /\ Takes(handler, a) \/ Announces(handler, a) =>
                    /\ Takes(req[r], a) => Takes(handler, a)
                    /\ Announces(req[r], a) => Announces(handler, a)
    PROVE  Lifecycle!Next
<1> DEFINE requests == {a \in Approvals : /\ ~Takes(handler, a)
                                          /\ ~Announces(handler, a)}
<1>1. ASSUME NEW a \in Approvals
      PROVE  /\ Takers(a)' = Takers(a) \ {k \in {r} : a \in requests}
             /\ Announcers(a)' = Announcers(a) \ {k \in {r} : a \in requests}
             /\ row'[a].status = row[a].status
  <2>1. /\ Takers(a) = TakersIn(req, a)
        /\ Takers(a)' = TakersIn(req', a)
        /\ Announcers(a) = AnnouncersIn(req, a)
        /\ Announcers(a)' = AnnouncersIn(req', a)
    BY DEF Takers, Announcers, TakersIn, AnnouncersIn, Takes, Announces
  <2>2. /\ TakersIn(req', a) = IF Takes(handler, a)
                               THEN TakersIn(req, a) \cup {r}
                               ELSE TakersIn(req, a) \ {r}
        /\ AnnouncersIn(req', a) = IF Announces(handler, a)
                                   THEN AnnouncersIn(req, a) \cup {r}
                                   ELSE AnnouncersIn(req, a) \ {r}
        /\ r \in TakersIn(req, a) <=> Takes(req[r], a)
        /\ r \in AnnouncersIn(req, a) <=> Announces(req[r], a)
    BY HandsChange
  <2>3. a \in requests <=> ~Takes(handler, a) /\ ~Announces(handler, a)
    OBVIOUS
  <2> HIDE DEF requests
  <2> QED BY <2>1, <2>2, <2>3
<1>2. requests \in SUBSET Approvals
  OBVIOUS
<1> HIDE DEF requests
<1>3. Lifecycle!Leave(r, requests)
  BY <1>1, <1>2 DEF Lifecycle!Leave
<1> QED BY <1>2, <1>3 DEF Lifecycle!Next

LEMMA CreateRefines ==
    ASSUME IInv, NEW a \in Approvals, NEW p \in Parents,
           NEW auto \in BOOLEAN, Create(a, p, auto)
    PROVE  Lifecycle!Next
<1> DEFINE outcome == IF auto THEN "APPROVED" ELSE "PENDING"
<1>1. /\ row[a].status = "NONE" /\ UNCHANGED <<req, notices>>
      /\ \A b \in Approvals : row'[b].status = IF b = a THEN outcome
                                               ELSE row[b].status
  BY DEF Create, IInv, TypeOK
<1>2. outcome \in {"PENDING", "APPROVED"}
  OBVIOUS
<1> HIDE DEF outcome
<1>3. Lifecycle!Create(a, outcome)
  BY <1>1 DEF Lifecycle!Create, Takers, Announcers
<1> QED BY <1>2, <1>3 DEF Lifecycle!Next

LEMMA ArriveRefines ==
    ASSUME IInv, NEW r \in Requests, Arrive(r)
    PROVE  Lifecycle!Next
<1>1. ASSUME NEW p \in Parents, List(r, p) PROVE Lifecycle!Next
  <2> DEFINE handler ==
               [Idle EXCEPT !.at = "list",
                            !.todo = {a \in Approvals :
                                        /\ row[a].parent = p
                                        /\ row[a].status = "PENDING"}]
  <2>1. handler \in Handler /\ handler.at = "list"
    BY DEF Handler, Idle
  <2>2. \A a \in Approvals : Takes(handler, a) => row[a].status = "PENDING"
    BY DEF Takes, Idle
  <2>3. Begin(r, handler) /\ UNCHANGED <<row, notices>>
    BY <1>1 DEF List
  <2> HIDE DEF handler
  <2> QED BY <2>1, <2>2, <2>3, BeginRefines
<1>2. ASSUME NEW a \in Approvals, NEW answer \in Answers, Answer(r, a, answer)
      PROVE  Lifecycle!Next
  <2> DEFINE handler == [Idle EXCEPT !.at = IF Overdue(a) THEN "expire"
                                            ELSE "decide",
                                     !.row = a, !.answer = answer]
  <2>1. handler \in Handler /\ handler.at # "notify"
    BY DEF Handler, Idle
  <2>2. \A b \in Approvals : Takes(handler, b) => b = a
    BY DEF Takes, Idle
  <2>3. /\ Begin(r, handler) /\ UNCHANGED <<row, notices>>
        /\ row[a].status = "PENDING"
    BY <1>2 DEF Answer
  <2> HIDE DEF handler
  <2> QED BY <2>1, <2>2, <2>3, BeginRefines
<1> QED BY <1>1, <1>2 DEF Arrive

LEMMA ListNextRefines ==
    ASSUME IInv, NEW r \in Requests, ListNext(r)
    PROVE  Lifecycle!Next
<1>0. UNCHANGED <<row, notices>> /\ req[r] \in Handler /\ req[r].at = "list"
  BY DEF ListNext, IInv, TypeOK
<1>1. CASE req[r].todo = {} /\ Respond(r)
  <2>1. /\ Idle \in Handler
        /\ \A a \in Approvals : ~Takes(Idle, a) /\ ~Announces(Idle, a)
    BY DEF Handler, Idle, Takes, Announces
  <2> QED BY <1>0, <1>1, <2>1, LeaveRefines DEF Respond
<1> DEFINE rest(a) == [req[r] EXCEPT !.todo = @ \ {a}]
           next(a) == IF Overdue(a)
                      THEN [rest(a) EXCEPT !.at = "expire", !.row = a]
                      ELSE rest(a)
<1>2. ASSUME NEW a \in req[r].todo, Suspend(r, next(a))
      PROVE  Lifecycle!Next
  <2>1. a \in Approvals /\ next(a) \in Handler
    BY <1>0 DEF Handler
  <2>2. \A b \in Approvals :
            /\ ~Announces(next(a), b) /\ ~Announces(req[r], b)
            /\ Takes(next(a), b) => Takes(req[r], b)
    BY <1>0, <2>1 DEF Handler, Takes, Announces
  <2>3. req' = [req EXCEPT ![r] = next(a)]
    BY <1>2 DEF Suspend
  <2> HIDE DEF next
  <2> QED BY <1>0, <2>1, <2>2, <2>3, LeaveRefines
<1> QED BY <1>1, <1>2 DEF ListNext

(* The steps that write a request hand over only that one.                  *)
LEMMA ExpireRefines ==
    ASSUME IInv, NEW r \in Requests, Expire(r)
    PROVE  Lifecycle!Next
<1> DEFINE handler == [req[r] EXCEPT !.at = "notify"]
<1>1. PICK a \in Approvals :
        /\ a = req[r].row /\ req[r].at = "expire" /\ a \notin req[r].todo
        /\ \A b \in Approvals : row'[b].status = IF b = a THEN "EXPIRED"
                                                 ELSE row[b].status
        /\ UNCHANGED notices
  BY DEF Expire, IInv, TypeOK, HandlerInv, Row
<1>2. /\ handler \in Handler /\ req' = [req EXCEPT ![r] = handler]
      /\ handler.at = "notify" /\ handler.row = a
      /\ handler.todo = req[r].todo
  BY <1>1 DEF Expire, Resume, IInv, TypeOK, Handler
<1> HIDE DEF handler
<1>3. ASSUME NEW b \in Approvals
      PROVE  /\ Takers(b)' = IF b = a THEN Takers(b) \ {r} ELSE Takers(b)
             /\ Announcers(b)' = IF b = a THEN Announcers(b) \cup {r}
                                          ELSE Announcers(b)
             /\ b = a => r \in Takers(b)
  <2>1. /\ Takes(handler, b) <=> b \in req[r].todo
        /\ Takes(req[r], b) <=> b \in req[r].todo \/ b = a
        /\ Announces(handler, b) <=> b = a
        /\ ~Announces(req[r], b)
    BY <1>1, <1>2 DEF Takes, Announces
  <2>2. /\ Takers(b) = TakersIn(req, b)
        /\ Takers(b)' = TakersIn(req', b)
        /\ Announcers(b) = AnnouncersIn(req, b)
        /\ Announcers(b)' = AnnouncersIn(req', b)
    BY DEF Takers, Announcers, TakersIn, AnnouncersIn, Takes, Announces
  <2>3. /\ TakersIn(req', b) = IF Takes(handler, b)
                               THEN TakersIn(req, b) \cup {r}
                               ELSE TakersIn(req, b) \ {r}
        /\ AnnouncersIn(req', b) = IF Announces(handler, b)
                                   THEN AnnouncersIn(req, b) \cup {r}
                                   ELSE AnnouncersIn(req, b) \ {r}
        /\ r \in TakersIn(req, b) <=> Takes(req[r], b)
        /\ r \in AnnouncersIn(req, b) <=> Announces(req[r], b)
    BY <1>2, HandsChange
  <2> QED BY <1>1, <2>1, <2>2, <2>3
<1>4. Lifecycle!Expire(r, a)
  BY <1>1, <1>3 DEF Lifecycle!Expire
<1> QED BY <1>4 DEF Lifecycle!Next

LEMMA NotifyRefines ==
    ASSUME IInv, NEW r \in Requests, Notify(r)
    PROVE  Lifecycle!Next
<1> DEFINE handler == IF req[r].answer = None
                      THEN [req[r] EXCEPT !.at = "list"] ELSE Idle
<1>1. PICK a \in Approvals :
        /\ a = req[r].row /\ req[r].at = "notify"
        /\ notices' = [notices EXCEPT ![a] = notices[a] + 1]
        /\ UNCHANGED row
  BY DEF Notify, IInv, HandlerInv
<1>2. /\ handler \in Handler /\ req' = [req EXCEPT ![r] = handler]
      /\ handler.at \in {"list", "idle"} /\ handler.todo = req[r].todo
  <2>1. Idle \in Handler /\ Idle.at = "idle" /\ Idle.todo = {}
    BY DEF Handler, Idle
  <2>2. /\ [req[r] EXCEPT !.at = "list"] \in Handler
        /\ [req[r] EXCEPT !.at = "list"].at = "list"
        /\ [req[r] EXCEPT !.at = "list"].todo = req[r].todo
        /\ req[r].answer # None => req[r].todo = {}
    BY DEF IInv, TypeOK, Handler, HandlerInv
  <2>3. req' = [req EXCEPT ![r] = handler]
    BY DEF Notify, Resume, Respond
  <2> QED BY <2>1, <2>2, <2>3
<1> HIDE DEF handler
<1>3. ASSUME NEW b \in Approvals
      PROVE  /\ Takers(b)' = Takers(b)
             /\ Announcers(b)' = IF b = a THEN Announcers(b) \ {r}
                                          ELSE Announcers(b)
             /\ b = a => r \in Announcers(b)
  <2>1. /\ Takes(handler, b) <=> Takes(req[r], b)
        /\ ~Announces(handler, b)
        /\ Announces(req[r], b) <=> b = a
    BY <1>1, <1>2 DEF Takes, Announces
  <2>2. /\ Takers(b) = TakersIn(req, b)
        /\ Takers(b)' = TakersIn(req', b)
        /\ Announcers(b) = AnnouncersIn(req, b)
        /\ Announcers(b)' = AnnouncersIn(req', b)
    BY DEF Takers, Announcers, TakersIn, AnnouncersIn, Takes, Announces
  <2>3. /\ TakersIn(req', b) = IF Takes(handler, b)
                               THEN TakersIn(req, b) \cup {r}
                               ELSE TakersIn(req, b) \ {r}
        /\ AnnouncersIn(req', b) = IF Announces(handler, b)
                                   THEN AnnouncersIn(req, b) \cup {r}
                                   ELSE AnnouncersIn(req, b) \ {r}
        /\ r \in TakersIn(req, b) <=> Takes(req[r], b)
        /\ r \in AnnouncersIn(req, b) <=> Announces(req[r], b)
    BY <1>2, HandsChange
  <2> QED BY <1>1, <2>1, <2>2, <2>3
<1>4. Lifecycle!Announce(r, a)
  BY <1>1, <1>3 DEF Lifecycle!Announce
<1> QED BY <1>4 DEF Lifecycle!Next

LEMMA DecideRefines ==
    ASSUME IInv, NEW r \in Requests, Decide(r)
    PROVE  Lifecycle!Next
<1>1. PICK a \in Approvals, answer \in Answers :
        /\ a = req[r].row /\ req[r].at = "decide" /\ req[r].todo = {}
        /\ \A b \in Approvals : row'[b].status = IF b = a THEN answer
                                                 ELSE row[b].status
        /\ UNCHANGED notices
  BY DEF Decide, IInv, TypeOK, HandlerInv, Row
<1>2. /\ Idle \in Handler /\ req' = [req EXCEPT ![r] = Idle]
      /\ Idle.at = "idle" /\ Idle.todo = {}
  BY DEF Decide, Respond, Handler, Idle
<1>3. ASSUME NEW b \in Approvals
      PROVE  /\ Takers(b)' = IF b = a THEN Takers(b) \ {r} ELSE Takers(b)
             /\ Announcers(b)' = Announcers(b)
             /\ b = a => r \in Takers(b)
  <2>1. /\ ~Takes(Idle, b) /\ ~Announces(Idle, b) /\ ~Announces(req[r], b)
        /\ Takes(req[r], b) <=> b = a
    BY <1>1, <1>2 DEF Takes, Announces
  <2>2. /\ Takers(b) = TakersIn(req, b)
        /\ Takers(b)' = TakersIn(req', b)
        /\ Announcers(b) = AnnouncersIn(req, b)
        /\ Announcers(b)' = AnnouncersIn(req', b)
    BY DEF Takers, Announcers, TakersIn, AnnouncersIn, Takes, Announces
  <2>3. /\ TakersIn(req', b) = IF Takes(Idle, b)
                               THEN TakersIn(req, b) \cup {r}
                               ELSE TakersIn(req, b) \ {r}
        /\ AnnouncersIn(req', b) = IF Announces(Idle, b)
                                   THEN AnnouncersIn(req, b) \cup {r}
                                   ELSE AnnouncersIn(req, b) \ {r}
        /\ r \in TakersIn(req, b) <=> Takes(req[r], b)
        /\ r \in AnnouncersIn(req, b) <=> Announces(req[r], b)
    BY <1>2, HandsChange
  <2> QED BY <1>1, <2>1, <2>2, <2>3
<1>4. Lifecycle!Answer(r, a, answer)
  BY <1>1, <1>3 DEF Lifecycle!Answer
<1> QED BY <1>4 DEF Lifecycle!Next, Answers

LEMMA FailRefines ==
    ASSUME IInv, NEW r \in Requests, Fail(r)
    PROVE  Lifecycle!Next
<1>1. /\ Idle \in Handler
      /\ \A a \in Approvals : ~Takes(Idle, a) /\ ~Announces(Idle, a)
  BY DEF Handler, Idle, Takes, Announces
<1> QED BY <1>1, LeaveRefines DEF Fail, Respond

LEMMA NextRefines == IInv /\ [Next]_vars => [Lifecycle!Next]_(Lifecycle!vars)
<1> SUFFICES ASSUME IInv, [Next]_vars
             PROVE  Lifecycle!Next \/ UNCHANGED Lifecycle!vars
  OBVIOUS
<1>1. CASE Tick \/ UNCHANGED vars
  BY <1>1 DEF Tick, vars, Lifecycle!vars, Takers, Announcers
<1>2. ASSUME NEW r \in Requests, Arrive(r) \/ Continue(r) \/ Fail(r)
      PROVE  Lifecycle!Next
  BY <1>2, ArriveRefines, ListNextRefines, ExpireRefines, NotifyRefines,
     DecideRefines, FailRefines DEF Continue
<1> QED BY <1>1, <1>2, CreateRefines DEF Next

(* However listings, answers and failures interleave, also when they hold   *)
(* one request together, the service keeps its life cycle: the reads and    *)
(* the updates by id of its handlers implement single steps of it.          *)
THEOREM LifecycleImplemented == Spec => ImplementsLifecycle
<1>1. Init => Lifecycle!Init
  BY DEF Init, Idle, Takers, Announcers, Lifecycle!Init
<1> QED BY <1>1, InitInv, NextInv, NextRefines, PTL
        DEF Spec, ImplementsLifecycle, Lifecycle!Spec
=============================================================================
