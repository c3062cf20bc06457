------------------------- MODULE CoachInvites_proofs -------------------------
(* Proofs about CoachInvites, for any trainers, addresses, links, clocks   *)
(* and handlers: the locks of acceptInvite's transaction are what makes    *)
(* its separate calls one step of the ledger.                              *)
EXTENDS CoachInvites, TLAPS

(* The stages at which a new account is inserted but not committed.        *)
Inserted == {"findProfile", "createProfile", "commit"}

(* What a handler knows.  From its claim on it holds the link it read; in  *)
(* the transaction the link is still open, an account it inserted exists   *)
(* for nobody else, and when it is about to commit, its account coaches    *)
(* for nobody or, if it inserts no profile, already for this trainer.      *)
HandlerOK(h) ==
    /\ h.at = "deactivate" => h.link \in LinkIds /\ link[h.link].trainer # None
    /\ h.at \in {"deactivate", "check", "create"} =>
           h.trainer \in Trainers /\ h.email \in Emails
    /\ h.at \in {"claim"} \cup InTransaction =>
           /\ h.link \in LinkIds /\ h.email \in Emails
           /\ h.trainer \in Trainers
           /\ link[h.link].trainer = h.trainer
           /\ Mailbox[h.email] = Mailbox[link[h.link].email]
           /\ ~h.fresh => h.email \in user
           /\ h.at # "commit" => ~h.joins
    /\ h.at \in InTransaction => link[h.link].active
    /\ h.at \in Inserted /\ h.fresh => h.email \notin user
    /\ h.at = "commit" =>
           coachOf[h.email] = IF h.joins THEN None ELSE h.trainer

(* Two open transactions never hold the same row or the same unique key.   *)
Disjoint(g, h) ==
    /\ g.at \in InTransaction /\ h.at \in InTransaction => g.link # h.link
    /\ g.at \in Inserted /\ h.at \in Inserted /\ g.fresh /\ h.fresh =>
           g.email # h.email
    /\ g.at = "commit" /\ h.at = "commit" /\ g.joins /\ h.joins =>
           g.email # h.email

HandlerInv == \A r \in Requests : HandlerOK(req[r])

LockInv == \A q, r \in Requests : q # r => Disjoint(req[q], req[r])

(* A row that was not created is neither active nor used; one that was is  *)
(* addressed, and unused while it is active.                               *)
LinkInv ==
    \A l \in LinkIds :
        /\ link[l].active => link[l].uses = 0
        /\ IF link[l].trainer = None
           THEN ~link[l].active /\ link[l].uses = 0
           ELSE link[l].email \in Emails

IInv == /\ TypeOK
        /\ HandlerInv
        /\ LockInv
        /\ LinkInv
        /\ UsedLinkBroughtCoach
        /\ NoOrphanedAccount

-----------------------------------------------------------------------------
(* The invariant holds at the start.                                       *)
LEMMA InitInv == Init => IInv
<1> SUFFICES ASSUME Init PROVE IInv
  OBVIOUS
<1>1. TypeOK
  BY RegisteredAssumption DEF Init, TypeOK, LinkRow, UnusedLink, Stages,
     InTransaction, Handler, Idle
<1>2. HandlerInv /\ LockInv
  BY DEF Init, HandlerInv, HandlerOK, LockInv, Disjoint, InTransaction,
     Inserted, Idle
<1>3. LinkInv /\ UsedLinkBroughtCoach /\ NoOrphanedAccount
  BY DEF Init, LinkInv, UsedLinkBroughtCoach, NoOrphanedAccount, UnusedLink
<1> QED BY <1>1, <1>2, <1>3 DEF IInv

(* The locks stay disjoint if what the handler that steps comes to hold is *)
(* clear of the others'.                                                   *)
LEMMA LockStep ==
    ASSUME IInv, NEW r \in Requests, NEW h \in Handler,
           req' = [req EXCEPT ![r] = h],
           \A q \in Requests \ {r} : Disjoint(req[q], h)
    PROVE  LockInv'
<1>1. \A q \in Requests : req'[q] = IF q = r THEN h ELSE req[q]
  BY DEF IInv, TypeOK
<1> QED BY <1>1 DEF IInv, LockInv, Disjoint

(* A step that changes one handler only keeps the invariant if what the    *)
(* handler comes to hold is right and clear of the others' locks.          *)
LEMMA HandlerStep ==
    ASSUME IInv, NEW r \in Requests, NEW h \in Handler,
           req' = [req EXCEPT ![r] = h],
           UNCHANGED <<link, user, coachOf>>, now' \in Nat,
           HandlerOK(h),
           \A q \in Requests \ {r} : Disjoint(req[q], h)
    PROVE  IInv'
<1>1. TypeOK'
  BY DEF IInv, TypeOK
<1>2. HandlerInv'
  BY DEF IInv, TypeOK, HandlerInv, HandlerOK
<1>3. LinkInv' /\ UsedLinkBroughtCoach' /\ NoOrphanedAccount'
  BY DEF IInv, LinkInv, UsedLinkBroughtCoach, NoOrphanedAccount
<1> QED BY <1>1, <1>2, <1>3, LockStep DEF IInv

(* A handler outside the transaction holds no lock.                        *)
LEMMA NoLocks ==
    ASSUME NEW g, NEW h, h.at \notin InTransaction
    PROVE  Disjoint(g, h)
BY DEF Disjoint, InTransaction, Inserted

(* Answering gives up what a handler held.                                 *)
LEMMA RespondStep ==
    ASSUME IInv, NEW r \in Requests, Respond(r),
           UNCHANGED <<now, link, user, coachOf>>
    PROVE  IInv'
<1>1. Idle \in Handler /\ Idle.at = "idle"
  BY DEF Handler, Stages, Idle
<1>2. HandlerOK(Idle)
  BY DEF HandlerOK, InTransaction, Inserted, Idle
<1>3. \A q \in Requests : Disjoint(req[q], Idle)
  BY <1>1, NoLocks DEF InTransaction
<1> QED BY <1>1, <1>2, <1>3, HandlerStep DEF Respond, IInv, TypeOK

(* A handler that only goes on to another call.                            *)
LEMMA ResumeStep ==
    ASSUME IInv, NEW r \in Requests, NEW stage \in Stages, Resume(r, stage),
           UNCHANGED <<now, link, user, coachOf>>,
           HandlerOK([req[r] EXCEPT !.at = stage]),
           \A q \in Requests \ {r} :
               Disjoint(req[q], [req[r] EXCEPT !.at = stage])
    PROVE  IInv'
<1>1. [req[r] EXCEPT !.at = stage] \in Handler
  BY DEF IInv, TypeOK, Handler
<1>2. req' = [req EXCEPT ![r] = [req[r] EXCEPT !.at = stage]]
  BY DEF Resume, IInv, TypeOK
<1> QED BY <1>1, <1>2, HandlerStep DEF IInv, TypeOK

-----------------------------------------------------------------------------
(* One lemma per action that does more than answer.                        *)
LEMMA GenerateStep ==
    ASSUME IInv, NEW r \in Requests, NEW t \in Trainers, NEW e \in Emails,
           Generate(r, t, e)
    PROVE  IInv'
<1> DEFINE h == [Idle EXCEPT !.at = "check", !.trainer = t, !.email = e]
<1>1. h \in Handler /\ h.at = "check" /\ HandlerOK(h)
  BY DEF Handler, Stages, Idle, HandlerOK, InTransaction, Inserted
<1>2. req' = [req EXCEPT ![r] = h]
  BY DEF Generate, Begin
<1> HIDE DEF h
<1>3. \A q \in Requests : Disjoint(req[q], h)
  BY <1>1, NoLocks DEF InTransaction
<1> QED BY <1>1, <1>2, <1>3, HandlerStep DEF Generate, IInv, TypeOK

LEMMA ResendStep ==
    ASSUME IInv, NEW r \in Requests, NEW l \in LinkIds, Resend(r, l)
    PROVE  IInv'
<1> DEFINE h == [Idle EXCEPT !.at = "deactivate", !.link = l,
                             !.trainer = link[l].trainer,
                             !.email = link[l].email]
<1>1. h \in Handler /\ h.at = "deactivate"
  BY DEF Handler, Stages, Idle, IInv, TypeOK, LinkRow
<1>2. HandlerOK(h)
  BY DEF HandlerOK, Resend, IInv, TypeOK, LinkRow, LinkInv, Idle,
     InTransaction, Inserted
<1>3. req' = [req EXCEPT ![r] = h]
  BY DEF Resend, Begin
<1> HIDE DEF h
<1>4. \A q \in Requests : Disjoint(req[q], h)
  BY <1>1, NoLocks DEF InTransaction
<1> QED BY <1>1, <1>2, <1>3, <1>4, HandlerStep DEF Resend, IInv, TypeOK

(* Withdrawing a link takes it from no transaction: the row is not locked. *)
LEMMA DeactivateStep ==
    ASSUME IInv, NEW r \in Requests, Deactivate(r)
    PROVE  IInv'
<1> DEFINE h == [req[r] EXCEPT !.at = "check"]
           k == req[r].link
<1>1. h \in Handler /\ h.at = "check" /\ req' = [req EXCEPT ![r] = h]
  BY DEF Deactivate, Resume, IInv, TypeOK, Handler, Stages
<1>2. /\ k \in LinkIds
      /\ link' = [link EXCEPT ![k] = [link[k] EXCEPT !.active = FALSE]]
  BY DEF Deactivate, IInv, TypeOK, HandlerInv, HandlerOK
<1>3. /\ link' \in [LinkIds -> LinkRow]
      /\ \A l \in LinkIds :
            /\ link'[l].trainer = link[l].trainer
            /\ link'[l].email = link[l].email
            /\ link'[l].uses = link[l].uses
            /\ link'[l].active => link[l].active
            /\ l # k => link'[l] = link[l]
  BY <1>2 DEF IInv, TypeOK, LinkRow
<1>4. \A q \in Requests : req[q].at \in InTransaction => req[q].link # k
  BY DEF Deactivate, LinkLocked
<1>5. ASSUME NEW q \in Requests PROVE HandlerOK(req[q])'
  <2>1. CASE q = r
    BY <1>1, <1>3, <2>1 DEF IInv, HandlerInv, HandlerOK, Deactivate,
       InTransaction, Inserted, TypeOK, Handler
  <2>2. CASE q # r
    <3>1. req'[q] = req[q] /\ HandlerOK(req[q]) /\ req[q] \in Handler
      BY <1>1, <2>2 DEF IInv, TypeOK, HandlerInv
    <3>2. req[q].at \in InTransaction =>
             req[q].link \in LinkIds /\ link'[req[q].link] = link[req[q].link]
      BY <1>3, <1>4, <3>1 DEF HandlerOK
    <3> QED
      BY <1>3, <3>1, <3>2 DEF HandlerOK, Deactivate, InTransaction, Inserted
  <2> QED BY <2>1, <2>2
<1>6. LockInv'
  BY <1>1, NoLocks, LockStep DEF InTransaction
<1>7. TypeOK' /\ LinkInv'
  BY <1>1, <1>3 DEF IInv, TypeOK, LinkInv, Deactivate
<1>8. UsedLinkBroughtCoach' /\ NoOrphanedAccount'
  BY <1>3 DEF IInv, UsedLinkBroughtCoach, NoOrphanedAccount, Deactivate
<1> QED BY <1>5, <1>6, <1>7, <1>8 DEF IInv, HandlerInv

LEMMA CheckStep ==
    ASSUME IInv, NEW r \in Requests, Check(r)
    PROVE  IInv'
<1>1. CASE Pending(req[r].trainer, req[r].email) = {}
  <2>1. Resume(r, "create") /\ UNCHANGED <<now, link, user, coachOf>>
    BY <1>1 DEF Check
  <2> DEFINE h == [req[r] EXCEPT !.at = "create"]
  <2>2. h \in Handler /\ h.at = "create" /\ HandlerOK(h)
    BY DEF Check, IInv, TypeOK, Handler, Stages, HandlerInv, HandlerOK,
       InTransaction, Inserted
  <2>3. \A q \in Requests : Disjoint(req[q], h)
    BY <2>2, NoLocks DEF InTransaction
  <2> QED BY <2>1, <2>2, <2>3, ResumeStep DEF Stages
<1>2. CASE Pending(req[r].trainer, req[r].email) # {}
  BY <1>2, RespondStep DEF Check
<1> QED BY <1>1, <1>2

(* A new row is nobody's: what handlers hold was created before.           *)
LEMMA CreateStep ==
    ASSUME IInv, NEW r \in Requests, NEW l \in LinkIds, Create(r, l)
    PROVE  IInv'
<1>1. Idle \in Handler /\ Idle.at = "idle" /\ HandlerOK(Idle)'
  BY DEF Handler, Stages, Idle, HandlerOK, InTransaction, Inserted
<1>2. req' = [req EXCEPT ![r] = Idle]
  BY DEF Create, Respond
<1>3. req[r].trainer \in Trainers /\ req[r].email \in Emails
  BY DEF Create, IInv, HandlerInv, HandlerOK
<1>4. /\ link' \in [LinkIds -> LinkRow]
      /\ link'[l].trainer = req[r].trainer /\ link'[l].email = req[r].email
      /\ link'[l].uses = 0
      /\ \A k \in LinkIds : k # l => link'[k] = link[k]
  BY <1>3, InviteTtlAssumption DEF Create, IInv, TypeOK, LinkRow
<1>5. ASSUME NEW q \in Requests PROVE HandlerOK(req[q])'
  <2>1. CASE q = r
    BY <1>1, <1>2, <2>1 DEF IInv, TypeOK
  <2>2. CASE q # r
    <3>1. req'[q] = req[q] /\ HandlerOK(req[q])
      BY <1>2, <2>2 DEF IInv, TypeOK, HandlerInv
    <3>2. req[q].at \in {"deactivate", "claim"} \cup InTransaction =>
              req[q].link \in LinkIds /\ req[q].link # l
      BY <3>1, NoneAssumption DEF HandlerOK, Create
    <3> QED
      BY <1>4, <3>1, <3>2 DEF HandlerOK, Create, InTransaction, Inserted
  <2> QED BY <2>1, <2>2
<1>6. LockInv'
  BY <1>1, <1>2, NoLocks, LockStep DEF InTransaction
<1>7. TypeOK'
  BY <1>1, <1>2, <1>4 DEF IInv, TypeOK, Create
<1>8. LinkInv'
  BY <1>3, <1>4, NoneAssumption DEF IInv, LinkInv
<1>9. UsedLinkBroughtCoach' /\ NoOrphanedAccount'
  BY <1>4 DEF IInv, UsedLinkBroughtCoach, NoOrphanedAccount, Create
<1> QED BY <1>5, <1>6, <1>7, <1>8, <1>9 DEF IInv, HandlerInv

LEMMA AcceptStep ==
    ASSUME IInv, NEW r \in Requests, NEW l \in LinkIds, NEW e \in Emails,
           NEW fresh \in BOOLEAN, Accept(r, l, e, fresh)
    PROVE  IInv'
<1> DEFINE h == [Idle EXCEPT !.at = "claim", !.link = l, !.email = e,
                             !.trainer = link[l].trainer, !.fresh = fresh]
<1>1. h \in Handler /\ h.at = "claim"
  BY DEF Handler, Stages, Idle, IInv, TypeOK, LinkRow
<1>2. HandlerOK(h)
  BY DEF HandlerOK, Accept, IInv, TypeOK, LinkRow, Idle, InTransaction,
     Inserted
<1>3. req' = [req EXCEPT ![r] = h]
  BY DEF Accept, Begin
<1> HIDE DEF h
<1>4. \A q \in Requests : Disjoint(req[q], h)
  BY <1>1, NoLocks DEF InTransaction
<1> QED BY <1>1, <1>2, <1>3, <1>4, HandlerStep DEF Accept, IInv, TypeOK

(* Claiming takes the row's lock, which nobody holds.                      *)
LEMMA ClaimStep ==
    ASSUME IInv, NEW r \in Requests, Claim(r)
    PROVE  IInv'
<1>1. CASE link[req[r].link].active
  <2>1. Resume(r, "findUser") /\ UNCHANGED <<now, link, user, coachOf>>
    BY <1>1 DEF Claim
  <2> DEFINE h == [req[r] EXCEPT !.at = "findUser"]
  <2>2. h \in Handler /\ h.at = "findUser" /\ HandlerOK(h)
    BY <1>1 DEF Claim, IInv, TypeOK, Handler, Stages, HandlerInv, HandlerOK,
       InTransaction, Inserted
  <2>3. \A q \in Requests \ {r} : Disjoint(req[q], h)
    BY <2>2 DEF Claim, LinkLocked, Disjoint, Inserted, IInv, TypeOK, Handler
  <2> QED BY <2>1, <2>2, <2>3, ResumeStep DEF Stages, InTransaction
<1>2. CASE ~link[req[r].link].active
  BY <1>2, RespondStep DEF Claim
<1> QED BY <1>1, <1>2

(* Within the transaction a handler keeps the lock of its row, and waits   *)
(* for the keys that others have inserted.                                 *)
LEMMA FindUserStep ==
    ASSUME IInv, NEW r \in Requests, FindUser(r)
    PROVE  IInv'
<1>1. CASE ~req[r].fresh /\ Resume(r, "findProfile")
  <2> DEFINE h == [req[r] EXCEPT !.at = "findProfile"]
  <2>1. HandlerOK(h)
    BY <1>1 DEF FindUser, IInv, TypeOK, Handler, HandlerInv, HandlerOK,
       InTransaction, Inserted
  <2>2. \A q \in Requests \ {r} : Disjoint(req[q], h)
    BY <1>1 DEF FindUser, Disjoint, InTransaction, Inserted, IInv, TypeOK,
       Handler, LockInv
  <2> QED BY <1>1, <2>1, <2>2, ResumeStep DEF FindUser, Stages, InTransaction
<1>2. CASE Respond(r)
  BY <1>2, RespondStep DEF FindUser
<1>3. CASE /\ req[r].fresh /\ req[r].email \notin user
           /\ Resume(r, "createUser")
  <2> DEFINE h == [req[r] EXCEPT !.at = "createUser"]
  <2>1. HandlerOK(h)
    BY <1>3 DEF FindUser, IInv, TypeOK, Handler, HandlerInv, HandlerOK,
       InTransaction, Inserted
  <2>2. \A q \in Requests \ {r} : Disjoint(req[q], h)
    BY <1>3 DEF FindUser, Disjoint, InTransaction, Inserted, IInv, TypeOK,
       Handler, LockInv
  <2> QED BY <1>3, <2>1, <2>2, ResumeStep DEF FindUser, Stages, InTransaction
<1> QED BY <1>1, <1>2, <1>3 DEF FindUser

LEMMA CreateUserStep ==
    ASSUME IInv, NEW r \in Requests, CreateUser(r)
    PROVE  IInv'
<1>1. CASE req[r].email \notin user
  <2>1. Resume(r, "findProfile") /\ UNCHANGED <<now, link, user, coachOf>>
    BY <1>1 DEF CreateUser
  <2> DEFINE h == [req[r] EXCEPT !.at = "findProfile"]
  <2>2. HandlerOK(h)
    BY <1>1 DEF CreateUser, IInv, TypeOK, Handler, HandlerInv, HandlerOK,
       InTransaction, Inserted
  <2>3. \A q \in Requests \ {r} : Disjoint(req[q], h)
    BY DEF CreateUser, UserLocked, Disjoint, InTransaction, Inserted, IInv,
       TypeOK, Handler, LockInv
  <2> QED BY <2>1, <2>2, <2>3, ResumeStep DEF Stages, InTransaction
<1>2. CASE req[r].email \in user
  BY <1>2, RespondStep DEF CreateUser
<1> QED BY <1>1, <1>2

LEMMA FindProfileStep ==
    ASSUME IInv, NEW r \in Requests, FindProfile(r)
    PROVE  IInv'
<1>1. CASE coachOf[req[r].email] = None /\ Resume(r, "createProfile")
  <2> DEFINE h == [req[r] EXCEPT !.at = "createProfile"]
  <2>1. HandlerOK(h)
    BY DEF FindProfile, IInv, TypeOK, Handler, HandlerInv, HandlerOK,
       InTransaction, Inserted
  <2>2. \A q \in Requests \ {r} : Disjoint(req[q], h)
    BY DEF FindProfile, Disjoint, InTransaction, Inserted, IInv, TypeOK,
       Handler, LockInv
  <2> QED
    BY <1>1, <2>1, <2>2, ResumeStep DEF FindProfile, Stages, InTransaction
<1>2. CASE coachOf[req[r].email] = req[r].trainer /\ Resume(r, "commit")
  <2> DEFINE h == [req[r] EXCEPT !.at = "commit"]
  <2>1. HandlerOK(h)
    BY <1>2 DEF FindProfile, IInv, TypeOK, Handler, HandlerInv, HandlerOK,
       InTransaction, Inserted
  <2>2. \A q \in Requests \ {r} : Disjoint(req[q], h)
    BY DEF FindProfile, Disjoint, InTransaction, Inserted, IInv, TypeOK,
       Handler, LockInv, HandlerInv, HandlerOK
  <2> QED
    BY <1>2, <2>1, <2>2, ResumeStep DEF FindProfile, Stages, InTransaction
<1>3. CASE Respond(r)
  BY <1>3, RespondStep DEF FindProfile
<1> QED BY <1>1, <1>2, <1>3 DEF FindProfile

LEMMA CreateProfileStep ==
    ASSUME IInv, NEW r \in Requests, CreateProfile(r)
    PROVE  IInv'
<1>1. CASE coachOf[req[r].email] = None
  <2> DEFINE h == [req[r] EXCEPT !.at = "commit", !.joins = TRUE]
  <2>1. h \in Handler
    BY DEF IInv, TypeOK, Handler, Stages, InTransaction
  <2>2. req' = [req EXCEPT ![r] = h]
    BY <1>1 DEF CreateProfile
  <2>3. HandlerOK(h)
    BY <1>1 DEF CreateProfile, IInv, TypeOK, Handler, HandlerInv, HandlerOK,
       InTransaction, Inserted
  <2>4. \A q \in Requests \ {r} : Disjoint(req[q], h)
    BY DEF CreateProfile, ProfileLocked, Disjoint, InTransaction, Inserted,
       IInv, TypeOK, Handler, LockInv
  <2> HIDE DEF h
  <2> QED
    BY <2>1, <2>2, <2>3, <2>4, HandlerStep DEF CreateProfile, IInv, TypeOK
<1>2. CASE coachOf[req[r].email] # None
  BY <1>2, RespondStep DEF CreateProfile
<1> QED BY <1>1, <1>2

(* A used link is a row with one more use and closed.                      *)
LEMMA UsedLinkType ==
    ASSUME NEW l \in LinkIds, link \in [LinkIds -> LinkRow]
    PROVE  UsedLink(l) \in LinkRow
<1>1. PICK row \in LinkRow : link[l] = row
  OBVIOUS
<1>2. [row EXCEPT !.active = FALSE, !.uses = row.uses + 1] \in LinkRow
  <2> DEFINE uses == row.uses + 1
  <2>1. uses \in Nat
    BY DEF LinkRow
  <2> HIDE DEF uses
  <2>2. [row EXCEPT !.active = FALSE, !.uses = uses] \in LinkRow
    BY <2>1 DEF LinkRow
  <2> QED BY <2>2 DEF uses
<1> QED BY <1>1, <1>2 DEF UsedLink

(* The commit publishes what the locks kept for it: the link is used, the  *)
(* account exists and coaches for the trainer of the link.                 *)
LEMMA CommitStep ==
    ASSUME IInv, NEW r \in Requests, Commit(r)
    PROVE  /\ IInv'
           /\ coachOf[req[r].email] \in {None, req[r].trainer}
           /\ coachOf' = [coachOf EXCEPT ![req[r].email] = req[r].trainer]
<1> DEFINE h == [req[r] EXCEPT !.at = "issue"]
           k == req[r].link
           e == req[r].email
           t == req[r].trainer
<1>1. h \in Handler /\ h.at = "issue" /\ req' = [req EXCEPT ![r] = h]
  BY DEF Commit, Resume, IInv, TypeOK, Handler, Stages
<1>2. /\ k \in LinkIds /\ e \in Emails /\ t \in Trainers
      /\ link[k].trainer = t /\ Mailbox[e] = Mailbox[link[k].email]
      /\ link[k].active /\ (~req[r].fresh => e \in user)
      /\ coachOf[e] = IF req[r].joins THEN None ELSE t
  BY DEF Commit, IInv, HandlerInv, HandlerOK, InTransaction
<1>3. coachOf' = [coachOf EXCEPT ![e] = t]
  <2>1. CASE req[r].joins
    BY <2>1 DEF Commit
  <2>2. CASE ~req[r].joins
    <3>1. coachOf[e] = t /\ coachOf \in [Emails -> Trainers \cup {None}]
      BY <1>2, <2>2 DEF IInv, TypeOK
    <3>2. coachOf = [coachOf EXCEPT ![e] = t]
      BY <3>1
    <3> QED BY <2>2, <3>2 DEF Commit
  <2> QED BY <2>1, <2>2
<1>4. user' = user \cup {e}
  <2>1. CASE req[r].fresh
    BY <2>1 DEF Commit
  <2>2. CASE ~req[r].fresh
    BY <1>2, <2>2 DEF Commit
  <2> QED BY <2>1, <2>2
<1>5. link[k].uses = 0 /\ UsedLink(k) \in LinkRow
  BY <1>2, UsedLinkType DEF IInv, LinkInv, TypeOK
<1>6. /\ link' \in [LinkIds -> LinkRow]
      /\ link'[k].trainer = t /\ link'[k].email = link[k].email
      /\ link'[k].uses = 1 /\ ~link'[k].active
      /\ \A l \in LinkIds : l # k => link'[l] = link[l]
  BY <1>2, <1>5 DEF Commit, IInv, TypeOK, LinkRow, UsedLink
<1> HIDE DEF h
<1>7. ASSUME NEW q \in Requests PROVE HandlerOK(req[q])'
  <2>1. CASE q = r
    BY <1>1, <2>1 DEF IInv, TypeOK, HandlerOK, InTransaction, Inserted
  <2>2. CASE q # r
    <3>1. /\ req'[q] = req[q] /\ HandlerOK(req[q])
          /\ Disjoint(req[r], req[q])
      BY <1>1, <2>2 DEF IInv, TypeOK, HandlerInv, LockInv
    <3>2. req[q].at \in InTransaction => req[q].link # k
      BY <3>1 DEF Disjoint, Commit, InTransaction
    <3>3. req[q].at \in Inserted /\ req[q].fresh => req[q].email \notin user'
      BY <3>1 DEF Disjoint, Commit, Inserted, HandlerOK
    <3>4. req[q].at = "commit" =>
              coachOf'[req[q].email]
                  = IF req[q].joins THEN None ELSE req[q].trainer
      BY <1>2, <1>3, <3>1, NoneAssumption DEF Disjoint, Commit, HandlerOK,
         InTransaction, IInv, TypeOK
    <3> QED
      BY <1>2, <1>4, <1>6, <3>1, <3>2, <3>3, <3>4 DEF HandlerOK, InTransaction
  <2> QED BY <2>1, <2>2
<1>8. LockInv'
  BY <1>1, NoLocks, LockStep DEF InTransaction
<1>9. TypeOK'
  BY <1>1, <1>2, <1>3, <1>4, <1>6 DEF IInv, TypeOK, Commit
<1>10. LinkInv'
  BY <1>2, <1>6, NoneAssumption DEF IInv, LinkInv
<1>11. UsedLinkBroughtCoach'
  BY <1>2, <1>3, <1>4, <1>6 DEF IInv, UsedLinkBroughtCoach, LinkInv, TypeOK
<1>12. NoOrphanedAccount'
  BY <1>2, <1>3, <1>4, NoneAssumption DEF IInv, NoOrphanedAccount, TypeOK
<1> QED
  BY <1>2, <1>3, <1>7, <1>8, <1>9, <1>10, <1>11, <1>12 DEF IInv, HandlerInv

LEMMA TickStep == IInv /\ Tick => IInv'
BY DEF Tick, IInv, TypeOK, HandlerInv, HandlerOK, LockInv, Disjoint, LinkInv,
   UsedLinkBroughtCoach, NoOrphanedAccount

-----------------------------------------------------------------------------
(* Every step preserves the invariant.                                     *)
LEMMA NextInv == IInv /\ [Next]_vars => IInv'
<1> SUFFICES ASSUME IInv, [Next]_vars PROVE IInv'
  OBVIOUS
<1>1. CASE Tick
  BY <1>1, TickStep
<1>2. ASSUME NEW r \in Requests, Arrive(r) PROVE IInv'
  BY <1>2, GenerateStep, ResendStep, AcceptStep DEF Arrive
<1>3. ASSUME NEW r \in Requests, Continue(r) PROVE IInv'
  <2>1. CASE Issue(r)
    BY <2>1, RespondStep DEF Issue
  <2> QED
    BY <1>3, <2>1, DeactivateStep, CheckStep, CreateStep, ClaimStep,
       FindUserStep, CreateUserStep, FindProfileStep, CreateProfileStep,
       CommitStep DEF Continue
<1>4. ASSUME NEW r \in Requests, Fail(r) PROVE IInv'
  BY <1>4, RespondStep DEF Fail
<1>5. CASE UNCHANGED vars
  BY <1>5 DEF vars, IInv, TypeOK, HandlerInv, HandlerOK, LockInv, Disjoint,
     LinkInv, UsedLinkBroughtCoach, NoOrphanedAccount
<1> QED BY <1>1, <1>2, <1>3, <1>4, <1>5 DEF Next

(* The locks of acceptInvite's transactions stay disjoint, and what their  *)
(* handlers read under them stays true until they commit.                  *)
THEOREM InductiveInvariant == Spec => []IInv
BY InitInv, NextInv, PTL DEF Spec

(* The tables and the handlers always have their types.                    *)
THEOREM TypeCorrect == Spec => []TypeOK
<1>1. IInv => TypeOK
  BY DEF IInv
<1> QED BY <1>1, InductiveInvariant, PTL

(* An invite is used at most once, and only with a coach of the invited    *)
(* mailbox having joined the inviting trainer (acceptInvite).              *)
THEOREM InvitesBringCoaches == Spec => []UsedLinkBroughtCoach
<1>1. IInv => UsedLinkBroughtCoach
  BY DEF IInv
<1> QED BY <1>1, InductiveInvariant, PTL

(* No accept leaves an account that is not a coach, whatever it raced with *)
(* and wherever it stopped (acceptInvite).                                 *)
THEOREM NoAccountIsOrphaned == Spec => []NoOrphanedAccount
<1>1. IInv => NoOrphanedAccount
  BY DEF IInv
<1> QED BY <1>1, InductiveInvariant, PTL

-----------------------------------------------------------------------------
(* The refinement of InviteLedger, action by action.                       *)
LEMMA InitRefines == Init => Ledger!Init
BY DEF Init, Ledger!Init, OfferOf, UnusedLink

(* Steps that leave links and coaches alone are no steps of the ledger.    *)
LEMMA StutterRefines ==
    ASSUME UNCHANGED <<link, coachOf>> PROVE UNCHANGED Ledger!ledger
BY DEF Ledger!ledger, OfferOf

LEMMA CreateRefines ==
    ASSUME IInv, NEW r \in Requests, NEW l \in LinkIds, Create(r, l)
    PROVE  Ledger!Next
<1>1. req[r].trainer \in Trainers
  BY DEF Create, IInv, HandlerInv, HandlerOK
<1>2. /\ link'[l].trainer = req[r].trainer /\ link'[l].active
      /\ link'[l].uses = 0
      /\ \A k \in LinkIds : k # l => link'[k] = link[k]
  BY DEF Create, IInv, TypeOK
<1>3. OfferOf(l)' = [state |-> "open", trainer |-> req[r].trainer]
  BY <1>1, <1>2, NoneAssumption DEF OfferOf
<1>4. \A k \in LinkIds : k # l => OfferOf(k)' = OfferOf(k)
  BY <1>2 DEF OfferOf
<1>5. OfferOf(l).state = "none"
  BY DEF Create, OfferOf
<1>6. Ledger!Invite(l, req[r].trainer)
  BY <1>3, <1>4, <1>5 DEF Ledger!Invite, Create
<1> QED BY <1>1, <1>6 DEF Ledger!Next

(* Withdrawing a link that is closed already does nothing.                 *)
LEMMA DeactivateRefines ==
    ASSUME IInv, NEW r \in Requests, Deactivate(r)
    PROVE  Ledger!Next \/ UNCHANGED Ledger!ledger
<1>1. PICK l \in LinkIds : l = req[r].link
  BY DEF Deactivate, IInv, HandlerInv, HandlerOK
<1>2. /\ link[l] \in LinkRow
      /\ link' = [link EXCEPT ![l] = [link[l] EXCEPT !.active = FALSE]]
  BY <1>1 DEF Deactivate, IInv, TypeOK
<1>3. /\ link'[l] = [link[l] EXCEPT !.active = FALSE]
      /\ \A k \in LinkIds : k # l => link'[k] = link[k]
  BY <1>2 DEF IInv, TypeOK
<1>4. \A k \in LinkIds : k # l => OfferOf(k)' = OfferOf(k)
  BY <1>3 DEF OfferOf
<1>5. CASE link[l].active
  <2>1. /\ OfferOf(l) = [state |-> "open", trainer |-> link[l].trainer]
        /\ OfferOf(l)' = [state |-> "withdrawn", trainer |-> link[l].trainer]
    BY <1>2, <1>3, <1>5, NoneAssumption DEF OfferOf, IInv, LinkInv, LinkRow
  <2>2. OfferOf(l)' = [OfferOf(l) EXCEPT !.state = "withdrawn"]
    BY <2>1
  <2>3. [k \in LinkIds |-> OfferOf(k)]'
            = [[k \in LinkIds |-> OfferOf(k)] EXCEPT
                 ![l].state = "withdrawn"]
    <3> DEFINE offer == [k \in LinkIds |-> OfferOf(k)]
    <3>1. offer' = [offer EXCEPT
                      ![l] = [OfferOf(l) EXCEPT !.state = "withdrawn"]]
      BY <1>4, <2>2
    <3>2. offer[l] = OfferOf(l)
      OBVIOUS
    <3> HIDE DEF offer
    <3>3. offer' = [offer EXCEPT ![l].state = "withdrawn"]
      BY <3>1, <3>2
    <3> QED BY <3>3 DEF offer
  <2>4. Ledger!Withdraw(l)
    BY <2>1, <2>3 DEF Ledger!Withdraw, Deactivate
  <2> QED BY <2>4 DEF Ledger!Next
<1>6. CASE ~link[l].active
  <2>1. OfferOf(l)' = OfferOf(l)
    BY <1>2, <1>3, <1>6 DEF OfferOf, LinkRow
  <2> QED BY <1>4, <2>1 DEF Ledger!ledger, Deactivate
<1> QED BY <1>5, <1>6

(* The commit is where an invite is accepted and its coach joins.          *)
LEMMA CommitRefines ==
    ASSUME IInv, NEW r \in Requests, Commit(r)
    PROVE  Ledger!Next
<1>1. PICK l \in LinkIds :
        /\ l = req[r].link /\ link[l] \in LinkRow /\ req[r].email \in Emails
        /\ link[l].trainer = req[r].trainer /\ req[r].trainer \in Trainers
        /\ link[l].active
  BY DEF Commit, IInv, TypeOK, HandlerInv, HandlerOK, InTransaction
<1>2. link[l].uses = 0
  BY <1>1 DEF IInv, LinkInv
<1>3. /\ link'[l].trainer = link[l].trainer /\ link'[l].uses = 1
      /\ \A k \in LinkIds : k # l => link'[k] = link[k]
  BY <1>1, <1>2 DEF Commit, UsedLink, IInv, TypeOK, LinkRow
<1>4. /\ OfferOf(l) = [state |-> "open", trainer |-> req[r].trainer]
      /\ OfferOf(l)' = [state |-> "accepted", trainer |-> req[r].trainer]
  BY <1>1, <1>2, <1>3, NoneAssumption DEF OfferOf
<1>5. \A k \in LinkIds : k # l => OfferOf(k)' = OfferOf(k)
  BY <1>3 DEF OfferOf
<1>6. Ledger!Accept(l, req[r].email)
  BY <1>1, <1>4, <1>5, CommitStep DEF Ledger!Accept
<1> QED BY <1>1, <1>6 DEF Ledger!Next

(* Every step is a step of the ledger or leaves it as it is.               *)
LEMMA NextRefines ==
    IInv /\ [Next]_vars => [Ledger!Next]_(Ledger!ledger)
<1> SUFFICES ASSUME IInv, [Next]_vars
             PROVE  Ledger!Next \/ UNCHANGED Ledger!ledger
  OBVIOUS
<1>1. CASE Tick \/ UNCHANGED vars
  BY <1>1, StutterRefines DEF Tick, vars
<1>2. ASSUME NEW r \in Requests, Arrive(r) \/ Fail(r)
      PROVE  UNCHANGED Ledger!ledger
  BY <1>2, StutterRefines DEF Arrive, Generate, Resend, Accept, Fail
<1>3. ASSUME NEW r \in Requests, Continue(r)
      PROVE  Ledger!Next \/ UNCHANGED Ledger!ledger
  <2>1. CASE \/ Check(r) \/ Claim(r) \/ FindUser(r) \/ CreateUser(r)
             \/ FindProfile(r) \/ CreateProfile(r) \/ Issue(r)
    BY <2>1, StutterRefines DEF Check, Claim, FindUser, CreateUser,
       FindProfile, CreateProfile, Issue
  <2> QED
    BY <1>3, <2>1, DeactivateRefines, CreateRefines, CommitRefines
       DEF Continue
<1> QED BY <1>1, <1>2, <1>3 DEF Next

(* The calls, the locks and the one commit of acceptInvite implement the   *)
(* ledger, in which accepting and joining are one step.                    *)
THEOREM LedgerImplemented == Spec => ImplementsLedger
BY InitRefines, NextRefines, InductiveInvariant, PTL
   DEF Spec, ImplementsLedger, Ledger!Spec
=============================================================================
