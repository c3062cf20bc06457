---------------------------- MODULE CoachInvites ----------------------------
(***************************************************************************)
(* Coach invites: ShareLinkService (generate, resend, conflict check) and  *)
(* CoachInviteAcceptService.acceptInvite.                                  *)
(*                                                                         *)
(* One action per database call.  acceptInvite runs most of its calls in   *)
(* an interactive transaction at READ COMMITTED: its writes are visible    *)
(* to nobody, but hold their row and unique-index locks, until it commits. *)
(* The tables below hold what is committed; what a transaction has written *)
(* so far follows from where its handler stands.                           *)
(*                                                                         *)
(* Emails are exact spellings, as the database compares them; Mailbox      *)
(* folds letter case, as assertMatchesTargetEmail does.                    *)
(***************************************************************************)
EXTENDS Naturals, FiniteSets

CONSTANTS Trainers,   \* accounts that may invite
          Emails,     \* spellings of email addresses
          Mailbox,    \* Mailbox[e]: the address in lower case
          Registered, \* accounts that exist at the start
          LinkIds,    \* ShareLink rows of type UNIQUE that may be created
          Requests,   \* handlers that may be in flight together
          InviteTtl,  \* COACH_INVITE_TTL_MS
          MaxTime,    \* bound of the clock
          MayFail,    \* whether a handler may stop at an await
          None

ASSUME RegisteredAssumption == Registered \subseteq Emails
ASSUME InviteTtlAssumption == InviteTtl \in Nat \ {0} /\ MaxTime \in Nat
ASSUME NoneAssumption == /\ None \notin Trainers
                         /\ None \notin Emails
                         /\ None \notin LinkIds

VARIABLES now,      \* Date.now()
          link,     \* table ShareLink
          user,     \* emails of table User
          coachOf,  \* table CoachProfile: the trainer of each account
          req       \* handlers in flight

vars == <<now, link, user, coachOf, req>>

-----------------------------------------------------------------------------
LinkRow == [trainer : Trainers \cup {None}, email : Emails \cup {None},
            expires : Nat, active : BOOLEAN, uses : Nat]

(* A row that was not created yet has no trainer.                          *)
UnusedLink == [trainer |-> None, email |-> None, expires |-> 0,
               active |-> FALSE, uses |-> 0]

(* The call a handler is suspended at.  From findUser to commit, the       *)
(* transaction of acceptInvite is open.                                    *)
InTransaction == {"findUser", "createUser", "findProfile", "createProfile",
                  "commit"}

Stages == {"idle", "deactivate", "check", "create", "claim", "issue"}
              \cup InTransaction

(* fresh: acceptInvite is called without a session and creates the         *)
(* account.  joins: its transaction has inserted a CoachProfile.           *)
Handler == [at : Stages, link : LinkIds \cup {None},
            trainer : Trainers \cup {None}, email : Emails \cup {None},
            fresh : BOOLEAN, joins : BOOLEAN]

Idle == [at |-> "idle", link |-> None, trainer |-> None, email |-> None,
         fresh |-> FALSE, joins |-> FALSE]

TypeOK ==
    /\ now \in Nat
    /\ link \in [LinkIds -> LinkRow]
    /\ user \in SUBSET Emails
    /\ coachOf \in [Emails -> Trainers \cup {None}]
    /\ req \in [Requests -> Handler]

Init ==
    /\ now = 0
    /\ link = [l \in LinkIds |-> UnusedLink]
    /\ user = Registered
    /\ coachOf \in [Emails -> Trainers \cup {None}]
    /\ \A e \in Emails \ Registered : coachOf[e] = None
    /\ req = [r \in Requests |-> Idle]

-----------------------------------------------------------------------------
(* Handlers and what their transactions hold.                              *)

Begin(r, handler) ==
    /\ req[r].at = "idle"
    /\ req' = [req EXCEPT ![r] = handler]

Resume(r, stage) == req' = [req EXCEPT ![r].at = stage]

(* The answer of a handler; within a transaction, an exception, which      *)
(* rolls back what it wrote.                                               *)
Respond(r) == req' = [req EXCEPT ![r] = Idle]

LinkLocked(l) == \E q \in Requests : /\ req[q].at \in InTransaction
                                     /\ req[q].link = l

UserLocked(e) ==
    \E q \in Requests :
        /\ req[q].at \in {"findProfile", "createProfile", "commit"}
        /\ req[q].fresh /\ req[q].email = e

ProfileLocked(e) == \E q \in Requests : /\ req[q].at = "commit"
                                        /\ req[q].joins /\ req[q].email = e

Unexpired(l) == now < link[l].expires

(* Bound: an invite is generated only while there is room for its row.     *)
LinksLeft ==
    Cardinality({r \in Requests : req[r].at \in {"deactivate", "check",
                                                 "create"}})
        < Cardinality({l \in LinkIds : link[l].trainer = None})

-----------------------------------------------------------------------------
(* generateCoachInvite, called for itself or by resendInvite.              *)
Generate(r, t, e) ==
    /\ LinksLeft
    /\ Begin(r, [Idle EXCEPT !.at = "check", !.trainer = t, !.email = e])
    /\ UNCHANGED <<now, link, user, coachOf>>

(* resendInvite finds the trainer's own link, whatever became of it.       *)
Resend(r, l) ==
    /\ link[l].trainer # None
    /\ LinksLeft
    /\ Begin(r, [Idle EXCEPT !.at = "deactivate", !.link = l,
                             !.trainer = link[l].trainer,
                             !.email = link[l].email])
    /\ UNCHANGED <<now, link, user, coachOf>>

(* The update waits for a transaction that claimed the row.                *)
Deactivate(r) ==
    /\ req[r].at = "deactivate"
    /\ ~LinkLocked(req[r].link)
    /\ link' = [link EXCEPT ![req[r].link].active = FALSE]
    /\ Resume(r, "check")
    /\ UNCHANGED <<now, user, coachOf>>

(* assertNoConflictingPendingInvite looks at the latest pending link only; *)
(* it expires last, for all have the same lifetime.                        *)
Pending(t, e) ==
    {l \in LinkIds : /\ link[l].trainer = t /\ link[l].email = e
                     /\ link[l].active /\ link[l].uses = 0 /\ Unexpired(l)}

Check(r) ==
    /\ req[r].at = "check"
    /\ IF Pending(req[r].trainer, req[r].email) = {}
       THEN Resume(r, "create") ELSE Respond(r)
    /\ UNCHANGED <<now, link, user, coachOf>>

Create(r, l) ==
    /\ req[r].at = "create"
    /\ link[l].trainer = None
    /\ link' = [link EXCEPT ![l] =
                  [trainer |-> req[r].trainer, email |-> req[r].email,
                   expires |-> now + InviteTtl, active |-> TRUE, uses |-> 0]]
    /\ Respond(r)
    /\ UNCHANGED <<now, user, coachOf>>

(* acceptInvite: the link is read and validated, and the account's email   *)
(* or the submitted one compared with the invited one.                     *)
Accept(r, l, e, fresh) ==
    /\ link[l].trainer # None
    /\ link[l].active /\ link[l].uses = 0 /\ Unexpired(l)
    /\ Mailbox[e] = Mailbox[link[l].email]
    /\ ~fresh => e \in user
    /\ Begin(r, [Idle EXCEPT !.at = "claim", !.link = l, !.email = e,
                             !.trainer = link[l].trainer, !.fresh = fresh])
    /\ UNCHANGED <<now, link, user, coachOf>>

(* Mutant of UsedLink: the use is taken off.                               *)
UsedLinkDown(l) == [link[l] EXCEPT !.active = FALSE, !.uses = @ - 1]

UsedLink(l) == [link[l] EXCEPT !.active = FALSE, !.uses = @ + 1]

(* Mutant of Claim: the claim is committed before the rest.                *)
ClaimAlone(r) ==
    /\ req[r].at = "claim"
    /\ link[req[r].link].active
    /\ link' = [link EXCEPT ![req[r].link] = UsedLink(req[r].link)]
    /\ Resume(r, "findUser")
    /\ UNCHANGED <<now, user, coachOf>>

(* The transaction starts with the guarded update of the link; it waits    *)
(* for another transaction's claim and then sees its outcome.              *)
Claim(r) ==
    /\ req[r].at = "claim"
    /\ ~LinkLocked(req[r].link)
    /\ IF link[req[r].link].active THEN Resume(r, "findUser") ELSE Respond(r)
    /\ UNCHANGED <<now, link, user, coachOf>>

FindUser(r) ==
    /\ req[r].at = "findUser"
    /\ \/ ~req[r].fresh /\ Resume(r, "findProfile")
       \/ req[r].fresh /\ req[r].email \in user /\ Respond(r)
       \/ req[r].fresh /\ req[r].email \notin user /\ Resume(r, "createUser")
    /\ UNCHANGED <<now, link, user, coachOf>>

(* Mutant of CreateUser: the account is created outside the transaction.   *)
CreateUserAlone(r) ==
    /\ req[r].at = "createUser"
    /\ user' = user \cup {req[r].email}
    /\ Resume(r, "findProfile")
    /\ UNCHANGED <<now, link, coachOf>>

(* The insert waits for an uncommitted one of the same email and fails     *)
(* (P2002) when that one commits.                                          *)
CreateUser(r) ==
    /\ req[r].at = "createUser"
    /\ ~UserLocked(req[r].email)
    /\ IF req[r].email \in user THEN Respond(r) ELSE Resume(r, "findProfile")
    /\ UNCHANGED <<now, link, user, coachOf>>

(* Mutant of FindProfile: a coach of another trainer is never answered.    *)
FindProfileSilent(r) ==
    LET trainer == coachOf[req[r].email]
    IN  /\ req[r].at = "findProfile"
        /\ \/ trainer = None /\ Resume(r, "createProfile")
           \/ trainer = req[r].trainer /\ Resume(r, "commit")
        /\ UNCHANGED <<now, link, user, coachOf>>

FindProfile(r) ==
    LET trainer == coachOf[req[r].email]
    IN  /\ req[r].at = "findProfile"
        /\ \/ trainer = None /\ Resume(r, "createProfile")
           \/ trainer = req[r].trainer /\ Resume(r, "commit")
           \/ trainer \notin {None, req[r].trainer} /\ Respond(r)
        /\ UNCHANGED <<now, link, user, coachOf>>

(* Mutant of CreateProfile: an upsert, whatever was committed meanwhile.   *)
UpsertProfile(r) ==
    /\ req[r].at = "createProfile"
    /\ req' = [req EXCEPT ![r] = [@ EXCEPT !.at = "commit", !.joins = TRUE]]
    /\ UNCHANGED <<now, link, user, coachOf>>

(* CoachProfile.userId is unique: as for the email.                        *)
CreateProfile(r) ==
    /\ req[r].at = "createProfile"
    /\ ~ProfileLocked(req[r].email)
    /\ IF coachOf[req[r].email] # None
       THEN Respond(r)
       ELSE req' = [req EXCEPT ![r] = [@ EXCEPT !.at = "commit",
                                                !.joins = TRUE]]
    /\ UNCHANGED <<now, link, user, coachOf>>

Commit(r) ==
    /\ req[r].at = "commit"
    /\ link' = [link EXCEPT ![req[r].link] = UsedLink(req[r].link)]
    /\ user' = IF req[r].fresh THEN user \cup {req[r].email} ELSE user
    /\ coachOf' = IF req[r].joins
                  THEN [coachOf EXCEPT ![req[r].email] = req[r].trainer]
                  ELSE coachOf
    /\ Resume(r, "issue")
    /\ UNCHANGED now

(* The token pair is issued (Sessions models that) and returned.           *)
Issue(r) ==
    /\ req[r].at = "issue"
    /\ Respond(r)
    /\ UNCHANGED <<now, link, user, coachOf>>

(* A database error, a missing field or the end of the process.            *)
Fail(r) ==
    /\ MayFail
    /\ req[r].at # "idle"
    /\ Respond(r)
    /\ UNCHANGED <<now, link, user, coachOf>>

Tick ==
    /\ now < MaxTime
    /\ now' = now + 1
    /\ UNCHANGED <<link, user, coachOf, req>>

Arrive(r) ==
    \/ \E t \in Trainers, e \in Emails : Generate(r, t, e)
    \/ \E l \in LinkIds : Resend(r, l)
    \/ \E l \in LinkIds, e \in Emails, fresh \in BOOLEAN :
          Accept(r, l, e, fresh)

Continue(r) ==
    \/ Deactivate(r) \/ Check(r) \/ \E l \in LinkIds : Create(r, l)
    \/ Claim(r) \/ FindUser(r) \/ CreateUser(r) \/ FindProfile(r)
    \/ CreateProfile(r) \/ Commit(r) \/ Issue(r)

Next ==
    \/ Tick
    \/ \E r \in Requests : Arrive(r) \/ Continue(r) \/ Fail(r)

Spec == Init /\ [][Next]_vars

(* Every await settles; a lock goes to the transactions that queue for it  *)
(* in their order, so none is passed over forever (strong fairness).       *)
FairSpec == Spec /\ \A r \in Requests : SF_vars(Continue(r))

-----------------------------------------------------------------------------
(* Properties.                                                             *)

(* An invite is used at most once and never stays open after it; a used    *)
(* invite brought a coach of the invited mailbox to the inviting trainer,  *)
(* so a rejected attempt never burns it.  (acceptInvite claims the link    *)
(* first, in the transaction that creates the account and the profile.)    *)
UsedLinkBroughtCoach ==
    \A l \in LinkIds :
        link[l].uses > 0 =>
            /\ link[l].uses = 1 /\ ~link[l].active
            /\ \E e \in user : /\ Mailbox[e] = Mailbox[link[l].email]
                               /\ coachOf[e] = link[l].trainer

(* No accept, whatever it raced with and wherever it stopped, leaves an    *)
(* account that is not a coach.  ("a losing request never leaves behind    *)
(* an orphaned account".)                                                  *)
NoOrphanedAccount ==
    \A e \in user \ Registered : coachOf[e] # None

(* The transactions together do what one step of the ledger does.          *)
OfferOf(l) ==
    [state |-> IF link[l].trainer = None THEN "none"
               ELSE IF link[l].uses > 0 THEN "accepted"
               ELSE IF link[l].active THEN "open" ELSE "withdrawn",
     trainer |-> link[l].trainer]

Ledger == INSTANCE InviteLedger WITH offer <- [l \in LinkIds |-> OfferOf(l)]

(* Every invite is open, then accepted once or withdrawn, atomically with  *)
(* the coach joining; a coach never changes trainer.                       *)
ImplementsLedger == Ledger!Spec

(* Row and unique-index locks never leave handlers waiting for each other: *)
(* every handler answers.                                                  *)
HandlersAnswer == \A r \in Requests : req[r].at # "idle" ~> req[r].at = "idle"

(* "never leave two simultaneously-active links for the same pending       *)
(* invite": one trainer has at most one open unexpired invite per email.   *)
(* (resendInvite and assertNoConflictingPendingInvite; it takes handlers   *)
(* that do not overlap.)                                                   *)
OnePendingInvite ==
    \A t \in Trainers, e \in Emails :
        \A l, m \in Pending(t, e) : l = m
=============================================================================
