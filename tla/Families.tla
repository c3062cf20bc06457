------------------------------- MODULE Families -------------------------------
(***************************************************************************)
(* Families and their trainers: registration by a trainer's static link or *)
(* from a camp draft, child profiles, child logins and associations with   *)
(* trainers.  One action per database call; the drafts are a Map in the    *)
(* memory of the process, so what happens to them between two awaits is    *)
(* one step.  ShareLink.useCount of a static link, which no handler reads, *)
(* is left out.                                                            *)
(***************************************************************************)
EXTENDS Naturals, FiniteSets

CONSTANTS Users,     \* accounts that may come to exist
          Profiles,  \* PlayerProfile rows that may be created
          Trainers,  \* each with one static link
          Drafts,    \* camp drafts that may be created
          MaxDrafts, \* MAX_DRAFTS
          Requests,  \* handlers that may be in flight together
          None

ASSUME BoundAssumption == MaxDrafts \in Nat \ {0} /\ IsFiniteSet(Drafts)
ASSUME NoneAssumption ==
    None \notin Users \cup Profiles \cup Trainers \cup Drafts
ASSUME ProfileAssumption == Profiles \cap {"none", "adult"} = {}

VARIABLES account, \* table User: "none", "adult", or the child profile that
                   \* a child's account was created for
          profile, \* table PlayerProfile
          status,  \* TrainerPlayerAssociation.status, of every pair
          draft,   \* the map of drafts: age rank (0: not in it) and trainer
          req,     \* handlers in flight
          hist     \* history: accounts that spent each draft, accounts
                   \* whose handler stopped

data == <<account, profile, status>>
vars == <<account, profile, status, draft, req, hist>>

-----------------------------------------------------------------------------
Pairs == Trainers \X Profiles

NoProfile == [kind |-> "none", parent |-> None, login |-> None]

Profile == [kind : {"none", "self", "child"}, parent : Users \cup {None},
            login : Users \cup {None}]

(* todo are the pairs still to associate, pair the one being worked on.    *)
Handler == [at : {"idle", "register", "consume", "self", "create", "look",
                  "insert", "activate", "remove", "join", "enrol", "child",
                  "provision"},
            user : Users \cup {None}, draft : Drafts \cup {None},
            trainer : Trainers \cup {None}, profile : Profiles \cup {None},
            todo : SUBSET Pairs]

Idle == [at |-> "idle", user |-> None, draft |-> None, trainer |-> None,
         profile |-> None, todo |-> {}]

TypeOK ==
    /\ account \in [Users -> {"none", "adult"} \cup Profiles]
    /\ profile \in [Profiles -> Profile]
    /\ status \in [Pairs -> {"none", "ACTIVE", "REMOVED"}]
    /\ draft \in [Drafts -> [at : Nat, trainer : Trainers \cup {None}]]
    /\ req \in [Requests -> Handler]
    /\ hist \in [spent : [Drafts -> SUBSET Users], stopped : SUBSET Users]

Init ==
    /\ account = [u \in Users |-> "none"]
    /\ profile = [p \in Profiles |-> NoProfile]
    /\ status = [x \in Pairs |-> "none"]
    /\ draft = [d \in Drafts |-> [at |-> 0, trainer |-> None]]
    /\ req = [r \in Requests |-> Idle]
    /\ hist = [spent |-> [d \in Drafts |-> {}], stopped |-> {}]

-----------------------------------------------------------------------------
(* Handlers.                                                               *)

Begin(r, handler) ==
    /\ req[r].at = "idle"
    /\ req' = [req EXCEPT ![r] = handler]

Resume(r, handler) == req' = [req EXCEPT ![r] = handler]

Respond(r) == req' = [req EXCEPT ![r] = Idle]

Pair(r) == <<req[r].trainer, req[r].profile>>

(* Handlers that are to insert a profile, and ids left for them: a bound.  *)
Unused == {p \in Profiles : profile[p].kind = "none"}

ProfilesLeft ==
    Cardinality(Unused) > Cardinality(
        {r \in Requests : req[r].at \in {"register", "consume", "self",
                                         "create"}})

(* Mutant of MayManage: parentUserId is not looked at.                     *)
MayManageAnybody(u) == account[u] # "none"

(* assertNotChildAccount, and ChildAccountGuard before it.                 *)
MayManage(u) == account[u] = "adult"

Owned(u) == {p \in Profiles : profile[p].login = u \/ profile[p].parent = u}

(* findUnique by userId.                                                   *)
SelfProfiles(u) == {p \in Profiles : profile[p].login = u}

(* Mutant of SelfProfile: userId is not stored.                            *)
SelfProfileUnlinked(u) == [kind |-> "self", parent |-> u]

SelfProfile(u) == [kind |-> "self", parent |-> u, login |-> u]

Associate(x) == status' = [status EXCEPT ![x] = "ACTIVE"]

-----------------------------------------------------------------------------
(* Camp drafts.                                                            *)

(* In the map and not expired.  An expired draft is as good as gone: no    *)
(* handler returns it, and it is swept before the map is measured.         *)
Live == {d \in Drafts : draft[d].at > 0}

Oldest == {d \in Live : \A e \in Live : draft[d].at <= draft[e].at}

(* createPrefillDraft gives up the oldest draft if there is no room left.  *)
CreateDraft(d, t) ==
    LET full == Cardinality(Live) >= MaxDrafts
        created == {e \in Drafts : draft[e].trainer # None}
    IN  /\ draft[d].trainer = None
        /\ draft' = [e \in Drafts |->
               CASE e = d -> [at |-> Cardinality(created) + 1, trainer |-> t]
                 [] e # d /\ full /\ e \in Oldest -> [draft[e] EXCEPT !.at = 0]
                 [] OTHER -> draft[e]]
        /\ UNCHANGED <<data, req, hist>>

(* Drafts live equally long, so they expire in the order of their creation.*)
Expire(d) ==
    /\ d \in Oldest
    /\ draft' = [draft EXCEPT ![d].at = 0]
    /\ UNCHANGED <<data, req, hist>>

-----------------------------------------------------------------------------
(* Registration: POST /auth/register, with or without a draft, and a new   *)
(* person's POST /join/:code/register.  The look-up of the email comes     *)
(* before the hashing of the password and the transaction.                 *)

Register(r, u, d) ==
    /\ account[u] = "none"
    /\ ProfilesLeft
    /\ Begin(r, [Idle EXCEPT !.at = "register", !.user = u, !.draft = d])
    /\ UNCHANGED <<data, draft, hist>>

RegisterByLink(r, u, t) ==
    /\ account[u] = "none"
    /\ ProfilesLeft
    /\ Begin(r, [Idle EXCEPT !.at = "register", !.user = u, !.trainer = t])
    /\ UNCHANGED <<data, draft, hist>>

(* The email's unique index refuses the second of two.                     *)
CreateAccount(r) ==
    LET u == req[r].user
        h == req[r]
    IN  /\ h.at = "register"
        /\ IF account[u] # "none"
           THEN Respond(r) /\ UNCHANGED <<account, profile, status>>
           ELSE /\ account' = [account EXCEPT ![u] = "adult"]
                /\ IF h.trainer # None
                   THEN \E p \in Unused :
                           /\ profile' = [profile EXCEPT ![p] = SelfProfile(u)]
                           /\ Associate(<<h.trainer, p>>)
                           /\ Respond(r)
                   ELSE /\ UNCHANGED <<profile, status>>
                        /\ IF h.draft = None
                           THEN Respond(r)
                           ELSE Resume(r, [h EXCEPT !.at = "consume"])
        /\ UNCHANGED <<draft, hist>>

(* Mutant of Consume: the draft is left to expire.                         *)
ConsumeKeeps(r) ==
    LET d == req[r].draft
    IN  /\ req[r].at = "consume"
        /\ IF d \in Live
           THEN /\ Resume(r, [req[r] EXCEPT !.at = "self",
                                            !.trainer = draft[d].trainer])
                /\ hist' = [hist EXCEPT !.spent[d] =
                              hist.spent[d] \cup {req[r].user}]
           ELSE Respond(r) /\ UNCHANGED hist
        /\ UNCHANGED <<data, draft>>

(* consumeDraft finds and deletes the draft without an await in between; a *)
(* draft that is gone is an error, and the account exists already.         *)
Consume(r) ==
    LET d == req[r].draft
    IN  /\ req[r].at = "consume"
        /\ draft' = [draft EXCEPT ![d].at = 0]
        /\ IF d \in Live
           THEN /\ Resume(r, [req[r] EXCEPT !.at = "self",
                                            !.trainer = draft[d].trainer])
                /\ hist' = [hist EXCEPT !.spent[d] =
                              hist.spent[d] \cup {req[r].user}]
           ELSE Respond(r) /\ UNCHANGED hist
        /\ UNCHANGED data

(* Mutant of FindSelf: only an existing profile is associated.             *)
FindSelfOnly(r) ==
    /\ req[r].at = "self"
    /\ \/ \E p \in SelfProfiles(req[r].user) :
             Resume(r, [req[r] EXCEPT !.at = "look", !.profile = p])
       \/ SelfProfiles(req[r].user) = {} /\ Respond(r)
    /\ UNCHANGED <<data, draft, hist>>

(* ensureSelfProfile: look-up and insert.                                  *)
FindSelf(r) ==
    /\ req[r].at = "self"
    /\ \/ \E p \in SelfProfiles(req[r].user) :
             Resume(r, [req[r] EXCEPT !.at = "look", !.profile = p])
       \/ /\ SelfProfiles(req[r].user) = {}
          /\ Resume(r, [req[r] EXCEPT !.at = "create"])
    /\ UNCHANGED <<data, draft, hist>>

CreateSelf(r) ==
    LET u == req[r].user
    IN  /\ req[r].at = "create"
        /\ IF SelfProfiles(u) # {}
           THEN Respond(r) /\ UNCHANGED profile
           ELSE \E p \in Unused :
                   /\ profile' = [profile EXCEPT ![p] = SelfProfile(u)]
                   /\ Resume(r, [req[r] EXCEPT !.at = "look", !.profile = p])
        /\ UNCHANGED <<account, status, draft, hist>>

-----------------------------------------------------------------------------
(* Associations.                                                           *)

(* addTrainerAssociation, by a parent for a profile of the family.  Who    *)
(* owns a profile never changes, so that read is taken with the request.   *)
AddTrainer(r, u, p, t) ==
    /\ MayManage(u) /\ p \in Owned(u)
    /\ Begin(r, [Idle EXCEPT !.at = "look", !.trainer = t, !.profile = p])
    /\ UNCHANGED <<data, draft, hist>>

Look(r) ==
    LET found == status[Pair(r)]
    IN  /\ req[r].at = "look"
        /\ IF found = "ACTIVE"
           THEN Respond(r)
           ELSE Resume(r, [req[r] EXCEPT !.at = IF found = "none"
                                                THEN "insert"
                                                ELSE "activate"])
        /\ UNCHANGED <<data, draft, hist>>

(* The unique index refuses a pair that was inserted since the look-up.    *)
Insert(r) ==
    /\ req[r].at = "insert"
    /\ IF status[Pair(r)] = "none" THEN Associate(Pair(r))
                                   ELSE UNCHANGED status
    /\ Respond(r)
    /\ UNCHANGED <<account, profile, draft, hist>>

Activate(r) ==
    /\ req[r].at = "activate"
    /\ Associate(Pair(r))
    /\ Respond(r)
    /\ UNCHANGED <<account, profile, draft, hist>>

RemoveTrainer(r, u, p, t) ==
    /\ MayManage(u) /\ p \in Owned(u)
    /\ status[<<t, p>>] # "none"
    /\ Begin(r, [Idle EXCEPT !.at = "remove", !.trainer = t, !.profile = p])
    /\ UNCHANGED <<data, draft, hist>>

Remove(r) ==
    /\ req[r].at = "remove"
    /\ status' = [status EXCEPT ![Pair(r)] = "REMOVED"]
    /\ Respond(r)
    /\ UNCHANGED <<account, profile, draft, hist>>

(* Somebody who is logged in follows a static link and names members of    *)
(* the family; profiles of others are dropped.                             *)
Join(r, u, t, members) ==
    /\ MayManage(u)
    /\ Begin(r, [Idle EXCEPT !.at = "join", !.trainer = t,
                             !.todo = {t} \X (members \cap Owned(u))])
    /\ UNCHANGED <<data, draft, hist>>

(* A pair that exists, even as REMOVED, is left as it is.                  *)
JoinNext(r) ==
    LET h == req[r]
    IN  /\ h.at = "join"
        /\ \/ h.todo = {} /\ Respond(r)
           \/ \E x \in h.todo :
                 LET rest == [h EXCEPT !.todo = h.todo \ {x}]
                 IN  Resume(r, IF status[x] = "none"
                               THEN [rest EXCEPT !.at = "enrol",
                                                 !.profile = x[2]]
                               ELSE rest)
        /\ UNCHANGED <<data, draft, hist>>

(* Mutant of Enrol: an upsert.                                             *)
EnrolUpserts(r) ==
    /\ req[r].at = "enrol"
    /\ Associate(Pair(r))
    /\ Resume(r, [req[r] EXCEPT !.at = "join", !.profile = None])
    /\ UNCHANGED <<account, profile, draft, hist>>

Enrol(r) ==
    /\ req[r].at = "enrol"
    /\ IF status[Pair(r)] = "none"
       THEN /\ Associate(Pair(r))
            /\ Resume(r, [req[r] EXCEPT !.at = "join", !.profile = None])
       ELSE Respond(r) /\ UNCHANGED status
    /\ UNCHANGED <<account, profile, draft, hist>>

-----------------------------------------------------------------------------
(* Children.                                                               *)

(* createChildProfile inserts the profile (a look-alike sibling is only    *)
(* warned about), then one association per trainer named.                  *)
CreateChild(r, u, p, trainers) ==
    /\ MayManage(u)
    /\ ProfilesLeft /\ p \in Unused
    /\ profile' = [profile EXCEPT ![p] = [kind |-> "child", parent |-> u,
                                          login |-> None]]
    /\ Begin(r, [Idle EXCEPT !.at = "child", !.todo = trainers \X {p}])
    /\ UNCHANGED <<account, status, draft, hist>>

ChildNext(r) ==
    /\ req[r].at = "child"
    /\ \/ req[r].todo = {} /\ Respond(r) /\ UNCHANGED status
       \/ \E x \in req[r].todo :
             IF status[x] = "none"
             THEN /\ Associate(x)
                  /\ Resume(r, [req[r] EXCEPT !.todo = req[r].todo \ {x}])
             ELSE Respond(r) /\ UNCHANGED status
    /\ UNCHANGED <<account, profile, draft, hist>>

(* Mutant of Provision: a login the child already has is not refused.      *)
ProvisionAgain(r, u, p, v) ==
    /\ MayManage(u)
    /\ profile[p].kind = "child" /\ profile[p].parent = u
    /\ account[v] = "none"
    /\ Begin(r, [Idle EXCEPT !.at = "provision", !.user = v, !.profile = p])
    /\ UNCHANGED <<data, draft, hist>>

(* provisionChildLogin checks the profile and the email, and hashes the    *)
(* password before its transaction.                                        *)
Provision(r, u, p, v) ==
    /\ MayManage(u)
    /\ profile[p].kind = "child" /\ profile[p].parent = u
    /\ profile[p].login = None
    /\ account[v] = "none"
    /\ Begin(r, [Idle EXCEPT !.at = "provision", !.user = v, !.profile = p])
    /\ UNCHANGED <<data, draft, hist>>

(* One transaction; the profile is updated by id, whatever login it has.   *)
CreateLogin(r) ==
    LET v == req[r].user
        p == req[r].profile
    IN  /\ req[r].at = "provision"
        /\ IF account[v] = "none"
           THEN /\ account' = [account EXCEPT ![v] = p]
                /\ profile' = [profile EXCEPT ![p].login = v]
           ELSE UNCHANGED <<account, profile>>
        /\ Respond(r)
        /\ UNCHANGED <<status, draft, hist>>

-----------------------------------------------------------------------------
(* A database error or the end of a handler's work at an await.            *)
Fail(r) ==
    /\ req[r].at # "idle"
    /\ hist' = [hist EXCEPT !.stopped = hist.stopped \cup
                   {u \in {req[r].user} : /\ req[r].draft # None
                                          /\ u \in hist.spent[req[r].draft]}]
    /\ Respond(r)
    /\ UNCHANGED <<data, draft>>

Arrive(r) ==
    \/ \E u \in Users, d \in Drafts \cup {None} : Register(r, u, d)
    \/ \E u \in Users, t \in Trainers :
          \/ RegisterByLink(r, u, t)
          \/ \E members \in SUBSET Profiles : Join(r, u, t, members)
          \/ \E p \in Profiles : AddTrainer(r, u, p, t)
          \/ \E p \in Profiles : RemoveTrainer(r, u, p, t)
    \/ \E u \in Users, p \in Profiles :
          \/ \E trainers \in SUBSET Trainers : CreateChild(r, u, p, trainers)
          \/ \E v \in Users : Provision(r, u, p, v)

Continue(r) ==
    \/ CreateAccount(r) \/ Consume(r) \/ FindSelf(r) \/ CreateSelf(r)
    \/ Look(r) \/ Insert(r) \/ Activate(r) \/ Remove(r)
    \/ JoinNext(r) \/ Enrol(r)
    \/ ChildNext(r) \/ CreateLogin(r)

Next ==
    \/ \E d \in Drafts : Expire(d) \/ \E t \in Trainers : CreateDraft(d, t)
    \/ \E r \in Requests : Arrive(r) \/ Continue(r) \/ Fail(r)

Spec == Init /\ [][Next]_vars

-----------------------------------------------------------------------------
(* Properties.                                                             *)

(* Only adults have families: no profile is managed by a child's account,  *)
(* however its login was provisioned and whatever was in flight then.      *)
(* (assertNotChildAccount at every entry.)                                 *)
ParentsAreAdults ==
    \A p \in Profiles :
        profile[p].kind # "none" => account[profile[p].parent] = "adult"

(* The login of a child's profile, and the handlers that found none, as    *)
(* CheckedWrites has them.                                                 *)
IsChild(p) == profile[p].kind = "child"

LoginPhase(p) ==
    IF ~IsChild(p) THEN "none"
    ELSE IF profile[p].login = None THEN "open" ELSE "closed"

LoginTakers(p) ==
    {r \in Requests : req[r].at = "provision" /\ req[r].profile = p}

LoginLedger == INSTANCE CheckedWrites
                   WITH Items <- Profiles, Handlers <- Requests,
                        phase <- [p \in Profiles |-> LoginPhase(p)],
                        value <- [p \in Profiles |-> IF IsChild(p)
                                                     THEN profile[p].login
                                                     ELSE None],
                        takers <- [p \in Profiles |-> LoginTakers(p)]

LoginsMadeForChild ==
    \A p \in Profiles :
        IsChild(p) /\ profile[p].login # None =>
            account[profile[p].login] = p

(* Whoever gives a child's profile a login found it without one, and gives *)
(* it one account, made for it: of two that looked together the later      *)
(* takes the profile from the account of the earlier, but nobody can who   *)
(* looks when the child has a login.  (provisionChildLogin checks the      *)
(* login in one call and writes it by id in another.)                      *)
ChildLoginsAreChecked == LoginLedger!Spec /\ []LoginsMadeForChild

(* "Soft-delete": what a parent removed stays removed until somebody adds  *)
(* that trainer again; a join or a new child that looked before the pair   *)
(* existed does not revive it.  (associateExistingUser, createChildProfile,*)
(* addTrainerAssociation.)                                                 *)
RemovedStaysRemoved ==
    [][\A x \in Pairs :
          status[x] = "REMOVED" /\ status'[x] # "REMOVED" =>
              \E r \in Requests : req[r].at = "activate" /\ Pair(r) = x]_vars

(* A draft is spent by one registration, or expires, or is given up for a  *)
(* newer one, and never comes back: "a token can never be consumed twice   *)
(* even under a concurrent replay".  (consumeDraft.)                       *)
DraftState(d) ==
    CASE hist.spent[d] = {} /\ draft[d].trainer = None -> "none"
      [] hist.spent[d] = {} /\ d \in Live -> "open"
      [] hist.spent[d] = {} /\ draft[d].trainer # None /\ d \notin Live
            -> "void"
      [] OTHER -> IF Cardinality(hist.spent[d]) = 1 /\ d \notin Live
                  THEN "spent" ELSE "twice"

DraftLedger == INSTANCE SingleUse
                   WITH Items <- Drafts,
                        item <- [d \in Drafts |-> DraftState(d)]

DraftsAreSingleUse == DraftLedger!Spec

(* The account that spent a draft gets associated with the trainer the     *)
(* draft names, unless its registration stopped half-way: although the     *)
(* draft is deleted first and the family may be managed meanwhile.         *)
(* (consumeDraft.)                                                         *)
DraftBringsTrainer ==
    \A d \in Drafts, u \in Users :
        u \in hist.spent[d] =>
            \/ u \in hist.stopped
            \/ \E r \in Requests : req[r].draft = d /\ req[r].user = u
            \/ \E p \in SelfProfiles(u) :
                  status[<<draft[d].trainer, p>>] # "none"
=============================================================================
