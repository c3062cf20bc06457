--------------------------- MODULE Families_proofs ---------------------------
(* Proofs about Families, for any users, profiles, trainers, drafts and     *)
(* handlers.                                                                *)
EXTENDS Families, FiniteSetTheorems, TLAPS

Statuses == {"none", "ACTIVE", "REMOVED"}
DraftRows == [Drafts -> [at : Nat, trainer : Trainers \cup {None}]]
Histories == [spent : [Drafts -> SUBSET Users], stopped : SUBSET Users]

(* What a handler h that is in flight knows: its rows exist, and the        *)
(* account it made is an adult's.                                           *)
Known(h) ==
    /\ h.at \in {"register", "consume", "self", "create", "provision"} =>
           h.user \in Users
    /\ h.at \in {"consume", "self", "create"} =>
           account[h.user] = "adult" /\ h.draft \in Drafts
    /\ h.at \in {"self", "create"} => h.trainer \in Trainers
    /\ h.at \in {"look", "insert", "activate", "remove", "enrol"} =>
           /\ h.trainer \in Trainers /\ h.profile \in Profiles
           /\ profile[h.profile].kind # "none"
    /\ h.at = "join" => h.trainer \in Trainers
    /\ h.at = "provision" =>
           h.profile \in Profiles /\ profile[h.profile].kind = "child"
    /\ \A x \in h.todo : profile[x[2]].kind # "none"

HandlerInv == \A r \in Requests : Known(req[r])

(* Rows refer to rows that exist.                                           *)
DataInv ==
    /\ \A u \in Users : account[u] \in Profiles =>
                            profile[account[u]].kind = "child"
    /\ \A x \in Pairs : status[x] # "none" => profile[x[2]].kind # "none"
    /\ \A p \in Profiles :
          IF profile[p].kind = "none"
          THEN profile[p].parent = None /\ profile[p].login = None
          ELSE profile[p].parent \in Users
    /\ \A d \in Drafts : draft[d].at > 0 => draft[d].trainer \in Trainers

IInv == /\ TypeOK /\ HandlerInv /\ DataInv
        /\ ParentsAreAdults /\ LoginsMadeForChild

(* The invariant holds at the start.                                        *)
LEMMA InitInv == Init => IInv
<1> SUFFICES ASSUME Init PROVE IInv
  OBVIOUS
<1>1. TypeOK
  BY DEF Init, TypeOK, Profile, NoProfile, Handler, Idle
<1>2. HandlerInv /\ DataInv
  BY ProfileAssumption
     DEF Init, HandlerInv, Known, DataInv, NoProfile, Idle
<1>3. ParentsAreAdults /\ LoginsMadeForChild
  BY DEF Init, ParentsAreAdults, LoginsMadeForChild, IsChild, NoProfile
<1> QED BY <1>1, <1>2, <1>3 DEF IInv

(* A step of a handler that makes adults of nobody, inserts profiles of     *)
(* adults and changes the status of existing pairs keeps the invariant.     *)
LEMMA GrowStep ==
    ASSUME IInv, NEW r \in Requests, NEW handler \in Handler,
           req' = [req EXCEPT ![r] = handler],
           handler.at # "provision", Known(handler)',
           account' \in [Users -> {"none", "adult"} \cup Profiles],
           \A v \in Users :
               \/ account'[v] = account[v]
               \/ account[v] = "none" /\ account'[v] = "adult",
           profile' \in [Profiles -> Profile],
           \A p \in Profiles :
               \/ profile'[p] = profile[p]
               \/ /\ profile[p].kind = "none" /\ profile'[p].kind # "none"
                  /\ profile'[p].parent \in Users
                  /\ account'[profile'[p].parent] = "adult"
                  /\ profile'[p].kind = "child" => profile'[p].login = None,
           status' \in [Pairs -> Statuses],
           \A x \in Pairs :
               status'[x] # "none" => profile'[x[2]].kind # "none",
           draft' \in DraftRows,
           \A d \in Drafts :
               draft'[d].at > 0 => draft'[d].trainer \in Trainers,
           hist' \in Histories
    PROVE  IInv'
<1>1. /\ req' \in [Requests -> Handler] /\ req'[r] = handler
      /\ \A s \in Requests : s # r => req'[s] = req[s]
  BY DEF IInv, TypeOK
<1>2. TypeOK'
  BY <1>1 DEF TypeOK, Statuses, DraftRows, Histories
<1>3. \A p \in Profiles :
          profile[p].kind # "none" => profile'[p] = profile[p]
  OBVIOUS
<1>4. \A v \in Users : account[v] = "adult" => account'[v] = "adult"
  OBVIOUS
<1>5. ASSUME NEW s \in Requests PROVE Known(req[s])'
  <2>1. CASE s = r
    BY <1>1, <2>1
  <2>2. CASE s # r
    <3>1. Known(req[s]) /\ req'[s] = req[s] /\ req[s].todo \subseteq Pairs
      BY <1>1, <2>2 DEF IInv, HandlerInv, TypeOK, Handler
    <3>2. \A x \in Pairs : x[2] \in Profiles
      BY DEF Pairs
    <3> QED BY <1>3, <1>4, <3>1, <3>2 DEF Known
  <2> QED BY <2>1, <2>2
<1>6. HandlerInv'
  BY <1>5 DEF HandlerInv
<1>7. \A v \in Users : account'[v] \in Profiles => account'[v] = account[v]
  BY ProfileAssumption
<1>8. DataInv'
  BY <1>3, <1>7 DEF IInv, DataInv
<1>10. ParentsAreAdults'
  BY <1>4 DEF IInv, ParentsAreAdults, DataInv
<1>11. LoginsMadeForChild'
  <2> SUFFICES ASSUME NEW p \in Profiles, profile'[p].kind = "child",
                      profile'[p].login # None
               PROVE  account'[profile'[p].login] = p
    BY DEF LoginsMadeForChild, IsChild
  <2>1. profile'[p] = profile[p] /\ profile[p] \in Profile
    BY DEF IInv, TypeOK
  <2>2. profile[p].login \in Users /\ account[profile[p].login] = p
    BY <2>1 DEF Profile, IInv, LoginsMadeForChild, IsChild
  <2> QED BY <2>1, <2>2, ProfileAssumption
<1> QED BY <1>2, <1>6, <1>8, <1>10, <1>11 DEF IInv

(* The case of a handler that writes no table, or only the status of a pair *)
(* that exists.                                                             *)
LEMMA StatusStep ==
    ASSUME IInv, NEW r \in Requests, NEW handler \in Handler,
           req' = [req EXCEPT ![r] = handler],
           handler.at # "provision", Known(handler),
           UNCHANGED <<account, profile>>,
           status' \in [Pairs -> Statuses],
           \A x \in Pairs : status'[x] = status[x]
                            \/ profile[x[2]].kind # "none",
           draft' \in DraftRows,
           \A d \in Drafts :
               draft'[d].at > 0 => draft'[d].trainer \in Trainers,
           hist' \in Histories
    PROVE  IInv'
<1>1. Known(handler)'
  BY DEF Known
<1>2. /\ account \in [Users -> {"none", "adult"} \cup Profiles]
      /\ profile \in [Profiles -> Profile]
  BY DEF IInv, TypeOK
<1>3. \A x \in Pairs : status'[x] # "none" => profile'[x[2]].kind # "none"
  BY DEF IInv, DataInv
<1> QED BY <1>1, <1>2, <1>3, GrowStep

(* What does not change is right.                                           *)
LEMMA Rest ==
    ASSUME IInv
    PROVE  /\ account \in [Users -> {"none", "adult"} \cup Profiles]
           /\ profile \in [Profiles -> Profile]
           /\ status \in [Pairs -> Statuses]
           /\ draft \in DraftRows
           /\ \A d \in Drafts :
                 draft[d].at > 0 => draft[d].trainer \in Trainers
           /\ hist \in Histories
           /\ Idle \in Handler /\ Idle.at = "idle" /\ Idle.draft = None
           /\ Known(Idle)
BY DEF IInv, TypeOK, DataInv, Statuses, DraftRows, Histories, Handler, Idle,
       Known

(* A handler that responds, whatever it wrote before.                       *)
LEMMA RespondStep ==
    ASSUME IInv, NEW r \in Requests, Respond(r),
           UNCHANGED <<account, profile, draft, hist>>,
           status' \in [Pairs -> Statuses],
           \A x \in Pairs : status'[x] = status[x]
                            \/ profile[x[2]].kind # "none"
    PROVE  IInv'
BY Rest, StatusStep DEF Respond

(* A profile that somebody owns exists.                                     *)
LEMMA OwnedExist ==
    ASSUME IInv, NEW u \in Users, NEW p \in Owned(u)
    PROVE  p \in Profiles /\ profile[p].kind # "none"
BY NoneAssumption DEF Owned, IInv, DataInv

-----------------------------------------------------------------------------
(* Drafts and registration.                                                 *)

LEMMA DraftStep ==
    ASSUME IInv, UNCHANGED <<data, req, hist>>, draft' \in DraftRows,
           \A d \in Drafts : draft'[d].at > 0 => draft'[d].trainer \in Trainers
    PROVE  IInv'
<1>1. TypeOK'
  BY DEF IInv, TypeOK, DraftRows, data
<1>2. HandlerInv' /\ DataInv'
  BY DEF IInv, HandlerInv, Known, DataInv, data
<1>3. ParentsAreAdults' /\ LoginsMadeForChild'
  BY DEF IInv, ParentsAreAdults, LoginsMadeForChild, IsChild, data
<1> QED BY <1>1, <1>2, <1>3 DEF IInv

LEMMA ExpireStep ==
    ASSUME IInv, NEW d \in Drafts, Expire(d)
    PROVE  IInv'
BY Rest, DraftStep DEF Expire, DraftRows

(* There are finitely many drafts, so their ages are numbers.               *)
LEMMA CreatedCount ==
    Cardinality({e \in Drafts : draft[e].trainer # None}) \in Nat
<1>1. {e \in Drafts : draft[e].trainer # None} \subseteq Drafts
  OBVIOUS
<1> QED BY <1>1, FS_Subset, FS_CardinalityType, BoundAssumption

LEMMA CreateDraftStep ==
    ASSUME IInv, NEW d \in Drafts, NEW t \in Trainers, CreateDraft(d, t)
    PROVE  IInv'
<1>1. PICK n \in Nat :
          n = Cardinality({e \in Drafts : draft[e].trainer # None})
  BY CreatedCount
<1> DEFINE evicts(e) == Cardinality(Live) >= MaxDrafts /\ e \in Oldest
           new(e) == CASE e = d -> [at |-> n + 1, trainer |-> t]
                       [] e # d /\ evicts(e) -> [draft[e] EXCEPT !.at = 0]
                       [] OTHER -> draft[e]
<1>2. draft' = [e \in Drafts |-> new(e)] /\ UNCHANGED <<data, req, hist>>
  BY <1>1 DEF CreateDraft
<1>3. ASSUME NEW e \in Drafts
      PROVE  /\ new(e) \in [at : Nat, trainer : Trainers \cup {None}]
             /\ new(e).at > 0 => new(e).trainer \in Trainers
  <2>1. /\ draft[e] \in [at : Nat, trainer : Trainers \cup {None}]
        /\ draft[e].at > 0 => draft[e].trainer \in Trainers
    BY Rest DEF DraftRows
  <2> HIDE DEF evicts
  <2>2. CASE e = d
    BY <2>2
  <2>3. CASE e # d /\ evicts(e)
    <3>1. /\ new(e) \in [at : Nat, trainer : Trainers \cup {None}]
          /\ new(e).at = 0
      BY <2>1, <2>3
    <3> QED BY <3>1
  <2>4. CASE e # d /\ ~evicts(e)
    BY <2>1, <2>4
  <2> QED BY <2>2, <2>3, <2>4
<1> HIDE DEF new
<1>4. draft' \in DraftRows
  BY <1>2, <1>3 DEF DraftRows
<1>5. \A e \in Drafts : draft'[e].at > 0 => draft'[e].trainer \in Trainers
  BY <1>2, <1>3
<1> QED BY <1>2, <1>4, <1>5, DraftStep

LEMMA RegisterStep ==
    ASSUME IInv, NEW r \in Requests, NEW u \in Users,
           \/ \E d \in Drafts \cup {None} : Register(r, u, d)
           \/ \E t \in Trainers : RegisterByLink(r, u, t)
    PROVE  IInv'
<1>1. UNCHANGED <<account, profile, status, draft, hist>>
  BY DEF Register, RegisterByLink, data
<1>2. ASSUME NEW handler \in Handler, Begin(r, handler),
             handler.at = "register", handler.user \in Users,
             handler.todo = {}
      PROVE  IInv'
  <2>1. Known(handler) /\ req' = [req EXCEPT ![r] = handler]
    BY <1>2 DEF Known, Begin
  <2> QED BY <1>1, <1>2, <2>1, Rest, StatusStep
<1>3. ASSUME NEW d \in Drafts \cup {None}, Register(r, u, d) PROVE IInv'
  <2> DEFINE handler == [Idle EXCEPT !.at = "register", !.user = u,
                                     !.draft = d]
  <2>1. /\ handler \in Handler /\ handler.at = "register"
        /\ handler.user \in Users /\ handler.todo = {}
    BY DEF Handler, Idle
  <2>2. Begin(r, handler)
    BY <1>3 DEF Register
  <2> HIDE DEF handler
  <2> QED BY <1>2, <2>1, <2>2
<1>4. ASSUME NEW t \in Trainers, RegisterByLink(r, u, t) PROVE IInv'
  <2> DEFINE handler == [Idle EXCEPT !.at = "register", !.user = u,
                                     !.trainer = t]
  <2>1. /\ handler \in Handler /\ handler.at = "register"
        /\ handler.user \in Users /\ handler.todo = {}
    BY DEF Handler, Idle
  <2>2. Begin(r, handler)
    BY <1>4 DEF RegisterByLink
  <2> HIDE DEF handler
  <2> QED BY <1>2, <2>1, <2>2
<1> QED BY <1>3, <1>4

LEMMA SelfProfileType ==
    ASSUME NEW u \in Users
    PROVE  SelfProfile(u) \in Profile /\ SelfProfile(u).kind = "self"
           /\ SelfProfile(u).parent = u /\ SelfProfile(u).login = u
BY DEF SelfProfile, Profile

LEMMA CreateAccountStep ==
    ASSUME IInv, NEW r \in Requests, CreateAccount(r)
    PROVE  IInv'
<1>0. req[r] \in Handler /\ req[r].user \in Users /\ req[r].at = "register"
  BY DEF CreateAccount, IInv, HandlerInv, Known, TypeOK
<1>1. PICK h \in Handler, u \in Users :
          /\ h = req[r] /\ u = h.user /\ h.at = "register"
          /\ \A x \in h.todo : profile[x[2]].kind # "none"
          /\ h.todo \subseteq Pairs
  BY <1>0 DEF IInv, HandlerInv, Known, Handler
<1>2. UNCHANGED <<draft, hist>>
  BY DEF CreateAccount
<1>3. CASE account[u] # "none"
  <2>1. Respond(r) /\ UNCHANGED <<account, profile, status>>
    BY <1>1, <1>3 DEF CreateAccount
  <2> QED BY <1>2, <2>1, Rest, RespondStep
<1>4. CASE account[u] = "none"
  <2>1. account' = [account EXCEPT ![u] = "adult"]
    BY <1>1, <1>4 DEF CreateAccount
  <2>2. /\ account' \in [Users -> {"none", "adult"} \cup Profiles]
        /\ account'[u] = "adult"
        /\ \A v \in Users : v # u => account'[v] = account[v]
    BY <1>1, <2>1, Rest
  <2>3. CASE h.trainer # None
    <3>1. PICK p \in Unused :
              /\ profile' = [profile EXCEPT ![p] = SelfProfile(u)]
              /\ Associate(<<h.trainer, p>>)
              /\ Respond(r)
      BY <1>1, <1>4, <2>3 DEF CreateAccount
    <3>2. p \in Profiles /\ profile[p].kind = "none" /\ h.trainer \in Trainers
      BY <1>1, <2>3 DEF Unused, Handler
    <3>3. /\ profile' \in [Profiles -> Profile]
          /\ profile'[p] = SelfProfile(u)
          /\ \A q \in Profiles : q # p => profile'[q] = profile[q]
      BY <1>1, <3>1, <3>2, SelfProfileType, Rest
    <3>4. <<h.trainer, p>> \in Pairs
      BY <3>2 DEF Pairs
    <3>5. /\ status' \in [Pairs -> Statuses]
          /\ \A x \in Pairs : x # <<h.trainer, p>> => status'[x] = status[x]
      BY <3>1, <3>4, Rest DEF Associate, Statuses
    <3>6. \A x \in Pairs : status'[x] # "none" => profile'[x[2]].kind # "none"
      <4> SUFFICES ASSUME NEW x \in Pairs, status'[x] # "none"
                   PROVE  profile'[x[2]].kind # "none"
        OBVIOUS
      <4>1. x[2] \in Profiles
        BY DEF Pairs
      <4>2. CASE x = <<h.trainer, p>>
        BY <1>1, <3>3, <4>2, SelfProfileType
      <4>3. CASE x # <<h.trainer, p>>
        <5>1. profile[x[2]].kind # "none"
          BY <3>5, <4>3 DEF IInv, DataInv
        <5> QED BY <3>2, <3>3, <4>1, <5>1
      <4> QED BY <4>2, <4>3
    <3>7. /\ Idle \in Handler /\ Idle.at # "provision" /\ Known(Idle)'
          /\ req' = [req EXCEPT ![r] = Idle]
      BY <3>1, Rest DEF Known, Idle, Respond
    <3>8. SelfProfile(u).kind = "self" /\ SelfProfile(u).parent = u
      BY <1>1, SelfProfileType
    <3>9. \A q \in Profiles :
              \/ profile'[q] = profile[q]
              \/ /\ profile[q].kind = "none" /\ profile'[q].kind # "none"
                 /\ profile'[q].parent \in Users
                 /\ account'[profile'[q].parent] = "adult"
                 /\ profile'[q].kind = "child" => profile'[q].login = None
      BY <1>1, <2>2, <3>2, <3>3, <3>8
    <3>10. \A v \in Users : \/ account'[v] = account[v]
                            \/ account[v] = "none" /\ account'[v] = "adult"
      BY <1>1, <1>4, <2>2
    <3>11. /\ draft' \in DraftRows /\ hist' \in Histories
           /\ \A d \in Drafts : draft'[d].at > 0 =>
                                    draft'[d].trainer \in Trainers
      BY <1>2, Rest
    <3> QED BY <2>2, <3>3, <3>5, <3>6, <3>7, <3>9, <3>10, <3>11, GrowStep
  <2>4. CASE h.trainer = None
    <3>1. UNCHANGED <<profile, status>>
      BY <1>1, <1>4, <2>4 DEF CreateAccount
    <3>2. PICK handler \in {Idle, [h EXCEPT !.at = "consume"]} :
              /\ req' = [req EXCEPT ![r] = handler]
              /\ handler # Idle => h.draft # None
      BY <1>1, <1>4, <2>4 DEF CreateAccount, Respond, Resume
    <3>3. handler \in Handler /\ handler.at # "provision" /\ Known(handler)'
      <4>1. CASE handler = Idle
        BY <4>1, Rest DEF Known, Idle
      <4>2. CASE handler # Idle
        <5>1. /\ handler \in Handler /\ handler.at = "consume"
              /\ handler.user = u /\ handler.draft = h.draft
              /\ handler.todo = h.todo
          BY <1>1, <3>2, <4>2 DEF Handler
        <5>2. h.draft \in Drafts
          BY <1>1, <3>2, <4>2 DEF Handler
        <5> QED BY <1>1, <2>2, <3>1, <5>1, <5>2 DEF Known
      <4> QED BY <4>1, <4>2
    <3>4. \A x \in Pairs : status'[x] # "none" => profile'[x[2]].kind # "none"
      BY <3>1 DEF IInv, DataInv
    <3> QED BY <1>1, <1>2, <1>4, <2>2, <3>1, <3>2, <3>3, <3>4, Rest, GrowStep
  <2> QED BY <2>3, <2>4
<1> QED BY <1>3, <1>4

LEMMA ConsumeStep ==
    ASSUME IInv, NEW r \in Requests, Consume(r)
    PROVE  IInv'
<1> DEFINE d == req[r].draft
           u == req[r].user
<1>1. /\ u \in Users /\ account[u] = "adult" /\ d \in Drafts
      /\ req[r] \in Handler /\ req[r].at = "consume"
      /\ \A x \in req[r].todo : profile[x[2]].kind # "none"
  BY DEF Consume, IInv, HandlerInv, Known, TypeOK
<1>2. UNCHANGED <<account, profile, status>>
  BY DEF Consume, data
<1>3. /\ draft' \in DraftRows
      /\ \A e \in Drafts : draft'[e].at > 0 => draft'[e].trainer \in Trainers
  BY <1>1, Rest DEF Consume, DraftRows
<1>4. CASE d \in Live
  <2> DEFINE handler == [req[r] EXCEPT !.at = "self",
                                       !.trainer = draft[d].trainer]
             more == [hist.spent EXCEPT ![d] = hist.spent[d] \cup {u}]
  <2>1. draft[d].trainer \in Trainers
    BY <1>1, <1>4, Rest DEF Live
  <2>2. /\ handler \in Handler /\ handler.at = "self" /\ handler.user = u
        /\ handler.draft = d /\ handler.trainer = draft[d].trainer
        /\ handler.todo = req[r].todo
    BY <1>1, <2>1 DEF Handler
  <2>3. req' = [req EXCEPT ![r] = handler]
    BY <1>4 DEF Consume, Resume
  <2>4. hist.spent \in [Drafts -> SUBSET Users]
    BY Rest DEF Histories
  <2>5. more \in [Drafts -> SUBSET Users]
    BY <1>1, <2>4
  <2>6. hist' = [hist EXCEPT !.spent = more]
    BY <1>4 DEF Consume
  <2> HIDE DEF more
  <2>7. hist' \in Histories
    BY <2>5, <2>6, Rest DEF Histories
  <2> HIDE DEF handler
  <2>8. Known(handler)
    BY <1>1, <2>1, <2>2 DEF Known
  <2> QED BY <1>2, <1>3, <2>2, <2>3, <2>7, <2>8, Rest, StatusStep
<1>5. CASE d \notin Live
  <2>1. Respond(r) /\ hist' = hist
    BY <1>5 DEF Consume
  <2> QED BY <1>2, <1>3, <2>1, Rest, StatusStep DEF Respond
<1> QED BY <1>4, <1>5

LEMMA FindSelfStep ==
    ASSUME IInv, NEW r \in Requests, FindSelf(r)
    PROVE  IInv'
<1>1. /\ req[r] \in Handler /\ Known(req[r]) /\ req[r].at = "self"
      /\ UNCHANGED <<account, profile, status, draft, hist>>
  BY DEF FindSelf, data, IInv, HandlerInv, TypeOK
<1>2. ASSUME NEW p \in SelfProfiles(req[r].user),
             Resume(r, [req[r] EXCEPT !.at = "look", !.profile = p])
      PROVE  IInv'
  <2> DEFINE handler == [req[r] EXCEPT !.at = "look", !.profile = p]
  <2>1. p \in Profiles /\ profile[p].kind # "none"
    BY <1>1, NoneAssumption DEF SelfProfiles, Known, IInv, DataInv
  <2>2. handler \in Handler /\ handler.at = "look" /\ Known(handler)
    BY <1>1, <2>1 DEF Handler, Known
  <2>3. req' = [req EXCEPT ![r] = handler]
    BY <1>2 DEF Resume
  <2> HIDE DEF handler
  <2> QED BY <1>1, <2>2, <2>3, Rest, StatusStep
<1>3. CASE Resume(r, [req[r] EXCEPT !.at = "create"])
  <2> DEFINE handler == [req[r] EXCEPT !.at = "create"]
  <2>1. handler \in Handler /\ handler.at = "create" /\ Known(handler)
    BY <1>1 DEF Handler, Known
  <2>2. req' = [req EXCEPT ![r] = handler]
    BY <1>3 DEF Resume
  <2> HIDE DEF handler
  <2> QED BY <1>1, <2>1, <2>2, Rest, StatusStep
<1> QED BY <1>2, <1>3 DEF FindSelf

LEMMA CreateSelfStep ==
    ASSUME IInv, NEW r \in Requests, CreateSelf(r)
    PROVE  IInv'
<1>0. req[r] \in Handler /\ req[r].user \in Users /\ req[r].at = "create"
  BY DEF CreateSelf, IInv, HandlerInv, Known, TypeOK
<1>1. PICK h \in Handler, u \in Users :
          /\ h = req[r] /\ u = h.user /\ h.at = "create"
          /\ account[u] = "adult" /\ h.draft \in Drafts
          /\ h.trainer \in Trainers
          /\ \A x \in h.todo : profile[x[2]].kind # "none"
          /\ h.todo \subseteq Pairs
  BY <1>0 DEF IInv, HandlerInv, Known, Handler
<1>2. UNCHANGED <<account, status, draft, hist>>
  BY DEF CreateSelf
<1>3. CASE Respond(r) /\ UNCHANGED profile
  BY <1>2, <1>3, Rest, RespondStep
<1>4. ASSUME NEW p \in Unused,
             profile' = [profile EXCEPT ![p] = SelfProfile(u)],
             Resume(r, [h EXCEPT !.at = "look", !.profile = p])
      PROVE  IInv'
  <2> DEFINE handler == [h EXCEPT !.at = "look", !.profile = p]
  <2>1. p \in Profiles /\ profile[p].kind = "none"
    BY DEF Unused
  <2>2. /\ profile' \in [Profiles -> Profile]
        /\ profile'[p] = SelfProfile(u)
        /\ \A q \in Profiles : q # p => profile'[q] = profile[q]
    BY <1>1, <1>4, <2>1, SelfProfileType, Rest
  <2>3. /\ handler \in Handler /\ handler.at = "look"
        /\ handler.profile = p /\ handler.trainer = h.trainer
        /\ handler.todo = h.todo
    BY <1>1, <2>1 DEF Handler
  <2>4. req' = [req EXCEPT ![r] = handler]
    BY <1>4 DEF Resume
  <2>5. SelfProfile(u).kind = "self" /\ SelfProfile(u).parent = u
    BY <1>1, SelfProfileType
  <2> HIDE DEF handler
  <2>6. \A x \in Pairs : x[2] \in Profiles
    BY DEF Pairs
  <2>7. \A q \in Profiles :
            profile[q].kind # "none" => profile'[q].kind # "none"
    BY <2>1, <2>2
  <2>8. \A x \in Pairs : status'[x] # "none" => profile'[x[2]].kind # "none"
    BY <1>2, <2>6, <2>7 DEF IInv, DataInv
  <2>9. Known(handler)'
    BY <1>1, <2>1, <2>2, <2>3, <2>5, <2>6, <2>7 DEF Known
  <2>10. \A q \in Profiles :
             \/ profile'[q] = profile[q]
             \/ /\ profile[q].kind = "none" /\ profile'[q].kind # "none"
                /\ profile'[q].parent \in Users
                /\ account'[profile'[q].parent] = "adult"
                /\ profile'[q].kind = "child" => profile'[q].login = None
    BY <1>1, <1>2, <2>1, <2>2, <2>5
  <2>11. /\ account' \in [Users -> {"none", "adult"} \cup Profiles]
         /\ \A v \in Users : account'[v] = account[v]
         /\ status' \in [Pairs -> Statuses]
         /\ draft' \in DraftRows /\ hist' \in Histories
         /\ \A d \in Drafts : draft'[d].at > 0 =>
                                  draft'[d].trainer \in Trainers
    BY <1>2, Rest
  <2>12. handler.at # "provision"
    BY <2>3
  <2> QED BY <2>2, <2>3, <2>4, <2>8, <2>9, <2>10, <2>11, <2>12, GrowStep
<1> QED BY <1>1, <1>3, <1>4 DEF CreateSelf

-----------------------------------------------------------------------------
(* Associations.                                                            *)

(* A handler that begins and writes nothing.                                *)
LEMMA BeginStep ==
    ASSUME IInv, NEW r \in Requests, NEW handler \in Handler,
           req' = [req EXCEPT ![r] = handler],
           UNCHANGED <<data, draft, hist>>,
           handler.at # "provision", Known(handler)
    PROVE  IInv'
BY Rest, StatusStep DEF data

LEMMA AddOrRemoveStep ==
    ASSUME IInv, NEW r \in Requests, NEW u \in Users, NEW p \in Profiles,
           NEW t \in Trainers,
           AddTrainer(r, u, p, t) \/ RemoveTrainer(r, u, p, t)
    PROVE  IInv'
<1>1. PICK at \in {"look", "remove"} :
          Begin(r, [Idle EXCEPT !.at = at, !.trainer = t, !.profile = p])
  BY DEF AddTrainer, RemoveTrainer
<1> DEFINE handler == [Idle EXCEPT !.at = at, !.trainer = t, !.profile = p]
<1>2. profile[p].kind # "none"
  BY OwnedExist DEF AddTrainer, RemoveTrainer
<1>3. handler \in Handler /\ handler.at # "provision" /\ Known(handler)
  BY <1>2 DEF Handler, Idle, Known
<1>4. req' = [req EXCEPT ![r] = handler] /\ UNCHANGED <<data, draft, hist>>
  BY <1>1 DEF Begin, AddTrainer, RemoveTrainer
<1> HIDE DEF handler
<1> QED BY <1>3, <1>4, BeginStep

LEMMA LookStep ==
    ASSUME IInv, NEW r \in Requests, Look(r)
    PROVE  IInv'
<1>1. /\ req[r] \in Handler /\ Known(req[r]) /\ req[r].at = "look"
      /\ UNCHANGED <<account, profile, status, draft, hist>>
  BY DEF Look, data, IInv, HandlerInv, TypeOK
<1>2. CASE Respond(r)
  BY <1>1, <1>2, Rest, RespondStep
<1>3. ASSUME NEW at \in {"insert", "activate"},
             Resume(r, [req[r] EXCEPT !.at = at])
      PROVE  IInv'
  <2> DEFINE handler == [req[r] EXCEPT !.at = at]
  <2>1. handler \in Handler /\ handler.at # "provision" /\ Known(handler)
    BY <1>1 DEF Handler, Known
  <2>2. req' = [req EXCEPT ![r] = handler]
    BY <1>3 DEF Resume
  <2> HIDE DEF handler
  <2> QED BY <1>1, <2>1, <2>2, Rest, StatusStep
<1> QED BY <1>2, <1>3 DEF Look

(* What the handlers of one pair know of it.                                *)
LEMMA PairKnown ==
    ASSUME IInv, NEW r \in Requests,
           req[r].at \in {"look", "insert", "activate", "remove", "enrol"}
    PROVE  Pair(r) \in Pairs /\ Pair(r)[2] = req[r].profile
           /\ profile[req[r].profile].kind # "none"
BY DEF IInv, HandlerInv, Known, Pair, Pairs

(* An update of the status of a pair that exists, or none.                  *)
LEMMA PairWritten ==
    ASSUME IInv, NEW x \in Pairs, profile[x[2]].kind # "none",
           NEW s \in Statuses,
           status' = [status EXCEPT ![x] = s] \/ status' = status
    PROVE  /\ status' \in [Pairs -> Statuses]
           /\ \A y \in Pairs : status'[y] = status[y]
                               \/ profile[y[2]].kind # "none"
BY Rest

LEMMA WritePairStep ==
    ASSUME IInv, NEW r \in Requests, Insert(r) \/ Activate(r) \/ Remove(r)
    PROVE  IInv'
<1>1. /\ UNCHANGED <<account, profile, draft, hist>> /\ Respond(r)
      /\ req[r].at \in {"insert", "activate", "remove"}
  BY DEF Insert, Activate, Remove
<1>2. PICK s \in Statuses :
          status' = [status EXCEPT ![Pair(r)] = s] \/ status' = status
  BY DEF Insert, Activate, Remove, Associate, Statuses
<1> QED BY <1>1, <1>2, PairKnown, PairWritten, RespondStep

LEMMA JoinStep ==
    ASSUME IInv, NEW r \in Requests, NEW u \in Users, NEW t \in Trainers,
           NEW members \in SUBSET Profiles, Join(r, u, t, members)
    PROVE  IInv'
<1> DEFINE handler == [Idle EXCEPT !.at = "join", !.trainer = t,
                                   !.todo = {t} \X (members \cap Owned(u))]
<1>1. \A p \in Owned(u) : p \in Profiles /\ profile[p].kind # "none"
  BY OwnedExist
<1>2. /\ handler \in Handler /\ handler.at = "join" /\ handler.trainer = t
      /\ \A x \in handler.todo : x[2] \in Owned(u)
  BY <1>1 DEF Handler, Idle, Pairs
<1>3. req' = [req EXCEPT ![r] = handler] /\ UNCHANGED <<data, draft, hist>>
  BY DEF Join, Begin
<1> HIDE DEF handler
<1>4. Known(handler)
  BY <1>1, <1>2 DEF Known
<1> QED BY <1>2, <1>3, <1>4, BeginStep

LEMMA JoinNextStep ==
    ASSUME IInv, NEW r \in Requests, JoinNext(r)
    PROVE  IInv'
<1>1. /\ req[r] \in Handler /\ Known(req[r]) /\ req[r].at = "join"
      /\ UNCHANGED <<data, draft, hist>> /\ req[r].todo \subseteq Pairs
  BY DEF JoinNext, IInv, HandlerInv, TypeOK, Handler
<1>2. CASE Respond(r)
  BY <1>1, <1>2, Rest, RespondStep DEF data
<1>3. ASSUME NEW x \in req[r].todo,
             Resume(r, [req[r] EXCEPT !.todo = req[r].todo \ {x}])
      PROVE  IInv'
  <2> DEFINE handler == [req[r] EXCEPT !.todo = req[r].todo \ {x}]
  <2>1. handler \in Handler /\ handler.at # "provision" /\ Known(handler)
    BY <1>1 DEF Handler, Known
  <2>2. req' = [req EXCEPT ![r] = handler]
    BY <1>3 DEF Resume
  <2> HIDE DEF handler
  <2> QED BY <1>1, <2>1, <2>2, BeginStep
<1>4. ASSUME NEW x \in req[r].todo,
             Resume(r, [[req[r] EXCEPT !.todo = req[r].todo \ {x}]
                           EXCEPT !.at = "enrol", !.profile = x[2]])
      PROVE  IInv'
  <2> DEFINE handler == [[req[r] EXCEPT !.todo = req[r].todo \ {x}]
                            EXCEPT !.at = "enrol", !.profile = x[2]]
  <2>1. x[2] \in Profiles /\ profile[x[2]].kind # "none"
    BY <1>1 DEF Pairs, Known
  <2>2. /\ handler \in Handler /\ handler.at = "enrol"
        /\ handler.profile = x[2] /\ handler.trainer = req[r].trainer
        /\ handler.todo \subseteq req[r].todo
    BY <1>1, <2>1 DEF Handler
  <2>3. req' = [req EXCEPT ![r] = handler]
    BY <1>4 DEF Resume
  <2> HIDE DEF handler
  <2>4. Known(handler)
    BY <1>1, <2>1, <2>2 DEF Known
  <2> QED BY <1>1, <2>2, <2>3, <2>4, BeginStep
<1> QED BY <1>2, <1>3, <1>4 DEF JoinNext

LEMMA EnrolStep ==
    ASSUME IInv, NEW r \in Requests, Enrol(r)
    PROVE  IInv'
<1>1. /\ req[r] \in Handler /\ Known(req[r]) /\ req[r].at = "enrol"
      /\ UNCHANGED <<account, profile, draft, hist>>
  BY DEF Enrol, IInv, HandlerInv, TypeOK
<1>2. CASE Respond(r) /\ UNCHANGED status
  BY <1>1, <1>2, Rest, RespondStep
<1>3. CASE /\ Associate(Pair(r))
           /\ Resume(r, [req[r] EXCEPT !.at = "join", !.profile = None])
  <2> DEFINE handler == [req[r] EXCEPT !.at = "join", !.profile = None]
  <2>1. handler \in Handler /\ handler.at # "provision" /\ Known(handler)
    BY <1>1 DEF Handler, Known
  <2>2. req' = [req EXCEPT ![r] = handler]
    BY <1>3 DEF Resume
  <2>3. status' = [status EXCEPT ![Pair(r)] = "ACTIVE"]
    BY <1>3 DEF Associate
  <2>4. /\ status' \in [Pairs -> Statuses]
        /\ \A x \in Pairs : status'[x] = status[x]
                            \/ profile[x[2]].kind # "none"
    BY <1>1, <2>3, PairKnown, PairWritten DEF Statuses
  <2> HIDE DEF handler
  <2> QED BY <1>1, <2>1, <2>2, <2>4, Rest, StatusStep
<1> QED BY <1>2, <1>3 DEF Enrol

-----------------------------------------------------------------------------
(* Children.                                                                *)

LEMMA CreateChildStep ==
    ASSUME IInv, NEW r \in Requests, NEW u \in Users, NEW p \in Profiles,
           NEW trainers \in SUBSET Trainers, CreateChild(r, u, p, trainers)
    PROVE  IInv'
<1> DEFINE new == [kind |-> "child", parent |-> u, login |-> None]
           handler == [Idle EXCEPT !.at = "child", !.todo = trainers \X {p}]
<1>1. /\ account[u] = "adult" /\ profile[p].kind = "none"
      /\ profile' = [profile EXCEPT ![p] = new]
      /\ req' = [req EXCEPT ![r] = handler]
      /\ UNCHANGED <<account, status, draft, hist>>
  BY DEF CreateChild, MayManage, Unused, Begin
<1>2. /\ handler \in Handler /\ handler.at = "child"
      /\ \A x \in handler.todo : x[2] = p
  BY DEF Handler, Idle, Pairs
<1>3. /\ new \in Profile /\ new.kind = "child" /\ new.parent = u
      /\ new.login = None
  BY DEF Profile
<1> HIDE DEF new, handler
<1>4. /\ profile' \in [Profiles -> Profile] /\ profile'[p] = new
      /\ \A q \in Profiles : q # p => profile'[q] = profile[q]
  BY <1>1, <1>3, Rest
<1>5. ASSUME NEW h \in Handler, h = handler PROVE Known(h)'
  BY <1>2, <1>3, <1>4, <1>5 DEF Known
<1>6. \A x \in Pairs : x[2] \in Profiles
  BY DEF Pairs
<1>7. \A x \in Pairs : status'[x] # "none" => profile'[x[2]].kind # "none"
  BY <1>1, <1>3, <1>4, <1>6 DEF IInv, DataInv
<1>8. \A q \in Profiles :
          \/ profile'[q] = profile[q]
          \/ /\ profile[q].kind = "none" /\ profile'[q].kind # "none"
             /\ profile'[q].parent \in Users
             /\ account'[profile'[q].parent] = "adult"
             /\ profile'[q].kind = "child" => profile'[q].login = None
  BY <1>1, <1>3, <1>4
<1>9. /\ account' \in [Users -> {"none", "adult"} \cup Profiles]
      /\ \A v \in Users : account'[v] = account[v]
      /\ status' \in [Pairs -> Statuses]
      /\ draft' \in DraftRows /\ hist' \in Histories
      /\ \A d \in Drafts : draft'[d].at > 0 => draft'[d].trainer \in Trainers
  BY <1>1, Rest
<1>10. PICK h \in Handler : h = handler
  BY <1>2
<1>11. Known(h)' /\ h.at # "provision"
  BY <1>2, <1>5, <1>10
<1> QED BY <1>1, <1>4, <1>7, <1>8, <1>9, <1>10, <1>11, GrowStep

LEMMA ChildNextStep ==
    ASSUME IInv, NEW r \in Requests, ChildNext(r)
    PROVE  IInv'
<1>1. /\ req[r] \in Handler /\ Known(req[r]) /\ req[r].at = "child"
      /\ UNCHANGED <<account, profile, draft, hist>>
      /\ req[r].todo \subseteq Pairs
  BY DEF ChildNext, IInv, HandlerInv, TypeOK, Handler
<1>2. CASE Respond(r) /\ UNCHANGED status
  BY <1>1, <1>2, Rest, RespondStep
<1>3. ASSUME NEW x \in req[r].todo, Associate(x),
             Resume(r, [req[r] EXCEPT !.todo = req[r].todo \ {x}])
      PROVE  IInv'
  <2> DEFINE handler == [req[r] EXCEPT !.todo = req[r].todo \ {x}]
  <2>1. handler \in Handler /\ handler.at # "provision" /\ Known(handler)
    BY <1>1 DEF Handler, Known
  <2>2. req' = [req EXCEPT ![r] = handler]
    BY <1>3 DEF Resume
  <2>3. x \in Pairs /\ profile[x[2]].kind # "none"
    BY <1>1 DEF Known
  <2>4. /\ status' \in [Pairs -> Statuses]
        /\ \A y \in Pairs : status'[y] = status[y]
                            \/ profile[y[2]].kind # "none"
    BY <1>3, <2>3, PairWritten DEF Associate, Statuses
  <2> HIDE DEF handler
  <2> QED BY <1>1, <2>1, <2>2, <2>4, Rest, StatusStep
<1> QED BY <1>2, <1>3 DEF ChildNext

LEMMA ProvisionStep ==
    ASSUME IInv, NEW r \in Requests, NEW u \in Users, NEW p \in Profiles,
           NEW v \in Users, Provision(r, u, p, v)
    PROVE  IInv'
<1> DEFINE handler == [Idle EXCEPT !.at = "provision", !.user = v,
                                   !.profile = p]
<1>1. /\ profile[p].kind = "child" /\ profile[p].login = None
      /\ req' = [req EXCEPT ![r] = handler]
      /\ UNCHANGED <<account, profile, status, draft, hist>>
  BY DEF Provision, Begin, data
<1>2. /\ handler \in Handler /\ handler.at = "provision" /\ handler.user = v
      /\ handler.profile = p /\ handler.todo = {}
  BY DEF Handler, Idle
<1> HIDE DEF handler
<1>3. /\ req' \in [Requests -> Handler] /\ req'[r] = handler
      /\ \A s \in Requests : s # r => req'[s] = req[s]
  BY <1>1, <1>2 DEF IInv, TypeOK
<1>4. TypeOK'
  BY <1>1, <1>3 DEF IInv, TypeOK
<1>5. HandlerInv'
  BY <1>1, <1>2, <1>3 DEF IInv, HandlerInv, Known
<1>6. DataInv' /\ ParentsAreAdults' /\ LoginsMadeForChild'
  BY <1>1 DEF IInv, DataInv, ParentsAreAdults, LoginsMadeForChild, IsChild
<1> QED BY <1>4, <1>5, <1>6 DEF IInv

(* The login of a child's profile goes to the new account.                  *)
LEMMA CreateLoginStep ==
    ASSUME IInv, NEW r \in Requests, CreateLogin(r)
    PROVE  IInv'
<1>1. PICK v \in Users, p \in Profiles :
          /\ v = req[r].user /\ p = req[r].profile
          /\ profile[p].kind = "child"
  BY DEF CreateLogin, IInv, HandlerInv, Known
<1>2. /\ req[r].at = "provision" /\ Respond(r)
      /\ UNCHANGED <<status, draft, hist>>
  BY DEF CreateLogin
<1>3. CASE UNCHANGED <<account, profile>>
  BY <1>2, <1>3, Rest, RespondStep
<1>4. CASE /\ account[v] = "none"
           /\ account' = [account EXCEPT ![v] = p]
           /\ profile' = [profile EXCEPT ![p].login = v]
  <2>1. /\ account' \in [Users -> {"none", "adult"} \cup Profiles]
        /\ account'[v] = p
        /\ \A w \in Users : w # v => account'[w] = account[w]
    BY <1>4, Rest
  <2>2. profile[p] \in Profile
    BY Rest
  <2>3. /\ profile' \in [Profiles -> Profile]
        /\ profile'[p].kind = "child" /\ profile'[p].login = v
        /\ profile'[p].parent = profile[p].parent
        /\ \A q \in Profiles : q # p => profile'[q] = profile[q]
    BY <1>1, <1>4, <2>2, Rest DEF Profile
  <2>4. /\ req' \in [Requests -> Handler] /\ req'[r] = Idle
        /\ \A s \in Requests : s # r => req'[s] = req[s]
    BY <1>2, Rest DEF Respond, IInv, TypeOK
  <2>5. \A q \in Profiles : /\ profile'[q].kind = profile[q].kind
                            /\ profile'[q].parent = profile[q].parent
    BY <1>1, <2>3
  <2>6. TypeOK'
    BY <1>2, <2>1, <2>3, <2>4 DEF IInv, TypeOK
  <2>7. HandlerInv'
    <3> SUFFICES ASSUME NEW s \in Requests PROVE Known(req[s])'
      BY DEF HandlerInv
    <3>1. CASE s = r
      BY <2>4, <3>1 DEF Known, Idle
    <3>2. CASE s # r
      <4>1. Known(req[s]) /\ req'[s] = req[s] /\ req[s].todo \subseteq Pairs
        BY <2>4, <3>2 DEF IInv, HandlerInv, TypeOK, Handler
      <4>2. \A x \in Pairs : x[2] \in Profiles
        BY DEF Pairs
      <4>3. \A w \in Users : account[w] = "adult" => account'[w] = "adult"
        BY <1>4, <2>1
      <4> QED BY <2>5, <4>1, <4>2, <4>3 DEF Known
    <3> QED BY <3>1, <3>2
  <2>8. DataInv'
    <3>1. \A w \in Users : account'[w] \in Profiles =>
                               profile'[account'[w]].kind = "child"
      BY <1>1, <2>1, <2>5 DEF IInv, DataInv
    <3>2. \A x \in Pairs : status'[x] # "none" => profile'[x[2]].kind # "none"
      <4>1. \A x \in Pairs : x[2] \in Profiles
        BY DEF Pairs
      <4> QED BY <1>2, <2>5, <4>1 DEF IInv, DataInv
    <3>3. \A q \in Profiles :
              IF profile'[q].kind = "none"
              THEN profile'[q].parent = None /\ profile'[q].login = None
              ELSE profile'[q].parent \in Users
      BY <1>1, <2>3, <2>5 DEF IInv, DataInv
    <3> QED BY <1>2, <3>1, <3>2, <3>3 DEF IInv, DataInv
  <2>9. ParentsAreAdults'
    <3>1. \A w \in Users : account[w] = "adult" => account'[w] = "adult"
      BY <1>4, <2>1
    <3> QED BY <2>5, <3>1 DEF IInv, DataInv, ParentsAreAdults
  <2>10. LoginsMadeForChild'
    <3> SUFFICES ASSUME NEW q \in Profiles, profile'[q].kind = "child",
                        profile'[q].login # None
                 PROVE  account'[profile'[q].login] = q
      BY DEF LoginsMadeForChild, IsChild
    <3>1. CASE q = p
      BY <2>1, <2>3, <3>1
    <3>2. CASE q # p
      <4>1. profile'[q] = profile[q] /\ profile[q] \in Profile
        BY <2>3, <3>2 DEF IInv, TypeOK
      <4>2. profile[q].login \in Users /\ account[profile[q].login] = q
        BY <4>1 DEF Profile, IInv, LoginsMadeForChild, IsChild
      <4> QED BY <1>4, <2>1, <4>1, <4>2, ProfileAssumption
    <3> QED BY <3>1, <3>2
  <2> QED BY <2>6, <2>7, <2>8, <2>9, <2>10 DEF IInv
<1> QED BY <1>1, <1>3, <1>4 DEF CreateLogin

LEMMA FailStep ==
    ASSUME IInv, NEW r \in Requests, Fail(r)
    PROVE  IInv'
<1> DEFINE stopped == hist.stopped \cup
               {u \in {req[r].user} : /\ req[r].draft # None
                                      /\ u \in hist.spent[req[r].draft]}
<1>1. req[r] \in Handler
  BY DEF IInv, TypeOK
<1>2. hist.spent \in [Drafts -> SUBSET Users] /\ hist.stopped \subseteq Users
  BY Rest DEF Histories
<1>3. stopped \subseteq Users
  BY <1>1, <1>2 DEF Handler
<1>4. /\ hist' = [hist EXCEPT !.stopped = stopped]
      /\ Respond(r) /\ UNCHANGED <<account, profile, status, draft>>
  BY DEF Fail, data
<1> HIDE DEF stopped
<1>5. hist' \in Histories
  BY <1>3, <1>4, Rest DEF Histories
<1> QED BY <1>4, <1>5, Rest, StatusStep DEF Respond

-----------------------------------------------------------------------------
LEMMA NextInv == IInv /\ [Next]_vars => IInv'
<1> SUFFICES ASSUME IInv, [Next]_vars PROVE IInv'
  OBVIOUS
<1>1. CASE UNCHANGED vars
  BY <1>1, Rest, DraftStep DEF vars, data
<1>2. ASSUME NEW r \in Requests, Arrive(r) PROVE IInv'
  BY <1>2, RegisterStep, AddOrRemoveStep, JoinStep, CreateChildStep,
     ProvisionStep DEF Arrive
<1>3. ASSUME NEW r \in Requests, Continue(r) PROVE IInv'
  BY <1>3, CreateAccountStep, ConsumeStep, FindSelfStep, CreateSelfStep,
     LookStep, WritePairStep, JoinNextStep, EnrolStep, ChildNextStep,
     CreateLoginStep DEF Continue
<1> QED BY <1>1, <1>2, <1>3, ExpireStep, CreateDraftStep, FailStep DEF Next

(* The invariant that the theorems below are conjuncts of: what handlers    *)
(* know of the rows they are about to write.                                *)
THEOREM InductiveInvariant == Spec => []IInv
BY InitInv, NextInv, PTL DEF Spec

(* The tables, the drafts, the handlers and the history keep their types.   *)
THEOREM TypeCorrect == Spec => []TypeOK
<1>1. IInv => TypeOK
  BY DEF IInv
<1> QED BY <1>1, InductiveInvariant, PTL

(* No profile is ever managed by a child's account (assertNotChildAccount). *)
THEOREM OnlyAdultsAreParents == Spec => []ParentsAreAdults
<1>1. IInv => ParentsAreAdults
  BY DEF IInv
<1> QED BY <1>1, InductiveInvariant, PTL

(* A removed association only comes back through addTrainerAssociation:     *)
(* every other insert finds the pair and is refused.                        *)
THEOREM NothingElseRevives == Spec => RemovedStaysRemoved
<1> DEFINE Revived(x) == status[x] = "REMOVED" /\ status'[x] # "REMOVED"
           Activated(x) == \E r \in Requests : /\ req[r].at = "activate"
                                               /\ Pair(r) = x
<1>1. ASSUME IInv, [Next]_vars, NEW x \in Pairs, Revived(x)
      PROVE  Activated(x)
  <2>1. status \in [Pairs -> Statuses] /\ status' # status
    BY <1>1, Rest
  <2>2. ASSUME NEW y \in Pairs, Associate(y), status[y] = "none" PROVE FALSE
    BY <1>1, <2>1, <2>2 DEF Associate
  <2>3. PICK r \in Requests : Arrive(r) \/ Continue(r) \/ Fail(r)
    BY <1>1, <2>1 DEF Next, vars, data, Expire, CreateDraft
  <2>4. Continue(r)
    BY <2>1, <2>3 DEF Arrive, Fail, data, Register, RegisterByLink, Join,
       AddTrainer, RemoveTrainer, CreateChild, Provision
  <2>5. CASE CreateAccount(r)
    <3>1. PICK p \in Unused : Associate(<<req[r].trainer, p>>)
                              /\ req[r].trainer # None
      BY <2>1, <2>5 DEF CreateAccount
    <3>2. <<req[r].trainer, p>> \in Pairs /\ profile[p].kind = "none"
      BY <1>1, <3>1 DEF IInv, TypeOK, Handler, Unused, Pairs
    <3>3. status[<<req[r].trainer, p>>] = "none"
      BY <1>1, <3>2 DEF IInv, DataInv
    <3> QED BY <2>2, <3>1, <3>2, <3>3
  <2>6. CASE Insert(r) \/ Enrol(r)
    BY <1>1, <2>1, <2>2, <2>6, PairKnown DEF Insert, Enrol
  <2>7. CASE Activate(r)
    <3>1. Pair(r) \in Pairs /\ req[r].at = "activate"
      BY <1>1, <2>7, PairKnown DEF Activate
    <3>2. Pair(r) = x
      BY <1>1, <2>1, <2>7, <3>1 DEF Activate, Associate
    <3> QED BY <3>1, <3>2
  <2>8. CASE Remove(r)
    <3>1. Pair(r) \in Pairs
      BY <1>1, <2>8, PairKnown DEF Remove
    <3> QED BY <1>1, <2>1, <2>8, <3>1 DEF Remove
  <2>9. CASE ChildNext(r)
    <3>1. req[r].todo \subseteq Pairs
      BY <1>1 DEF IInv, TypeOK, Handler
    <3> QED BY <2>1, <2>2, <2>9, <3>1 DEF ChildNext
  <2> QED BY <2>1, <2>4, <2>5, <2>6, <2>7, <2>8, <2>9
          DEF Continue, Consume, FindSelf, CreateSelf, Look, JoinNext,
              CreateLogin, data
<1>2. IInv /\ [Next]_vars =>
          [\A x \in Pairs :
              status[x] = "REMOVED" /\ status'[x] # "REMOVED" =>
                  \E r \in Requests : req[r].at = "activate"
                                      /\ Pair(r) = x]_vars
  BY <1>1
<1> QED BY <1>2, InductiveInvariant, PTL DEF Spec, RemovedStaysRemoved

-----------------------------------------------------------------------------
(* What a draft brings.                                                     *)

(* A handler that registers from a draft and has made its account.          *)
Holder(h) == h.draft # None /\ h.at # "register"

Serving == {"self", "create", "look", "insert", "activate"}

(* It is the account's own, which is new: nobody else gives it a profile,   *)
(* and the trainer it is to be associated with is the draft's.              *)
Serves(h) ==
    /\ h.at \in {"consume"} \cup Serving
    /\ h.user \in Users /\ account[h.user] = "adult"
    /\ h.at \in Serving => h.trainer = draft[h.draft].trainer
    /\ h.at \in {"consume", "self", "create"} => SelfProfiles(h.user) = {}
    /\ h.at \in {"look", "insert", "activate"} =>
           h.profile \in SelfProfiles(h.user)

HolderInv ==
    /\ \A r \in Requests : Holder(req[r]) => Serves(req[r])
    /\ \A r, s \in Requests :
          Holder(req[r]) /\ Holder(req[s]) /\ req[r].user = req[s].user
              => r = s

(* The profile that is found by an adult's account is the adult's own, and  *)
(* a child's account was made for a child.                                  *)
LoginInv ==
    \A p \in Profiles :
        profile[p].login # None =>
            account[profile[p].login] \in
                (IF profile[p].kind = "child" THEN Profiles ELSE {"adult"})

(* What became of the account that spent a draft.                           *)
Brought(u, d) ==
    \/ u \in hist.stopped
    \/ \E r \in Requests : /\ req[r].draft = d /\ req[r].user = u
                           /\ req[r].at \in Serving
    \/ \E p \in SelfProfiles(u) : status[<<draft[d].trainer, p>>] # "none"

SpentInv ==
    \A d \in Drafts, u \in Users :
        u \in hist.spent[d] =>
            /\ account[u] = "adult" /\ draft[d].trainer \in Trainers
            /\ Brought(u, d)

DraftInv == HolderInv /\ LoginInv /\ SpentInv

(* A draft that nobody created is not in the map, one in the map is unspent.*)
LedgerInv ==
    \A d \in Drafts :
        /\ draft[d].trainer = None => draft[d].at = 0
        /\ draft[d].trainer = None \/ draft[d].at > 0 => hist.spent[d] = {}
        /\ \A u, v \in hist.spent[d] : u = v

(* One handler moves; what adults own is not taken from them, and only the  *)
(* account's own handler gives it a profile.                                *)
LEMMA HolderStep ==
    ASSUME IInv, IInv', DraftInv, NEW r \in Requests, NEW handler \in Handler,
           req' = [req EXCEPT ![r] = handler],
           \A u \in Users :
               account[u] = "adult" =>
                   /\ account'[u] = "adult"
                   /\ SelfProfiles(u) \subseteq SelfProfiles(u)'
                   /\ \/ SelfProfiles(u)' = SelfProfiles(u)
                      \/ Holder(req[r]) /\ u = req[r].user,
           \A x \in Pairs : status[x] # "none" => status'[x] # "none",
           \A d \in Drafts : draft[d].trainer # None =>
                                 draft'[d].trainer = draft[d].trainer,
           LoginInv',
           Holder(handler) =>
               /\ Serves(handler)'
               /\ \/ account[handler.user] = "none"
                  \/ Holder(req[r]) /\ handler.user = req[r].user,
           hist.stopped \subseteq hist'.stopped,
           \A d \in Drafts, u \in Users :
               \/ u \in hist'.spent[d] => u \in hist.spent[d]
               \/ /\ handler.draft = d /\ handler.user = u
                  /\ handler.at \in Serving /\ draft[d].trainer \in Trainers,
           \A d \in Drafts, u \in Users :
               /\ u \in hist.spent[d] /\ req[r].at \in Serving
               /\ req[r].draft = d /\ req[r].user = u
               => Brought(u, d)'
    PROVE  DraftInv'
<1>1. /\ \A s \in Requests : req'[s] = IF s = r THEN handler ELSE req[s]
      /\ req \in [Requests -> Handler]
  BY DEF IInv, TypeOK
<1>2. ASSUME NEW s \in Requests, s # r, Holder(req[s]) PROVE Serves(req[s])'
  <2>1. /\ Serves(req[s]) /\ req[s] \in Handler /\ req'[s] = req[s]
        /\ Known(req[s])
    BY <1>1, <1>2 DEF DraftInv, HolderInv, IInv, HandlerInv
  <2>2. /\ req[s].user \in Users /\ account[req[s].user] = "adult"
        /\ req[s].draft \in Drafts
    BY <1>2, <2>1 DEF Serves, Holder, Handler
  <2>3. /\ account'[req[s].user] = "adult"
        /\ SelfProfiles(req[s].user)' = SelfProfiles(req[s].user)
    BY <1>1, <1>2, <2>2 DEF DraftInv, HolderInv
  <2>4. req[s].at \in Serving =>
            draft'[req[s].draft].trainer = draft[req[s].draft].trainer
    <3>1. req[s].at \in Serving => req[s].trainer \in Trainers
      BY <2>1 DEF Serving, Known
    <3> QED BY <2>1, <2>2, <3>1, NoneAssumption DEF Serves
  <2> QED BY <2>1, <2>2, <2>3, <2>4 DEF Serves
<1>3. HolderInv'
  <2>1. \A s \in Requests : Holder(req[s])' => Serves(req[s])'
    <3> SUFFICES ASSUME NEW s \in Requests, Holder(req'[s])
                 PROVE  Serves(req[s])'
      BY DEF Holder
    <3>1. CASE s = r
      BY <1>1, <3>1 DEF Serves
    <3>2. CASE s # r
      BY <1>1, <1>2, <3>2
    <3> QED BY <3>1, <3>2
  <2>2. \A s \in Requests : Holder(req[s]) => account[req[s].user] = "adult"
    BY DEF DraftInv, HolderInv, Serves
  <2>3. ASSUME NEW s \in Requests, NEW q \in Requests, s # q,
               Holder(req'[s]), Holder(req'[q]), req'[s].user = req'[q].user
        PROVE  FALSE
    <3>1. CASE s # r /\ q # r
      BY <1>1, <2>3, <3>1 DEF DraftInv, HolderInv
    <3>2. ASSUME NEW o \in Requests, o # r, Holder(req[o]), Holder(handler),
                 req[o].user = handler.user
          PROVE  FALSE
      BY <2>2, <3>2 DEF DraftInv, HolderInv
    <3> QED BY <1>1, <2>3, <3>1, <3>2
  <2> QED BY <2>1, <2>3 DEF HolderInv, Holder
<1>4. SpentInv'
  <2> SUFFICES ASSUME NEW d \in Drafts, NEW u \in Users, u \in hist'.spent[d]
               PROVE  /\ account'[u] = "adult" /\ draft'[d].trainer \in Trainers
                      /\ Brought(u, d)'
    BY DEF SpentInv, Brought
  <2>1. CASE u \in hist.spent[d]
    <3>1. /\ account[u] = "adult" /\ draft[d].trainer \in Trainers
          /\ Brought(u, d)
      BY <2>1 DEF DraftInv, SpentInv
    <3>2. account'[u] = "adult" /\ draft'[d].trainer = draft[d].trainer
      BY <3>1, NoneAssumption
    <3>3. ASSUME u \in hist.stopped PROVE Brought(u, d)'
      <4>1. u \in hist'.stopped
        BY <3>3
      <4> QED BY <4>1 DEF Brought
    <3>4. ASSUME NEW s \in Requests, req[s].draft = d, req[s].user = u,
                 req[s].at \in Serving
          PROVE  Brought(u, d)'
      <4>1. CASE s = r
        BY <2>1, <3>4, <4>1
      <4>2. CASE s # r
        <5>1. req'[s] = req[s]
          BY <1>1, <4>2
        <5> QED BY <3>4, <5>1 DEF Brought
      <4> QED BY <4>1, <4>2
    <3>5. ASSUME NEW p \in SelfProfiles(u),
                 status[<<draft[d].trainer, p>>] # "none"
          PROVE  Brought(u, d)'
      <4>1. <<draft[d].trainer, p>> \in Pairs
        BY <3>1 DEF SelfProfiles, Pairs
      <4>2. p \in SelfProfiles(u)'
        BY <3>1
      <4> QED BY <3>2, <3>5, <4>1, <4>2 DEF Brought
    <3> QED BY <3>1, <3>2, <3>3, <3>4, <3>5 DEF Brought
  <2>2. CASE /\ handler.draft = d /\ handler.user = u
             /\ handler.at \in Serving /\ draft[d].trainer \in Trainers
    <3>1. req'[r] = handler /\ Holder(handler)
      BY <1>1, <2>2, NoneAssumption DEF Holder, Serving
    <3>2. account'[u] = "adult" /\ draft'[d].trainer \in Trainers
      BY <2>2, <3>1, NoneAssumption DEF Serves
    <3> QED BY <2>2, <3>1, <3>2 DEF Brought
  <2> QED BY <2>1, <2>2
<1> QED BY <1>3, <1>4 DEF DraftInv

(* What the tables say when no table is written.                            *)
LEMMA MoveStep ==
    ASSUME IInv, IInv', DraftInv, NEW r \in Requests, NEW handler \in Handler,
           req' = [req EXCEPT ![r] = handler],
           UNCHANGED <<account, profile, draft>>,
           \A x \in Pairs : status[x] # "none" => status'[x] # "none",
           hist'.spent = hist.spent, hist.stopped \subseteq hist'.stopped,
           Holder(handler) => /\ Holder(req[r]) /\ Serves(handler)
                              /\ handler.user = req[r].user,
           \A d \in Drafts, u \in Users :
               /\ u \in hist.spent[d] /\ req[r].at \in Serving
               /\ req[r].draft = d /\ req[r].user = u
               => Brought(u, d)'
    PROVE  DraftInv'
<1>1. \A u \in Users : SelfProfiles(u)' = SelfProfiles(u)
  BY DEF SelfProfiles
<1>2. LoginInv'
  BY DEF DraftInv, LoginInv
<1>3. Holder(handler) => Serves(handler)'
  BY <1>1 DEF Serves
<1> QED BY <1>1, <1>2, <1>3, HolderStep

(* A handler that is idle, or associates outside a registration, holds no   *)
(* draft.                                                                   *)
LEMMA HoldersServe ==
    ASSUME DraftInv, NEW r \in Requests,
           req[r].at \notin {"consume"} \cup Serving
    PROVE  ~Holder(req[r]) /\ req[r].at \notin Serving
BY DEF DraftInv, HolderInv, Serves

(* A handler that has nothing to do with a draft moves on.                  *)
LEMMA OtherStep ==
    ASSUME IInv, IInv', DraftInv, NEW r \in Requests, NEW handler \in Handler,
           req' = [req EXCEPT ![r] = handler],
           req[r].at \notin {"consume"} \cup Serving, ~Holder(handler),
           UNCHANGED <<account, profile, draft>>,
           \A x \in Pairs : status[x] # "none" => status'[x] # "none",
           hist'.spent = hist.spent, hist'.stopped = hist.stopped
    PROVE  DraftInv'
BY HoldersServe, MoveStep

LEMMA ArriveDraft ==
    ASSUME IInv, IInv', DraftInv, NEW r \in Requests, Arrive(r),
           UNCHANGED profile
    PROVE  DraftInv'
<1>1. /\ UNCHANGED <<account, status, draft>> /\ req[r].at = "idle"
      /\ hist'.spent = hist.spent /\ hist'.stopped = hist.stopped
  BY Rest DEF Arrive, Register, RegisterByLink, Join, AddTrainer,
     RemoveTrainer, CreateChild, Provision, Begin, data, Histories
<1>2. PICK handler \in Handler :
         req' = [req EXCEPT ![r] = handler] /\ ~Holder(handler)
  <2>1. \A h : Begin(r, h) => req' = [req EXCEPT ![r] = h] /\ h = req'[r]
    BY DEF Begin, IInv, TypeOK
  <2>2. req' \in [Requests -> Handler]
    BY DEF IInv, TypeOK
  <2>3. ASSUME NEW h, Begin(r, h), ~Holder(h)
        PROVE  \E handler \in Handler :
                  req' = [req EXCEPT ![r] = handler] /\ ~Holder(handler)
    BY <2>1, <2>2, <2>3
  <2>4. ASSUME NEW u \in Users, NEW d \in Drafts \cup {None}, Register(r, u, d)
        PROVE  \E h : Begin(r, h) /\ ~Holder(h)
    <3> DEFINE h == [Idle EXCEPT !.at = "register", !.user = u, !.draft = d]
    <3>1. h.at = "register"
      BY DEF Idle
    <3>2. Begin(r, h)
      BY <2>4 DEF Register
    <3> HIDE DEF h
    <3> QED BY <3>1, <3>2 DEF Holder
  <2>5. ASSUME NEW u \in Users, NEW t \in Trainers, RegisterByLink(r, u, t)
        PROVE  \E h : Begin(r, h) /\ ~Holder(h)
    <3> DEFINE h == [Idle EXCEPT !.at = "register", !.user = u, !.trainer = t]
    <3>1. h.draft = None
      BY DEF Idle
    <3>2. Begin(r, h)
      BY <2>5 DEF RegisterByLink
    <3> HIDE DEF h
    <3> QED BY <3>1, <3>2 DEF Holder
  <2>6. ASSUME NEW u \in Users, NEW t \in Trainers,
               NEW members \in SUBSET Profiles, Join(r, u, t, members)
        PROVE  \E h : Begin(r, h) /\ ~Holder(h)
    <3> DEFINE h == [Idle EXCEPT !.at = "join", !.trainer = t,
                              !.todo = {t} \X (members \cap Owned(u))]
    <3>1. h.draft = None
      BY DEF Idle
    <3>2. Begin(r, h)
      BY <2>6 DEF Join
    <3> HIDE DEF h
    <3> QED BY <3>1, <3>2 DEF Holder
  <2>7. ASSUME NEW u \in Users, NEW p \in Profiles, NEW t \in Trainers,
               NEW at \in {"look", "remove"},
               Begin(r, [Idle EXCEPT !.at = at, !.trainer = t, !.profile = p])
        PROVE  \E h : Begin(r, h) /\ ~Holder(h)
    <3> DEFINE h == [Idle EXCEPT !.at = at, !.trainer = t, !.profile = p]
    <3>1. h.draft = None
      BY DEF Idle
    <3>2. Begin(r, h)
      BY <2>7
    <3> HIDE DEF h
    <3> QED BY <3>1, <3>2 DEF Holder
  <2>8. ASSUME NEW u \in Users, NEW p \in Profiles,
               NEW trainers \in SUBSET Trainers, CreateChild(r, u, p, trainers)
        PROVE  \E h : Begin(r, h) /\ ~Holder(h)
    <3> DEFINE h == [Idle EXCEPT !.at = "child", !.todo = trainers \X {p}]
    <3>1. h.draft = None
      BY DEF Idle
    <3>2. Begin(r, h)
      BY <2>8 DEF CreateChild
    <3> HIDE DEF h
    <3> QED BY <3>1, <3>2 DEF Holder
  <2>9. ASSUME NEW u \in Users, NEW p \in Profiles, NEW v \in Users,
               Provision(r, u, p, v)
        PROVE  \E h : Begin(r, h) /\ ~Holder(h)
    <3> DEFINE h == [Idle EXCEPT !.at = "provision", !.user = v, !.profile = p]
    <3>1. h.draft = None
      BY DEF Idle
    <3>2. Begin(r, h)
      BY <2>9 DEF Provision
    <3> HIDE DEF h
    <3> QED BY <3>1, <3>2 DEF Holder
  <2>10. ASSUME NEW u \in Users, NEW p \in Profiles, NEW t \in Trainers,
                AddTrainer(r, u, p, t) \/ RemoveTrainer(r, u, p, t)
         PROVE  \E h : Begin(r, h) /\ ~Holder(h)
    BY <2>7, <2>10 DEF AddTrainer, RemoveTrainer
  <2>11. \E h : Begin(r, h) /\ ~Holder(h)
    BY <2>4, <2>5, <2>6, <2>8, <2>9, <2>10 DEF Arrive
  <2> QED BY <2>3, <2>11
<1>3. req[r].at \notin {"consume"} \cup Serving
  BY <1>1 DEF Serving
<1> QED BY <1>1, <1>2, <1>3, OtherStep

(* A child's profile has no login yet.                                      *)
LEMMA CreateChildDraft ==
    ASSUME IInv, IInv', DraftInv, NEW r \in Requests, NEW u \in Users,
           NEW p \in Profiles, NEW trainers \in SUBSET Trainers,
           CreateChild(r, u, p, trainers)
    PROVE  DraftInv'
<1> DEFINE new == [kind |-> "child", parent |-> u, login |-> None]
           handler == [Idle EXCEPT !.at = "child", !.todo = trainers \X {p}]
<1>1. /\ profile[p].kind = "none" /\ profile[p].login = None
      /\ profile' = [profile EXCEPT ![p] = new]
      /\ req' = [req EXCEPT ![r] = handler] /\ req[r].at = "idle"
      /\ UNCHANGED <<account, status, draft, hist>>
  BY DEF CreateChild, Unused, Begin, IInv, DataInv
<1>2. handler \in Handler /\ ~Holder(handler)
  BY DEF Handler, Idle, Pairs, Holder
<1>3. new.login = None
  OBVIOUS
<1> HIDE DEF new, handler
<1>4. \A q \in Profiles : profile'[q].login = profile[q].login
                          /\ (q # p => profile'[q] = profile[q])
  BY <1>1, <1>3, Rest
<1>5. \A v \in Users : SelfProfiles(v)' = SelfProfiles(v)
  BY <1>4 DEF SelfProfiles
<1>6. LoginInv'
  BY <1>1, <1>4 DEF DraftInv, LoginInv
<1>7. req[r].at \notin {"consume"} \cup Serving
  BY <1>1 DEF Serving
<1> QED BY <1>1, <1>2, <1>5, <1>6, <1>7, HoldersServe, HolderStep


(* Somebody new has no profile.                                             *)
LEMMA NewHasNone ==
    ASSUME IInv, DraftInv, NEW u \in Users, account[u] = "none"
    PROVE  SelfProfiles(u) = {}
BY ProfileAssumption, NoneAssumption DEF SelfProfiles, DraftInv, LoginInv

(* A new profile of one's own belongs to the one it was made for, and to    *)
(* nobody else.                                                             *)
LEMMA SelfProfileGiven ==
    ASSUME IInv, DraftInv, NEW u \in Users, NEW p \in Unused,
           account' \in [Users -> {"none", "adult"} \cup Profiles],
           account'[u] = "adult",
           \A v \in Users : v # u => account'[v] = account[v],
           profile' = [profile EXCEPT ![p] = SelfProfile(u)],
           account[u] \in {"none", "adult"}
    PROVE  /\ p \in SelfProfiles(u)'
           /\ SelfProfiles(u) \subseteq SelfProfiles(u)'
           /\ \A v \in Users : v # u => SelfProfiles(v)' = SelfProfiles(v)
           /\ LoginInv'
<1>1. p \in Profiles /\ profile[p].login = None
  BY DEF Unused, IInv, DataInv
<1>2. /\ profile'[p].login = u /\ profile'[p].kind = "self"
      /\ \A q \in Profiles : q # p => profile'[q] = profile[q]
  BY <1>1, SelfProfileType, Rest
<1>3. /\ p \in SelfProfiles(u)' /\ SelfProfiles(u) \subseteq SelfProfiles(u)'
      /\ \A v \in Users : v # u => SelfProfiles(v)' = SelfProfiles(v)
  BY <1>1, <1>2, NoneAssumption DEF SelfProfiles
<1>4. LoginInv'
  <2> SUFFICES ASSUME NEW q \in Profiles, profile'[q].login # None
               PROVE  account'[profile'[q].login] \in
                         (IF profile'[q].kind = "child" THEN Profiles
                                                        ELSE {"adult"})
    BY DEF LoginInv
  <2>1. CASE q = p
    BY <1>2, <2>1
  <2>2. CASE q # p
    <3>1. /\ profile'[q] = profile[q] /\ profile[q].login \in Users
          /\ account[profile[q].login] \in
                (IF profile[q].kind = "child" THEN Profiles ELSE {"adult"})
      BY <1>2, <2>2, Rest DEF Profile, DraftInv, LoginInv
    <3>2. CASE profile[q].login = u
      BY <3>1, <3>2, ProfileAssumption
    <3>3. CASE profile[q].login # u
      BY <3>1, <3>3
    <3> QED BY <3>2, <3>3
  <2> QED BY <2>1, <2>2
<1> QED BY <1>3, <1>4

(* The account is nobody's yet, so no other handler holds a draft for it.   *)
LEMMA CreateAccountDraft ==
    ASSUME IInv, IInv', DraftInv, NEW r \in Requests, CreateAccount(r)
    PROVE  DraftInv'
<1>1. PICK h \in Handler, u \in Users :
          h = req[r] /\ u = h.user /\ h.at = "register"
  BY DEF CreateAccount, IInv, HandlerInv, Known, TypeOK
<1>2. /\ UNCHANGED <<draft, hist>> /\ Idle \in Handler
      /\ ~Holder(Idle) /\ h.at \notin Serving
      /\ req[r].at \notin {"consume"} \cup Serving
  BY <1>1 DEF CreateAccount, Handler, Idle, Holder, Serving
<1>3. CASE account[u] # "none"
  <2>1. Respond(r) /\ UNCHANGED <<account, profile, status>>
    BY <1>1, <1>3 DEF CreateAccount
  <2> QED BY <1>2, <2>1, OtherStep DEF Respond
<1>4. CASE account[u] = "none"
  <2>1. account' = [account EXCEPT ![u] = "adult"]
    BY <1>1, <1>4 DEF CreateAccount
  <2>2. /\ account' \in [Users -> {"none", "adult"} \cup Profiles]
        /\ account'[u] = "adult"
        /\ \A v \in Users : v # u => account'[v] = account[v]
    BY <2>1, Rest
  <2>3. \A v \in Users : account[v] = "adult" => account'[v] = "adult" /\ v # u
    BY <1>4, <2>2
  <2>4. CASE h.trainer # None
    <3>1. PICK p \in Unused :
              /\ profile' = [profile EXCEPT ![p] = SelfProfile(u)]
              /\ Associate(<<h.trainer, p>>)
              /\ Respond(r)
      BY <1>1, <1>4, <2>4 DEF CreateAccount
    <3>2. /\ \A v \in Users : v # u => SelfProfiles(v)' = SelfProfiles(v)
          /\ LoginInv'
      BY <1>4, <2>2, <3>1, SelfProfileGiven
    <3>3. \A x \in Pairs : status[x] # "none" => status'[x] # "none"
      BY <3>1, Rest DEF Associate
    <3>4. \A v \in Users :
             account[v] = "adult" => /\ account'[v] = "adult"
                                     /\ SelfProfiles(v)' = SelfProfiles(v)
      BY <2>3, <3>2
    <3>5. req' = [req EXCEPT ![r] = Idle]
      BY <3>1 DEF Respond
    <3> QED BY <1>1, <1>2, <3>2, <3>3, <3>4, <3>5, HolderStep
  <2>5. CASE h.trainer = None
    <3>1. UNCHANGED <<profile, status>>
      BY <1>1, <1>4, <2>5 DEF CreateAccount
    <3>2. \A v \in Users : SelfProfiles(v)' = SelfProfiles(v)
      BY <3>1 DEF SelfProfiles
    <3>3. LoginInv'
      <4> SUFFICES ASSUME NEW q \in Profiles, profile[q].login # None
                   PROVE  account'[profile[q].login] = account[profile[q].login]
        BY <3>1 DEF DraftInv, LoginInv
      <4>1. profile[q].login \in Users
        BY Rest DEF Profile
      <4>2. profile[q].login # u
        BY <1>4, ProfileAssumption DEF DraftInv, LoginInv
      <4> QED BY <2>2, <4>1, <4>2
    <3>4. PICK handler \in Handler :
              /\ req' = [req EXCEPT ![r] = handler]
              /\ Holder(handler) => handler.at = "consume" /\ handler.user = u
      <4>1. CASE Respond(r)
        BY <1>2, <4>1 DEF Respond
      <4>2. CASE Resume(r, [h EXCEPT !.at = "consume"])
        <5> DEFINE handler == [h EXCEPT !.at = "consume"]
        <5>1. /\ handler \in Handler /\ handler.at = "consume"
              /\ handler.user = u
          BY <1>1 DEF Handler
        <5>2. req' = [req EXCEPT ![r] = handler]
          BY <4>2 DEF Resume
        <5> HIDE DEF handler
        <5> QED BY <5>1, <5>2
      <4> QED BY <1>1, <1>4, <2>5, <4>1, <4>2 DEF CreateAccount
    <3>5. Holder(handler) => Serves(handler)' /\ account[handler.user] = "none"
      BY <1>4, <2>2, <3>2, <3>4, NewHasNone DEF Serves, Serving
    <3> QED BY <1>1, <1>2, <2>3, <3>1, <3>2, <3>3, <3>4, <3>5, HolderStep
  <2> QED BY <2>4, <2>5
<1> QED BY <1>3, <1>4


(* The draft is spent by the handler of the account that was just made.     *)
LEMMA ConsumeDraft ==
    ASSUME IInv, IInv', DraftInv, NEW r \in Requests, Consume(r)
    PROVE  DraftInv'
<1>0. /\ req[r] \in Handler /\ req[r].at = "consume" /\ req[r].draft \in Drafts
      /\ Holder(req[r]) /\ Serves(req[r])
      /\ UNCHANGED <<account, profile, status>>
  BY NoneAssumption
     DEF Consume, IInv, HandlerInv, Known, TypeOK, Holder, DraftInv, HolderInv,
         data
<1>1. PICK d \in Drafts, u \in Users :
         /\ d = req[r].draft /\ u = req[r].user
         /\ account[u] = "adult" /\ SelfProfiles(u) = {}
  BY <1>0 DEF Serves
<1>2. /\ \A e \in Drafts : draft'[e].trainer = draft[e].trainer
  BY <1>0, <1>1, Rest DEF Consume, DraftRows
<1>3. /\ \A v \in Users : SelfProfiles(v)' = SelfProfiles(v)
      /\ LoginInv'
  BY <1>0 DEF SelfProfiles, DraftInv, LoginInv
<1>4. req[r].at \notin Serving
  BY <1>0 DEF Serving
<1>5. hist \in Histories
  BY Rest
<1>6. CASE d \in Live
  <2> DEFINE next == [req[r] EXCEPT !.at = "self",
                                    !.trainer = draft[d].trainer]
             more == [hist.spent EXCEPT ![d] = hist.spent[d] \cup {u}]
  <2>1. draft[d].trainer \in Trainers
    BY <1>1, <1>6, Rest DEF Live
  <2>2. PICK handler \in Handler :
           /\ handler = next /\ handler.at = "self" /\ handler.user = u
           /\ handler.draft = d /\ handler.trainer = draft[d].trainer
    <3>1. /\ next \in Handler /\ next.at = "self" /\ next.user = u
          /\ next.draft = d /\ next.trainer = draft[d].trainer
      BY <1>0, <1>1, <2>1 DEF Handler
    <3> HIDE DEF next
    <3> QED BY <3>1
  <2>3. req' = [req EXCEPT ![r] = handler]
    BY <1>1, <1>6, <2>2 DEF Consume, Resume
  <2>4. hist' = [hist EXCEPT !.spent = more]
    BY <1>1, <1>6 DEF Consume
  <2>5. /\ more \in [Drafts -> SUBSET Users]
        /\ \A e \in Drafts, v \in Users :
              v \in more[e] => v \in hist.spent[e] \/ (e = d /\ v = u)
    BY <1>1, <1>5 DEF Histories
  <2> HIDE DEF more, next
  <2>6. hist'.spent = more /\ hist'.stopped = hist.stopped
    BY <1>5, <2>4 DEF Histories
  <2>7. Serves(handler)'
    <3>1. account'[u] = "adult" /\ SelfProfiles(u)' = {}
      BY <1>0, <1>1, <1>3
    <3>2. handler.trainer = draft'[handler.draft].trainer
      BY <1>2, <2>2
    <3> QED BY <2>2, <3>1, <3>2 DEF Serves, Serving
  <2>8. \A e \in Drafts, v \in Users :
           \/ v \in hist'.spent[e] => v \in hist.spent[e]
           \/ /\ handler.draft = e /\ handler.user = v
              /\ handler.at \in Serving /\ draft[e].trainer \in Trainers
    BY <2>1, <2>2, <2>5, <2>6 DEF Serving
  <2>9. \A v \in Users :
           account[v] = "adult" =>
               /\ account'[v] = "adult"
               /\ SelfProfiles(v) \subseteq SelfProfiles(v)'
               /\ \/ SelfProfiles(v)' = SelfProfiles(v)
                  \/ Holder(req[r]) /\ v = req[r].user
    BY <1>0, <1>3
  <2>10. Holder(handler) =>
            /\ Serves(handler)'
            /\ \/ account[handler.user] = "none"
               \/ Holder(req[r]) /\ handler.user = req[r].user
    BY <1>0, <1>1, <2>2, <2>7
  <2>11. /\ \A x \in Pairs : status[x] # "none" => status'[x] # "none"
         /\ hist.stopped \subseteq hist'.stopped
    BY <1>0, <2>6
  <2>12. \A e \in Drafts : draft[e].trainer # None =>
                             draft'[e].trainer = draft[e].trainer
    BY <1>2
  <2>13. \A e \in Drafts, v \in Users :
            /\ v \in hist.spent[e] /\ req[r].at \in Serving
            /\ req[r].draft = e /\ req[r].user = v
            => Brought(v, e)'
    BY <1>4
  <2>14. LoginInv'
    BY <1>3
  <2> QED BY <2>3, <2>8, <2>9, <2>10, <2>11, <2>12, <2>13, <2>14, HolderStep
<1>7. CASE d \notin Live
  <2>1. req' = [req EXCEPT ![r] = Idle] /\ hist' = hist
    BY <1>1, <1>7 DEF Consume, Respond
  <2>2. Idle \in Handler /\ ~Holder(Idle)
    BY Rest DEF Holder
  <2> QED BY <1>0, <1>2, <1>3, <1>4, <2>1, <2>2, HolderStep
<1> QED BY <1>6, <1>7

LEMMA FindSelfDraft ==
    ASSUME IInv, IInv', DraftInv, NEW r \in Requests, FindSelf(r)
    PROVE  DraftInv'
<1>1. /\ req[r] \in Handler /\ req[r].at = "self" /\ req[r].draft \in Drafts
      /\ Holder(req[r]) /\ Serves(req[r])
      /\ UNCHANGED <<account, profile, status, draft, hist>>
  BY NoneAssumption
     DEF FindSelf, IInv, HandlerInv, Known, TypeOK, Holder, DraftInv,
         HolderInv, data
<1> DEFINE handler == [req[r] EXCEPT !.at = "create"]
<1>2. req' = [req EXCEPT ![r] = handler]
  BY <1>1 DEF FindSelf, Resume, Serves
<1>3. /\ handler \in Handler /\ handler.at = "create"
      /\ handler.user = req[r].user /\ handler.draft = req[r].draft
      /\ handler.trainer = req[r].trainer
  BY <1>1 DEF Handler
<1> HIDE DEF handler
<1>4. Serves(handler)
  BY <1>1, <1>3 DEF Serves, Serving
<1>5. /\ \A s \in Requests : req'[s] = IF s = r THEN handler ELSE req[s]
      /\ handler.at \in Serving
  BY <1>2, <1>3 DEF IInv, TypeOK, Serving
<1>6. \A d \in Drafts, u \in Users :
         req[r].draft = d /\ req[r].user = u => Brought(u, d)'
  BY <1>3, <1>5 DEF Brought
<1> QED BY <1>1, <1>2, <1>3, <1>4, <1>6, MoveStep

(* The account has no profile, whatever happened since the look-up.         *)
LEMMA CreateSelfDraft ==
    ASSUME IInv, IInv', DraftInv, NEW r \in Requests, CreateSelf(r)
    PROVE  DraftInv'
<1>0. /\ req[r] \in Handler /\ req[r].at = "create" /\ req[r].draft \in Drafts
      /\ Holder(req[r]) /\ Serves(req[r])
      /\ UNCHANGED <<account, status, draft, hist>>
  BY NoneAssumption
     DEF CreateSelf, IInv, HandlerInv, Known, TypeOK, Holder, DraftInv,
         HolderInv
<1>1. PICK h \in Handler, u \in Users :
          /\ h = req[r] /\ u = h.user /\ h.at = "create"
          /\ h.draft \in Drafts /\ account[u] = "adult"
          /\ Holder(h) /\ Serves(h)
          /\ UNCHANGED <<account, status, draft, hist>>
  <2>1. req[r].user \in Users /\ account[req[r].user] = "adult"
    BY <1>0 DEF Serves
  <2> QED BY <1>0, <2>1
<1>2. PICK p \in Unused :
         /\ profile' = [profile EXCEPT ![p] = SelfProfile(u)]
         /\ Resume(r, [h EXCEPT !.at = "look", !.profile = p])
  BY <1>1 DEF CreateSelf, Serves
<1> DEFINE handler == [h EXCEPT !.at = "look", !.profile = p]
<1>3. req' = [req EXCEPT ![r] = handler]
  BY <1>2 DEF Resume
<1>4. /\ handler \in Handler /\ handler.at = "look" /\ handler.profile = p
      /\ handler.user = u /\ handler.draft = h.draft
      /\ handler.trainer = h.trainer
  BY <1>1 DEF Handler, Unused
<1> HIDE DEF handler
<1>5. /\ p \in SelfProfiles(u)' /\ SelfProfiles(u) \subseteq SelfProfiles(u)'
      /\ \A v \in Users : v # u => SelfProfiles(v)' = SelfProfiles(v)
      /\ LoginInv'
  BY <1>1, <1>2, SelfProfileGiven, Rest
<1>6. Serves(handler)'
  BY <1>1, <1>4, <1>5 DEF Serves, Serving
<1>7. /\ \A s \in Requests : req'[s] = IF s = r THEN handler ELSE req[s]
      /\ handler.at \in Serving
  BY <1>3, <1>4 DEF IInv, TypeOK, Serving
<1>8. \A d \in Drafts, v \in Users :
         req[r].draft = d /\ req[r].user = v => Brought(v, d)'
  BY <1>1, <1>4, <1>7 DEF Brought
<1>9. \A v \in Users :
         account[v] = "adult" =>
             /\ account'[v] = "adult"
             /\ SelfProfiles(v) \subseteq SelfProfiles(v)'
             /\ \/ SelfProfiles(v)' = SelfProfiles(v)
                \/ Holder(req[r]) /\ v = req[r].user
  BY <1>1, <1>5
<1> QED BY <1>1, <1>3, <1>4, <1>5, <1>6, <1>8, <1>9, HolderStep


(* A handler that finds the pair or writes it has brought the trainer.      *)
LEMMA PairBrings ==
    ASSUME IInv, DraftInv, NEW r \in Requests,
           req[r].at \in {"look", "insert", "activate"},
           status'[Pair(r)] # "none", UNCHANGED <<profile, draft>>,
           NEW d \in Drafts, NEW u \in Users,
           req[r].draft = d, req[r].user = u
    PROVE  Brought(u, d)'
<1>1. Serves(req[r])
  BY NoneAssumption DEF DraftInv, HolderInv, Holder
<1>2. /\ req[r].profile \in SelfProfiles(u)
      /\ req[r].trainer = draft[d].trainer
  BY <1>1 DEF Serves, Serving
<1>3. /\ req[r].profile \in SelfProfiles(u)'
      /\ status'[<<draft'[d].trainer, req[r].profile>>] # "none"
  BY <1>2 DEF SelfProfiles, Pair
<1> QED BY <1>3 DEF Brought

LEMMA LookDraft ==
    ASSUME IInv, IInv', DraftInv, NEW r \in Requests, Look(r)
    PROVE  DraftInv'
<1>1. /\ req[r] \in Handler /\ req[r].at = "look"
      /\ UNCHANGED <<account, profile, status, draft, hist>>
  BY DEF Look, data, IInv, TypeOK
<1>2. CASE Respond(r) /\ status[Pair(r)] = "ACTIVE"
  <2>1. \A d \in Drafts, u \in Users :
           req[r].draft = d /\ req[r].user = u => Brought(u, d)'
    BY <1>1, <1>2, PairBrings
  <2>2. /\ req' = [req EXCEPT ![r] = Idle] /\ Idle \in Handler
        /\ ~Holder(Idle)
    BY <1>2, Rest DEF Respond, Holder
  <2> QED BY <1>1, <2>1, <2>2, MoveStep
<1>3. ASSUME NEW at \in {"insert", "activate"},
             Resume(r, [req[r] EXCEPT !.at = at])
      PROVE  DraftInv'
  <2> DEFINE handler == [req[r] EXCEPT !.at = at]
  <2>1. /\ handler \in Handler /\ handler.at = at
        /\ handler.user = req[r].user /\ handler.draft = req[r].draft
        /\ handler.trainer = req[r].trainer /\ handler.profile = req[r].profile
    BY <1>1 DEF Handler
  <2>2. req' = [req EXCEPT ![r] = handler]
    BY <1>3 DEF Resume
  <2> HIDE DEF handler
  <2>3. Holder(handler) => Holder(req[r]) /\ Serves(req[r])
    BY <1>1, <2>1 DEF Holder, DraftInv, HolderInv
  <2>4. Serves(req[r]) => Serves(handler)
    BY <1>1, <2>1 DEF Serves, Serving
  <2>5. /\ \A s \in Requests : req'[s] = IF s = r THEN handler ELSE req[s]
        /\ handler.at \in Serving
    BY <2>1, <2>2 DEF IInv, TypeOK, Serving
  <2>6. \A d \in Drafts, u \in Users :
           req[r].draft = d /\ req[r].user = u => Brought(u, d)'
    BY <2>1, <2>5 DEF Brought
  <2>7. Holder(handler) => /\ Holder(req[r]) /\ Serves(handler)
                           /\ handler.user = req[r].user
    BY <2>1, <2>3, <2>4
  <2> QED BY <1>1, <2>1, <2>2, <2>6, <2>7, MoveStep
<1> QED BY <1>2, <1>3 DEF Look

LEMMA AssociateDraft ==
    ASSUME IInv, IInv', DraftInv, NEW r \in Requests, Insert(r) \/ Activate(r)
    PROVE  DraftInv'
<1>1. /\ req[r].at \in {"insert", "activate"}
      /\ UNCHANGED <<account, profile, draft, hist>>
      /\ req' = [req EXCEPT ![r] = Idle] /\ Idle \in Handler
      /\ ~Holder(Idle)
  BY Rest DEF Insert, Activate, Respond, Holder
<1>2. /\ status'[Pair(r)] # "none"
      /\ \A x \in Pairs : status[x] # "none" => status'[x] # "none"
  BY <1>1, PairKnown, Rest DEF Insert, Activate, Associate
<1>3. \A d \in Drafts, u \in Users :
         req[r].draft = d /\ req[r].user = u => Brought(u, d)'
  BY <1>1, <1>2, PairBrings
<1> QED BY <1>1, <1>2, <1>3, MoveStep

(* Removals, joins and new children.                                        *)
LEMMA FamilyDraft ==
    ASSUME IInv, IInv', DraftInv, NEW r \in Requests,
           Remove(r) \/ JoinNext(r) \/ Enrol(r) \/ ChildNext(r)
    PROVE  DraftInv'
<1>1. /\ req[r].at \in {"remove", "join", "enrol", "child"}
      /\ UNCHANGED <<account, profile, draft, hist>>
      /\ req[r] \in Handler
  BY DEF Remove, JoinNext, Enrol, ChildNext, data, IInv, TypeOK
<1>2. req[r].at \notin {"consume"} \cup Serving
  BY <1>1 DEF Serving
<1>3. req[r].draft = None
  BY <1>1, <1>2, HoldersServe DEF Holder
<1>4. \A x \in Pairs : status[x] # "none" => status'[x] # "none"
  <2>1. ASSUME NEW y \in Pairs, Associate(y) \/ status' = status
        PROVE  \A x \in Pairs : status[x] # "none" => status'[x] # "none"
    BY <2>1, Rest DEF Associate
  <2>2. CASE Remove(r)
    BY <1>1, <2>2, PairKnown, Rest DEF Remove
  <2>3. CASE Enrol(r)
    BY <1>1, <2>1, <2>3, PairKnown DEF Enrol
  <2>4. CASE ChildNext(r)
    <3>1. req[r].todo \subseteq Pairs
      BY <1>1 DEF Handler
    <3> QED BY <2>1, <2>4, <3>1 DEF ChildNext
  <2> QED BY <2>2, <2>3, <2>4 DEF JoinNext, data
<1> DEFINE Moves(h) == req' = [req EXCEPT ![r] = h] /\ h.draft = None
<1>5. PICK handler \in Handler : Moves(handler)
  <2>1. /\ req \in [Requests -> Handler] /\ req' \in [Requests -> Handler]
    BY DEF IInv, TypeOK
  <2>2. CASE Respond(r)
    BY <2>2, Rest DEF Respond
  <2>3. ASSUME NEW x, Resume(r, [req[r] EXCEPT !.todo = x])
        PROVE  \E h : Moves(h)
    <3> DEFINE h == [req[r] EXCEPT !.todo = x]
    <3>1. h.draft = None
      BY <1>1, <1>3 DEF Handler
    <3>2. req' = [req EXCEPT ![r] = h]
      BY <2>3 DEF Resume
    <3> HIDE DEF h
    <3> QED BY <3>1, <3>2
  <2>4. ASSUME NEW x, NEW p,
               Resume(r, [[req[r] EXCEPT !.todo = x]
                             EXCEPT !.at = "enrol", !.profile = p])
        PROVE  \E h : Moves(h)
    <3> DEFINE h == [[req[r] EXCEPT !.todo = x]
                     EXCEPT !.at = "enrol", !.profile = p]
    <3>1. h.draft = None
      BY <1>1, <1>3 DEF Handler
    <3>2. req' = [req EXCEPT ![r] = h]
      BY <2>4 DEF Resume
    <3> HIDE DEF h
    <3> QED BY <3>1, <3>2
  <2>5. ASSUME Resume(r, [req[r] EXCEPT !.at = "join", !.profile = None])
        PROVE  \E h : Moves(h)
    <3> DEFINE h == [req[r] EXCEPT !.at = "join", !.profile = None]
    <3>1. h.draft = None
      BY <1>1, <1>3 DEF Handler
    <3>2. req' = [req EXCEPT ![r] = h]
      BY <2>5 DEF Resume
    <3> HIDE DEF h
    <3> QED BY <3>1, <3>2
  <2>6. \E h : Moves(h)
    <3> HIDE DEF Moves
    <3> QED BY <2>2, <2>3, <2>4, <2>5
            DEF Remove, JoinNext, Enrol, ChildNext
  <2> QED BY <2>1, <2>6
<1>6. ~Holder(handler)
  BY <1>5 DEF Holder
<1> QED BY <1>1, <1>2, <1>4, <1>5, <1>6, OtherStep


(* A child's login takes nothing from an adult.                             *)
LEMMA CreateLoginDraft ==
    ASSUME IInv, IInv', DraftInv, NEW r \in Requests, CreateLogin(r)
    PROVE  DraftInv'
<1>1. PICK v \in Users, p \in Profiles :
          /\ v = req[r].user /\ p = req[r].profile
          /\ profile[p].kind = "child"
  BY DEF CreateLogin, IInv, HandlerInv, Known
<1>2. /\ req[r].at = "provision"
      /\ req' = [req EXCEPT ![r] = Idle] /\ Idle \in Handler /\ ~Holder(Idle)
      /\ UNCHANGED <<status, draft, hist>>
      /\ req[r].at \notin {"consume"} \cup Serving
  BY Rest DEF CreateLogin, Respond, Holder, Serving
<1>3. CASE UNCHANGED <<account, profile>>
  BY <1>2, <1>3, OtherStep
<1>4. CASE /\ account[v] = "none"
           /\ account' = [account EXCEPT ![v] = p]
           /\ profile' = [profile EXCEPT ![p].login = v]
  <2>1. \A w \in Users : account'[w] = IF w = v THEN p ELSE account[w]
    BY <1>4, Rest
  <2>2. profile[p] \in Profile
    BY Rest
  <2>3. /\ profile'[p].kind = "child" /\ profile'[p].login = v
        /\ \A q \in Profiles : q # p => profile'[q] = profile[q]
    BY <1>1, <1>4, <2>2, Rest DEF Profile
  <2>4. ASSUME NEW w \in Users, account[w] = "adult"
        PROVE  account'[w] = "adult" /\ SelfProfiles(w)' = SelfProfiles(w)
    <3>1. w # v /\ profile[p].login # w
      <4>1. w # v
        BY <1>4, <2>4
      <4>2. profile[p].login # w
        BY <1>1, <2>4, NoneAssumption, ProfileAssumption
           DEF DraftInv, LoginInv
      <4> QED BY <4>1, <4>2
    <3> QED BY <2>1, <2>3, <2>4, <3>1 DEF SelfProfiles
  <2>5. LoginInv'
    <3> SUFFICES ASSUME NEW q \in Profiles, profile'[q].login # None
                 PROVE  account'[profile'[q].login] \in
                           (IF profile'[q].kind = "child" THEN Profiles
                                                          ELSE {"adult"})
      BY DEF LoginInv
    <3>1. CASE q = p
      BY <2>1, <2>3, <3>1
    <3>2. CASE q # p
      <4>1. /\ profile'[q] = profile[q] /\ profile[q].login \in Users
            /\ account[profile[q].login] \in
                  (IF profile[q].kind = "child" THEN Profiles ELSE {"adult"})
        BY <2>3, <3>2, Rest DEF Profile, DraftInv, LoginInv
      <4>2. profile[q].login # v
        BY <1>4, <4>1, ProfileAssumption
      <4> QED BY <2>1, <4>1, <4>2
    <3> QED BY <3>1, <3>2
  <2> QED BY <1>2, <2>4, <2>5, HoldersServe, HolderStep
<1> QED BY <1>1, <1>3, <1>4 DEF CreateLogin

(* The account of a registration that stops is remembered.                  *)
LEMMA FailDraft ==
    ASSUME IInv, IInv', DraftInv, NEW r \in Requests, Fail(r)
    PROVE  DraftInv'
<1> DEFINE stopped == hist.stopped \cup
               {u \in {req[r].user} : /\ req[r].draft # None
                                      /\ u \in hist.spent[req[r].draft]}
<1>1. /\ hist' = [hist EXCEPT !.stopped = stopped]
      /\ req' = [req EXCEPT ![r] = Idle] /\ Idle \in Handler /\ ~Holder(Idle)
      /\ UNCHANGED <<account, profile, status, draft>>
  BY Rest DEF Fail, data, Respond, Holder
<1>2. \A d \in Drafts, u \in Users :
         u \in hist.spent[d] /\ req[r].draft = d /\ req[r].user = u
             => u \in stopped
  BY NoneAssumption
<1>3. hist.stopped \subseteq stopped
  OBVIOUS
<1> HIDE DEF stopped
<1>4. hist'.spent = hist.spent /\ hist'.stopped = stopped
  BY <1>1, Rest DEF Histories
<1>5. \A d \in Drafts, u \in Users :
         u \in hist.spent[d] /\ req[r].draft = d /\ req[r].user = u
             => Brought(u, d)'
  BY <1>2, <1>4 DEF Brought
<1> QED BY <1>1, <1>3, <1>4, <1>5, MoveStep

(* A draft that was spent or created keeps its trainer.                     *)
LEMMA TrainerKept ==
    ASSUME IInv, \/ UNCHANGED draft
                 \/ \E d \in Drafts : Expire(d)
                 \/ \E d \in Drafts, t \in Trainers : CreateDraft(d, t),
           NEW e \in Drafts, draft[e].trainer # None
    PROVE  draft'[e].trainer = draft[e].trainer
<1>1. draft[e] \in [at : Nat, trainer : Trainers \cup {None}]
  BY Rest DEF DraftRows
<1>2. ASSUME NEW d \in Drafts, Expire(d)
      PROVE  draft'[e].trainer = draft[e].trainer
  BY <1>1, <1>2, Rest DEF Expire, DraftRows
<1>3. ASSUME NEW d \in Drafts, NEW t \in Trainers, CreateDraft(d, t)
      PROVE  draft'[e].trainer = draft[e].trainer
  <2>1. e # d
    BY <1>3 DEF CreateDraft
  <2>2. draft'[e] \in {[draft[e] EXCEPT !.at = 0], draft[e]}
    BY <1>3, <2>1 DEF CreateDraft
  <2> QED BY <1>1, <2>2
<1> QED BY <1>2, <1>3

LEMMA DraftsMove ==
    ASSUME IInv, DraftInv, UNCHANGED <<data, req, hist>>,
           \/ UNCHANGED draft
           \/ \E d \in Drafts : Expire(d)
           \/ \E d \in Drafts, t \in Trainers : CreateDraft(d, t)
    PROVE  DraftInv'
<1>1. \A e \in Drafts : draft[e].trainer # None =>
                            draft'[e].trainer = draft[e].trainer
  BY TrainerKept
<1>2. LoginInv' /\ \A u : SelfProfiles(u)' = SelfProfiles(u)
  BY DEF data, DraftInv, LoginInv, SelfProfiles
<1>3. HolderInv'
  <2>1. ASSUME NEW s \in Requests, Holder(req[s]) PROVE Serves(req[s])'
    <3>1. /\ Serves(req[s]) /\ Known(req[s])
          /\ req[s].draft \in Drafts
      BY <2>1 DEF DraftInv, HolderInv, IInv, HandlerInv, TypeOK, Handler,
         Holder
    <3>2. req[s].at \in Serving =>
              draft'[req[s].draft].trainer = draft[req[s].draft].trainer
      <4>1. req[s].at \in Serving => req[s].trainer \in Trainers
        BY <3>1 DEF Serving, Known
      <4> QED BY <1>1, <3>1, <4>1, NoneAssumption DEF Serves
    <3> QED BY <1>2, <3>1, <3>2 DEF Serves, data
  <2> QED BY <2>1 DEF DraftInv, HolderInv, Holder
<1>4. SpentInv'
  <2> SUFFICES ASSUME NEW d \in Drafts, NEW u \in Users, u \in hist.spent[d]
               PROVE  /\ account[u] = "adult" /\ draft'[d].trainer \in Trainers
                      /\ Brought(u, d)'
    BY DEF SpentInv, Brought, data
  <2>1. /\ account[u] = "adult" /\ draft[d].trainer \in Trainers
        /\ Brought(u, d)
    BY DEF DraftInv, SpentInv
  <2>2. draft'[d].trainer = draft[d].trainer
    BY <1>1, <2>1, NoneAssumption
  <2> QED BY <1>2, <2>1, <2>2 DEF Brought, data
<1> QED BY <1>2, <1>3, <1>4 DEF DraftInv


-----------------------------------------------------------------------------
(* Every step keeps what handlers and histories know of the drafts.         *)
LEMMA NextDraft == IInv /\ IInv' /\ DraftInv /\ [Next]_vars => DraftInv'
<1> SUFFICES ASSUME IInv, IInv', DraftInv, [Next]_vars PROVE DraftInv'
  OBVIOUS
<1>1. CASE UNCHANGED vars
  BY <1>1, DraftsMove DEF vars, data
<1>2. CASE \/ \E d \in Drafts : Expire(d)
           \/ \E d \in Drafts, t \in Trainers : CreateDraft(d, t)
  BY <1>2, DraftsMove DEF Expire, CreateDraft
<1>3. ASSUME NEW r \in Requests, Arrive(r) PROVE DraftInv'
  <2>1. CASE UNCHANGED profile
    BY <1>3, <2>1, ArriveDraft
  <2>2. CASE \E u \in Users, p \in Profiles :
                \E trainers \in SUBSET Trainers : CreateChild(r, u, p, trainers)
    BY <2>2, CreateChildDraft
  <2> QED BY <1>3, <2>1, <2>2 DEF Arrive, Register, RegisterByLink, Join,
             AddTrainer, RemoveTrainer, Provision, data
<1>4. ASSUME NEW r \in Requests, Continue(r) PROVE DraftInv'
  BY <1>4, CreateAccountDraft, ConsumeDraft, FindSelfDraft, CreateSelfDraft,
     LookDraft, AssociateDraft, FamilyDraft, CreateLoginDraft DEF Continue
<1> QED BY <1>1, <1>2, <1>3, <1>4, FailDraft DEF Next

LEMMA InitDraft == Init => DraftInv /\ LedgerInv
<1> SUFFICES ASSUME Init PROVE DraftInv /\ LedgerInv
  OBVIOUS
<1>1. /\ \A r \in Requests : ~Holder(req[r])
      /\ \A p \in Profiles : profile[p].login = None
      /\ \A d \in Drafts : hist.spent[d] = {} /\ draft[d].at = 0
  BY DEF Init, Idle, NoProfile, Holder
<1> QED BY <1>1 DEF DraftInv, HolderInv, LoginInv, SpentInv, LedgerInv

(* The account that spends a draft gets the trainer that the draft names,   *)
(* unless its registration stops half-way, whatever its family and other    *)
(* registrations do meanwhile (consumeDraft, ensureSelfProfile).            *)
THEOREM DraftsBringTheirTrainer == Spec => []DraftBringsTrainer
<1>1. IInv /\ IInv' /\ DraftInv /\ [Next]_vars => DraftInv'
  BY NextDraft
<1>2. DraftInv => DraftBringsTrainer
  BY DEF DraftInv, SpentInv, Brought, DraftBringsTrainer
<1> QED BY <1>1, <1>2, InitDraft, InductiveInvariant, PTL DEF Spec

-----------------------------------------------------------------------------
(* Drafts work once.                                                        *)

ledger == [d \in Drafts |-> DraftState(d)]

(* The state of a draft, when it is spent by one account at most.           *)
StateOf(d) == IF hist.spent[d] # {} THEN "spent"
              ELSE IF draft[d].trainer = None THEN "none"
              ELSE IF draft[d].at > 0 THEN "open" ELSE "void"

StatesRead == \A d \in Drafts : DraftState(d) = StateOf(d)

LEMMA ReadState == TypeOK /\ LedgerInv => StatesRead
<1> SUFFICES ASSUME TypeOK, LedgerInv, NEW d \in Drafts
             PROVE  DraftState(d) = StateOf(d)
  BY DEF StatesRead
<1>1. /\ draft[d].trainer = None => draft[d].at = 0
      /\ draft[d].trainer = None \/ draft[d].at > 0 => hist.spent[d] = {}
      /\ \A u, v \in hist.spent[d] : u = v
      /\ d \in Live <=> draft[d].at > 0
  BY DEF LedgerInv, Live
<1>2. CASE hist.spent[d] = {}
  BY <1>1, <1>2 DEF DraftState, StateOf
<1>3. CASE hist.spent[d] # {}
  <2>1. PICK u \in hist.spent[d] : hist.spent[d] = {u}
    BY <1>1, <1>3
  <2>2. Cardinality(hist.spent[d]) = 1
    BY <2>1, FS_Singleton
  <2> QED BY <1>1, <1>3, <2>2 DEF DraftState, StateOf
<1> QED BY <1>2, <1>3

(* A draft is created, leaves the map or is spent, or stays as it is.       *)
LEMMA LedgerMoves ==
    ASSUME TypeOK, TypeOK', LedgerInv,
           \A d \in Drafts :
               \/ /\ draft'[d] = draft[d] /\ hist'.spent[d] = hist.spent[d]
               \/ /\ draft[d].trainer = None /\ draft'[d].trainer # None
                  /\ draft'[d].at > 0 /\ hist'.spent[d] = hist.spent[d]
               \/ /\ draft[d].at > 0 /\ draft'[d].at = 0
                  /\ draft'[d].trainer = draft[d].trainer
                  /\ \/ hist'.spent[d] = {}
                     \/ \E u : hist'.spent[d] = {u}
    PROVE  LedgerInv' /\ [DraftLedger!Next]_ledger
<1>1. LedgerInv'
  <2> SUFFICES ASSUME NEW d \in Drafts
               PROVE  /\ draft'[d].trainer = None => draft'[d].at = 0
                      /\ draft'[d].trainer = None \/ draft'[d].at > 0 =>
                             hist'.spent[d] = {}
                      /\ \A u, v \in hist'.spent[d] : u = v
    BY DEF LedgerInv
  <2>1. /\ draft[d].trainer = None => draft[d].at = 0
        /\ draft[d].trainer = None \/ draft[d].at > 0 => hist.spent[d] = {}
        /\ \A u, v \in hist.spent[d] : u = v
    BY DEF LedgerInv
  <2> QED BY <2>1
<1>2. StatesRead /\ StatesRead'
  BY <1>1, ReadState, PTL
<1>3. \A d \in Drafts : /\ DraftState(d) = StateOf(d)
                        /\ DraftState(d)' = StateOf(d)'
  BY <1>2 DEF StatesRead
<1>4. ASSUME NEW d \in Drafts
      PROVE  /\ StateOf(d)' \in DraftLedger!States
             /\ \/ StateOf(d)' = StateOf(d)
                \/ <<StateOf(d), StateOf(d)'>> \in DraftLedger!Moves
  <2>1. /\ draft[d].trainer = None => draft[d].at = 0
        /\ draft[d].trainer = None \/ draft[d].at > 0 => hist.spent[d] = {}
    BY DEF LedgerInv
  <2> QED BY <2>1 DEF StateOf, DraftLedger!States, DraftLedger!Moves
<1>5. /\ ledger' = [d \in Drafts |-> DraftState(d)']
      /\ \A d \in Drafts : ledger[d] = DraftState(d)
      /\ \A d \in Drafts : ledger'[d] = DraftState(d)'
  BY DEF ledger
<1>6. /\ \A d \in Drafts : /\ ledger'[d] \in DraftLedger!States
                           /\ \/ ledger'[d] = ledger[d]
                              \/ <<ledger[d], ledger'[d]>> \in DraftLedger!Moves
  BY <1>3, <1>4, <1>5
<1>7. ledger' \in [Drafts -> DraftLedger!States]
  BY <1>5, <1>6
<1> QED BY <1>1, <1>6, <1>7 DEF DraftLedger!Next, ledger


LEMMA CreateDraftLedger ==
    ASSUME IInv, IInv', LedgerInv, NEW d \in Drafts, NEW t \in Trainers,
           CreateDraft(d, t)
    PROVE  LedgerInv' /\ [DraftLedger!Next]_ledger
<1>1. PICK n \in Nat :
          n = Cardinality({e \in Drafts : draft[e].trainer # None})
  BY CreatedCount
<1> DEFINE evicts(e) == Cardinality(Live) >= MaxDrafts /\ e \in Oldest
<1>2. /\ \A e \in Drafts :
            draft'[e] = CASE e = d -> [at |-> n + 1, trainer |-> t]
                          [] e # d /\ evicts(e) -> [draft[e] EXCEPT !.at = 0]
                          [] OTHER -> draft[e]
      /\ draft[d].trainer = None /\ UNCHANGED hist
  BY <1>1 DEF CreateDraft
<1>3. draft'[d].trainer # None /\ draft'[d].at > 0
  <2> HIDE DEF evicts
  <2>1. draft'[d] = [at |-> n + 1, trainer |-> t]
    BY <1>2
  <2> QED BY <2>1, NoneAssumption
<1>4. ASSUME NEW e \in Drafts, e # d
      PROVE  \/ draft'[e] = draft[e]
             \/ /\ draft[e].at > 0 /\ draft'[e].at = 0
                /\ draft'[e].trainer = draft[e].trainer
  <2>1. draft[e] \in [at : Nat, trainer : Trainers \cup {None}]
    BY Rest DEF DraftRows
  <2>2. evicts(e) => draft[e].at > 0
    BY DEF Oldest, Live
  <2> HIDE DEF evicts
  <2> QED BY <1>2, <1>4, <2>1, <2>2
<1>5. \A e \in Drafts : draft[e].at > 0 => hist.spent[e] = {}
  BY DEF LedgerInv
<1> QED BY <1>2, <1>3, <1>4, <1>5, LedgerMoves DEF IInv

LEMMA ExpireLedger ==
    ASSUME IInv, IInv', LedgerInv, NEW d \in Drafts, Expire(d)
    PROVE  LedgerInv' /\ [DraftLedger!Next]_ledger
<1>1. /\ draft[d].at > 0 /\ hist' = hist
      /\ draft' = [draft EXCEPT ![d].at = 0]
  BY DEF Expire, Oldest, Live
<1>2. /\ draft'[d].at = 0 /\ draft'[d].trainer = draft[d].trainer
      /\ \A e \in Drafts : e # d => draft'[e] = draft[e]
  BY <1>1, Rest DEF DraftRows
<1>3. hist.spent[d] = {}
  BY <1>1 DEF LedgerInv
<1> QED BY <1>1, <1>2, <1>3, LedgerMoves DEF IInv

(* Found and deleted in one step: the draft had not been spent.             *)
LEMMA ConsumeLedger ==
    ASSUME IInv, IInv', LedgerInv, NEW r \in Requests, Consume(r)
    PROVE  LedgerInv' /\ [DraftLedger!Next]_ledger
<1>1. PICK d \in Drafts, u \in Users :
         /\ d = req[r].draft /\ u = req[r].user
         /\ draft' = [draft EXCEPT ![d].at = 0]
  BY DEF Consume, IInv, HandlerInv, Known
<1>2. /\ draft[d] \in [at : Nat, trainer : Trainers \cup {None}]
      /\ draft'[d] = [draft[d] EXCEPT !.at = 0]
      /\ \A e \in Drafts : e # d => draft'[e] = draft[e]
  BY <1>1, Rest DEF DraftRows
<1>3. hist \in Histories
  BY Rest
<1>4. CASE d \in Live
  <2> DEFINE more == [hist.spent EXCEPT ![d] = hist.spent[d] \cup {u}]
  <2>1. draft[d].at > 0 /\ hist.spent[d] = {}
    BY <1>4 DEF Live, LedgerInv
  <2>2. hist' = [hist EXCEPT !.spent = more]
    BY <1>1, <1>4 DEF Consume
  <2>3. /\ more[d] = {u}
        /\ \A e \in Drafts : e # d => more[e] = hist.spent[e]
    BY <1>3, <2>1 DEF Histories
  <2> HIDE DEF more
  <2>4. hist'.spent = more
    BY <1>3, <2>2 DEF Histories
  <2>5. draft'[d].at = 0 /\ draft'[d].trainer = draft[d].trainer
    BY <1>2
  <2>6. \E v : hist'.spent[d] = {v}
    BY <2>3, <2>4
  <2>7. \A e \in Drafts : e # d => /\ draft'[e] = draft[e]
                                   /\ hist'.spent[e] = hist.spent[e]
    BY <1>2, <2>3, <2>4
  <2> QED BY <2>1, <2>5, <2>6, <2>7, LedgerMoves DEF IInv
<1>5. CASE d \notin Live
  <2>1. hist' = hist
    BY <1>1, <1>5 DEF Consume
  <2>2. draft[d].at = 0
    BY <1>2, <1>5 DEF Live
  <2>3. draft'[d] = draft[d]
    BY <1>2, <2>2
  <2> QED BY <1>2, <2>1, <2>3, LedgerMoves DEF IInv
<1> QED BY <1>4, <1>5

(* No other step touches a draft or spends one.                             *)
LEMMA NextLedger ==
    IInv /\ IInv' /\ LedgerInv /\ [Next]_vars =>
        LedgerInv' /\ [DraftLedger!Next]_ledger
<1> SUFFICES ASSUME IInv, IInv', LedgerInv, [Next]_vars
             PROVE  LedgerInv' /\ [DraftLedger!Next]_ledger
  OBVIOUS
<1>1. ASSUME UNCHANGED draft, hist'.spent = hist.spent
      PROVE  LedgerInv' /\ [DraftLedger!Next]_ledger
  BY <1>1, LedgerMoves DEF IInv
<1>2. hist \in Histories
  BY Rest
<1>3. CASE UNCHANGED vars
  BY <1>1, <1>3 DEF vars
<1>4. ASSUME NEW r \in Requests, Arrive(r) \/ Fail(r)
      PROVE  LedgerInv' /\ [DraftLedger!Next]_ledger
  <2>1. UNCHANGED draft
    BY <1>4 DEF Arrive, Register, RegisterByLink, Join, AddTrainer,
       RemoveTrainer, CreateChild, Provision, Fail
  <2>2. hist'.spent = hist.spent
    BY <1>2, <1>4 DEF Histories, Arrive, Register, RegisterByLink, Join,
       AddTrainer, RemoveTrainer, CreateChild, Provision, Fail
  <2> QED BY <1>1, <2>1, <2>2
<1>5. ASSUME NEW r \in Requests, Continue(r), ~Consume(r)
      PROVE  LedgerInv' /\ [DraftLedger!Next]_ledger
  BY <1>1, <1>5 DEF Continue, CreateAccount, FindSelf, CreateSelf, Look,
     Insert, Activate, Remove, JoinNext, Enrol, ChildNext, CreateLogin
<1> QED BY <1>3, <1>4, <1>5, CreateDraftLedger, ExpireLedger, ConsumeLedger
        DEF Next, Continue

(* A draft is spent by one registration, or expires, or is given up for a   *)
(* newer one, for good, however the registrations that name it overlap      *)
(* (createPrefillDraft, consumeDraft).                                      *)
THEOREM DraftsWorkOnce == Spec => DraftsAreSingleUse
<1>1. Init => DraftLedger!Init
  <2> SUFFICES ASSUME Init PROVE DraftLedger!Init
    OBVIOUS
  <2>1. \A d \in Drafts : /\ draft[d].trainer = None /\ draft[d].at = 0
                            /\ hist.spent[d] = {}
    BY DEF Init
  <2>2. \A d \in Drafts : DraftState(d) = "none"
    BY <2>1 DEF DraftState, Live
  <2> QED BY <2>2 DEF DraftLedger!Init
<1>2. Init => LedgerInv
  BY InitDraft
<1>3. IInv /\ IInv' /\ LedgerInv /\ [Next]_vars =>
          LedgerInv' /\ [DraftLedger!Next]_ledger
  BY NextLedger
<1> QED BY <1>1, <1>2, <1>3, InductiveInvariant, PTL
        DEF Spec, DraftsAreSingleUse, DraftLedger!Spec, ledger

-----------------------------------------------------------------------------
(* The logins of children implement CheckedWrites.                          *)

PhaseOf(row) == IF row.kind # "child" THEN "none"
                ELSE IF row.login = None THEN "open" ELSE "closed"

ValueOf(row) == IF row.kind = "child" THEN row.login ELSE None

TakersIn(handlers, p) ==
    {r \in Requests : handlers[r].at = "provision" /\ handlers[r].profile = p}

(* The takers after a step of one handler.                                  *)
LEMMA TakersChange ==
    ASSUME IInv, NEW r \in Requests, NEW handler \in Handler,
           req' = [req EXCEPT ![r] = handler]
    PROVE  \A p \in Profiles :
               /\ TakersIn(req', p) =
                      IF handler.at = "provision" /\ handler.profile = p
                      THEN TakersIn(req, p) \cup {r}
                      ELSE TakersIn(req, p) \ {r}
               /\ r \in TakersIn(req, p) <=>
                      req[r].at = "provision" /\ req[r].profile = p
<1>1. \A s \in Requests : req'[s] = IF s = r THEN handler ELSE req[s]
  BY DEF IInv, TypeOK
<1> QED BY <1>1 DEF TakersIn

(* The ledger, read from the rows.                                          *)
LEMMA LoginsRead ==
    /\ [p \in Profiles |-> LoginPhase(p)] =
           [p \in Profiles |-> PhaseOf(profile[p])]
    /\ [p \in Profiles |-> LoginPhase(p)]' =
           [p \in Profiles |-> PhaseOf(profile'[p])]
    /\ [p \in Profiles |-> IF IsChild(p) THEN profile[p].login ELSE None] =
           [p \in Profiles |-> ValueOf(profile[p])]
    /\ [p \in Profiles |-> IF IsChild(p) THEN profile[p].login ELSE None]' =
           [p \in Profiles |-> ValueOf(profile'[p])]
    /\ [p \in Profiles |-> LoginTakers(p)] =
           [p \in Profiles |-> TakersIn(req, p)]
    /\ [p \in Profiles |-> LoginTakers(p)]' =
           [p \in Profiles |-> TakersIn(req', p)]
BY DEF LoginPhase, IsChild, PhaseOf, ValueOf, LoginTakers, TakersIn

(* Logins and takers that do not change are a stutter.                      *)
LEMMA NoLoginMoves ==
    ASSUME \A p \in Profiles :
               /\ PhaseOf(profile'[p]) = PhaseOf(profile[p])
               /\ ValueOf(profile'[p]) = ValueOf(profile[p])
               /\ TakersIn(req', p) = TakersIn(req, p)
    PROVE  [LoginLedger!Next]_(LoginLedger!vars)
BY LoginsRead DEF LoginLedger!vars

(* A change of one login and its takers is a step of CheckedWrites.         *)
LEMMA LoginMoves ==
    ASSUME NEW p \in Profiles,
           \A q \in Profiles \ {p} :
               /\ PhaseOf(profile'[q]) = PhaseOf(profile[q])
               /\ ValueOf(profile'[q]) = ValueOf(profile[q])
               /\ TakersIn(req', q) = TakersIn(req, q),
           NEW before, before = PhaseOf(profile[p]),
           NEW after, after = PhaseOf(profile'[p]),
           NEW kept \in BOOLEAN,
           kept => ValueOf(profile'[p]) = ValueOf(profile[p]),
           NEW took, took = TakersIn(req, p),
           NEW take, take = TakersIn(req', p),
           \/ before = "none" /\ after = "open" /\ kept /\ take = took
           \/ \E r \in Requests :
                 \/ /\ before = "open" /\ after = before /\ kept
                    /\ \A q \in Profiles : r \notin TakersIn(req, q)
                    /\ take = took \cup {r}
                 \/ r \in took /\ after = "closed" /\ take = took \ {r}
                 \/ r \in took /\ after = before /\ kept /\ take = took \ {r}
    PROVE  [LoginLedger!Next]_(LoginLedger!vars)
<1>1. PICK phase : phase = [q \in Profiles |-> PhaseOf(profile[q])]
  OBVIOUS
<1>2. PICK phase2 : phase2 = [q \in Profiles |-> PhaseOf(profile'[q])]
  OBVIOUS
<1>3. PICK takers : takers = [q \in Profiles |-> TakersIn(req, q)]
  OBVIOUS
<1>4. PICK takers2 : takers2 = [q \in Profiles |-> TakersIn(req', q)]
  OBVIOUS
<1>5. PICK value : value = [q \in Profiles |-> ValueOf(profile[q])]
  OBVIOUS
<1>6. PICK value2 : value2 = [q \in Profiles |-> ValueOf(profile'[q])]
  OBVIOUS
<1>7. /\ [q \in Profiles |-> LoginPhase(q)] = phase
      /\ [q \in Profiles |-> LoginPhase(q)]' = phase2
      /\ [q \in Profiles |-> IF IsChild(q) THEN profile[q].login ELSE None]
             = value
      /\ [q \in Profiles |-> IF IsChild(q) THEN profile[q].login ELSE None]'
             = value2
      /\ [q \in Profiles |-> LoginTakers(q)] = takers
      /\ [q \in Profiles |-> LoginTakers(q)]' = takers2
  BY <1>1, <1>2, <1>3, <1>4, <1>5, <1>6, LoginsRead
<1>8. /\ phase2 = [phase EXCEPT ![p] = after]
      /\ takers2 = [takers EXCEPT ![p] = take]
      /\ \A q \in Profiles \ {p} : value2[q] = value[q]
      /\ phase[p] = before /\ takers[p] = took
      /\ after = before => phase2 = phase
      /\ take = took => takers2 = takers
      /\ kept => value2 = value
  BY <1>1, <1>2, <1>3, <1>4, <1>5, <1>6
<1>9. \A q \in Profiles : takers[q] = TakersIn(req, q)
  BY <1>3
<1>10. CASE before = "none" /\ after = "open" /\ kept /\ take = took
  <2>1. LoginLedger!Offer(p)
    BY <1>7, <1>8, <1>10 DEF LoginLedger!Offer
  <2> QED BY <2>1 DEF LoginLedger!Next
<1>11. ASSUME NEW r \in Requests, before = "open", after = before, kept,
              \A q \in Profiles : r \notin TakersIn(req, q),
              take = took \cup {r}
       PROVE  [LoginLedger!Next]_(LoginLedger!vars)
  <2>1. LoginLedger!Take(r, p)
    BY <1>7, <1>8, <1>9, <1>11 DEF LoginLedger!Take
  <2> QED BY <2>1 DEF LoginLedger!Next
<1>12. ASSUME NEW r \in Requests, r \in took, after = "closed",
              take = took \ {r}
       PROVE  [LoginLedger!Next]_(LoginLedger!vars)
  <2>1. LoginLedger!Write(r, p)
    BY <1>7, <1>8, <1>12 DEF LoginLedger!Write
  <2> QED BY <2>1 DEF LoginLedger!Next
<1>13. ASSUME NEW r \in Requests, r \in took, after = before, kept,
              take = took \ {r}
       PROVE  [LoginLedger!Next]_(LoginLedger!vars)
  <2>1. LoginLedger!Leave(r, p)
    BY <1>7, <1>8, <1>13 DEF LoginLedger!Leave
  <2> QED BY <2>1 DEF LoginLedger!Next
<1> QED BY <1>10, <1>11, <1>12, <1>13

(* A handler that provisions nothing, while profiles that are no child's    *)
(* may be inserted.                                                         *)
LEMMA LoginElsewhere ==
    ASSUME NEW r \in Requests,
           req[r].at # "provision", req'[r].at # "provision",
           \A s \in Requests : s # r => req'[s] = req[s],
           \A p \in Profiles :
               \/ profile'[p] = profile[p]
               \/ profile[p].kind = "none" /\ profile'[p].kind = "self"
    PROVE  [LoginLedger!Next]_(LoginLedger!vars)
<1>1. \A p \in Profiles : TakersIn(req', p) = TakersIn(req, p)
  BY DEF TakersIn
<1>2. \A p \in Profiles : /\ PhaseOf(profile'[p]) = PhaseOf(profile[p])
                          /\ ValueOf(profile'[p]) = ValueOf(profile[p])
  BY DEF PhaseOf, ValueOf
<1> QED BY <1>1, <1>2, NoLoginMoves

(* A provisioning that ends without a login.                                *)
LEMMA ProvisionGivenUp ==
    ASSUME IInv, NEW r \in Requests, Respond(r), req[r].at = "provision",
           profile' = profile
    PROVE  [LoginLedger!Next]_(LoginLedger!vars)
<1>1. PICK p \in Profiles : p = req[r].profile
  BY DEF IInv, HandlerInv, Known
<1>2. /\ Idle \in Handler /\ Idle.at # "provision"
      /\ req' = [req EXCEPT ![r] = Idle]
  BY Rest DEF Respond
<1>3. \A q \in Profiles :
          /\ TakersIn(req', q) =
                 IF Idle.at = "provision" /\ Idle.profile = q
                 THEN TakersIn(req, q) \cup {r} ELSE TakersIn(req, q) \ {r}
          /\ r \in TakersIn(req, q) <=>
                 req[r].at = "provision" /\ req[r].profile = q
  BY <1>2, TakersChange
<1>4. \A q \in Profiles : TakersIn(req', q) = TakersIn(req, q) \ {r}
  BY <1>2, <1>3
<1>5. \A q \in Profiles : r \in TakersIn(req, q) <=> q = p
  BY <1>1, <1>3
<1>6. PICK before : before = PhaseOf(profile[p])
  OBVIOUS
<1>7. /\ \A q \in Profiles \ {p} : TakersIn(req', q) = TakersIn(req, q)
      /\ TakersIn(req', p) = TakersIn(req, p) \ {r} /\ r \in TakersIn(req, p)
  BY <1>4, <1>5
<1>8. before = PhaseOf(profile'[p])
  BY <1>6
<1> QED BY <1>6, <1>7, <1>8, LoginMoves

(* A new child can be given a login.                                        *)
LEMMA CreateChildLogin ==
    ASSUME IInv, IInv', NEW r \in Requests, NEW u \in Users,
           NEW p \in Profiles, NEW trainers \in SUBSET Trainers,
           CreateChild(r, u, p, trainers)
    PROVE  [LoginLedger!Next]_(LoginLedger!vars)
<1>1. /\ profile[p].kind = "none" /\ req[r].at = "idle"
      /\ profile' = [profile EXCEPT ![p] = [kind |-> "child", parent |-> u,
                                            login |-> None]]
      /\ req' = [req EXCEPT ![r] = [Idle EXCEPT !.at = "child",
                                                !.todo = trainers \X {p}]]
  BY DEF CreateChild, Unused, Begin
<1>2. /\ req'[r].at = "child" /\ \A s \in Requests : s # r => req'[s] = req[s]
  BY <1>1 DEF IInv, TypeOK, Idle
<1>3. \A q \in Profiles : TakersIn(req', q) = TakersIn(req, q)
  BY <1>1, <1>2 DEF TakersIn
<1>4. /\ \A q \in Profiles : q # p => profile'[q] = profile[q]
      /\ profile'[p].kind = "child" /\ profile'[p].login = None
  BY <1>1, Rest
<1>5. /\ PhaseOf(profile[p]) = "none" /\ PhaseOf(profile'[p]) = "open"
      /\ ValueOf(profile[p]) = None /\ ValueOf(profile'[p]) = None
  BY <1>1, <1>4 DEF PhaseOf, ValueOf
<1>6. \A q \in Profiles \ {p} : /\ PhaseOf(profile'[q]) = PhaseOf(profile[q])
                               /\ ValueOf(profile'[q]) = ValueOf(profile[q])
  BY <1>4
<1>7. PICK took : took = TakersIn(req, p)
  OBVIOUS
<1>8. took = TakersIn(req', p)
  BY <1>3, <1>7
<1> QED BY <1>3, <1>5, <1>6, <1>7, <1>8, LoginMoves

(* A provisioning begins when the child has no login.                       *)
LEMMA ProvisionLogin ==
    ASSUME IInv, NEW r \in Requests, NEW u \in Users, NEW p \in Profiles,
           NEW v \in Users, Provision(r, u, p, v)
    PROVE  [LoginLedger!Next]_(LoginLedger!vars)
<1> DEFINE handler == [Idle EXCEPT !.at = "provision", !.user = v,
                                   !.profile = p]
<1>1. /\ profile[p].kind = "child" /\ profile[p].login = None
      /\ req[r].at = "idle" /\ profile' = profile
      /\ req' = [req EXCEPT ![r] = handler]
  BY DEF Provision, Begin, data
<1>2. /\ handler \in Handler /\ handler.at = "provision"
      /\ handler.profile = p
  BY DEF Handler, Idle
<1> HIDE DEF handler
<1>3. \A q \in Profiles :
          /\ TakersIn(req', q) =
                 IF handler.at = "provision" /\ handler.profile = q
                 THEN TakersIn(req, q) \cup {r} ELSE TakersIn(req, q) \ {r}
          /\ r \in TakersIn(req, q) <=>
                 req[r].at = "provision" /\ req[r].profile = q
  BY <1>1, <1>2, TakersChange
<1>4. /\ TakersIn(req', p) = TakersIn(req, p) \cup {r}
      /\ \A q \in Profiles : r \notin TakersIn(req, q)
      /\ \A q \in Profiles \ {p} : TakersIn(req', q) = TakersIn(req, q) \ {r}
  BY <1>1, <1>2, <1>3
<1>5. \A q \in Profiles \ {p} : TakersIn(req', q) = TakersIn(req, q)
  BY <1>4
<1>6. PhaseOf(profile[p]) = "open" /\ PhaseOf(profile'[p]) = "open"
  BY <1>1 DEF PhaseOf
<1>7. \A q \in Profiles : /\ PhaseOf(profile'[q]) = PhaseOf(profile[q])
                          /\ ValueOf(profile'[q]) = ValueOf(profile[q])
  BY <1>1
<1>8. PICK took : took = TakersIn(req, p)
  OBVIOUS
<1>9. PICK take : take = TakersIn(req', p)
  OBVIOUS
<1>10. PICK before : before = PhaseOf(profile[p])
  OBVIOUS
<1>11. before = PhaseOf(profile'[p])
  BY <1>7, <1>10
<1>12. \A q \in Profiles \ {p} :
           /\ PhaseOf(profile'[q]) = PhaseOf(profile[q])
           /\ ValueOf(profile'[q]) = ValueOf(profile[q])
           /\ TakersIn(req', q) = TakersIn(req, q)
  BY <1>5, <1>7
<1>13. ValueOf(profile'[p]) = ValueOf(profile[p])
  BY <1>7
<1>14. /\ before = "open" /\ \A q \in Profiles : r \notin TakersIn(req, q)
       /\ take = took \cup {r}
  BY <1>4, <1>6, <1>8, <1>9, <1>10
<1> QED BY <1>8, <1>9, <1>10, <1>11, <1>12, <1>13, <1>14, LoginMoves

(* Who found the child without a login gives it one, or gives up.           *)
LEMMA CreateLoginLogin ==
    ASSUME IInv, NEW r \in Requests, CreateLogin(r)
    PROVE  [LoginLedger!Next]_(LoginLedger!vars)
<1>1. PICK p \in Profiles, v \in Users :
          /\ p = req[r].profile /\ v = req[r].user
          /\ profile[p].kind = "child"
  BY DEF CreateLogin, IInv, HandlerInv, Known
<1>2. req[r].at = "provision" /\ Respond(r)
  BY DEF CreateLogin
<1>3. CASE profile' = profile
  BY <1>2, <1>3, ProvisionGivenUp
<1>4. CASE profile' = [profile EXCEPT ![p].login = v]
  <2>1. /\ Idle \in Handler /\ Idle.at # "provision"
        /\ req' = [req EXCEPT ![r] = Idle]
    BY <1>2, Rest DEF Respond
  <2>2. \A q \in Profiles :
            /\ TakersIn(req', q) =
                   IF Idle.at = "provision" /\ Idle.profile = q
                   THEN TakersIn(req, q) \cup {r} ELSE TakersIn(req, q) \ {r}
            /\ r \in TakersIn(req, q) <=>
                   req[r].at = "provision" /\ req[r].profile = q
    BY <2>1, TakersChange
  <2>3. \A q \in Profiles : TakersIn(req', q) = TakersIn(req, q) \ {r}
    BY <2>1, <2>2
  <2>4. \A q \in Profiles : r \in TakersIn(req, q) <=> q = p
    BY <1>1, <1>2, <2>2
  <2>5. /\ \A q \in Profiles \ {p} : TakersIn(req', q) = TakersIn(req, q)
        /\ TakersIn(req', p) = TakersIn(req, p) \ {r}
        /\ r \in TakersIn(req, p)
    BY <2>3, <2>4
  <2>6. profile[p] \in Profile
    BY Rest
  <2>7. /\ profile'[p].kind = "child" /\ profile'[p].login = v
        /\ \A q \in Profiles : q # p => profile'[q] = profile[q]
    BY <1>1, <1>4, <2>6, Rest DEF Profile
  <2>8. PhaseOf(profile'[p]) = "closed"
    BY <2>7, NoneAssumption DEF PhaseOf
  <2>9. \A q \in Profiles \ {p} :
            /\ PhaseOf(profile'[q]) = PhaseOf(profile[q])
            /\ ValueOf(profile'[q]) = ValueOf(profile[q])
    BY <2>7
  <2> QED BY <2>5, <2>8, <2>9, LoginMoves
<1> QED BY <1>1, <1>3, <1>4 DEF CreateLogin

(* Other handlers insert at most a profile that is no child's.              *)
LEMMA OtherLogin ==
    ASSUME IInv, NEW r \in Requests, Continue(r), ~CreateLogin(r)
    PROVE  [LoginLedger!Next]_(LoginLedger!vars)
<1>1. /\ req[r].at # "provision" /\ req[r] \in Handler
      /\ req \in [Requests -> Handler]
  BY DEF Continue, CreateAccount, Consume, FindSelf, CreateSelf, Look, Insert,
         Activate, Remove, JoinNext, Enrol, ChildNext, IInv, TypeOK
<1>2. ASSUME NEW handler, req' = [req EXCEPT ![r] = handler],
             handler.at # "provision"
      PROVE  /\ req'[r].at # "provision"
             /\ \A s \in Requests : s # r => req'[s] = req[s]
  BY <1>1, <1>2
<1>3. ASSUME Respond(r)
      PROVE  /\ req'[r].at # "provision"
             /\ \A s \in Requests : s # r => req'[s] = req[s]
  <2>1. Idle.at # "provision" /\ req' = [req EXCEPT ![r] = Idle]
    BY <1>3 DEF Respond, Idle
  <2> QED BY <1>2, <2>1
<1>4. /\ req'[r].at # "provision"
      /\ \A s \in Requests : s # r => req'[s] = req[s]
  <2>1. CASE CreateAccount(r) \/ Consume(r) \/ FindSelf(r)
    BY <1>1, <1>3, <2>1 DEF CreateAccount, Consume, FindSelf, Resume, Handler
  <2>2. CASE CreateSelf(r) \/ Look(r) \/ Insert(r) \/ Activate(r)
             \/ Remove(r)
    BY <1>1, <1>3, <2>2 DEF CreateSelf, Look, Insert, Activate, Remove,
                            Resume, Handler
  <2>3. CASE Enrol(r) \/ ChildNext(r)
    BY <1>1, <1>3, <2>3 DEF Enrol, ChildNext, Resume, Handler
  <2>4. CASE JoinNext(r)
    <3>1. CASE Respond(r)
      BY <1>3, <3>1
    <3>2. ASSUME NEW x \in req[r].todo,
                 LET rest == [req[r] EXCEPT !.todo = req[r].todo \ {x}]
                 IN  Resume(r, IF status[x] = "none"
                               THEN [rest EXCEPT !.at = "enrol",
                                                 !.profile = x[2]]
                               ELSE rest)
          PROVE  /\ req'[r].at # "provision"
                 /\ \A s \in Requests : s # r => req'[s] = req[s]
      BY <1>1, <2>4, <3>2 DEF JoinNext, Resume, Handler
    <3> QED BY <2>4, <3>1, <3>2 DEF JoinNext
  <2> QED BY <2>1, <2>2, <2>3, <2>4 DEF Continue
<1>5. \A p \in Profiles :
          \/ profile'[p] = profile[p]
          \/ profile[p].kind = "none" /\ profile'[p].kind = "self"
  <2>1. CASE profile' = profile
    BY <2>1
  <2>2. ASSUME NEW p \in Unused, NEW u,
               profile' = [profile EXCEPT ![p] = SelfProfile(u)]
        PROVE  \A q \in Profiles :
                   \/ profile'[q] = profile[q]
                   \/ profile[q].kind = "none" /\ profile'[q].kind = "self"
    BY <2>2, Rest DEF SelfProfile, Unused
  <2> QED BY <2>1, <2>2
          DEF Continue, CreateAccount, Consume, FindSelf, CreateSelf, Look,
              Insert, Activate, Remove, JoinNext, Enrol, ChildNext, data
<1> QED BY <1>1, <1>4, <1>5, LoginElsewhere

(* Every step is a step of CheckedWrites.                                   *)
LEMMA NextLogin ==
    IInv /\ IInv' /\ [Next]_vars => [LoginLedger!Next]_(LoginLedger!vars)
<1> SUFFICES ASSUME IInv, IInv', [Next]_vars
             PROVE  [LoginLedger!Next]_(LoginLedger!vars)
  OBVIOUS
<1>1. CASE UNCHANGED <<profile, req>>
  BY <1>1, NoLoginMoves
<1>2. ASSUME NEW d \in Drafts,
             Expire(d) \/ \E t \in Trainers : CreateDraft(d, t)
      PROVE  UNCHANGED <<profile, req>>
  BY <1>2 DEF Expire, CreateDraft, data
<1>3. ASSUME NEW r \in Requests, Arrive(r)
      PROVE  [LoginLedger!Next]_(LoginLedger!vars)
  <2>1. ASSUME NEW u \in Users, NEW p \in Profiles,
               \/ \E trainers \in SUBSET Trainers :
                     CreateChild(r, u, p, trainers)
               \/ \E v \in Users : Provision(r, u, p, v)
        PROVE  [LoginLedger!Next]_(LoginLedger!vars)
    BY <2>1, CreateChildLogin, ProvisionLogin
  <2>2. ASSUME NEW u \in Users,
               \/ \E d \in Drafts \cup {None} : Register(r, u, d)
               \/ \E t \in Trainers :
                     \/ RegisterByLink(r, u, t)
                     \/ \E members \in SUBSET Profiles : Join(r, u, t, members)
                     \/ \E p \in Profiles : AddTrainer(r, u, p, t)
                     \/ \E p \in Profiles : RemoveTrainer(r, u, p, t)
        PROVE  [LoginLedger!Next]_(LoginLedger!vars)
    <3>1. ASSUME NEW handler, Begin(r, handler), handler.at # "provision"
          PROVE  /\ req[r].at = "idle" /\ req'[r].at # "provision"
                 /\ \A s \in Requests : s # r => req'[s] = req[s]
      BY <3>1 DEF Begin, IInv, TypeOK
    <3>2. profile' = profile
      BY <2>2 DEF Register, RegisterByLink, Join, AddTrainer, RemoveTrainer,
                  data
    <3>3. \E handler : Begin(r, handler) /\ handler.at # "provision"
      <4>1. ASSUME NEW d \in Drafts \cup {None}, Register(r, u, d)
            PROVE  \E handler : Begin(r, handler) /\ handler.at # "provision"
        <5> DEFINE h == [Idle EXCEPT !.at = "register", !.user = u, !.draft = d]
        <5>1. h.at # "provision"
          BY DEF Idle
        <5>2. Begin(r, h)
          BY <4>1 DEF Register
        <5> HIDE DEF h
        <5> QED BY <5>1, <5>2
      <4>2. ASSUME NEW t \in Trainers, RegisterByLink(r, u, t)
            PROVE  \E handler : Begin(r, handler) /\ handler.at # "provision"
        <5> DEFINE h == [Idle EXCEPT !.at = "register", !.user = u,
                              !.trainer = t]
        <5>1. h.at # "provision"
          BY DEF Idle
        <5>2. Begin(r, h)
          BY <4>2 DEF RegisterByLink
        <5> HIDE DEF h
        <5> QED BY <5>1, <5>2
      <4>3. ASSUME NEW t \in Trainers, NEW members \in SUBSET Profiles,
                   Join(r, u, t, members)
            PROVE  \E handler : Begin(r, handler) /\ handler.at # "provision"
        <5> DEFINE h == [Idle EXCEPT !.at = "join", !.trainer = t,
                              !.todo = {t} \X (members \cap Owned(u))]
        <5>1. h.at # "provision"
          BY DEF Idle
        <5>2. Begin(r, h)
          BY <4>3 DEF Join
        <5> HIDE DEF h
        <5> QED BY <5>1, <5>2
      <4>4. ASSUME NEW t \in Trainers, NEW p \in Profiles,
                   AddTrainer(r, u, p, t)
            PROVE  \E handler : Begin(r, handler) /\ handler.at # "provision"
        <5> DEFINE h == [Idle EXCEPT !.at = "look", !.trainer = t,
                              !.profile = p]
        <5>1. h.at # "provision"
          BY DEF Idle
        <5>2. Begin(r, h)
          BY <4>4 DEF AddTrainer
        <5> HIDE DEF h
        <5> QED BY <5>1, <5>2
      <4>5. ASSUME NEW t \in Trainers, NEW p \in Profiles,
                   RemoveTrainer(r, u, p, t)
            PROVE  \E handler : Begin(r, handler) /\ handler.at # "provision"
        <5> DEFINE h == [Idle EXCEPT !.at = "remove", !.trainer = t,
                              !.profile = p]
        <5>1. h.at # "provision"
          BY DEF Idle
        <5>2. Begin(r, h)
          BY <4>5 DEF RemoveTrainer
        <5> HIDE DEF h
        <5> QED BY <5>1, <5>2
      <4> QED BY <2>2, <4>1, <4>2, <4>3, <4>4, <4>5
    <3>4. /\ req[r].at = "idle" /\ req'[r].at # "provision"
          /\ \A s \in Requests : s # r => req'[s] = req[s]
      BY <3>1, <3>3
    <3> QED BY <3>2, <3>4, LoginElsewhere
  <2> QED BY <1>3, <2>1, <2>2 DEF Arrive
<1>4. ASSUME NEW r \in Requests, Continue(r)
      PROVE  [LoginLedger!Next]_(LoginLedger!vars)
  BY <1>4, CreateLoginLogin, OtherLogin
<1>5. ASSUME NEW r \in Requests, Fail(r)
      PROVE  [LoginLedger!Next]_(LoginLedger!vars)
  <2>1. Respond(r) /\ profile' = profile
    BY <1>5 DEF Fail, data
  <2>2. CASE req[r].at = "provision"
    BY <2>1, <2>2, ProvisionGivenUp
  <2>3. CASE req[r].at # "provision"
    <3>1. /\ req'[r].at # "provision"
          /\ \A s \in Requests : s # r => req'[s] = req[s]
      BY <2>1, Rest DEF Respond, IInv, TypeOK
    <3> QED BY <2>1, <2>3, <3>1, LoginElsewhere
  <2> QED BY <2>2, <2>3
<1>6. CASE UNCHANGED vars
  BY <1>1, <1>6 DEF vars
<1> QED BY <1>1, <1>2, <1>3, <1>4, <1>5, <1>6 DEF Next

(* However many provisionings of a child overlap, each gives it at most one *)
(* login, made for it, on the strength of its own look, and none that looks *)
(* after the first login does (provisionChildLogin).                        *)
THEOREM ChildLoginsChecked == Spec => ChildLoginsAreChecked
<1>1. Init => LoginLedger!Init
  BY DEF Init, LoginLedger!Init, LoginPhase, LoginTakers, IsChild, NoProfile,
         Idle
<1>2. IInv => LoginsMadeForChild
  BY DEF IInv
<1> QED BY <1>1, <1>2, NextLogin, InductiveInvariant, PTL
        DEF Spec, ChildLoginsAreChecked, LoginLedger!Spec
=============================================================================
