--------------------------- MODULE Accounts_proofs ---------------------------
(* Proofs about Accounts, for any accounts, tokens and handlers.            *)
EXTENDS Accounts, TLAPS

HistType == [redeemed : [Tokens -> Nat], stopped : SUBSET Users,
             edited : SUBSET Users]

(* What a handler knows: its account exists and has the role its token is   *)
(* for, its token was issued, and an address it read after a deletion is    *)
(* backed up already.                                                       *)
HandlerInv ==
    \A r \in Requests :
        LET h == req[r]
        IN  /\ h.at # "idle" /\ h.at # "redeem" => h.user \in Users
            /\ h.at \in {"setup", "token", "deactivate", "reactivate",
                         "delete"} =>
                   Exists(h.user)
            /\ h.at \in {"setup", "token"} =>
                   /\ h.kind \in Kinds
                   /\ user[h.user].role = "TRAINER" => h.kind = "reset"
            /\ h.at = "redeem" =>
                   h.token \in Tokens /\ token[h.token].kind # "none"
            /\ h.at = "delete" =>
                   /\ h.email \in Emails
                   /\ h.email = "anonymised" => <<h.user, "own">> \in log

(* Every token that was issued is for an account.                           *)
TokenInv ==
    \A t \in Tokens :
        IF token[t].kind = "none" THEN ~token[t].used
        ELSE token[t].user \in Users /\ Exists(token[t].user)

(* Only accounts that exist have anything, and trainers are verified.       *)
UserInv ==
    \A u \in Users :
        /\ user[u].status = "NONE" => user[u].email = "own"
        /\ user[u].role = "TRAINER" => user[u].verified

IInv == /\ TypeOK /\ HandlerInv /\ TokenInv /\ UserInv
        /\ DeletionRecorded /\ UsedTokenHadEffect /\ AccountsCanBeEntered

(* The invariant holds at the start.                                        *)
LEMMA InitInv == Init => IInv
<1> SUFFICES ASSUME Init PROVE IInv
  OBVIOUS
<1>1. TypeOK
  BY DEF Init, TypeOK, User, NoUser, Emails, Token, NoToken, Handler, Idle
<1>2. HandlerInv /\ TokenInv /\ UserInv
  BY DEF Init, HandlerInv, TokenInv, UserInv, NoUser, NoToken, Idle
<1>3. DeletionRecorded /\ UsedTokenHadEffect /\ AccountsCanBeEntered
  BY DEF Init, DeletionRecorded, UsedTokenHadEffect, AccountsCanBeEntered,
         Exists, NoUser, NoToken
<1> QED BY <1>1, <1>2, <1>3 DEF IInv

(* A handler that begins knows what it has checked.                         *)
LEMMA CheckedStep ==
    ASSUME IInv, NEW r \in Requests, NEW handler \in Handler,
           Checked(r, handler), hist' \in HistType,
           hist'.stopped = hist.stopped, hist'.edited = hist.edited,
           handler.at # "idle" /\ handler.at # "redeem" =>
               handler.user \in Users,
           handler.at \in {"setup", "token", "deactivate", "reactivate",
                           "delete"} => Exists(handler.user),
           handler.at \in {"setup", "token"} =>
               /\ handler.kind \in Kinds
               /\ user[handler.user].role = "TRAINER" =>
                      handler.kind = "reset",
           handler.at = "redeem" =>
               handler.token \in Tokens /\ token[handler.token].kind # "none",
           handler.at = "delete" =>
               /\ handler.email \in Emails
               /\ handler.email = "anonymised" =>
                      <<handler.user, "own">> \in log
    PROVE  IInv'
<1>1. /\ req' = [req EXCEPT ![r] = handler] /\ req[r].at = "idle"
      /\ UNCHANGED <<user, token, log>>
  BY DEF Checked
<1>2. TypeOK'
  BY <1>1 DEF IInv, TypeOK, HistType
<1>3. HandlerInv'
  BY <1>1 DEF IInv, TypeOK, HandlerInv, Exists
<1>4. TokenInv' /\ UserInv' /\ UsedTokenHadEffect' /\ DeletionRecorded'
  BY <1>1 DEF IInv, TokenInv, UserInv, UsedTokenHadEffect, DeletionRecorded,
              Exists
<1>5. AccountsCanBeEntered'
  <2>1. \A s \in Requests : req[s].at = "setup" => req'[s] = req[s]
    BY <1>1 DEF IInv, TypeOK
  <2> QED BY <1>1, <2>1 DEF IInv, AccountsCanBeEntered, Exists
<1> QED BY <1>2, <1>3, <1>4, <1>5 DEF IInv

(* What comes with a request may be any of these.                           *)
LEMMA Presented ==
    ASSUME IInv, NEW r \in Requests, Arrive(r)
    PROVE  IInv'
<1>0. hist \in HistType
  BY DEF IInv, TypeOK, HistType
<1>1. ASSUME NEW t \in Tokens, Present(r, t) PROVE IInv'
  <2> DEFINE handler == [Idle EXCEPT !.at = "redeem", !.token = t]
  <2>1. handler \in Handler /\ handler.at = "redeem" /\ handler.token = t
    BY DEF Handler, Idle
  <2>2. Checked(r, handler) /\ token[t].kind # "none"
    BY <1>1 DEF Present
  <2>3. /\ hist' \in HistType
        /\ hist'.stopped = hist.stopped /\ hist'.edited = hist.edited
    BY <1>0, <1>1 DEF Present
  <2> HIDE DEF handler
  <2> QED BY <2>1, <2>2, <2>3, CheckedStep
<1>2. ASSUME NEW u \in Users, Register(r, u) \/ CreateTrainer(r, u)
      PROVE  IInv'
  <2>1. PICK at \in {"register", "trainer"} :
          Checked(r, [Idle EXCEPT !.at = at, !.user = u])
    BY <1>2 DEF Register, CreateTrainer
  <2> DEFINE handler == [Idle EXCEPT !.at = at, !.user = u]
  <2>2. handler \in Handler /\ handler.at = at /\ handler.user = u
    BY DEF Handler, Idle
  <2>3. Checked(r, handler) /\ hist' = hist
    BY <1>2, <2>1 DEF Register, CreateTrainer
  <2> HIDE DEF handler
  <2> QED BY <1>0, <2>2, <2>3, CheckedStep
<1>3. ASSUME NEW u \in Users, ResendVerification(r, u) \/ RequestReset(r, u)
      PROVE  IInv'
  <2>1. PICK kind \in Kinds :
          /\ Checked(r, [Idle EXCEPT !.at = "token", !.user = u,
                                     !.kind = kind])
          /\ kind = "verify" => ~user[u].verified
    BY <1>3 DEF ResendVerification, RequestReset, Kinds
  <2> DEFINE handler == [Idle EXCEPT !.at = "token", !.user = u,
                                     !.kind = kind]
  <2>2. /\ handler \in Handler /\ handler.at = "token" /\ handler.user = u
        /\ handler.kind = kind
    BY DEF Handler, Idle
  <2>3. Checked(r, handler) /\ hist' = hist /\ Exists(u)
    BY <1>3, <2>1 DEF ResendVerification, RequestReset, Found
  <2>4. user[u].role = "TRAINER" => kind = "reset"
    BY <2>1 DEF IInv, UserInv, Kinds
  <2> HIDE DEF handler
  <2> QED BY <1>0, <2>2, <2>3, <2>4, CheckedStep
<1>4. ASSUME NEW u \in Users, Deactivate(r, u) \/ Reactivate(r, u)
      PROVE  IInv'
  <2>1. PICK at \in {"deactivate", "reactivate"} :
          Checked(r, [Idle EXCEPT !.at = at, !.user = u])
    BY <1>4 DEF Deactivate, Reactivate
  <2> DEFINE handler == [Idle EXCEPT !.at = at, !.user = u]
  <2>2. handler \in Handler /\ handler.at = at /\ handler.user = u
    BY DEF Handler, Idle
  <2>3. Checked(r, handler) /\ hist' = hist /\ Exists(u)
    BY <1>4, <2>1 DEF Deactivate, Reactivate, Exists
  <2> HIDE DEF handler
  <2> QED BY <1>0, <2>2, <2>3, CheckedStep
<1>5. ASSUME NEW u \in Users, Delete(r, u) PROVE IInv'
  <2> DEFINE handler == [Idle EXCEPT !.at = "delete", !.user = u,
                                     !.email = user[u].email]
  <2>1. user[u].email \in Emails
    BY DEF IInv, TypeOK, User
  <2>2. /\ handler \in Handler /\ handler.at = "delete" /\ handler.user = u
        /\ handler.email = user[u].email
    BY <2>1 DEF Handler, Idle
  <2>3. Checked(r, handler) /\ hist' = hist /\ Exists(u)
    BY <1>5 DEF Delete
  <2>4. user[u].email = "anonymised" => <<u, "own">> \in log
    BY DEF IInv, DeletionRecorded
  <2> HIDE DEF handler
  <2> QED BY <1>0, <2>1, <2>2, <2>3, <2>4, CheckedStep
<1> QED BY <1>1, <1>2, <1>3, <1>4, <1>5 DEF Arrive

(* A handler that is done knows nothing.                                    *)
LEMMA Released ==
    ASSUME IInv, NEW r \in Requests, Respond(r)
    PROVE  /\ req' \in [Requests -> Handler]
           /\ req'[r] = Idle
           /\ \A s \in Requests : s # r => req'[s] = req[s]
BY DEF IInv, TypeOK, Handler, Idle, Respond

(* A new account with status ACTIVE disturbs nothing that is known of       *)
(* others.                                                                  *)
LEMMA CreateUserStep ==
    ASSUME IInv, NEW r \in Requests, CreateUser(r)
    PROVE  IInv'
<1> DEFINE u == req[r].user
<1> DEFINE new == [NoUser EXCEPT !.status = "ACTIVE", !.named = TRUE,
                                 !.password = "chosen"]
<1>1. u \in Users
  BY DEF IInv, HandlerInv, CreateUser
<1>2. /\ req' \in [Requests -> Handler] /\ req'[r] = Idle
      /\ \A s \in Requests : s # r => req'[s] = req[s]
  BY Released DEF CreateUser
<1>3. log' = log /\ hist' = hist
  BY DEF CreateUser
<1>4. Idle.at = "idle" /\ req[r].at = "register"
  BY DEF Idle, CreateUser
<1>5. CASE UNCHANGED <<user, token>>
  <2>1. TypeOK' /\ HandlerInv'
    BY <1>2, <1>3, <1>4, <1>5 DEF IInv, TypeOK, HandlerInv, Exists
  <2>2. TokenInv' /\ UserInv' /\ UsedTokenHadEffect' /\ DeletionRecorded'
    BY <1>3, <1>5 DEF IInv, TokenInv, UserInv, UsedTokenHadEffect,
                      DeletionRecorded, Exists
  <2>3. AccountsCanBeEntered'
    BY <1>2, <1>3, <1>4, <1>5 DEF IInv, AccountsCanBeEntered, Exists
  <2> QED BY <2>1, <2>2, <2>3 DEF IInv
<1>6. ASSUME NEW t \in Free, ~Exists(u), user' = [user EXCEPT ![u] = new],
             Issue(t, "verify", u)
      PROVE  IInv'
  <2>1. /\ new \in User /\ new.status = "ACTIVE" /\ new.role = "PLAYER"
        /\ new.email = "own"
    BY DEF User, NoUser, Emails
  <2> DEFINE issued == [kind |-> "verify", user |-> u, used |-> FALSE,
                        lapsed |-> FALSE]
  <2>2. issued \in Token
    BY <1>1 DEF Token, Kinds
  <2>3. /\ issued.kind = "verify" /\ issued.user = u /\ ~issued.used
        /\ t \in Tokens /\ token[t].kind = "none"
        /\ token' = [token EXCEPT ![t] = issued]
    BY <1>6 DEF Issue, Free
  <2> HIDE DEF u, new, issued
  <2>4. user[u].status = "NONE" /\ user[u].email = "own"
    BY <1>1, <1>6 DEF Exists, IInv, UserInv
  <2>5. TypeOK'
    BY <1>1, <1>2, <1>3, <1>6, <2>1, <2>2, <2>3 DEF IInv, TypeOK
  <2>6. /\ user'[u] = new
        /\ \A v \in Users : v # u => user'[v] = user[v]
        /\ token'[t] = issued
        /\ \A k \in Tokens : k # t => token'[k] = token[k]
    BY <1>1, <1>6, <2>3 DEF IInv, TypeOK
  <2>7. HandlerInv'
    BY <1>1, <1>2, <1>3, <1>4, <2>1, <2>3, <2>4, <2>6
       DEF IInv, HandlerInv, Exists
  <2>8. TokenInv' /\ UserInv'
    BY <1>1, <2>1, <2>3, <2>4, <2>6 DEF IInv, TokenInv, UserInv, Exists
  <2>9. DeletionRecorded' /\ UsedTokenHadEffect'
    BY <1>1, <1>3, <2>1, <2>3, <2>4, <2>6
       DEF IInv, TokenInv, DeletionRecorded, UsedTokenHadEffect, Exists
  <2>10. AccountsCanBeEntered'
    <3> SUFFICES ASSUME NEW v \in Users, Exists(v)'
                 PROVE  \/ \E k \in Tokens :
                             /\ token'[k].user = v
                             /\ token'[k].kind = IF user'[v].role = "TRAINER"
                                                 THEN "reset" ELSE "verify"
                        \/ /\ user'[v].role = "TRAINER"
                           /\ \/ v \in hist'.stopped
                              \/ \E s \in Requests : /\ req'[s].at = "setup"
                                                     /\ req'[s].user = v
      BY DEF AccountsCanBeEntered
    <3>1. CASE v = u
      BY <2>1, <2>3, <2>6, <3>1
    <3>2. CASE v # u
      <4>1. Exists(v) /\ user'[v] = user[v]
        BY <2>6, <3>2 DEF Exists
      <4>2. \A k \in Tokens : token[k].kind # "none" => token'[k] = token[k]
        BY <2>3, <2>6
      <4>3. \A s \in Requests : req[s].at = "setup" => req'[s] = req[s]
        BY <1>2, <1>4
      <4> QED BY <1>3, <4>1, <4>2, <4>3 DEF IInv, AccountsCanBeEntered
    <3> QED BY <3>1, <3>2
  <2> QED BY <2>5, <2>7, <2>8, <2>9, <2>10 DEF IInv
<1> QED BY <1>5, <1>6 DEF CreateUser

(* A trainer comes with a handler that is about to insert the token.        *)
LEMMA InsertTrainerStep ==
    ASSUME IInv, NEW r \in Requests, InsertTrainer(r)
    PROVE  IInv'
<1> DEFINE u == req[r].user
<1> DEFINE new == [NoUser EXCEPT !.status = "ACTIVE", !.role = "TRAINER",
                                 !.named = TRUE, !.verified = TRUE]
<1>1. u \in Users
  BY DEF IInv, HandlerInv, InsertTrainer
<1>2. UNCHANGED <<token, log, hist>> /\ req[r].at = "trainer"
  BY DEF InsertTrainer
<1>3. CASE Respond(r) /\ UNCHANGED user
  <2>1. /\ req' \in [Requests -> Handler] /\ req'[r] = Idle
        /\ \A s \in Requests : s # r => req'[s] = req[s]
    BY <1>3, Released
  <2>2. Idle.at = "idle"
    BY DEF Idle
  <2>3. TypeOK' /\ HandlerInv'
    BY <1>2, <1>3, <2>1, <2>2 DEF IInv, TypeOK, HandlerInv, Exists
  <2>4. TokenInv' /\ UserInv' /\ UsedTokenHadEffect' /\ DeletionRecorded'
    BY <1>2, <1>3 DEF IInv, TokenInv, UserInv, UsedTokenHadEffect,
                      DeletionRecorded, Exists
  <2>5. AccountsCanBeEntered'
    BY <1>2, <1>3, <2>1, <2>2 DEF IInv, AccountsCanBeEntered, Exists
  <2> QED BY <2>3, <2>4, <2>5 DEF IInv
<1>4. ASSUME ~Exists(u), user' = [user EXCEPT ![u] = new],
             req' = [req EXCEPT ![r].at = "setup", ![r].kind = "reset"]
      PROVE  IInv'
  <2>1. /\ new \in User /\ new.status = "ACTIVE" /\ new.role = "TRAINER"
        /\ new.email = "own" /\ new.verified
    BY DEF User, NoUser, Emails
  <2>2. /\ req' \in [Requests -> Handler]
        /\ req'[r].at = "setup" /\ req'[r].kind = "reset"
        /\ req'[r].user = u
        /\ \A s \in Requests : s # r => req'[s] = req[s]
    BY <1>4 DEF IInv, TypeOK, Handler, Kinds
  <2> HIDE DEF u, new
  <2>3. user[u].status = "NONE" /\ user[u].email = "own"
    BY <1>1, <1>4 DEF Exists, IInv, UserInv
  <2>4. TypeOK'
    BY <1>1, <1>2, <1>4, <2>1, <2>2 DEF IInv, TypeOK
  <2>5. /\ user'[u] = new
        /\ \A v \in Users : v # u => user'[v] = user[v]
    BY <1>1, <1>4 DEF IInv, TypeOK
  <2>6. HandlerInv'
    BY <1>1, <1>2, <2>1, <2>2, <2>3, <2>5 DEF IInv, HandlerInv, Exists, Kinds
  <2>7. TokenInv' /\ UserInv'
    BY <1>1, <1>2, <2>1, <2>3, <2>5 DEF IInv, TokenInv, UserInv, Exists
  <2>8. DeletionRecorded' /\ UsedTokenHadEffect'
    BY <1>1, <1>2, <2>1, <2>3, <2>5
       DEF IInv, TokenInv, DeletionRecorded, UsedTokenHadEffect, Exists
  <2>9. AccountsCanBeEntered'
    <3>1. \A s \in Requests : req[s].at = "setup" => req'[s] = req[s]
      BY <1>2, <2>2
    <3> QED BY <1>1, <1>2, <2>1, <2>2, <2>5, <3>1
            DEF IInv, AccountsCanBeEntered, Exists
  <2> QED BY <2>4, <2>6, <2>7, <2>8, <2>9 DEF IInv
<1> QED BY <1>3, <1>4 DEF InsertTrainer

LEMMA InsertTokenStep ==
    ASSUME IInv, NEW r \in Requests, InsertToken(r)
    PROVE  IInv'
<1> DEFINE u == req[r].user
           issued == [kind |-> req[r].kind, user |-> u, used |-> FALSE,
                      lapsed |-> FALSE]
<1>1. PICK t \in Free : Issue(t, req[r].kind, u)
  BY DEF InsertToken
<1>2. /\ u \in Users /\ Exists(u) /\ req[r].kind \in Kinds
      /\ user[u].role = "TRAINER" => req[r].kind = "reset"
  BY DEF IInv, HandlerInv, InsertToken
<1>3. /\ req' \in [Requests -> Handler] /\ req'[r] = Idle
      /\ \A s \in Requests : s # r => req'[s] = req[s]
  BY Released DEF InsertToken
<1>4. UNCHANGED <<user, log, hist>> /\ Idle.at = "idle"
  BY DEF InsertToken, Idle
<1>5. /\ issued \in Token /\ issued.kind = req[r].kind
      /\ issued.user = u /\ ~issued.used
  BY <1>2 DEF Token
<1>6. t \in Tokens /\ token[t].kind = "none"
  BY DEF Free
<1>7. token' = [token EXCEPT ![t] = issued]
  BY <1>1 DEF Issue
<1> HIDE DEF issued
<1>8. token'[t] = issued /\ \A k \in Tokens : k # t => token'[k] = token[k]
  BY <1>6, <1>7 DEF IInv, TypeOK
<1>9. TypeOK'
  BY <1>3, <1>4, <1>5, <1>6, <1>7 DEF IInv, TypeOK
<1>10. HandlerInv'
  BY <1>3, <1>4, <1>6, <1>8 DEF IInv, HandlerInv, Exists
<1>11. TokenInv' /\ UserInv'
  <2>1. issued.kind # "none"
    BY <1>2, <1>5 DEF Kinds
  <2> QED BY <1>2, <1>4, <1>5, <1>6, <1>8, <2>1
          DEF IInv, TokenInv, UserInv, Exists
<1>12. DeletionRecorded' /\ UsedTokenHadEffect'
  BY <1>4, <1>5, <1>8 DEF IInv, DeletionRecorded, UsedTokenHadEffect
<1>13. AccountsCanBeEntered'
  <2>1. \A k \in Tokens : token[k].kind # "none" => token'[k] = token[k]
    BY <1>6, <1>8
  <2> SUFFICES ASSUME NEW v \in Users, Exists(v)
               PROVE  \/ \E k \in Tokens :
                           /\ token'[k].user = v
                           /\ token'[k].kind = IF user[v].role = "TRAINER"
                                               THEN "reset" ELSE "verify"
                      \/ /\ user[v].role = "TRAINER"
                         /\ \/ v \in hist.stopped
                            \/ \E s \in Requests : /\ req'[s].at = "setup"
                                                   /\ req'[s].user = v
    BY <1>4 DEF AccountsCanBeEntered, Exists
  <2>2. CASE v = u /\ user[v].role = "TRAINER"
    BY <1>2, <1>5, <1>6, <1>8, <2>2
  <2>3. CASE ~(v = u /\ user[v].role = "TRAINER")
    BY <1>3, <1>4, <2>1, <2>3 DEF IInv, AccountsCanBeEntered
  <2> QED BY <2>2, <2>3
<1> QED BY <1>9, <1>10, <1>11, <1>12, <1>13 DEF IInv

(* An update of an account that exists, by a handler that then responds:    *)
(* what the update must keep.                                               *)
LEMMA AccountUpdated ==
    ASSUME IInv, NEW r \in Requests, NEW u \in Users, NEW new \in User,
           Exists(u), user' = [user EXCEPT ![u] = new],
           Respond(r), req[r].at # "setup", UNCHANGED <<token, hist>>,
           log' \in SUBSET (Users \X Emails), log \subseteq log',
           new.status # "NONE", new.role = user[u].role,
           new.verified = user[u].verified, new.password = user[u].password,
           /\ new.status = "DELETED" => new.email = "anonymised"
           /\ new.email = "anonymised" =>
                 /\ <<u, "own">> \in log'
                 /\ new.named => u \in hist.edited
    PROVE  IInv'
<1>1. /\ req' \in [Requests -> Handler] /\ req'[r] = Idle
      /\ \A s \in Requests : s # r => req'[s] = req[s]
  BY Released
<1>2. Idle.at = "idle"
  BY DEF Idle
<1>3. user'[u] = new /\ \A v \in Users : v # u => user'[v] = user[v]
  BY DEF IInv, TypeOK
<1>4. TypeOK'
  BY <1>1 DEF IInv, TypeOK
<1>5. \A v \in Users : /\ Exists(v) => Exists(v)'
                       /\ Exists(v)' => Exists(v)
                       /\ user'[v].role = user[v].role
                       /\ user'[v].verified = user[v].verified
                       /\ user'[v].password = user[v].password
  BY <1>3 DEF Exists
<1>6. HandlerInv'
  BY <1>1, <1>2, <1>5 DEF IInv, HandlerInv
<1>7. TokenInv'
  BY <1>5 DEF IInv, TokenInv
<1>8. UserInv'
  BY <1>3 DEF IInv, UserInv, Exists
<1>9. DeletionRecorded'
  BY <1>3 DEF IInv, DeletionRecorded
<1>10. UsedTokenHadEffect'
  <2> SUFFICES ASSUME NEW t \in Tokens, token[t].used
               PROVE  IF token[t].kind = "verify"
                      THEN user'[token[t].user].verified
                      ELSE user'[token[t].user].password = "chosen"
    BY DEF UsedTokenHadEffect
  <2>1. token[t].user \in Users
    BY DEF IInv, TokenInv
  <2> QED BY <1>5, <2>1 DEF IInv, UsedTokenHadEffect
<1>11. AccountsCanBeEntered'
  <2>1. \A s \in Requests : req[s].at = "setup" => req'[s] = req[s]
    BY <1>1
  <2> QED BY <1>5, <2>1 DEF IInv, AccountsCanBeEntered
<1> QED BY <1>4, <1>6, <1>7, <1>8, <1>9, <1>10, <1>11 DEF IInv

LEMMA WriteStatusStep ==
    ASSUME IInv, NEW r \in Requests, WriteStatus(r)
    PROVE  IInv'
<1> DEFINE u == req[r].user
<1>1. u \in Users /\ Exists(u)
  BY DEF IInv, HandlerInv, WriteStatus
<1>2. PICK s \in {"ACTIVE", "INACTIVE"} :
          user' = [user EXCEPT ![u].status = s]
  BY DEF WriteStatus
<1> DEFINE new == [user[u] EXCEPT !.status = s]
<1>3. /\ new \in User /\ new.status = s /\ new.role = user[u].role
      /\ new.verified = user[u].verified /\ new.email = user[u].email
      /\ new.password = user[u].password /\ new.named = user[u].named
  BY <1>1 DEF IInv, TypeOK, User
<1>4. user' = [user EXCEPT ![u] = new]
  BY <1>2
<1>5. Respond(r) /\ req[r].at # "setup" /\ UNCHANGED <<token, log, hist>>
  BY DEF WriteStatus
<1>6. user[u].email = "anonymised" =>
          /\ <<u, "own">> \in log
          /\ user[u].named => u \in hist.edited
  BY <1>1 DEF IInv, DeletionRecorded
<1>7. log \in SUBSET (Users \X Emails)
  BY DEF IInv, TypeOK
<1> HIDE DEF new, u
<1> QED BY <1>1, <1>3, <1>4, <1>5, <1>6, <1>7, AccountUpdated

LEMMA WriteDeletionStep ==
    ASSUME IInv, NEW r \in Requests, WriteDeletion(r)
    PROVE  IInv'
<1> DEFINE u == req[r].user
           new == [user[u] EXCEPT !.status = "DELETED",
                                  !.email = "anonymised", !.named = FALSE]
<1>1. u \in Users /\ Exists(u) /\ req[r].email \in Emails
  BY DEF IInv, HandlerInv, WriteDeletion
<1>0. user[u] \in User
  BY <1>1 DEF IInv, TypeOK
<1>2. /\ new \in User /\ new.status = "DELETED" /\ new.role = user[u].role
      /\ new.verified = user[u].verified /\ new.email = "anonymised"
      /\ new.password = user[u].password /\ new.named = FALSE
  BY <1>0 DEF User, Emails
<1>3. user' = [user EXCEPT ![u] = new]
  BY DEF WriteDeletion
<1>4. Respond(r) /\ req[r].at # "setup" /\ UNCHANGED <<token, hist>>
  BY DEF WriteDeletion
<1>5. log' = log \cup {<<u, req[r].email>>} /\ log \in SUBSET (Users \X Emails)
  BY DEF WriteDeletion, IInv, TypeOK
<1>6. <<u, "own">> \in log'
  BY <1>1, <1>5 DEF IInv, HandlerInv, WriteDeletion, Emails
<1>7. log' \in SUBSET (Users \X Emails) /\ log \subseteq log'
  BY <1>1, <1>5
<1> HIDE DEF new, u
<1> QED BY <1>1, <1>2, <1>3, <1>4, <1>6, <1>7, AccountUpdated

(* The account and the token change together.                               *)
LEMMA RedeemStep ==
    ASSUME IInv, NEW r \in Requests, Redeem(r)
    PROVE  IInv'
<1> DEFINE t == req[r].token
           u == token[t].user
           used == [token[t] EXCEPT !.used = TRUE]
<1>1. t \in Tokens /\ token[t].kind # "none" /\ req[r].at = "redeem"
  BY DEF IInv, HandlerInv, Redeem
<1>2. u \in Users /\ Exists(u)
  BY <1>1 DEF IInv, TokenInv
<1>3. /\ used \in Token /\ used.kind = token[t].kind /\ used.user = u
      /\ used.used
  BY <1>1 DEF IInv, TypeOK, Token
<1>4. token' = [token EXCEPT ![t] = used]
  BY DEF Redeem
<1> DEFINE new == IF token[t].kind = "verify"
                  THEN [user[u] EXCEPT !.verified = TRUE]
                  ELSE [user[u] EXCEPT !.password = "chosen"]
<1>5. user' = [user EXCEPT ![u] = new]
  BY DEF Redeem
<1>6. /\ new \in User /\ new.status = user[u].status
      /\ new.role = user[u].role /\ new.email = user[u].email
      /\ new.named = user[u].named
      /\ user[u].verified => new.verified
      /\ user[u].password = "chosen" => new.password = "chosen"
      /\ IF token[t].kind = "verify" THEN new.verified
                                     ELSE new.password = "chosen"
  <2>1. user[u] \in User
    BY <1>2 DEF IInv, TypeOK
  <2>2. CASE token[t].kind = "verify"
    <3>1. /\ new \in User /\ new.status = user[u].status
          /\ new.role = user[u].role /\ new.email = user[u].email
          /\ new.named = user[u].named /\ new.password = user[u].password
          /\ new.verified = TRUE
      BY <2>1, <2>2 DEF User
    <3> HIDE DEF new
    <3> QED BY <2>2, <3>1
  <2>3. CASE token[t].kind # "verify"
    <3>1. /\ new \in User /\ new.status = user[u].status
          /\ new.role = user[u].role /\ new.email = user[u].email
          /\ new.named = user[u].named /\ new.verified = user[u].verified
          /\ new.password = "chosen"
      BY <2>1, <2>3 DEF User
    <3> HIDE DEF new
    <3> QED BY <2>3, <3>1
  <2> HIDE DEF new
  <2> QED BY <2>2, <2>3
<1>7. /\ req' \in [Requests -> Handler] /\ req'[r] = Idle
      /\ \A s \in Requests : s # r => req'[s] = req[s]
  BY Released DEF Redeem
<1>8. Idle.at = "idle" /\ log' = log
  BY DEF Idle, Redeem
<1>9. /\ hist' \in HistType
      /\ hist'.stopped = hist.stopped /\ hist'.edited = hist.edited
  <2>1. hist.redeemed \in [Tokens -> Nat]
    BY DEF IInv, TypeOK
  <2>2. [hist.redeemed EXCEPT ![t] = hist.redeemed[t] + 1] \in [Tokens -> Nat]
    BY <1>1, <2>1
  <2>3. hist' = [hist EXCEPT !.redeemed =
                    [hist.redeemed EXCEPT ![t] = hist.redeemed[t] + 1]]
    BY DEF Redeem
  <2> QED BY <2>2, <2>3 DEF IInv, TypeOK, HistType
<1> HIDE DEF used, new, u, t
<1>10. /\ user'[u] = new /\ \A v \in Users : v # u => user'[v] = user[v]
       /\ token'[t] = used /\ \A k \in Tokens : k # t => token'[k] = token[k]
  BY <1>1, <1>2, <1>4, <1>5 DEF IInv, TypeOK
<1>11. \A v \in Users : /\ user'[v].status = user[v].status
                        /\ user'[v].role = user[v].role
                        /\ user'[v].email = user[v].email
                        /\ user'[v].named = user[v].named
                        /\ user[v].verified => user'[v].verified
                        /\ user[v].password = "chosen" =>
                               user'[v].password = "chosen"
  BY <1>6, <1>10
<1>12. \A k \in Tokens : /\ token'[k].kind = token[k].kind
                         /\ token'[k].user = token[k].user
                         /\ token'[k].used => token[k].used \/ k = t
  BY <1>3, <1>10 DEF u
<1>13. TypeOK'
  BY <1>1, <1>2, <1>3, <1>4, <1>5, <1>6, <1>7, <1>8, <1>9
     DEF IInv, TypeOK, HistType
<1>14. HandlerInv'
  BY <1>7, <1>8, <1>11, <1>12 DEF IInv, HandlerInv, Exists
<1>15. TokenInv' /\ UserInv'
  BY <1>1, <1>11, <1>12 DEF IInv, TokenInv, UserInv, Exists
<1>16. DeletionRecorded'
  BY <1>8, <1>9, <1>11 DEF IInv, DeletionRecorded
<1>17. UsedTokenHadEffect'
  <2> SUFFICES ASSUME NEW k \in Tokens, token'[k].used
               PROVE  IF token'[k].kind = "verify"
                      THEN user'[token'[k].user].verified
                      ELSE user'[token'[k].user].password = "chosen"
    BY DEF UsedTokenHadEffect
  <2>1. CASE k = t
    BY <1>1, <1>6, <1>10, <1>12, <2>1 DEF u
  <2>2. CASE k # t
    <3>1. token[k].used
      BY <1>12, <2>2
    <3>2. token[k].user \in Users
      BY <3>1 DEF IInv, TokenInv
    <3>3. IF token[k].kind = "verify" THEN user[token[k].user].verified
          ELSE user[token[k].user].password = "chosen"
      BY <3>1 DEF IInv, UsedTokenHadEffect
    <3> QED BY <1>11, <1>12, <3>2, <3>3
  <2> QED BY <2>1, <2>2
<1>18. AccountsCanBeEntered'
  <2>1. \A s \in Requests : req[s].at = "setup" => req'[s] = req[s]
    BY <1>1, <1>7 DEF t
  <2> QED BY <1>9, <1>11, <1>12, <2>1 DEF IInv, AccountsCanBeEntered, Exists
<1> QED BY <1>13, <1>14, <1>15, <1>16, <1>17, <1>18 DEF IInv

LEMMA LapseStep ==
    ASSUME IInv, NEW t \in Tokens, Lapse(t)
    PROVE  IInv'
<1>1. UNCHANGED <<user, log, req, hist>>
  BY DEF Lapse
<1>2. /\ token' \in [Tokens -> Token]
      /\ \A k \in Tokens : /\ token'[k].kind = token[k].kind
                           /\ token'[k].user = token[k].user
                           /\ token'[k].used = token[k].used
  BY DEF IInv, TypeOK, Token, Lapse
<1>3. TypeOK'
  BY <1>1, <1>2 DEF IInv, TypeOK
<1>4. HandlerInv'
  BY <1>1, <1>2 DEF IInv, HandlerInv, Exists
<1>5. TokenInv' /\ UserInv'
  BY <1>1, <1>2 DEF IInv, TokenInv, UserInv, Exists
<1>6. DeletionRecorded' /\ UsedTokenHadEffect'
  BY <1>1, <1>2 DEF IInv, DeletionRecorded, UsedTokenHadEffect
<1>7. AccountsCanBeEntered'
  BY <1>1, <1>2 DEF IInv, AccountsCanBeEntered, Exists
<1> QED BY <1>3, <1>4, <1>5, <1>6, <1>7 DEF IInv

(* An edit of an anonymised account is recorded in the history.             *)
LEMMA EditUserStep ==
    ASSUME IInv, NEW u \in Users, EditUser(u)
    PROVE  IInv'
<1>1. UNCHANGED <<token, log, req>>
  BY DEF EditUser
<1>2. /\ user' \in [Users -> User]
      /\ \A v \in Users : /\ user'[v].status = user[v].status
                          /\ user'[v].role = user[v].role
                          /\ user'[v].email = user[v].email
                          /\ user'[v].verified = user[v].verified
                          /\ user'[v].password = user[v].password
                          /\ v # u => user'[v].named = user[v].named
  BY DEF IInv, TypeOK, User, EditUser
<1> DEFINE edited == hist.edited
                     \cup {v \in {u} : user[v].email = "anonymised"}
<1>3. hist' = [hist EXCEPT !.edited = edited] /\ edited \in SUBSET Users
  BY DEF EditUser, IInv, TypeOK
<1>4. /\ hist.edited \subseteq edited
      /\ user[u].email = "anonymised" => u \in edited
  OBVIOUS
<1> HIDE DEF edited
<1>5. /\ hist' \in HistType
      /\ hist'.edited = edited /\ hist'.stopped = hist.stopped
  BY <1>3 DEF IInv, TypeOK, HistType
<1>6. TypeOK'
  BY <1>1, <1>2, <1>5 DEF IInv, TypeOK, HistType
<1>7. HandlerInv'
  BY <1>1, <1>2 DEF IInv, HandlerInv, Exists
<1>8. TokenInv' /\ UserInv'
  BY <1>1, <1>2 DEF IInv, TokenInv, UserInv, Exists
<1>9. DeletionRecorded'
  <2> SUFFICES ASSUME NEW v \in Users
               PROVE  /\ user'[v].status = "DELETED" =>
                             user'[v].email = "anonymised"
                      /\ user'[v].email = "anonymised" =>
                             /\ <<v, "own">> \in log'
                             /\ user'[v].named => v \in hist'.edited
    BY DEF DeletionRecorded
  <2>1. /\ user[v].status = "DELETED" => user[v].email = "anonymised"
        /\ user[v].email = "anonymised" =>
               /\ <<v, "own">> \in log
               /\ user[v].named => v \in hist.edited
    BY DEF IInv, DeletionRecorded
  <2>2. /\ user'[v].status = user[v].status /\ user'[v].email = user[v].email
        /\ log' = log
    BY <1>1, <1>2
  <2>3. user[v].email = "anonymised" /\ user'[v].named => v \in hist'.edited
    <3>1. CASE v = u
      BY <1>4, <1>5, <3>1
    <3>2. CASE v # u
      BY <1>2, <1>4, <1>5, <2>1, <3>2
    <3> QED BY <3>1, <3>2
  <2> QED BY <2>1, <2>2, <2>3
<1>10. UsedTokenHadEffect'
  <2> SUFFICES ASSUME NEW t \in Tokens, token[t].used
               PROVE  IF token[t].kind = "verify"
                      THEN user'[token[t].user].verified
                      ELSE user'[token[t].user].password = "chosen"
    BY <1>1 DEF UsedTokenHadEffect
  <2>1. token[t].user \in Users
    BY DEF IInv, TokenInv
  <2> QED BY <1>2, <2>1 DEF IInv, UsedTokenHadEffect
<1>11. AccountsCanBeEntered'
  BY <1>1, <1>2, <1>5 DEF IInv, AccountsCanBeEntered, Exists
<1> QED BY <1>6, <1>7, <1>8, <1>9, <1>10, <1>11 DEF IInv

(* A handler that stops before it inserts a token is recorded.              *)
LEMMA FailStep ==
    ASSUME IInv, NEW r \in Requests, Fail(r)
    PROVE  IInv'
<1> DEFINE stopped == hist.stopped
                      \cup {u \in {req[r].user} : req[r].at = "setup"}
<1>1. /\ req' \in [Requests -> Handler] /\ req'[r] = Idle
      /\ \A s \in Requests : s # r => req'[s] = req[s]
  BY Released DEF Fail
<1>2. UNCHANGED <<user, token, log>> /\ Idle.at = "idle"
  BY DEF Fail, Idle
<1>3. req[r].at = "setup" => req[r].user \in Users
  BY DEF IInv, HandlerInv
<1>4. /\ stopped \in SUBSET Users /\ hist.stopped \subseteq stopped
      /\ req[r].at = "setup" => req[r].user \in stopped
  BY <1>3 DEF IInv, TypeOK
<1>5. hist' = [hist EXCEPT !.stopped = stopped]
  BY DEF Fail
<1> HIDE DEF stopped
<1>6. /\ hist' \in HistType
      /\ hist'.edited = hist.edited /\ hist'.stopped = stopped
  BY <1>4, <1>5 DEF IInv, TypeOK, HistType
<1>7. TypeOK'
  BY <1>1, <1>2, <1>6 DEF IInv, TypeOK, HistType
<1>8. HandlerInv'
  BY <1>1, <1>2 DEF IInv, HandlerInv, Exists
<1>9. TokenInv' /\ UserInv' /\ UsedTokenHadEffect'
  BY <1>2 DEF IInv, TokenInv, UserInv, UsedTokenHadEffect, Exists
<1>10. DeletionRecorded'
  BY <1>2, <1>6 DEF IInv, DeletionRecorded
<1>11. AccountsCanBeEntered'
  BY <1>1, <1>2, <1>4, <1>6 DEF IInv, AccountsCanBeEntered, Exists
<1> QED BY <1>7, <1>8, <1>9, <1>10, <1>11 DEF IInv

(* Every step keeps the invariant.                                          *)
LEMMA NextInv == IInv /\ [Next]_vars => IInv'
<1> SUFFICES ASSUME IInv, [Next]_vars PROVE IInv'
  OBVIOUS
<1>1. CASE UNCHANGED vars
  <2>1. UNCHANGED <<user, token, log, req, hist>>
    BY <1>1 DEF vars
  <2>2. TypeOK' /\ HandlerInv' /\ TokenInv' /\ UserInv'
    BY <2>1 DEF IInv, TypeOK, HandlerInv, TokenInv, UserInv, Exists
  <2>3. DeletionRecorded' /\ UsedTokenHadEffect' /\ AccountsCanBeEntered'
    BY <2>1 DEF IInv, DeletionRecorded, UsedTokenHadEffect,
                AccountsCanBeEntered, Exists
  <2> QED BY <2>2, <2>3 DEF IInv
<1>2. ASSUME NEW r \in Requests, Arrive(r) \/ Continue(r) \/ Fail(r)
      PROVE  IInv'
  BY <1>2, Presented, CreateUserStep, InsertTrainerStep, InsertTokenStep,
     RedeemStep, WriteStatusStep, WriteDeletionStep, FailStep DEF Continue
<1> QED BY <1>1, <1>2, LapseStep, EditUserStep DEF Next

(* The invariant that the theorems below are conjuncts of: what handlers    *)
(* know stays true while others write.                                      *)
THEOREM InductiveInvariant == Spec => []IInv
BY InitInv, NextInv, PTL DEF Spec

(* The tables, the handlers and the history keep their types.               *)
THEOREM TypeCorrect == Spec => []TypeOK
<1>1. IInv => TypeOK
  BY DEF IInv
<1> QED BY <1>1, InductiveInvariant, PTL

(* However deletions, deactivations, reactivations and edits of accounts    *)
(* overlap, the address of a deleted account is backed up (deleteUser).     *)
THEOREM DeletionsAreRecorded == Spec => []DeletionRecorded
<1>1. IInv => DeletionRecorded
  BY DEF IInv
<1> QED BY <1>1, InductiveInvariant, PTL

(* A used token had its effect, whoever else writes the account             *)
(* (verifyEmail, confirm).                                                  *)
THEOREM UsedTokensHadEffect == Spec => []UsedTokenHadEffect
<1>1. IInv => UsedTokenHadEffect
  BY DEF IInv
<1> QED BY <1>1, InductiveInvariant, PTL

(* No account is created without a token for it, or a handler that is about *)
(* to insert one or stopped before (register, createTrainer).               *)
THEOREM EveryAccountCanBeEntered == Spec => []AccountsCanBeEntered
<1>1. IInv => AccountsCanBeEntered
  BY DEF IInv
<1> QED BY <1>1, InductiveInvariant, PTL

-----------------------------------------------------------------------------
(* The tokens implement CheckedWrites.                                      *)

(* A token is used once it was redeemed.                                    *)
LedgerInv == \A t \in Tokens : token[t].used <=> hist.redeemed[t] > 0

(* Who holds a token, as a function of the handlers.                        *)
HoldersIn(handlers, t) ==
    {r \in Requests : handlers[r].at = "redeem" /\ handlers[r].token = t}

PhaseOf(row, times) ==
    IF row.kind = "none" THEN "none"
    ELSE IF row.lapsed \/ times > 0 THEN "closed" ELSE "open"

(* The holders after a step of one handler.                                 *)
LEMMA HoldersChange ==
    ASSUME IInv, NEW r \in Requests, NEW handler \in Handler,
           req' = [req EXCEPT ![r] = handler]
    PROVE  \A t \in Tokens :
               /\ HoldersIn(req', t) =
                      IF handler.at = "redeem" /\ handler.token = t
                      THEN HoldersIn(req, t) \cup {r}
                      ELSE HoldersIn(req, t) \ {r}
               /\ r \in HoldersIn(req, t) <=>
                      req[r].at = "redeem" /\ req[r].token = t
<1>1. \A s \in Requests : req'[s] = IF s = r THEN handler ELSE req[s]
  BY DEF IInv, TypeOK
<1> QED BY <1>1 DEF HoldersIn

(* A change of one token and its holders is a step of CheckedWrites.        *)
LEMMA TokenMoves ==
    ASSUME NEW t \in Tokens,
           \A k \in Tokens \ {t} :
               /\ PhaseOf(token'[k], hist'.redeemed[k]) =
                      PhaseOf(token[k], hist.redeemed[k])
               /\ hist'.redeemed[k] = hist.redeemed[k]
               /\ HoldersIn(req', k) = HoldersIn(req, k),
           NEW p, p = PhaseOf(token[t], hist.redeemed[t]),
           NEW q, q = PhaseOf(token'[t], hist'.redeemed[t]),
           NEW kept \in BOOLEAN,
           kept => hist'.redeemed[t] = hist.redeemed[t],
           NEW holders, holders = HoldersIn(req, t),
           NEW after, after = HoldersIn(req', t),
           \/ p = q /\ kept /\ after = holders
           \/ p = "none" /\ q = "open" /\ kept /\ after = holders
           \/ p = "open" /\ q = "closed" /\ kept /\ after = holders
           \/ \E r \in Requests :
                 \/ /\ p = "open" /\ q = p /\ kept
                    /\ \A k \in Tokens : r \notin HoldersIn(req, k)
                    /\ after = holders \cup {r}
                 \/ r \in holders /\ q = "closed" /\ after = holders \ {r}
                 \/ r \in holders /\ q = p /\ kept /\ after = holders \ {r}
    PROVE  [TokenLedger!Next]_(TokenLedger!vars)
<1>1. PICK phase : phase = [k \in Tokens |-> PhaseOf(token[k],
                                                     hist.redeemed[k])]
  OBVIOUS
<1>2. PICK phase2 : phase2 = [k \in Tokens |-> PhaseOf(token'[k],
                                                       hist'.redeemed[k])]
  OBVIOUS
<1>3. PICK takers : takers = [k \in Tokens |-> HoldersIn(req, k)]
  OBVIOUS
<1>4. PICK takers2 : takers2 = [k \in Tokens |-> HoldersIn(req', k)]
  OBVIOUS
<1>5. PICK value : value = [k \in Tokens |-> hist.redeemed[k]]
  OBVIOUS
<1>6. PICK value2 : value2 = [k \in Tokens |-> hist'.redeemed[k]]
  OBVIOUS
<1>7. /\ [k \in Tokens |-> TokenPhase(k)] = phase
      /\ [k \in Tokens |-> TokenPhase(k)]' = phase2
      /\ [k \in Tokens |-> hist.redeemed[k]]' = value2
      /\ [k \in Tokens |-> TokenTakers(k)] = takers
      /\ [k \in Tokens |-> TokenTakers(k)]' = takers2
  BY <1>1, <1>2, <1>3, <1>4, <1>6
     DEF TokenPhase, TokenTakers, PhaseOf, HoldersIn
<1>8. /\ phase2 = [phase EXCEPT ![t] = q]
      /\ takers2 = [takers EXCEPT ![t] = after]
      /\ \A k \in Tokens \ {t} : value2[k] = value[k]
      /\ phase[t] = p /\ takers[t] = holders
      /\ q = p => phase2 = phase
      /\ after = holders => takers2 = takers
      /\ kept => value2 = value
  BY <1>1, <1>2, <1>3, <1>4, <1>5, <1>6
<1>9. \A k \in Tokens : takers[k] = HoldersIn(req, k)
  BY <1>3
<1>10. CASE p = q /\ kept /\ after = holders
  BY <1>5, <1>7, <1>8, <1>10 DEF TokenLedger!vars
<1>11. CASE p = "none" /\ q = "open" /\ kept /\ after = holders
  BY <1>5, <1>7, <1>8, <1>11 DEF TokenLedger!Next, TokenLedger!Offer
<1>12. CASE p = "open" /\ q = "closed" /\ kept /\ after = holders
  BY <1>5, <1>7, <1>8, <1>12 DEF TokenLedger!Next, TokenLedger!Close
<1>13. ASSUME NEW r \in Requests, p = "open", q = p, kept,
              \A k \in Tokens : r \notin HoldersIn(req, k),
              after = holders \cup {r}
       PROVE  [TokenLedger!Next]_(TokenLedger!vars)
  <2>1. TokenLedger!Take(r, t)
    BY <1>5, <1>7, <1>8, <1>9, <1>13 DEF TokenLedger!Take
  <2> QED BY <2>1 DEF TokenLedger!Next
<1>14. ASSUME NEW r \in Requests, r \in holders, q = "closed",
              after = holders \ {r}
       PROVE  [TokenLedger!Next]_(TokenLedger!vars)
  <2>1. TokenLedger!Write(r, t)
    BY <1>7, <1>8, <1>14 DEF TokenLedger!Write
  <2> QED BY <2>1 DEF TokenLedger!Next
<1>15. ASSUME NEW r \in Requests, r \in holders, q = p, kept,
              after = holders \ {r}
       PROVE  [TokenLedger!Next]_(TokenLedger!vars)
  <2>1. TokenLedger!Leave(r, t)
    BY <1>5, <1>7, <1>8, <1>15 DEF TokenLedger!Leave
  <2> QED BY <2>1 DEF TokenLedger!Next
<1> QED BY <1>10, <1>11, <1>12, <1>13, <1>14, <1>15

(* Tokens and holders that do not change are a stutter.                     *)
LEMMA NothingMoves ==
    ASSUME \A k \in Tokens :
               /\ PhaseOf(token'[k], hist'.redeemed[k]) =
                      PhaseOf(token[k], hist.redeemed[k])
               /\ hist'.redeemed[k] = hist.redeemed[k]
               /\ HoldersIn(req', k) = HoldersIn(req, k)
    PROVE  [TokenLedger!Next]_(TokenLedger!vars)
<1>1. /\ [k \in Tokens |-> TokenPhase(k)] =
             [k \in Tokens |-> PhaseOf(token[k], hist.redeemed[k])]
      /\ [k \in Tokens |-> TokenPhase(k)]' =
             [k \in Tokens |-> PhaseOf(token'[k], hist'.redeemed[k])]
      /\ [k \in Tokens |-> TokenTakers(k)] =
             [k \in Tokens |-> HoldersIn(req, k)]
      /\ [k \in Tokens |-> TokenTakers(k)]' =
             [k \in Tokens |-> HoldersIn(req', k)]
  BY DEF TokenPhase, TokenTakers, PhaseOf, HoldersIn
<1> QED BY <1>1 DEF TokenLedger!vars

(* A handler that neither takes nor holds a token.                          *)
LEMMA Uninvolved ==
    ASSUME LedgerInv, NEW r \in Requests,
           req[r].at # "redeem", req'[r].at # "redeem",
           \A s \in Requests : s # r => req'[s] = req[s],
           token' = token, hist'.redeemed = hist.redeemed
    PROVE  LedgerInv' /\ [TokenLedger!Next]_(TokenLedger!vars)
<1>1. LedgerInv'
  BY DEF LedgerInv
<1>2. \A k \in Tokens : HoldersIn(req', k) = HoldersIn(req, k)
  BY DEF HoldersIn
<1>3. [TokenLedger!Next]_(TokenLedger!vars)
  BY <1>2, NothingMoves
<1> QED BY <1>1, <1>3

(* An issued token can be redeemed.                                         *)
LEMMA IssueLedger ==
    ASSUME IInv, LedgerInv, NEW r \in Requests, NEW t \in Free,
           NEW kind \in Kinds, NEW u \in Users, Issue(t, kind, u),
           Respond(r), req[r].at # "redeem", hist' = hist
    PROVE  LedgerInv' /\ [TokenLedger!Next]_(TokenLedger!vars)
<1> DEFINE issued == [kind |-> kind, user |-> u, used |-> FALSE,
                      lapsed |-> FALSE]
<1>1. /\ t \in Tokens /\ token[t].kind = "none"
      /\ \A k \in Tokens : token'[k] = IF k = t THEN issued ELSE token[k]
  BY DEF Free, Issue, IInv, TypeOK
<1>2. /\ issued.kind # "none" /\ ~issued.used /\ ~issued.lapsed
  BY DEF Kinds
<1> HIDE DEF issued
<1>3. ~(hist.redeemed[t] > 0)
  BY <1>1 DEF IInv, TokenInv, LedgerInv
<1>4. LedgerInv'
  BY <1>1, <1>2, <1>3 DEF LedgerInv
<1>5. /\ Idle \in Handler /\ Idle.at # "redeem"
      /\ req' = [req EXCEPT ![r] = Idle]
  BY DEF Idle, Handler, Respond
<1>6. \A k \in Tokens : HoldersIn(req', k) = HoldersIn(req, k)
  <2>1. \A k \in Tokens :
          /\ HoldersIn(req', k) =
                 IF Idle.at = "redeem" /\ Idle.token = k
                 THEN HoldersIn(req, k) \cup {r} ELSE HoldersIn(req, k) \ {r}
          /\ r \in HoldersIn(req, k) <=>
                 req[r].at = "redeem" /\ req[r].token = k
    BY <1>5, HoldersChange
  <2> QED BY <1>5, <2>1
<1>7. /\ PhaseOf(token[t], hist.redeemed[t]) = "none"
      /\ PhaseOf(token'[t], hist'.redeemed[t]) = "open"
      /\ \A k \in Tokens \ {t} : PhaseOf(token'[k], hist'.redeemed[k]) =
                                     PhaseOf(token[k], hist.redeemed[k])
      /\ \A k \in Tokens : hist'.redeemed[k] = hist.redeemed[k]
  BY <1>1, <1>2, <1>3 DEF PhaseOf
<1>8. [TokenLedger!Next]_(TokenLedger!vars)
  BY <1>1, <1>6, <1>7, TokenMoves
<1> QED BY <1>4, <1>8

(* A token is taken by who finds it good.                                   *)
LEMMA PresentLedger ==
    ASSUME IInv, LedgerInv, NEW r \in Requests, NEW t \in Tokens,
           Present(r, t)
    PROVE  LedgerInv' /\ [TokenLedger!Next]_(TokenLedger!vars)
<1> DEFINE handler == [Idle EXCEPT !.at = "redeem", !.token = t]
<1>1. handler \in Handler /\ handler.at = "redeem" /\ handler.token = t
  BY DEF Handler, Idle
<1>2. /\ req' = [req EXCEPT ![r] = handler] /\ req[r].at = "idle"
      /\ UNCHANGED <<token, hist>>
      /\ token[t].kind # "none" /\ ~token[t].used /\ ~token[t].lapsed
  BY DEF Present, Checked
<1> HIDE DEF handler
<1>3. LedgerInv'
  BY <1>2 DEF LedgerInv
<1>4. /\ PhaseOf(token[t], hist.redeemed[t]) = "open"
      /\ PhaseOf(token'[t], hist'.redeemed[t]) = "open"
      /\ \A k \in Tokens \ {t} : PhaseOf(token'[k], hist'.redeemed[k]) =
                                     PhaseOf(token[k], hist.redeemed[k])
      /\ \A k \in Tokens : hist'.redeemed[k] = hist.redeemed[k]
  BY <1>2 DEF PhaseOf, LedgerInv
<1>5. \A k \in Tokens :
          /\ HoldersIn(req', k) = IF k = t THEN HoldersIn(req, k) \cup {r}
                                  ELSE HoldersIn(req, k) \ {r}
          /\ r \notin HoldersIn(req, k)
  <2>1. \A k \in Tokens :
          /\ HoldersIn(req', k) =
                 IF handler.at = "redeem" /\ handler.token = k
                 THEN HoldersIn(req, k) \cup {r} ELSE HoldersIn(req, k) \ {r}
          /\ r \in HoldersIn(req, k) <=>
                 req[r].at = "redeem" /\ req[r].token = k
    BY <1>1, <1>2, HoldersChange
  <2> QED BY <1>1, <1>2, <2>1
<1>6. /\ HoldersIn(req', t) = HoldersIn(req, t) \cup {r}
      /\ \A k \in Tokens \ {t} : HoldersIn(req', k) = HoldersIn(req, k)
      /\ \A k \in Tokens : r \notin HoldersIn(req, k)
  BY <1>5
<1>7. [TokenLedger!Next]_(TokenLedger!vars)
  BY <1>4, <1>6, TokenMoves
<1> QED BY <1>3, <1>7

(* Who holds a token writes it, once.                                       *)
LEMMA RedeemLedger ==
    ASSUME IInv, LedgerInv, NEW r \in Requests, Redeem(r)
    PROVE  LedgerInv' /\ [TokenLedger!Next]_(TokenLedger!vars)
<1>1. PICK t \in Tokens : t = req[r].token /\ req[r].at = "redeem"
  BY DEF IInv, HandlerInv, Redeem
<1>2. /\ token' = [token EXCEPT ![t].used = TRUE]
      /\ hist' = [hist EXCEPT !.redeemed[t] = hist.redeemed[t] + 1]
      /\ Respond(r)
  BY <1>1 DEF Redeem
<1>3. /\ token \in [Tokens -> Token] /\ hist.redeemed \in [Tokens -> Nat]
      /\ hist \in HistType
  BY DEF IInv, TypeOK, HistType
<1>4. \A k \in Tokens :
          /\ token'[k].kind = token[k].kind
          /\ token'[k].lapsed = token[k].lapsed
          /\ token'[k].used = (token[k].used \/ k = t)
  BY <1>2, <1>3 DEF Token
<1>5. \A k \in Tokens : hist'.redeemed[k] = IF k = t THEN hist.redeemed[k] + 1
                                            ELSE hist.redeemed[k]
  BY <1>2, <1>3 DEF HistType
<1>6. hist.redeemed[t] + 1 > 0
  BY <1>3
<1>7. LedgerInv'
  BY <1>4, <1>5, <1>6 DEF LedgerInv
<1>8. token[t].kind # "none"
  BY <1>1 DEF IInv, HandlerInv
<1>9. /\ PhaseOf(token'[t], hist'.redeemed[t]) = "closed"
      /\ \A k \in Tokens \ {t} :
             /\ PhaseOf(token'[k], hist'.redeemed[k]) =
                    PhaseOf(token[k], hist.redeemed[k])
             /\ hist'.redeemed[k] = hist.redeemed[k]
  BY <1>4, <1>5, <1>6, <1>8 DEF PhaseOf
<1>10. /\ Idle \in Handler /\ Idle.at # "redeem"
       /\ req' = [req EXCEPT ![r] = Idle]
  BY <1>2 DEF Idle, Handler, Respond
<1>11. /\ HoldersIn(req', t) = HoldersIn(req, t) \ {r}
       /\ r \in HoldersIn(req, t)
       /\ \A k \in Tokens \ {t} : HoldersIn(req', k) = HoldersIn(req, k)
  <2>1. \A k \in Tokens :
          /\ HoldersIn(req', k) =
                 IF Idle.at = "redeem" /\ Idle.token = k
                 THEN HoldersIn(req, k) \cup {r} ELSE HoldersIn(req, k) \ {r}
          /\ r \in HoldersIn(req, k) <=>
                 req[r].at = "redeem" /\ req[r].token = k
    BY <1>10, HoldersChange
  <2>2. \A k \in Tokens : HoldersIn(req', k) = HoldersIn(req, k) \ {r}
    BY <1>10, <2>1
  <2>3. \A k \in Tokens : r \in HoldersIn(req, k) <=> k = t
    BY <1>1, <2>1
  <2> QED BY <2>2, <2>3
<1>12. [TokenLedger!Next]_(TokenLedger!vars)
  BY <1>9, <1>11, TokenMoves
<1> QED BY <1>7, <1>12

(* A token that expires is closed, unless it is already.                    *)
LEMMA LapseLedger ==
    ASSUME IInv, LedgerInv, NEW t \in Tokens, Lapse(t)
    PROVE  LedgerInv' /\ [TokenLedger!Next]_(TokenLedger!vars)
<1>1. UNCHANGED <<req, hist>> /\ token[t].kind # "none" /\ ~token[t].lapsed
  BY DEF Lapse
<1>2. \A k \in Tokens :
          /\ token'[k].kind = token[k].kind /\ token'[k].used = token[k].used
          /\ token'[k].lapsed = (token[k].lapsed \/ k = t)
  BY DEF IInv, TypeOK, Token, Lapse
<1>3. LedgerInv'
  BY <1>1, <1>2 DEF LedgerInv
<1>4. \A k \in Tokens : /\ hist'.redeemed[k] = hist.redeemed[k]
                        /\ HoldersIn(req', k) = HoldersIn(req, k)
  BY <1>1
<1>5. /\ PhaseOf(token'[t], hist'.redeemed[t]) = "closed"
      /\ PhaseOf(token[t], hist.redeemed[t]) \in {"open", "closed"}
      /\ \A k \in Tokens \ {t} : PhaseOf(token'[k], hist'.redeemed[k]) =
                                     PhaseOf(token[k], hist.redeemed[k])
  BY <1>1, <1>2 DEF PhaseOf
<1>6. [TokenLedger!Next]_(TokenLedger!vars)
  BY <1>4, <1>5, TokenMoves
<1> QED BY <1>3, <1>6

(* A handler that fails leaves the token it holds as it is.                 *)
LEMMA FailLedger ==
    ASSUME IInv, LedgerInv, NEW r \in Requests, Fail(r)
    PROVE  LedgerInv' /\ [TokenLedger!Next]_(TokenLedger!vars)
<1>1. /\ Idle \in Handler /\ Idle.at # "redeem"
      /\ req' = [req EXCEPT ![r] = Idle] /\ token' = token
  BY DEF Idle, Handler, Fail, Respond
<1>2. hist'.redeemed = hist.redeemed
  BY DEF Fail, IInv, TypeOK
<1>3. CASE req[r].at # "redeem"
  <2>1. /\ req'[r].at # "redeem"
        /\ \A s \in Requests : s # r => req'[s] = req[s]
    BY <1>1 DEF IInv, TypeOK
  <2> QED BY <1>1, <1>2, <1>3, <2>1, Uninvolved
<1>4. CASE req[r].at = "redeem"
  <2>1. PICK t \in Tokens : t = req[r].token
    BY <1>4 DEF IInv, HandlerInv
  <2>2. LedgerInv'
    BY <1>1, <1>2 DEF LedgerInv
  <2>3. \A k \in Tokens : /\ PhaseOf(token'[k], hist'.redeemed[k]) =
                                 PhaseOf(token[k], hist.redeemed[k])
                          /\ hist'.redeemed[k] = hist.redeemed[k]
    BY <1>1, <1>2
  <2>4. /\ HoldersIn(req', t) = HoldersIn(req, t) \ {r}
        /\ r \in HoldersIn(req, t)
        /\ \A k \in Tokens \ {t} : HoldersIn(req', k) = HoldersIn(req, k)
    <3>1. \A k \in Tokens :
            /\ HoldersIn(req', k) =
                   IF Idle.at = "redeem" /\ Idle.token = k
                   THEN HoldersIn(req, k) \cup {r} ELSE HoldersIn(req, k) \ {r}
            /\ r \in HoldersIn(req, k) <=>
                   req[r].at = "redeem" /\ req[r].token = k
      BY <1>1, HoldersChange
    <3>2. \A k \in Tokens : HoldersIn(req', k) = HoldersIn(req, k) \ {r}
      BY <1>1, <3>1
    <3>3. \A k \in Tokens : r \in HoldersIn(req, k) <=> k = t
      BY <1>4, <2>1, <3>1
    <3> QED BY <3>2, <3>3
  <2>5. [TokenLedger!Next]_(TokenLedger!vars)
    <3>1. PICK p : p = PhaseOf(token[t], hist.redeemed[t])
      OBVIOUS
    <3>2. p = PhaseOf(token'[t], hist'.redeemed[t])
      BY <2>3, <3>1
    <3> QED BY <2>3, <2>4, <3>1, <3>2, TokenMoves
  <2> QED BY <2>2, <2>5
<1> QED BY <1>3, <1>4

(* Every step is a step of CheckedWrites.                                   *)
LEMMA NextLedger ==
    IInv /\ LedgerInv /\ [Next]_vars =>
        LedgerInv' /\ [TokenLedger!Next]_(TokenLedger!vars)
<1> SUFFICES ASSUME IInv, LedgerInv, [Next]_vars
             PROVE  LedgerInv' /\ [TokenLedger!Next]_(TokenLedger!vars)
  OBVIOUS
<1>1. CASE UNCHANGED <<token, req, hist>>
  <2>1. LedgerInv'
    BY <1>1 DEF LedgerInv
  <2>2. [TokenLedger!Next]_(TokenLedger!vars)
    BY <1>1, NothingMoves
  <2> QED BY <2>1, <2>2
<1>2. ASSUME NEW t \in Tokens, Lapse(t)
      PROVE  LedgerInv' /\ [TokenLedger!Next]_(TokenLedger!vars)
  BY <1>2, LapseLedger
<1>3. ASSUME NEW u \in Users, EditUser(u)
      PROVE  LedgerInv' /\ [TokenLedger!Next]_(TokenLedger!vars)
  <2>1. /\ UNCHANGED <<token, req>> /\ hist'.redeemed = hist.redeemed
    BY <1>3 DEF EditUser, IInv, TypeOK
  <2>2. LedgerInv'
    BY <2>1 DEF LedgerInv
  <2>3. [TokenLedger!Next]_(TokenLedger!vars)
    BY <2>1, NothingMoves
  <2> QED BY <2>2, <2>3
<1>4. ASSUME NEW r \in Requests, Arrive(r)
      PROVE  LedgerInv' /\ [TokenLedger!Next]_(TokenLedger!vars)
  <2>1. CASE \E t \in Tokens : Present(r, t)
    BY <2>1, PresentLedger
  <2>2. ASSUME NEW u \in Users,
               \/ Register(r, u) \/ CreateTrainer(r, u)
               \/ ResendVerification(r, u) \/ RequestReset(r, u)
               \/ Deactivate(r, u) \/ Reactivate(r, u) \/ Delete(r, u)
        PROVE  LedgerInv' /\ [TokenLedger!Next]_(TokenLedger!vars)
    <3>1. /\ req[r].at # "redeem" /\ req'[r].at # "redeem"
          /\ \A s \in Requests : s # r => req'[s] = req[s]
          /\ token' = token /\ hist' = hist
      BY <2>2 DEF Register, CreateTrainer, ResendVerification, RequestReset,
                  Deactivate, Reactivate, Delete, Checked, Idle, IInv, TypeOK
    <3> QED BY <3>1, Uninvolved
  <2> QED BY <1>4, <2>1, <2>2 DEF Arrive
<1>5. ASSUME NEW r \in Requests, Continue(r)
      PROVE  LedgerInv' /\ [TokenLedger!Next]_(TokenLedger!vars)
  <2>1. CASE Redeem(r)
    BY <2>1, RedeemLedger
  <2>2. ASSUME Respond(r), token' = token, hist' = hist,
               req[r].at # "redeem"
        PROVE  LedgerInv' /\ [TokenLedger!Next]_(TokenLedger!vars)
    <3>1. /\ req'[r].at # "redeem"
          /\ \A s \in Requests : s # r => req'[s] = req[s]
      BY <2>2, Released DEF Idle
    <3> QED BY <2>2, <3>1, Uninvolved
  <2>3. CASE WriteStatus(r) \/ WriteDeletion(r)
    <3>1. Respond(r) /\ token' = token /\ hist' = hist /\ req[r].at # "redeem"
      BY <2>3 DEF WriteStatus, WriteDeletion
    <3> QED BY <2>2, <3>1
  <2>4. CASE InsertToken(r)
    <3>1. /\ req[r].kind \in Kinds /\ req[r].user \in Users /\ Respond(r)
          /\ req[r].at # "redeem" /\ hist' = hist
      BY <2>4 DEF InsertToken, IInv, HandlerInv
    <3>2. PICK t \in Free : Issue(t, req[r].kind, req[r].user)
      BY <2>4 DEF InsertToken
    <3> QED BY <3>1, <3>2, IssueLedger
  <2>5. CASE CreateUser(r)
    <3>1. /\ Respond(r) /\ req[r].user \in Users /\ "verify" \in Kinds
          /\ req[r].at # "redeem" /\ hist' = hist
      BY <2>5 DEF CreateUser, IInv, HandlerInv, Kinds
    <3>2. CASE token' = token
      BY <2>2, <3>1, <3>2
    <3>3. CASE \E t \in Free : Issue(t, "verify", req[r].user)
      BY <3>1, <3>3, IssueLedger
    <3> QED BY <2>5, <3>2, <3>3 DEF CreateUser
  <2>6. CASE InsertTrainer(r)
    <3>1. token' = token /\ hist' = hist /\ req[r].at # "redeem"
      BY <2>6 DEF InsertTrainer
    <3>2. CASE Respond(r)
      BY <2>2, <3>1, <3>2
    <3>3. CASE req' = [req EXCEPT ![r].at = "setup", ![r].kind = "reset"]
      <4>1. /\ \A s \in Requests : s # r => req'[s] = req[s]
            /\ req'[r].at # "redeem"
        BY <3>3 DEF IInv, TypeOK, Handler
      <4> QED BY <3>1, <4>1, Uninvolved
    <3> QED BY <2>6, <3>2, <3>3 DEF InsertTrainer
  <2> QED BY <1>5, <2>1, <2>3, <2>4, <2>5, <2>6 DEF Continue
<1>6. ASSUME NEW r \in Requests, Fail(r)
      PROVE  LedgerInv' /\ [TokenLedger!Next]_(TokenLedger!vars)
  BY <1>6, FailLedger
<1> QED BY <1>1, <1>2, <1>3, <1>4, <1>5, <1>6 DEF Next, vars

(* However many confirmations of a token overlap with each other and with   *)
(* its expiry, each redeems it at most once, on the strength of its own     *)
(* look, and none that looks after the first redemption or the expiry does. *)
(* (verifyEmail, confirm.)                                                  *)
THEOREM RedemptionsChecked == Spec => RedemptionsAreChecked
<1>1. Init => LedgerInv /\ TokenLedger!Init
  BY DEF Init, LedgerInv, TokenLedger!Init, TokenPhase, TokenTakers, NoToken,
         Idle
<1> QED BY <1>1, NextLedger, InductiveInvariant, PTL
        DEF Spec, RedemptionsAreChecked, TokenLedger!Spec
=============================================================================
