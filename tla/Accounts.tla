------------------------------- MODULE Accounts -------------------------------
(***************************************************************************)
(* The life of an account: registration or creation by a super admin,      *)
(* verification and password reset by one-time tokens, deactivation,       *)
(* reactivation, deletion and editing.  Nearly every operation reads in    *)
(* one call and writes, by id, in another; what it read may have changed   *)
(* in between.  The photo that a deletion removes is left to Profiles, the *)
(* profile of a registered player to Families.                             *)
(***************************************************************************)
EXTENDS Naturals, FiniteSets

CONSTANTS Users,    \* accounts that may come to exist, each with an address
          Tokens,   \* rows of EmailVerificationToken and PasswordResetToken
          Requests, \* handlers that may be in flight together
          None

ASSUME NoneAssumption == None \notin Users \cup Tokens

VARIABLES user,  \* table User, and whether Profile shows personal data
          token, \* tables EmailVerificationToken and PasswordResetToken
          log,   \* UserDeletionLog: <<account, address backed up>>
          req,   \* handlers in flight
          hist   \* history: redemptions of each token, trainers whose
                 \* creation stopped, accounts edited after their deletion

vars == <<user, token, log, req, hist>>

-----------------------------------------------------------------------------
Emails == {"own", "anonymised"}
Kinds == {"verify", "reset"}

(* password is "random" until somebody chose one.                          *)
User == [status : {"NONE", "ACTIVE", "INACTIVE", "DELETED"}, email : Emails,
         role : {"PLAYER", "TRAINER"}, verified : BOOLEAN,
         password : {"random", "chosen"}, named : BOOLEAN]

NoUser == [status |-> "NONE", email |-> "own", role |-> "PLAYER",
           verified |-> FALSE, password |-> "random", named |-> FALSE]

Token == [kind : Kinds \cup {"none"}, user : Users \cup {None},
          used : BOOLEAN, lapsed : BOOLEAN]

NoToken == [kind |-> "none", user |-> None, used |-> FALSE, lapsed |-> FALSE]

(* A handler that is not idle has made its checks and is about to write: a *)
(* deletion with the address it read, "token" and "setup" (of a new        *)
(* trainer) a token of its kind.                                           *)
Handler == [at : {"idle", "register", "trainer", "setup", "token", "redeem",
                  "deactivate", "reactivate", "delete"},
            user : Users \cup {None}, token : Tokens \cup {None},
            kind : Kinds \cup {None}, email : Emails \cup {None}]

Idle == [at |-> "idle", user |-> None, token |-> None, kind |-> None,
         email |-> None]

TypeOK ==
    /\ user \in [Users -> User]
    /\ token \in [Tokens -> Token]
    /\ log \in SUBSET (Users \X Emails)
    /\ req \in [Requests -> Handler]
    /\ hist \in [redeemed : [Tokens -> Nat], stopped : SUBSET Users,
                 edited : SUBSET Users]

Init ==
    /\ user = [u \in Users |-> NoUser]
    /\ token = [t \in Tokens |-> NoToken]
    /\ log = {}
    /\ req = [r \in Requests |-> Idle]
    /\ hist = [redeemed |-> [t \in Tokens |-> 0], stopped |-> {},
               edited |-> {}]

-----------------------------------------------------------------------------
Checked(r, handler) ==
    /\ req[r].at = "idle"
    /\ req' = [req EXCEPT ![r] = handler]
    /\ UNCHANGED <<user, token, log>>

Respond(r) == req' = [req EXCEPT ![r] = Idle]

Exists(u) == user[u].status # "NONE"

(* findUnique by the address of u: an anonymised one is nobody's.          *)
Found(u) == Exists(u) /\ user[u].email = "own"

Free == {t \in Tokens : token[t].kind = "none"}

(* Tokens left for the handlers that insert one and another: a bound.      *)
TokensLeft ==
    Cardinality(Free) > Cardinality(
        {r \in Requests : req[r].at \in {"register", "trainer", "setup",
                                         "token"}})

Issue(t, kind, u) ==
    token' = [token EXCEPT ![t] = [kind |-> kind, user |-> u, used |-> FALSE,
                                   lapsed |-> FALSE]]

-----------------------------------------------------------------------------
(* Registration and creation.                                              *)

Register(r, u) ==
    /\ ~Exists(u) /\ TokensLeft
    /\ Checked(r, [Idle EXCEPT !.at = "register", !.user = u])
    /\ UNCHANGED hist

(* Mutant of CreateUser: the token is inserted after the transaction.      *)
CreateUserAlone(r) ==
    LET u == req[r].user
    IN  /\ req[r].at = "register"
        /\ IF Exists(u)
           THEN Respond(r) /\ UNCHANGED user
           ELSE /\ user' = [user EXCEPT ![u] =
                              [NoUser EXCEPT !.status = "ACTIVE",
                                             !.named = TRUE,
                                             !.password = "chosen"]]
                /\ req' = [req EXCEPT ![r].at = "token", ![r].kind = "verify"]
        /\ UNCHANGED <<token, log, hist>>

(* One transaction; the unique index refuses the second of two.            *)
CreateUser(r) ==
    LET u == req[r].user
    IN  /\ req[r].at = "register"
        /\ \/ Exists(u) /\ UNCHANGED <<user, token>>
           \/ /\ ~Exists(u)
              /\ user' = [user EXCEPT ![u] =
                            [NoUser EXCEPT !.status = "ACTIVE", !.named = TRUE,
                                           !.password = "chosen"]]
              /\ \E t \in Free : Issue(t, "verify", u)
        /\ Respond(r)
        /\ UNCHANGED <<log, hist>>

CreateTrainer(r, u) ==
    /\ ~Exists(u) /\ TokensLeft
    /\ Checked(r, [Idle EXCEPT !.at = "trainer", !.user = u])
    /\ UNCHANGED hist

(* The set-up token, a reset token that lives longer, comes after the      *)
(* transaction, in a call of its own.                                      *)
InsertTrainer(r) ==
    LET u == req[r].user
    IN  /\ req[r].at = "trainer"
        /\ IF Exists(u)
           THEN Respond(r) /\ UNCHANGED user
           ELSE /\ user' = [user EXCEPT ![u] =
                              [NoUser EXCEPT !.status = "ACTIVE",
                                             !.role = "TRAINER",
                                             !.named = TRUE,
                                             !.verified = TRUE]]
                /\ req' = [req EXCEPT ![r].at = "setup", ![r].kind = "reset"]
        /\ UNCHANGED <<token, log, hist>>

-----------------------------------------------------------------------------
(* One-time tokens.                                                        *)

ResendVerification(r, u) ==
    /\ Found(u) /\ ~user[u].verified /\ TokensLeft
    /\ Checked(r, [Idle EXCEPT !.at = "token", !.user = u, !.kind = "verify"])
    /\ UNCHANGED hist

RequestReset(r, u) ==
    /\ Found(u) /\ TokensLeft
    /\ Checked(r, [Idle EXCEPT !.at = "token", !.user = u, !.kind = "reset"])
    /\ UNCHANGED hist

(* createResetToken and its like; the e-mail follows.                      *)
InsertToken(r) ==
    /\ req[r].at \in {"setup", "token"}
    /\ \E t \in Free : Issue(t, req[r].kind, req[r].user)
    /\ Respond(r)
    /\ UNCHANGED <<user, log, hist>>

(* Mutant of Present: usedAt is not looked at.                             *)
PresentAgain(r, t) ==
    /\ token[t].kind # "none" /\ ~token[t].lapsed
    /\ hist.redeemed[t] < 2
    /\ Checked(r, [Idle EXCEPT !.at = "redeem", !.token = t])
    /\ UNCHANGED hist

(* verifyEmail and confirm refuse a token that is used or has expired.     *)
Present(r, t) ==
    /\ token[t].kind # "none" /\ ~token[t].used /\ ~token[t].lapsed
    /\ Checked(r, [Idle EXCEPT !.at = "redeem", !.token = t])
    /\ UNCHANGED hist

(* Mutant of Redeem: only an active account is updated.                    *)
RedeemIfActive(r) ==
    LET t == req[r].token
        u == token[t].user
    IN  /\ req[r].at = "redeem"
        /\ user' = IF user[u].status # "ACTIVE" THEN user
                   ELSE IF token[t].kind = "verify"
                   THEN [user EXCEPT ![u].verified = TRUE]
                   ELSE [user EXCEPT ![u].password = "chosen"]
        /\ token' = [token EXCEPT ![t].used = TRUE]
        /\ Respond(r)
        /\ hist' = [hist EXCEPT !.redeemed[t] = hist.redeemed[t] + 1]
        /\ UNCHANGED log

(* One transaction, by id: the account and the token.                      *)
Redeem(r) ==
    LET t == req[r].token
        u == token[t].user
    IN  /\ req[r].at = "redeem"
        /\ user' = IF token[t].kind = "verify"
                   THEN [user EXCEPT ![u].verified = TRUE]
                   ELSE [user EXCEPT ![u].password = "chosen"]
        /\ token' = [token EXCEPT ![t].used = TRUE]
        /\ Respond(r)
        /\ hist' = [hist EXCEPT !.redeemed[t] = hist.redeemed[t] + 1]
        /\ UNCHANGED log

(* expiresAt has passed.                                                   *)
Lapse(t) ==
    /\ token[t].kind # "none" /\ ~token[t].lapsed
    /\ token' = [token EXCEPT ![t].lapsed = TRUE]
    /\ UNCHANGED <<user, log, req, hist>>

-----------------------------------------------------------------------------
(* Administration.                                                         *)

Deactivate(r, u) ==
    /\ Exists(u) /\ user[u].status # "DELETED"
    /\ Checked(r, [Idle EXCEPT !.at = "deactivate", !.user = u])
    /\ UNCHANGED hist

Reactivate(r, u) ==
    /\ user[u].status = "INACTIVE"
    /\ Checked(r, [Idle EXCEPT !.at = "reactivate", !.user = u])
    /\ UNCHANGED hist

(* Mutant of Delete: the address is not read.                              *)
DeleteWithoutBackup(r, u) ==
    /\ Exists(u) /\ user[u].status # "DELETED"
    /\ Checked(r, [Idle EXCEPT !.at = "delete", !.user = u, !.email = "none"])
    /\ UNCHANGED hist

Delete(r, u) ==
    /\ Exists(u) /\ user[u].status # "DELETED"
    /\ Checked(r, [Idle EXCEPT !.at = "delete", !.user = u,
                               !.email = user[u].email])
    /\ UNCHANGED hist

WriteStatus(r) ==
    /\ req[r].at \in {"deactivate", "reactivate"}
    /\ user' = [user EXCEPT ![req[r].user].status =
                  IF req[r].at = "deactivate" THEN "INACTIVE" ELSE "ACTIVE"]
    /\ Respond(r)
    /\ UNCHANGED <<token, log, hist>>

(* Mutant of WriteDeletion: the address is read after it was overwritten.  *)
WriteDeletionRereads(r) ==
    LET u == req[r].user
    IN  /\ req[r].at = "delete"
        /\ user' = [user EXCEPT ![u].status = "DELETED",
                                ![u].email = "anonymised",
                                ![u].named = FALSE]
        /\ log' = log \cup {<<u, user'[u].email>>}
        /\ Respond(r)
        /\ UNCHANGED <<token, hist>>

(* One transaction: the account and its profile are anonymised, and the    *)
(* deletion recorded with the address the handler read before.             *)
WriteDeletion(r) ==
    LET u == req[r].user
    IN  /\ req[r].at = "delete"
        /\ user' = [user EXCEPT ![u].status = "DELETED",
                                ![u].email = "anonymised",
                                ![u].named = FALSE]
        /\ log' = log \cup {<<u, req[r].email>>}
        /\ Respond(r)
        /\ UNCHANGED <<token, hist>>

(* editUser writes the submitted profile fields; no status is checked.  A  *)
(* deleted user's token that still works does the same with PATCH          *)
(* /profile/me.                                                            *)
EditUser(u) ==
    /\ Exists(u)
    /\ user' = [user EXCEPT ![u].named = TRUE]
    /\ hist' = [hist EXCEPT !.edited = hist.edited \cup
                   {v \in {u} : user[v].email = "anonymised"}]
    /\ UNCHANGED <<token, log, req>>

-----------------------------------------------------------------------------
(* A database error or the end of the process.                             *)
Fail(r) ==
    /\ req[r].at # "idle"
    /\ hist' = [hist EXCEPT !.stopped = hist.stopped \cup
                   {u \in {req[r].user} : req[r].at = "setup"}]
    /\ Respond(r)
    /\ UNCHANGED <<user, token, log>>

Arrive(r) ==
    \/ \E t \in Tokens : Present(r, t)
    \/ \E u \in Users :
          \/ Register(r, u) \/ CreateTrainer(r, u)
          \/ ResendVerification(r, u) \/ RequestReset(r, u)
          \/ Deactivate(r, u) \/ Reactivate(r, u) \/ Delete(r, u)

Continue(r) ==
    \/ CreateUser(r) \/ InsertTrainer(r) \/ InsertToken(r) \/ Redeem(r)
    \/ WriteStatus(r) \/ WriteDeletion(r)

Next ==
    \/ \E t \in Tokens : Lapse(t)
    \/ \E u \in Users : EditUser(u)
    \/ \E r \in Requests : Arrive(r) \/ Continue(r) \/ Fail(r)

Spec == Init /\ [][Next]_vars

-----------------------------------------------------------------------------
(* Properties.                                                             *)

(* The address of every account that was deleted survives in the deletion  *)
(* log, and a deleted account shows no personal data unless it is edited   *)
(* again: however deletions, deactivations, reactivations and edits of one *)
(* account overlap (deleteUser reads the address before its transaction    *)
(* overwrites it).                                                         *)
DeletionRecorded == \A u \in Users :
    /\ user[u].status = "DELETED" => user[u].email = "anonymised"
    /\ user[u].email = "anonymised" =>
          /\ <<u, "own">> \in log
          /\ user[u].named => u \in hist.edited

(* A token, and the handlers that found it good, as CheckedWrites has them. *)
TokenPhase(t) ==
    IF token[t].kind = "none" THEN "none"
    ELSE IF token[t].lapsed \/ hist.redeemed[t] > 0 THEN "closed" ELSE "open"

TokenTakers(t) == {r \in Requests : req[r].at = "redeem" /\ req[r].token = t}

TokenLedger == INSTANCE CheckedWrites
                   WITH Items <- Tokens, Handlers <- Requests,
                        phase <- [t \in Tokens |-> TokenPhase(t)],
                        value <- [t \in Tokens |-> hist.redeemed[t]],
                        takers <- [t \in Tokens |-> TokenTakers(t)]

(* Whoever redeems a token found it unused and not expired, and redeems it *)
(* once: two handlers that found it so together both redeem it, but nobody *)
(* does who looks after the first of them, or after its expiry.            *)
(* (verifyEmail, confirm.)                                                 *)
RedemptionsAreChecked == TokenLedger!Spec

(* A used token has had its effect: the account it was made for is         *)
(* verified, or its password somebody's choice, whatever happened to the   *)
(* account since.  (The transactions of verifyEmail and confirm.)          *)
UsedTokenHadEffect ==
    \A t \in Tokens :
        token[t].used =>
            IF token[t].kind = "verify" THEN user[token[t].user].verified
            ELSE user[token[t].user].password = "chosen"

(* Every account comes with the token that lets its owner in: a registered *)
(* one with a verification token, a trainer with a set-up token unless the *)
(* handler that made the trainer is about to insert it or stopped before   *)
(* (then a password reset has to be asked for).  (register, createTrainer.)*)
AccountsCanBeEntered ==
    \A u \in Users :
        Exists(u) =>
            \/ \E t \in Tokens :
                  /\ token[t].user = u
                  /\ token[t].kind = IF user[u].role = "TRAINER"
                                     THEN "reset" ELSE "verify"
            \/ /\ user[u].role = "TRAINER"
               /\ \/ u \in hist.stopped
                  \/ \E r \in Requests : req[r].at = "setup" /\ req[r].user = u

(* "A DELETED user can never be resurrected": the status DELETED is never  *)
(* left.                                                                   *)
DeletedForever ==
    [][\A u \in Users : user[u].status = "DELETED" =>
                            user'[u].status = "DELETED"]_vars
=============================================================================
