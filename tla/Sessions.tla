------------------------------ MODULE Sessions ------------------------------
(***************************************************************************)
(* Refresh-token sessions and super-admin impersonation of the backend:    *)
(* TokenService, the login and logout handlers of AuthService,             *)
(* ImpersonationService and the leaf closeOpenImpersonationLog.            *)
(*                                                                         *)
(* A handler runs to its next `await prisma...` without interruption and   *)
(* any other handler may run while it waits, so there is one action per    *)
(* database call, together with the code that runs up to the next one.     *)
(* req[r] holds what handler r has in its local variables.  A handler may  *)
(* stop at any await (Fail): a database error or the end of the process.   *)
(*                                                                         *)
(* The clock counts abstract milliseconds.  Credentials are abstracted: a  *)
(* failed login changes nothing, so Login stands for the accepted ones.    *)
(***************************************************************************)
EXTENDS Naturals, FiniteSets

CONSTANTS Users,            \* accounts of any role but SUPER_ADMIN
          Admins,           \* accounts of role SUPER_ADMIN
          TokenIds,         \* RefreshToken rows that may ever be created
          LogIds,           \* ImpersonationLog rows that may ever be created
          Requests,         \* handlers that may be in flight together
          RefreshTtl,       \* JWT_REFRESH_EXPIRES_IN_MS
          ImpersonationTtl, \* ONE_HOUR_MS
          MaxTime,          \* bound of the clock
          ClockLag,         \* ticks that may pass between two synchronous reads
          MayFail,          \* whether a handler may stop at an await
          None              \* SQL NULL, undefined, "no row"

Accounts == Users \cup Admins

ASSUME AccountsAssumption == Users \cap Admins = {}
ASSUME TtlAssumption == /\ RefreshTtl \in Nat \ {0}
                        /\ ImpersonationTtl \in Nat \ {0}
                        /\ MaxTime \in Nat
                        /\ ClockLag \in Nat
ASSUME NoneAssumption == /\ None \notin Accounts
                         /\ None \notin TokenIds
                         /\ None \notin LogIds
                         /\ None \notin Nat

VARIABLES now,      \* Date.now()
          token,    \* table RefreshToken
          log,      \* table ImpersonationLog
          held,     \* tokens some client received in a response
          req,      \* handlers in flight
          hist      \* what produced each token; read by properties only

vars == <<now, token, log, held, req, hist>>

-----------------------------------------------------------------------------
(* Rows and handlers.                                                      *)

TokenRow == [state : {"unused", "live", "revoked"}, user : Accounts \cup {None},
             by : Admins \cup {None}, expires : Nat, cap : Nat \cup {None}]

UnusedToken == [state |-> "unused", user |-> None, by |-> None,
                expires |-> 0, cap |-> None]

LogRow == [state : {"unused", "open", "closed"}, admin : Admins \cup {None},
           target : Users \cup {None}, startedAt : Nat]

UnusedLog == [state |-> "unused", admin |-> None, target |-> None,
              startedAt |-> 0]

(* The await a handler is suspended at, named for the call it resumes with. *)
Stages == {"idle", "loginIssue", "loginTouch",
           "refreshRevoke", "refreshIssue",
           "startIssue", "startLog",
           "logoutRevoke", "findLog", "closeLog"}

Handler == [at : Stages, tok : TokenIds \cup {None},
            user : Accounts \cup {None}, by : Admins \cup {None},
            row : LogIds \cup {None}]

Idle == [at |-> "idle", tok |-> None, user |-> None, by |-> None, row |-> None]

(* parent: the token a refresh replaced.  For an impersonation session,    *)
(* origin: when it was started, and lag: the ticks its refreshes lost      *)
(* between computing the remaining lifetime and adding it to the clock.    *)
History == [parent : TokenIds \cup {None}, origin : Nat, lag : Nat]

NoHistory == [parent |-> None, origin |-> 0, lag |-> 0]

TypeOK ==
    /\ now \in Nat
    /\ token \in [TokenIds -> TokenRow]
    /\ log \in [LogIds -> LogRow]
    /\ held \in SUBSET TokenIds
    /\ req \in [Requests -> Handler]
    /\ hist \in [TokenIds -> History]

Init ==
    /\ now = 0
    /\ token = [k \in TokenIds |-> UnusedToken]
    /\ log = [l \in LogIds |-> UnusedLog]
    /\ held = {}
    /\ req = [r \in Requests |-> Idle]
    /\ hist = [k \in TokenIds |-> NoHistory]

-----------------------------------------------------------------------------
(* Mutant of IssuedRow: `||` for `??`, an override of 0 means the default.  *)
IssuedRowDefaultsZero(user, by, override, time) ==
    [state |-> "live", user |-> user, by |-> by, cap |-> None,
     expires |-> time + IF override \in {None, 0} THEN RefreshTtl
                                                  ELSE override]

(* TokenService.issuePair: the row it inserts when the clock shows time.   *)
(* `??` replaces only a missing override, so an override of 0 is used as a *)
(* lifetime; `override ? expiresAt : null` treats 0 as no cap.             *)
IssuedRow(user, by, override, time) ==
    LET ttl == IF override = None THEN RefreshTtl ELSE override
        expiresAt == time + ttl
    IN  [state |-> "live", user |-> user, by |-> by, expires |-> expiresAt,
         cap |-> IF override \in {None, 0} THEN None ELSE expiresAt]

(* prisma.refreshToken.create: k is a fresh primary key.                   *)
Insert(k, row, ghost) ==
    /\ token[k].state = "unused"
    /\ token' = [token EXCEPT ![k] = row]
    /\ hist' = [hist EXCEPT ![k] = ghost]

RevokedToken(k) == [token EXCEPT ![k].state = "revoked"]

Resume(r, stage) == req' = [req EXCEPT ![r].at = stage]

Suspend(r, handler) == req' = [req EXCEPT ![r] = handler]

Respond(r) == req' = [req EXCEPT ![r] = Idle]

(* Bounds: a handler that will create rows starts only while the tables    *)
(* have room for them, so that no handler waits for room.                  *)
TokensLeft ==
    Cardinality({r \in Requests : req[r].at \in {"loginIssue", "startIssue",
                                      "refreshRevoke", "refreshIssue"}})
        < Cardinality({k \in TokenIds : token[k].state = "unused"})

LogsLeft ==
    Cardinality({r \in Requests : req[r].at \in {"startIssue", "startLog"}})
        < Cardinality({l \in LogIds : log[l].state = "unused"})

Begin(r, handler) ==
    /\ req[r].at = "idle"
    /\ req' = [req EXCEPT ![r] = handler]

-----------------------------------------------------------------------------
(* AuthService.login: the user row is read and the password compared ...   *)
Login(r, u) ==
    /\ TokensLeft
    /\ Begin(r, [Idle EXCEPT !.at = "loginIssue", !.user = u])
    /\ UNCHANGED <<now, token, log, held, hist>>

(* Mutant of LoginIssue: the pair is not awaited.                          *)
LoginIssueUnawaited(r, k) ==
    /\ req[r].at = "loginIssue"
    /\ Insert(k, IssuedRow(req[r].user, None, None, now), NoHistory)
    /\ Resume(r, "loginTouch")
    /\ UNCHANGED <<now, log, held>>

(* ... the token pair is created ...                                       *)
LoginIssue(r, k) ==
    /\ req[r].at = "loginIssue"
    /\ Insert(k, IssuedRow(req[r].user, None, None, now), NoHistory)
    /\ Suspend(r, [req[r] EXCEPT !.at = "loginTouch", !.tok = k])
    /\ UNCHANGED <<now, log, held>>

(* ... and the response is sent once lastLoginAt is written.               *)
LoginTouch(r) ==
    /\ req[r].at = "loginTouch"
    /\ held' = held \cup {req[r].tok}
    /\ Respond(r)
    /\ UNCHANGED <<now, token, log, hist>>

(* TokenService.refresh: the row is found unrevoked and unexpired; the     *)
(* other tokens are rejected and nothing changes.  The user row it reads   *)
(* next always exists, for users are never removed from the table.         *)
Refresh(r, k) ==
    /\ k \in held
    /\ token[k].state = "live"
    /\ now < token[k].expires
    /\ TokensLeft
    /\ Begin(r, [Idle EXCEPT !.at = "refreshRevoke", !.tok = k])
    /\ UNCHANGED <<now, token, log, held, hist>>

(* Mutant of RefreshRevoke: the old row is left as it is.                  *)
RefreshRevokeMissing(r) ==
    /\ req[r].at = "refreshRevoke"
    /\ Resume(r, "refreshIssue")
    /\ UNCHANGED <<now, token, log, held, hist>>

(* The update is by id: it succeeds whether or not the row was revoked     *)
(* since it was read.                                                      *)
RefreshRevoke(r) ==
    /\ req[r].at = "refreshRevoke"
    /\ token' = RevokedToken(req[r].tok)
    /\ Resume(r, "refreshIssue")
    /\ UNCHANGED <<now, log, held, hist>>

(* The remaining lifetime of an impersonation session, undefined for a     *)
(* regular one: Math.max(0, maxExpiresAt - Date.now()).                    *)
SlidTtl(cap) ==
    IF cap = None THEN None ELSE IF cap > now THEN cap - now ELSE 0

(* The lifetime is computed and the pair issued without an await, but the  *)
(* clock is read again, d ticks later, when the row's expiresAt is set.    *)
RefreshIssue(r, k, d) ==
    LET old == req[r].tok
    IN  /\ req[r].at = "refreshIssue"
        /\ now + d <= MaxTime
        /\ now' = now + d
        /\ Insert(k,
                  IssuedRow(token[old].user, token[old].by,
                            SlidTtl(token[old].cap), now + d),
                  [parent |-> old, origin |-> hist[old].origin,
                   lag |-> IF token[old].by = None THEN 0
                           ELSE hist[old].lag + d])
        /\ held' = held \cup {k}
        /\ Respond(r)
        /\ UNCHANGED log

(* ImpersonationService.start for a target that is not a super admin; the  *)
(* others are refused.                                                     *)
Start(r, a, u) ==
    /\ u \notin Admins
    /\ TokensLeft /\ LogsLeft
    /\ Begin(r, [Idle EXCEPT !.at = "startIssue", !.user = u, !.by = a])
    /\ UNCHANGED <<now, token, log, held, hist>>

(* Mutant of StartIssue: the pair is returned before the row is written.   *)
StartIssueAnswers(r, k) ==
    /\ req[r].at = "startIssue"
    /\ Insert(k, IssuedRow(req[r].user, req[r].by, ImpersonationTtl, now),
              [parent |-> None, origin |-> now, lag |-> 0])
    /\ Suspend(r, [req[r] EXCEPT !.at = "startLog", !.tok = k])
    /\ held' = held \cup {k}
    /\ UNCHANGED <<now, log>>

StartIssue(r, k) ==
    /\ req[r].at = "startIssue"
    /\ Insert(k, IssuedRow(req[r].user, req[r].by, ImpersonationTtl, now),
              [parent |-> None, origin |-> now, lag |-> 0])
    /\ Suspend(r, [req[r] EXCEPT !.at = "startLog", !.tok = k])
    /\ UNCHANGED <<now, log, held>>

(* The audit row is written after the pair exists, before it is returned.  *)
StartLog(r, l) ==
    /\ req[r].at = "startLog"
    /\ log[l].state = "unused"
    /\ log' = [log EXCEPT ![l] = [state |-> "open", admin |-> req[r].by,
                                  target |-> req[r].user, startedAt |-> now]]
    /\ held' = held \cup {req[r].tok}
    /\ Respond(r)
    /\ UNCHANGED <<now, token, hist>>

(* AuthService.logout: findActiveByRawToken reads the unrevoked row.       *)
(* Without one there is nothing to revoke and nothing to close.            *)
Logout(r, k) ==
    /\ k \in held
    /\ token[k].state = "live"
    /\ Begin(r, [at |-> "logoutRevoke", tok |-> k, user |-> token[k].user,
                 by |-> token[k].by, row |-> None])
    /\ UNCHANGED <<now, token, log, held, hist>>

LogoutRevoke(r) ==
    /\ req[r].at = "logoutRevoke"
    /\ token' = RevokedToken(req[r].tok)
    /\ IF req[r].by = None THEN Respond(r) ELSE Resume(r, "findLog")
    /\ UNCHANGED <<now, log, held, hist>>

(* ImpersonationService.exit, called with the access token of a session    *)
(* that impersonates; any other caller changes nothing.                    *)
Exit(r, k) ==
    /\ k \in held
    /\ token[k].by # None
    /\ Begin(r, [Idle EXCEPT !.at = "findLog", !.user = token[k].user,
                             !.by = token[k].by])
    /\ UNCHANGED <<now, token, log, held, hist>>

(* Mutant of OpenLogs: the query forgets the admin.                        *)
OpenLogsOfTarget(a, u) ==
    {l \in LogIds : log[l].state = "open" /\ log[l].target = u}

(* closeOpenImpersonationLog: the open rows of the pair, latest start      *)
(* first; rows started in the same millisecond come in any order.          *)
OpenLogs(a, u) ==
    {l \in LogIds : log[l].state = "open" /\ log[l].admin = a
                                          /\ log[l].target = u}

(* Mutant of FindLog: the early return is inverted.                        *)
FindLogInverted(r) ==
    /\ req[r].at = "findLog"
    /\ OpenLogs(req[r].by, req[r].user) # {}
    /\ Respond(r)
    /\ UNCHANGED <<now, token, log, held, hist>>

FindLog(r) ==
    LET open == OpenLogs(req[r].by, req[r].user)
    IN  /\ req[r].at = "findLog"
        /\ \/ open = {} /\ Respond(r)
           \/ \E l \in open :
                 /\ \A m \in open : log[m].startedAt <= log[l].startedAt
                 /\ Suspend(r, [req[r] EXCEPT !.at = "closeLog", !.row = l])
        /\ UNCHANGED <<now, token, log, held, hist>>

(* Also an update by id: a row closed meanwhile is closed again.           *)
CloseLog(r) ==
    /\ req[r].at = "closeLog"
    /\ log' = [log EXCEPT ![req[r].row].state = "closed"]
    /\ Respond(r)
    /\ UNCHANGED <<now, token, held, hist>>

(* A database error or the end of the process: what was awaited is lost.   *)
Fail(r) ==
    /\ MayFail
    /\ req[r].at # "idle"
    /\ Respond(r)
    /\ UNCHANGED <<now, token, log, held, hist>>

Tick ==
    /\ now < MaxTime
    /\ now' = now + 1
    /\ UNCHANGED <<token, log, held, req, hist>>

(* What a client may ask for, and how a handler goes on.                   *)
Arrive(r) ==
    \/ \E u \in Accounts : Login(r, u)
    \/ \E k \in TokenIds : Refresh(r, k) \/ Logout(r, k) \/ Exit(r, k)
    \/ \E a \in Admins, u \in Accounts : Start(r, a, u)

Continue(r) ==
    \/ LoginTouch(r) \/ RefreshRevoke(r) \/ LogoutRevoke(r)
    \/ FindLog(r) \/ CloseLog(r)
    \/ \E k \in TokenIds : LoginIssue(r, k) \/ StartIssue(r, k)
    \/ \E k \in TokenIds, d \in 0..ClockLag : RefreshIssue(r, k, d)
    \/ \E l \in LogIds : StartLog(r, l)

Next ==
    \/ Tick
    \/ \E r \in Requests : Arrive(r) \/ Continue(r) \/ Fail(r)

Spec == Init /\ [][Next]_vars

(* The event loop resumes every handler whose await has settled, and time  *)
(* goes on; clients need not ask for anything.                             *)
Fairness == /\ WF_vars(Tick)
            /\ \A r \in Requests : WF_vars(Continue(r))

FairSpec == Spec /\ Fairness

-----------------------------------------------------------------------------
(* Properties.                                                             *)

Usable(k) == token[k].state = "live" /\ now < token[k].expires

(* A refresh exchanges a revoked token, never one that still works, and    *)
(* the session it continues keeps its user and its impersonating admin.    *)
(* (TokenService.refresh revokes before it issues.)                        *)
RefreshReplaces ==
    \A k \in TokenIds :
        LET p == hist[k].parent
        IN  p # None => /\ token[p].state = "revoked"
                        /\ token[k].user = token[p].user
                        /\ token[k].by = token[p].by

(* However often an impersonation session is refreshed, and however long   *)
(* its handlers wait, its tokens stop working ImpersonationTtl after its   *)
(* start, but for the ticks lost between the two clock reads of each       *)
(* refresh.  (The cap carried by TokenService.refresh, with its zero case.)*)
ImpersonationBounded ==
    \A k \in TokenIds :
        token[k].by # None /\ Usable(k) =>
            token[k].expires <= hist[k].origin + ImpersonationTtl + hist[k].lag

(* Every impersonation session a client can use left an audit row of its   *)
(* admin and target, not older than the session, even if a handler failed  *)
(* half-way.  (ImpersonationService.start writes the row before it         *)
(* answers.)                                                               *)
ImpersonationLogged ==
    \A k \in held :
        token[k].by # None =>
            \E l \in LogIds : /\ log[l].state # "unused"
                              /\ log[l].admin = token[k].by
                              /\ log[l].target = token[k].user
                              /\ hist[k].origin <= log[l].startedAt

(* Exit and logout end the audit rows of the caller's own admin and target *)
(* pair, "never anyone else's".  (closeOpenImpersonationLog.)              *)
ClosesOwnPair ==
    [][\A l \in LogIds :
          log[l].state = "open" /\ log'[l].state = "closed" =>
              \E r \in Requests : /\ req[r].at = "closeLog"
                                  /\ req'[r].at = "idle"
                                  /\ req[r].by = log[l].admin
                                  /\ req[r].user = log[l].target]_vars

ClosedLogs(a, u) ==
    {l \in LogIds : log[l].state = "closed" /\ log[l].admin = a
                                            /\ log[l].target = u}

(* When a logout or exit goes to close the audit row of its pair and finds *)
(* one open, a row of the pair ends that had not ended before, whatever    *)
(* other closers do meanwhile.  (closeOpenImpersonationLog, with no        *)
(* failure.)                                                               *)
CloserEndsARow ==
    \A a \in Admins, u \in Users, r \in Requests, ended \in SUBSET LogIds :
        (/\ req[r].at = "findLog" /\ req[r].by = a /\ req[r].user = u
         /\ OpenLogs(a, u) # {} /\ ClosedLogs(a, u) = ended)
        ~> (\E l \in LogIds \ ended : l \in ClosedLogs(a, u))
=============================================================================
