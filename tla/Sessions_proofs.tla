--------------------------- MODULE Sessions_proofs ---------------------------
(* Proofs about Sessions, for any sets of accounts, rows and handlers, any  *)
(* lifetimes and any clock.                                                 *)
EXTENDS Sessions, TLAPS

(* What a suspended handler knows about the row it holds.  A refresh works  *)
(* for a token that was usable when it was read, so a refresh of an         *)
(* impersonation session always has a cap to respect.                       *)
RefreshInv(r) ==
    req[r].at \in {"refreshRevoke", "refreshIssue"} =>
        /\ req[r].tok \in held
        /\ token[req[r].tok].by # None => token[req[r].tok].cap # None
        /\ req[r].at = "refreshIssue" => token[req[r].tok].state = "revoked"

LoginInv(r) ==
    /\ req[r].at = "loginIssue" => req[r].user \in Accounts
    /\ req[r].at = "loginTouch" =>
           /\ req[r].tok \in TokenIds
           /\ token[req[r].tok].state # "unused"
           /\ token[req[r].tok].by = None

StartInv(r) ==
    /\ req[r].at \in {"startIssue", "startLog"} =>
           req[r].by \in Admins /\ req[r].user \in Users
    /\ req[r].at = "startLog" =>
           /\ req[r].tok \in TokenIds
           /\ token[req[r].tok].state # "unused"
           /\ token[req[r].tok].by = req[r].by
           /\ token[req[r].tok].user = req[r].user

CloseInv(r) ==
    /\ req[r].at = "logoutRevoke" =>
           /\ req[r].tok \in held
           /\ req[r].by # None => req[r].user \in Users
    /\ req[r].at \in {"findLog", "closeLog"} =>
           req[r].by \in Admins /\ req[r].user \in Users
    /\ req[r].at = "closeLog" =>
           /\ req[r].row \in LogIds
           /\ log[req[r].row].state # "unused"
           /\ log[req[r].row].admin = req[r].by
           /\ log[req[r].row].target = req[r].user

HandlerInv == \A r \in Requests :
                 RefreshInv(r) /\ LoginInv(r) /\ StartInv(r) /\ CloseInv(r)

(* A token of an impersonation session either carries the cap, which is the *)
(* moment it expires and lies at most lag past the allowed end, or was dead *)
(* when it was issued.                                                      *)
CapInv ==
    \A k \in TokenIds :
        token[k].by # None =>
            /\ token[k].cap = None => token[k].expires <= now
            /\ token[k].cap # None =>
                 /\ token[k].expires = token[k].cap
                 /\ token[k].cap <= hist[k].origin + ImpersonationTtl
                                                   + hist[k].lag

RowInv ==
    \A k \in TokenIds :
        /\ token[k].state = "unused" => token[k].by = None /\ k \notin held
                                        /\ hist[k].parent = None
        /\ token[k].state # "unused" => token[k].user \in Accounts
        /\ token[k].by # None => token[k].user \in Users
        /\ hist[k].origin <= now

IInv == /\ TypeOK
        /\ HandlerInv
        /\ RowInv
        /\ CapInv
        /\ RefreshReplaces
        /\ ImpersonationLogged

-----------------------------------------------------------------------------
(* The invariant holds at the start.                                        *)
LEMMA InitInv == Init => IInv
BY NoneAssumption, TtlAssumption
   DEF Init, IInv, TypeOK, TokenRow, UnusedToken, LogRow, UnusedLog, Stages,
   Handler, Idle, History, NoHistory, HandlerInv, RefreshInv, LoginInv,
   StartInv, CloseInv, CapInv, RowInv, RefreshReplaces, ImpersonationLogged

(* issuePair makes a well-formed live row of the given user and admin ...   *)
LEMMA IssuedRowType ==
    ASSUME NEW user \in Accounts, NEW by \in Admins \cup {None},
           NEW override \in Nat \cup {None}, NEW time \in Nat
    PROVE  /\ IssuedRow(user, by, override, time) \in TokenRow
           /\ IssuedRow(user, by, override, time).state = "live"
           /\ IssuedRow(user, by, override, time).user = user
           /\ IssuedRow(user, by, override, time).by = by
BY NoneAssumption, TtlAssumption DEF IssuedRow, TokenRow

(* ... which, given a lifetime, ends after it: at once when the lifetime is *)
(* 0, and then without a cap, or else at its cap.                           *)
LEMMA IssuedRowCap ==
    ASSUME NEW user, NEW by, NEW ttl \in Nat, NEW time \in Nat
    PROVE  /\ IssuedRow(user, by, ttl, time).expires = time + ttl
           /\ IssuedRow(user, by, ttl, time).cap
                 = IF ttl = 0 THEN None ELSE time + ttl
BY NoneAssumption DEF IssuedRow

(* A step that touches only a handler keeps the invariants of the tables.   *)
LEMMA TablesUnchanged ==
    ASSUME IInv, UNCHANGED <<now, token, log, held, hist>>
    PROVE  RowInv' /\ CapInv' /\ RefreshReplaces' /\ ImpersonationLogged'
BY DEF IInv, RowInv, CapInv, RefreshReplaces, ImpersonationLogged

(* One lemma per action: from a state of the invariant, its step ends in   *)
(* one.  Each has a part per conjunct that the action can disturb.         *)
LEMMA LoginStep ==
    ASSUME IInv, NEW r \in Requests, NEW u \in Accounts, Login(r, u)
    PROVE  IInv'
<1>1. TypeOK'
  BY NoneAssumption DEF IInv, TypeOK, Stages, Handler, Login, Begin, Idle
<1>2. HandlerInv'
  BY <1>1, NoneAssumption
     DEF IInv, HandlerInv, RefreshInv, LoginInv, StartInv, CloseInv, Login,
     Begin
<1> QED BY <1>1, <1>2, TablesUnchanged DEF IInv, Login

LEMMA LoginIssueStep ==
    ASSUME IInv, NEW r \in Requests, NEW k \in TokenIds, LoginIssue(r, k)
    PROVE  IInv'
<1>1. TypeOK'
  <2>1. IssuedRow(req[r].user, None, None, now) \in TokenRow
    BY IssuedRowType DEF IInv, TypeOK, HandlerInv, LoginInv, LoginIssue
  <2>2. NoHistory \in History
    BY DEF NoHistory, History
  <2>3. token' \in [TokenIds -> TokenRow] /\ hist' \in [TokenIds -> History]
    BY <2>1, <2>2 DEF IInv, TypeOK, LoginIssue, Insert
  <2>4. [req[r] EXCEPT !.at = "loginTouch", !.tok = k] \in Handler
    BY DEF IInv, TypeOK, Stages, Handler
  <2>5. req' \in [Requests -> Handler]
    BY <2>4 DEF IInv, TypeOK, LoginIssue, Suspend
  <2> QED BY <2>3, <2>5 DEF IInv, TypeOK, LoginIssue
<1>2. HandlerInv'
  BY <1>1, NoneAssumption
     DEF IInv, TypeOK, TokenRow, HandlerInv, RefreshInv, LoginInv, StartInv,
     CloseInv, LoginIssue, Insert, IssuedRow, Suspend
<1>3. RowInv' /\ CapInv'
  BY <1>1, NoneAssumption, TtlAssumption
     DEF IInv, TypeOK, HandlerInv, LoginInv, RowInv, CapInv, LoginIssue,
     Insert, IssuedRow, NoHistory
<1>4. RefreshReplaces'
  BY <1>1, NoneAssumption
     DEF IInv, RowInv, RefreshReplaces, LoginIssue, Insert, NoHistory
<1>5. ImpersonationLogged'
  BY <1>1, NoneAssumption
     DEF IInv, RowInv, ImpersonationLogged, LoginIssue, Insert
<1> QED BY <1>1, <1>2, <1>3, <1>4, <1>5 DEF IInv

LEMMA LoginTouchStep ==
    ASSUME IInv, NEW r \in Requests, LoginTouch(r)
    PROVE  IInv'
<1>1. TypeOK'
  BY NoneAssumption
     DEF IInv, TypeOK, Stages, Handler, HandlerInv, LoginInv, LoginTouch,
     Respond, Idle
<1>2. HandlerInv'
  BY <1>1, NoneAssumption
     DEF IInv, TypeOK, HandlerInv, RefreshInv, LoginInv, StartInv, CloseInv,
     LoginTouch, Respond, Idle
<1>3. RowInv' /\ CapInv'
  BY <1>1, NoneAssumption, TtlAssumption
     DEF IInv, HandlerInv, LoginInv, RowInv, CapInv, LoginTouch
<1>4. RefreshReplaces'
  BY <1>1, NoneAssumption DEF IInv, RefreshReplaces, LoginTouch
<1>5. ImpersonationLogged'
  BY <1>1, NoneAssumption
     DEF IInv, HandlerInv, LoginInv, ImpersonationLogged, LoginTouch
<1> QED BY <1>1, <1>2, <1>3, <1>4, <1>5 DEF IInv

LEMMA RefreshStep ==
    ASSUME IInv, NEW r \in Requests, NEW k \in TokenIds, Refresh(r, k)
    PROVE  IInv'
<1>1. TypeOK'
  BY NoneAssumption DEF IInv, TypeOK, Stages, Handler, Refresh, Begin, Idle
<1>2. HandlerInv'
  BY <1>1, NoneAssumption
     DEF IInv, TypeOK, TokenRow, LogRow, HandlerInv, RefreshInv, LoginInv,
     StartInv, CloseInv, CapInv, Refresh, Begin
<1> QED BY <1>1, <1>2, TablesUnchanged DEF IInv, Refresh

LEMMA RefreshRevokeStep ==
    ASSUME IInv, NEW r \in Requests, RefreshRevoke(r)
    PROVE  IInv'
<1>1. TypeOK'
  <2>1. /\ req[r].tok \in TokenIds
        /\ token' = [token EXCEPT ![req[r].tok].state = "revoked"]
    BY DEF IInv, TypeOK, HandlerInv, RefreshInv, RefreshRevoke, RevokedToken
  <2>2. [token[req[r].tok] EXCEPT !.state = "revoked"] \in TokenRow
    BY <2>1 DEF IInv, TypeOK, TokenRow
  <2>3. token' \in [TokenIds -> TokenRow]
    BY <2>1, <2>2 DEF IInv, TypeOK
  <2> QED
    BY <2>3 DEF IInv, TypeOK, Stages, Handler, RefreshRevoke, Resume
<1>2. HandlerInv'
  BY <1>1, NoneAssumption
     DEF IInv, TypeOK, TokenRow, LogRow, Stages, Handler, History, HandlerInv,
     RefreshInv, LoginInv, StartInv, CloseInv, RowInv, RefreshRevoke,
     RevokedToken, Resume, Accounts
<1>3. RowInv' /\ CapInv'
  BY <1>1, NoneAssumption, TtlAssumption
     DEF IInv, HandlerInv, RefreshInv, RowInv, CapInv, RefreshRevoke,
     RevokedToken
<1>4. RefreshReplaces'
  BY <1>1, NoneAssumption
     DEF IInv, RefreshReplaces, RefreshRevoke, RevokedToken
<1>5. ImpersonationLogged'
  BY <1>1, NoneAssumption
     DEF IInv, ImpersonationLogged, RefreshRevoke, RevokedToken
<1> QED BY <1>1, <1>2, <1>3, <1>4, <1>5 DEF IInv

LEMMA RefreshIssueStep ==
    ASSUME IInv, NEW r \in Requests, NEW k \in TokenIds,
           NEW d \in 0..ClockLag, RefreshIssue(r, k, d)
    PROVE  IInv'
<1> DEFINE old == req[r].tok
           row == IssuedRow(token[old].user, token[old].by,
                            SlidTtl(token[old].cap), now + d)
           ghost == [parent |-> old, origin |-> hist[old].origin,
                     lag |-> IF token[old].by = None THEN 0
                             ELSE hist[old].lag + d]
<1>1. /\ old \in TokenIds /\ old \in held /\ token[old].state = "revoked"
      /\ token[old].by # None => token[old].cap # None
  BY DEF IInv, TypeOK, HandlerInv, RefreshInv, RefreshIssue
<1>2. /\ d \in Nat /\ now \in Nat /\ now' = now + d
      /\ token[old] \in TokenRow /\ hist[old] \in History
  BY <1>1, TtlAssumption DEF IInv, TypeOK, RefreshIssue
<1>3. /\ token[k].state = "unused" /\ k # old
      /\ token' = [token EXCEPT ![k] = row]
      /\ hist' = [hist EXCEPT ![k] = ghost]
      /\ held' = held \cup {k} /\ log' = log
      /\ req' = [req EXCEPT ![r] = Idle]
  BY <1>1 DEF RefreshIssue, Insert, Respond
<1>4. SlidTtl(token[old].cap) \in Nat \cup {None}
  BY <1>2 DEF SlidTtl, TokenRow
<1>5. /\ row \in TokenRow /\ row.state = "live"
      /\ row.user = token[old].user /\ row.by = token[old].by
  <2>1. token[old].user \in Accounts /\ token[old].by \in Admins \cup {None}
    BY <1>1, <1>2 DEF IInv, RowInv, TokenRow
  <2>2. now + d \in Nat
    BY <1>2
  <2> DEFINE left == SlidTtl(token[old].cap)
  <2>3. left \in Nat \cup {None}
    BY <1>4
  <2> HIDE DEF left
  <2>4. IssuedRow(token[old].user, token[old].by, left, now + d) \in TokenRow
    BY <2>1, <2>2, <2>3, IssuedRowType
  <2>5. /\ IssuedRow(token[old].user, token[old].by, left, now + d).state
             = "live"
        /\ IssuedRow(token[old].user, token[old].by, left, now + d).user
             = token[old].user
        /\ IssuedRow(token[old].user, token[old].by, left, now + d).by
             = token[old].by
    BY <2>1, <2>2, <2>3, IssuedRowType
  <2> QED BY <2>4, <2>5 DEF left
<1>6. ghost \in History
  BY <1>1, <1>2 DEF History
<1>7. ASSUME token[old].by # None
      PROVE  \/ row.cap = None /\ row.expires = now'
             \/ row.cap = token[old].cap + d /\ row.expires = row.cap
                /\ row.cap \in Nat
  <2>1. token[old].cap \in Nat
    BY <1>1, <1>2, <1>7 DEF TokenRow
  <2>2. CASE token[old].cap > now
    <3>1. SlidTtl(token[old].cap) = token[old].cap - now
      BY <2>1, <2>2, NoneAssumption DEF SlidTtl
    <3> QED BY <3>1, <2>1, <2>2, <1>2, IssuedRowCap
  <2>3. CASE ~(token[old].cap > now)
    <3>1. SlidTtl(token[old].cap) = 0
      BY <2>1, <2>3, NoneAssumption DEF SlidTtl
    <3> QED BY <3>1, <1>2, IssuedRowCap
  <2> QED BY <2>2, <2>3
<1>8. TypeOK'
  BY <1>1, <1>2, <1>3, <1>5, <1>6 DEF IInv, TypeOK, Handler, Idle, Stages
<1> HIDE DEF row
<1>9. HandlerInv'
  <2> SUFFICES ASSUME NEW q \in Requests
               PROVE  (RefreshInv(q) /\ LoginInv(q) /\ StartInv(q)
                                    /\ CloseInv(q))'
    BY DEF HandlerInv
  <2>1. CASE q = r
    <3>1. req'[q] = Idle
      BY <2>1, <1>3 DEF IInv, TypeOK
    <3> QED
      BY <3>1 DEF RefreshInv, LoginInv, StartInv, CloseInv, Idle
  <2>2. CASE q # r
    <3>1. req'[q] = req[q]
      BY <2>2, <1>3
    <3>2. \A j \in TokenIds : token[j].state # "unused" =>
                               token'[j] = token[j]
      BY <1>3
    <3>3. \A j \in held : j \in TokenIds /\ j \in held' /\ token'[j] = token[j]
      BY <3>2, <1>3 DEF IInv, TypeOK, RowInv
    <3> QED
      BY <3>1, <3>2, <3>3, <1>3
         DEF IInv, HandlerInv, RefreshInv, LoginInv, StartInv, CloseInv
  <2> QED BY <2>1, <2>2
<1>10. RowInv'
  BY <1>1, <1>2, <1>3, <1>5 DEF IInv, TypeOK, RowInv, History
<1>11. CapInv'
  <2> SUFFICES ASSUME NEW j \in TokenIds, token'[j].by # None
               PROVE  /\ token'[j].cap = None => token'[j].expires <= now'
                      /\ token'[j].cap # None =>
                           /\ token'[j].expires = token'[j].cap
                           /\ token'[j].cap <= hist'[j].origin
                                 + ImpersonationTtl + hist'[j].lag
    BY DEF CapInv
  <2>1. CASE j = k
    <3>1. token'[j] = row /\ hist'[j] = ghost /\ token[old].by # None
      BY <2>1, <1>3, <1>5 DEF IInv, TypeOK
    <3>2. /\ token[old].cap \in Nat
          /\ token[old].cap <= hist[old].origin + ImpersonationTtl
                                + hist[old].lag
      BY <3>1, <1>1, <1>2 DEF IInv, CapInv, TokenRow
    <3> QED
      BY <3>1, <3>2, <1>2, <1>7, NoneAssumption, TtlAssumption DEF History
  <2>2. CASE j # k
    BY <2>2, <1>2, <1>3 DEF IInv, TypeOK, CapInv, TokenRow
  <2> QED BY <2>1, <2>2
<1>12. RefreshReplaces'
  BY <1>1, <1>3, <1>5, NoneAssumption DEF IInv, TypeOK, RefreshReplaces
<1>13. ImpersonationLogged'
  <2> SUFFICES ASSUME NEW j \in held', token'[j].by # None
               PROVE  \E l \in LogIds :
                         /\ log[l].state # "unused"
                         /\ log[l].admin = token'[j].by
                         /\ log[l].target = token'[j].user
                         /\ hist'[j].origin <= log[l].startedAt
    BY <1>3 DEF ImpersonationLogged
  <2>1. CASE j = k
    <3>1. /\ token'[j].by = token[old].by /\ token'[j].user = token[old].user
          /\ hist'[j].origin = hist[old].origin
      BY <2>1, <1>3, <1>5 DEF IInv, TypeOK
    <3> QED BY <3>1, <1>1 DEF IInv, ImpersonationLogged
  <2>2. CASE j # k
    BY <2>2, <1>3 DEF IInv, ImpersonationLogged
  <2> QED BY <2>1, <2>2
<1> QED BY <1>8, <1>9, <1>10, <1>11, <1>12, <1>13 DEF IInv

LEMMA StartStep ==
    ASSUME IInv, NEW r \in Requests, NEW a \in Admins, NEW u \in Accounts,
           Start(r, a, u)
    PROVE  IInv'
<1>1. TypeOK'
  BY NoneAssumption DEF IInv, TypeOK, Stages, Handler, Start, Begin, Idle
<1>2. HandlerInv'
  BY <1>1, NoneAssumption
     DEF IInv, HandlerInv, RefreshInv, LoginInv, StartInv, CloseInv, Start,
     Begin, Accounts
<1> QED BY <1>1, <1>2, TablesUnchanged DEF IInv, Start

LEMMA StartIssueStep ==
    ASSUME IInv, NEW r \in Requests, NEW k \in TokenIds, StartIssue(r, k)
    PROVE  IInv'
<1>1. TypeOK'
  <2>1. IssuedRow(req[r].user, req[r].by, ImpersonationTtl, now) \in TokenRow
    BY IssuedRowType, TtlAssumption
       DEF IInv, TypeOK, HandlerInv, StartInv, StartIssue, Accounts
  <2>2. [parent |-> None, origin |-> now, lag |-> 0] \in History
    BY DEF IInv, TypeOK, History
  <2>3. token' \in [TokenIds -> TokenRow] /\ hist' \in [TokenIds -> History]
    BY <2>1, <2>2 DEF IInv, TypeOK, StartIssue, Insert
  <2>4. [req[r] EXCEPT !.at = "startLog", !.tok = k] \in Handler
    BY DEF IInv, TypeOK, Stages, Handler
  <2>5. req' \in [Requests -> Handler]
    BY <2>4 DEF IInv, TypeOK, StartIssue, Suspend
  <2> QED BY <2>3, <2>5 DEF IInv, TypeOK, StartIssue
<1>2. HandlerInv'
  BY <1>1, NoneAssumption
     DEF IInv, TypeOK, TokenRow, HandlerInv, RefreshInv, LoginInv, StartInv,
     CloseInv, RowInv, StartIssue, Insert, IssuedRow, Suspend
<1>3. RowInv' /\ CapInv'
  BY <1>1, NoneAssumption, TtlAssumption
     DEF IInv, TypeOK, HandlerInv, StartInv, RowInv, CapInv, StartIssue,
     Insert, IssuedRow, Accounts
<1>4. RefreshReplaces'
  BY <1>1, NoneAssumption DEF IInv, RowInv, RefreshReplaces, StartIssue,
     Insert
<1>5. ImpersonationLogged'
  BY <1>1, NoneAssumption
     DEF IInv, RowInv, ImpersonationLogged, StartIssue, Insert
<1> QED BY <1>1, <1>2, <1>3, <1>4, <1>5 DEF IInv

LEMMA StartLogStep ==
    ASSUME IInv, NEW r \in Requests, NEW l \in LogIds, StartLog(r, l)
    PROVE  IInv'
<1>1. TypeOK'
  BY NoneAssumption
     DEF IInv, TypeOK, LogRow, Stages, Handler, HandlerInv, StartInv,
     StartLog, Respond, Idle
<1>2. HandlerInv'
  BY <1>1, NoneAssumption
     DEF IInv, HandlerInv, RefreshInv, LoginInv, StartInv, CloseInv, StartLog,
     Respond, Idle
<1>3. RowInv' /\ CapInv' /\ RefreshReplaces'
  BY DEF IInv, RowInv, CapInv, RefreshReplaces, HandlerInv, StartInv, StartLog
<1>4. ImpersonationLogged'
  <2> SUFFICES ASSUME NEW j \in held', token[j].by # None
               PROVE  \E m \in LogIds :
                         /\ log'[m].state # "unused"
                         /\ log'[m].admin = token[j].by
                         /\ log'[m].target = token[j].user
                         /\ hist[j].origin <= log'[m].startedAt
    BY DEF ImpersonationLogged, StartLog
  <2>1. log' = [log EXCEPT ![l] = [state |-> "open", admin |-> req[r].by,
                  target |-> req[r].user, startedAt |-> now]]
    BY DEF StartLog
  <2>2. CASE j = req[r].tok
    <3>1. /\ token[j].by = req[r].by /\ token[j].user = req[r].user
          /\ hist[j].origin <= now
      BY <2>2 DEF IInv, HandlerInv, StartInv, RowInv, StartLog
    <3>2. log'[l] = [state |-> "open", admin |-> req[r].by,
                     target |-> req[r].user, startedAt |-> now]
      BY <2>1 DEF IInv, TypeOK
    <3> QED BY <3>1, <3>2
  <2>3. CASE j # req[r].tok
    <3>1. PICK m \in LogIds : /\ log[m].state # "unused"
                              /\ log[m].admin = token[j].by
                              /\ log[m].target = token[j].user
                              /\ hist[j].origin <= log[m].startedAt
      BY <2>3 DEF IInv, ImpersonationLogged, StartLog
    <3>2. log'[m] = log[m]
      BY <2>1, <3>1 DEF StartLog
    <3> QED BY <3>1, <3>2
  <2> QED BY <2>2, <2>3
<1> QED BY <1>1, <1>2, <1>3, <1>4 DEF IInv

LEMMA LogoutStep ==
    ASSUME IInv, NEW r \in Requests, NEW k \in TokenIds, Logout(r, k)
    PROVE  IInv'
<1>1. TypeOK'
  BY NoneAssumption DEF IInv, TypeOK, TokenRow, Stages, Handler, Logout, Begin
<1>2. HandlerInv'
  BY <1>1, NoneAssumption
     DEF IInv, HandlerInv, RefreshInv, LoginInv, StartInv, CloseInv, RowInv,
     Logout, Begin
<1> QED BY <1>1, <1>2, TablesUnchanged DEF IInv, Logout

LEMMA LogoutRevokeStep ==
    ASSUME IInv, NEW r \in Requests, LogoutRevoke(r)
    PROVE  IInv'
<1>1. /\ req[r].at = "logoutRevoke" /\ req[r].tok \in held
      /\ req[r].by # None => req[r].user \in Users
      /\ UNCHANGED <<now, log, held, hist>>
  BY DEF IInv, HandlerInv, CloseInv, LogoutRevoke
<1>2. token' = [token EXCEPT ![req[r].tok].state = "revoked"]
  BY DEF LogoutRevoke, RevokedToken
<1>3. req' = IF req[r].by = None THEN [req EXCEPT ![r] = Idle]
             ELSE [req EXCEPT ![r].at = "findLog"]
  BY DEF LogoutRevoke, Respond, Resume
<1>4. TypeOK'
  <2>1. req[r].tok \in TokenIds
    BY <1>1 DEF IInv, TypeOK
  <2>2. [token[req[r].tok] EXCEPT !.state = "revoked"] \in TokenRow
    BY <2>1 DEF IInv, TypeOK, TokenRow
  <2>3. token' \in [TokenIds -> TokenRow]
    BY <2>1, <2>2, <1>2 DEF IInv, TypeOK
  <2>4. req' \in [Requests -> Handler]
    BY <1>3 DEF IInv, TypeOK, Stages, Handler, Idle
  <2> QED BY <2>3, <2>4, <1>1 DEF IInv, TypeOK
<1>5. HandlerInv'
  <2>1. ASSUME NEW q \in Requests, q # r
        PROVE  (RefreshInv(q) /\ LoginInv(q) /\ StartInv(q) /\ CloseInv(q))'
    <3>1. req'[q] = req[q]
      BY <2>1, <1>3
    <3> QED
      BY <3>1, <1>1, <1>2
         DEF IInv, HandlerInv, RefreshInv, LoginInv, StartInv, CloseInv
  <2>2. (RefreshInv(r) /\ LoginInv(r) /\ StartInv(r) /\ CloseInv(r))'
    BY <1>1, <1>3
       DEF IInv, TypeOK, Handler, RefreshInv, LoginInv, StartInv, CloseInv,
       Idle
  <2> QED BY <2>1, <2>2 DEF HandlerInv
<1>6. RowInv' /\ CapInv' /\ RefreshReplaces' /\ ImpersonationLogged'
  BY <1>1, <1>2 DEF IInv, RowInv, CapInv, RefreshReplaces, ImpersonationLogged
<1> QED BY <1>4, <1>5, <1>6 DEF IInv

LEMMA ExitStep ==
    ASSUME IInv, NEW r \in Requests, NEW k \in TokenIds, Exit(r, k)
    PROVE  IInv'
<1>1. TypeOK'
  BY NoneAssumption
     DEF IInv, TypeOK, TokenRow, Stages, Handler, Exit, Begin, Idle
<1>2. HandlerInv'
  BY <1>1, NoneAssumption
     DEF IInv, TypeOK, TokenRow, LogRow, HandlerInv, RefreshInv, LoginInv,
     StartInv, CloseInv, RowInv, Exit, Begin
<1> QED BY <1>1, <1>2, TablesUnchanged DEF IInv, Exit

LEMMA FindLogStep ==
    ASSUME IInv, NEW r \in Requests, FindLog(r)
    PROVE  IInv'
<1>1. UNCHANGED <<now, token, log, held, hist>>
  BY DEF FindLog
<1>2. CASE Respond(r)
  <2>1. TypeOK'
    BY <1>1, <1>2 DEF IInv, TypeOK, Handler, Stages, Respond, Idle
  <2>2. HandlerInv'
    BY <1>1, <1>2
       DEF IInv, HandlerInv, RefreshInv, LoginInv, StartInv, CloseInv,
       Respond, Idle
  <2> QED BY <1>1, <2>1, <2>2, TablesUnchanged DEF IInv
<1>3. ASSUME NEW l \in OpenLogs(req[r].by, req[r].user),
             Suspend(r, [req[r] EXCEPT !.at = "closeLog", !.row = l])
      PROVE  IInv'
  <2>1. /\ l \in LogIds /\ log[l].state = "open"
        /\ log[l].admin = req[r].by /\ log[l].target = req[r].user
    BY DEF OpenLogs
  <2>2. TypeOK'
    <3>1. [req[r] EXCEPT !.at = "closeLog", !.row = l] \in Handler
      BY <2>1 DEF IInv, TypeOK, Handler, Stages
    <3> QED BY <1>1, <1>3, <3>1 DEF IInv, TypeOK, Suspend
  <2>3. req[r].at = "findLog"
    BY DEF FindLog
  <2>4. HandlerInv'
    BY <1>1, <1>3, <2>1, <2>3
       DEF IInv, HandlerInv, RefreshInv, LoginInv, StartInv, CloseInv, Suspend
  <2> QED BY <1>1, <2>2, <2>4, TablesUnchanged DEF IInv
<1> QED BY <1>2, <1>3 DEF FindLog

LEMMA CloseLogStep ==
    ASSUME IInv, NEW r \in Requests, CloseLog(r)
    PROVE  IInv'
<1>1. TypeOK'
  BY NoneAssumption
     DEF IInv, TypeOK, LogRow, Stages, Handler, HandlerInv, LoginInv,
     CloseInv, CloseLog, Respond, Idle
<1>2. HandlerInv'
  BY <1>1, NoneAssumption
     DEF IInv, HandlerInv, RefreshInv, LoginInv, StartInv, CloseInv, CloseLog,
     Respond, Idle
<1>3. RowInv' /\ CapInv'
  BY <1>1, NoneAssumption, TtlAssumption DEF IInv, RowInv, CapInv, CloseLog
<1>4. RefreshReplaces'
  BY <1>1, NoneAssumption DEF IInv, RefreshReplaces, CloseLog
<1>5. ImpersonationLogged'
  BY <1>1, NoneAssumption DEF IInv, ImpersonationLogged, CloseLog
<1> QED BY <1>1, <1>2, <1>3, <1>4, <1>5 DEF IInv

LEMMA FailStep ==
    ASSUME IInv, NEW r \in Requests, Fail(r)
    PROVE  IInv'
<1>1. TypeOK'
  BY NoneAssumption DEF IInv, TypeOK, Stages, Handler, Fail, Respond, Idle
<1>2. HandlerInv'
  BY <1>1, NoneAssumption
     DEF IInv, HandlerInv, RefreshInv, LoginInv, StartInv, CloseInv, Fail,
     Respond, Idle
<1> QED BY <1>1, <1>2, TablesUnchanged DEF IInv, Fail

LEMMA TickStep == ASSUME IInv, Tick PROVE IInv'
<1>1. TypeOK' /\ HandlerInv'
  BY DEF IInv, TypeOK, HandlerInv, RefreshInv, LoginInv, StartInv, CloseInv,
         Tick
<1>2. RowInv' /\ CapInv'
  BY TtlAssumption DEF IInv, TypeOK, TokenRow, History, RowInv, CapInv, Tick
<1>3. RefreshReplaces' /\ ImpersonationLogged'
  BY DEF IInv, RefreshReplaces, ImpersonationLogged, Tick
<1> QED BY <1>1, <1>2, <1>3 DEF IInv

-----------------------------------------------------------------------------
(* So every step, a stuttering one included, preserves the invariant.      *)
LEMMA NextInv == IInv /\ [Next]_vars => IInv'
<1> SUFFICES ASSUME IInv, [Next]_vars PROVE IInv'
  OBVIOUS
<1>1. CASE Tick
  BY <1>1, TickStep
<1>2. ASSUME NEW r \in Requests, Arrive(r) PROVE IInv'
  BY <1>2, LoginStep, RefreshStep, LogoutStep, ExitStep, StartStep DEF Arrive
<1>3. ASSUME NEW r \in Requests, Continue(r) PROVE IInv'
  BY <1>3, LoginTouchStep, RefreshRevokeStep, LogoutRevokeStep, FindLogStep,
     CloseLogStep, LoginIssueStep, StartIssueStep, RefreshIssueStep,
     StartLogStep
     DEF Continue
<1>4. ASSUME NEW r \in Requests, Fail(r) PROVE IInv'
  BY <1>4, FailStep
<1>5. CASE UNCHANGED vars
  BY <1>5
     DEF vars, IInv, TypeOK, HandlerInv, RefreshInv, LoginInv, StartInv,
     CloseInv, RowInv, CapInv, RefreshReplaces, ImpersonationLogged
<1> QED BY <1>1, <1>2, <1>3, <1>4, <1>5 DEF Next

(* The tables and the handlers in flight always agree: what a handler      *)
(* still holds in its variables is true of the rows it will write.         *)
THEOREM InductiveInvariant == Spec => []IInv
BY InitInv, NextInv, PTL DEF Spec

(* Every variable keeps its type: no handler stores an id it does not have. *)
THEOREM TypeCorrect == Spec => []TypeOK
<1>1. IInv => TypeOK
  BY DEF IInv
<1> QED BY <1>1, InductiveInvariant, PTL

(* Refreshing never leaves the exchanged token usable and never changes who *)
(* a session acts for.                                                      *)
THEOREM RefreshIsRotation == Spec => []RefreshReplaces
<1>1. IInv => RefreshReplaces
  BY DEF IInv
<1> QED BY <1>1, InductiveInvariant, PTL

(* No number of refreshes keeps an impersonation session alive past its cap *)
(* by more than the ticks they lost between their two clock reads.          *)
THEOREM ImpersonationEnds == Spec => []ImpersonationBounded
<1>1. IInv => ImpersonationBounded
  BY NoneAssumption, TtlAssumption
     DEF IInv, TypeOK, TokenRow, CapInv, ImpersonationBounded, Usable
<1> QED BY <1>1, InductiveInvariant, PTL

(* A client never holds an impersonation session the audit does not show.   *)
THEOREM ImpersonationIsAudited == Spec => []ImpersonationLogged
<1>1. IInv => ImpersonationLogged
  BY DEF IInv
<1> QED BY <1>1, InductiveInvariant, PTL

(* A handler closes only a row of the pair it acts for.                     *)
THEOREM ClosesOnlyOwnPair == Spec => ClosesOwnPair
<1> DEFINE Own == \A l \in LogIds :
          log[l].state = "open" /\ log'[l].state = "closed" =>
              \E r \in Requests : /\ req[r].at = "closeLog"
                                  /\ req'[r].at = "idle"
                                  /\ req[r].by = log[l].admin
                                  /\ req[r].user = log[l].target
<1>1. IInv /\ [Next]_vars => [Own]_vars
  <2> SUFFICES ASSUME IInv, Next, NEW l \in LogIds, log[l].state = "open",
                      log'[l].state = "closed"
               PROVE  \E r \in Requests : /\ req[r].at = "closeLog"
                                          /\ req'[r].at = "idle"
                                          /\ req[r].by = log[l].admin
                                          /\ req[r].user = log[l].target
    OBVIOUS
  <2>1. log' # log
    OBVIOUS
  <2>2. CASE Tick
    BY <2>1, <2>2 DEF Tick
  <2>3. ASSUME NEW r \in Requests, Arrive(r) \/ Fail(r) PROVE FALSE
    BY <2>1, <2>3 DEF Arrive, Login, Refresh, Logout, Exit, Start, Fail
  <2>4. ASSUME NEW r \in Requests, Continue(r)
        PROVE  CloseLog(r)
    <3>1. ASSUME NEW m \in LogIds, StartLog(r, m) PROVE FALSE
      BY <3>1 DEF StartLog
    <3> QED
      BY <2>1, <2>4, <3>1
         DEF Continue, LoginTouch, RefreshRevoke, LogoutRevoke, FindLog,
         LoginIssue, StartIssue, RefreshIssue
  <2>5. ASSUME NEW r \in Requests, CloseLog(r)
        PROVE  /\ req[r].at = "closeLog" /\ req'[r].at = "idle"
               /\ req[r].by = log[l].admin /\ req[r].user = log[l].target
    <3>1. req[r].row = l
      BY <2>5 DEF CloseLog
    <3> QED
      BY <2>5, <3>1 DEF IInv, TypeOK, HandlerInv, CloseInv, CloseLog, Respond,
         Idle
  <2> QED BY <2>2, <2>3, <2>4, <2>5 DEF Next
<1> QED BY <1>1, InductiveInvariant, PTL DEF Spec, ClosesOwnPair
=============================================================================
