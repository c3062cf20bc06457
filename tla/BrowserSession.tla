---------------------------- MODULE BrowserSession ----------------------------
(***************************************************************************)
(* One browser and its sessions: two pairs of cookies shared by all tabs,  *)
(* what every tab believes it is signed in as, the API calls in flight     *)
(* (each carries the cookies of the moment it was sent, and each answer    *)
(* may set or clear cookies when it arrives), and the refresh that the     *)
(* calls of a tab share when the server answers 401.  What the server does *)
(* with a refresh token is Sessions; here a call is handled in one step.   *)
(***************************************************************************)
EXTENDS Naturals, FiniteSets

CONSTANTS Rows,  \* rows of RefreshToken
          Calls, \* calls the tabs may have in flight
          Tabs,  \* also names the refresh that a tab has in flight
          MaxSends, \* bound on the calls the user makes
          None

ASSUME NoneAssumption == None \notin Rows
ASSUME CallsAssumption == Calls \cap Tabs = {}
ASSUME BoundAssumption == MaxSends \in Nat

VARIABLES live,  \* rows that a refresh still accepts
          jar,   \* the two cookie pairs of the browser
          shown, \* what AuthContext of every tab says
          call,  \* calls and refreshes in flight
          sends, \* history: calls the user has made
          behind \* history: tabs that cannot know of the last change

vars == <<live, jar, shown, call, sends, behind>>

-----------------------------------------------------------------------------
(* Who a session acts as: the admin, a user, or the admin impersonating.   *)
Kinds == {"admin", "target", "impersonated"}
Identity == Kinds \cup {"nobody"}

(* A pair: the refresh token of a row, the identity that the row and the   *)
(* access token carry, and whether the access cookie has not expired yet.  *)
Pair == [id : Rows \cup {None}, as : Identity, fresh : BOOLEAN]
Empty == [id |-> None, as |-> "nobody", fresh |-> FALSE]
Jar == [regular : Pair, imp : Pair]
NoCookies == [regular |-> Empty, imp |-> Empty]

(* The Set-Cookie headers of an answer: the pairs it replaces.             *)
Keep == [id |-> None, as |-> "nobody", fresh |-> TRUE]
Keeping == [regular |-> Keep, imp |-> Keep]

Ops == {"me", "login", "logout", "start", "exit", "join", "associate",
        "refresh"}

(* Of the cookies sent with it, a call carries what the server reads: who  *)
(* the access cookies say it is, and the refresh token.                    *)
Exchange == [op : Ops \cup {"none"}, tab : Tabs \cup {None},
             at : {"idle", "sent", "answered", "waiting"},
             as : Identity, raw : Pair, retried : BOOLEAN,
             result : {"none", "ok", "401", "failed"}, set : Jar]

Idle == [op |-> "none", tab |-> None, at |-> "idle", as |-> "nobody",
         raw |-> Empty, retried |-> FALSE, result |-> "none",
         set |-> Keeping]

TypeOK ==
    /\ live \in SUBSET Rows
    /\ jar \in Jar
    /\ shown \in [Tabs -> Identity]
    /\ call \in [Calls \cup Tabs -> Exchange]
    /\ sends \in 0 .. MaxSends
    /\ behind \in SUBSET Tabs

Init ==
    /\ live = {}
    /\ jar = NoCookies
    /\ shown = [t \in Tabs |-> "nobody"]
    /\ call = [x \in Calls \cup Tabs |-> Idle]
    /\ sends = 0
    /\ behind = {}

-----------------------------------------------------------------------------
(* The guard takes the impersonation's access cookie before the caller's   *)
(* own; a bodyless refresh or logout the other way round.                  *)
Who(j) ==
    IF j.imp.fresh THEN j.imp.as
    ELSE IF j.regular.fresh THEN j.regular.as ELSE "nobody"

RawRefreshToken(j) == IF j.regular.id # None THEN j.regular ELSE j.imp

Ids(j) == {j.regular.id, j.imp.id}

(* A row nothing refers to any more may stand for a new one.               *)
Unused ==
    Rows \ (Ids(jar) \cup
            UNION {{call[x].raw.id} \cup Ids(call[x].set) : x \in DOMAIN call})

SetAuthCookies == [pair \in Pair |-> [Keeping EXCEPT !.regular = pair]]
SetImpersonationCookies == [pair \in Pair |-> [Keeping EXCEPT !.imp = pair]]
ClearAuthCookies == [Keeping EXCEPT !.regular = Empty]
ClearImpersonationCookies == [Keeping EXCEPT !.imp = Empty]

Arrived(j, set) ==
    [regular |-> IF set.regular = Keep THEN j.regular ELSE set.regular,
     imp |-> IF set.imp = Keep THEN j.imp ELSE set.imp]

Request(op, t, j) ==
    [Idle EXCEPT !.op = op, !.tab = t, !.at = "sent", !.as = Who(j),
                 !.raw = IF op \in {"refresh", "logout"}
                         THEN RawRefreshToken(j) ELSE Empty]

-----------------------------------------------------------------------------
(* The server handles a call.                                              *)

Answer(x, result, set) ==
    call' = [call EXCEPT
               ![x].at = "answered", ![x].result = result, ![x].set = set,
               ![x].as = IF call[x].op = "me" THEN call[x].as ELSE "nobody",
               ![x].raw = IF call[x].op = "refresh" THEN call[x].raw
                          ELSE Empty]

Refuse(x, result) == Answer(x, result, Keeping) /\ UNCHANGED live

(* A new row, in place of an old one when a refresh issues it.             *)
IssuePair(x, old, kind, cookies) ==
    \E i \in Unused :
        /\ live' = (live \ (Unused \cup {old})) \cup {i}
        /\ Answer(x, "ok", cookies[[id |-> i, as |-> kind, fresh |-> TRUE]])

ServeMe(x) ==
    /\ call[x].op = "me"
    /\ IF call[x].as = "nobody" THEN Refuse(x, "401")
       ELSE Answer(x, "ok", Keeping) /\ UNCHANGED live

(* A wrong password is a 401 too, whatever the cookies.                    *)
ServeLogin(x) ==
    /\ call[x].op = "login"
    /\ \/ Refuse(x, "401")
       \/ \E kind \in {"admin", "target"} :
             IssuePair(x, None, kind, SetAuthCookies)

(* Mutant of ServeStart: the pair goes into the caller's own cookies.      *)
ServeStartOverOwn(x) ==
    /\ call[x].op = "start"
    /\ CASE call[x].as = "nobody" -> Refuse(x, "401")
         [] call[x].as = "admin" ->
                IssuePair(x, None, "impersonated", SetAuthCookies)
         [] OTHER -> Refuse(x, "failed")

ServeStart(x) ==
    /\ call[x].op = "start"
    /\ CASE call[x].as = "nobody" -> Refuse(x, "401")
         [] call[x].as = "admin" ->
                IssuePair(x, None, "impersonated", SetImpersonationCookies)
         [] OTHER -> Refuse(x, "failed")

(* Nothing is revoked: the row of the pair stays valid.                    *)
ServeExit(x) ==
    /\ call[x].op = "exit"
    /\ CASE call[x].as = "nobody" -> Refuse(x, "401")
         [] call[x].as = "impersonated" ->
                /\ Answer(x, "ok", ClearImpersonationCookies)
                /\ UNCHANGED live
         [] OTHER -> Answer(x, "ok", Keeping) /\ UNCHANGED live

(* POST /join/:code/register: a pair for whoever calls, under their own    *)
(* name, or for the player just registered.                                *)
ServeJoin(x) ==
    /\ call[x].op \in {"join", "associate"}
    /\ \/ Refuse(x, "failed")
       \/ /\ call[x].op = "join" \/ call[x].as # "nobody"
          /\ IssuePair(x, None, IF call[x].as = "admin" THEN "admin"
                          ELSE "target", SetAuthCookies)

ServeLogout(x) ==
    LET raw == call[x].raw
    IN  /\ call[x].op = "logout"
        /\ Answer(x, "ok",
                  IF raw.id = None THEN NoCookies
                  ELSE IF raw.id \in live /\ raw.as = "impersonated"
                  THEN ClearImpersonationCookies ELSE ClearAuthCookies)
        /\ live' = live \ {raw.id}

(* Refused when the row is revoked, or has expired by now; else rotated,   *)
(* and the row's kind decides which pair of cookies is set.                *)
ServeRefresh(x) ==
    LET raw == call[x].raw
    IN  /\ call[x].op = "refresh"
        /\ \/ Answer(x, "401", Keeping) /\ live' = live \ {raw.id}
           \/ /\ raw.id \in live
              /\ IF raw.as = "impersonated"
                 THEN IssuePair(x, raw.id, raw.as, SetImpersonationCookies)
                 ELSE IssuePair(x, raw.id, raw.as, SetAuthCookies)

Serve(x) ==
    /\ call[x].at = "sent"
    /\ \/ ServeMe(x) \/ ServeLogin(x) \/ ServeStart(x) \/ ServeExit(x)
       \/ ServeJoin(x) \/ ServeLogout(x) \/ ServeRefresh(x)
    /\ UNCHANGED <<jar, shown>>

-----------------------------------------------------------------------------
(* The browser.                                                            *)

(* An access cookie expires before the refresh cookie set with it.         *)
ExpireAccess ==
    /\ \/ jar.imp.fresh /\ jar' = [jar EXCEPT !.imp.fresh = FALSE]
       \/ jar.regular.fresh /\ jar' = [jar EXCEPT !.regular.fresh = FALSE]
    /\ UNCHANGED <<live, shown, call>>

ExpirePair ==
    /\ \/ /\ jar.imp.id # None /\ ~jar.imp.fresh
          /\ jar' = [jar EXCEPT !.imp = Empty]
       \/ /\ jar.regular.id # None /\ ~jar.regular.fresh
          /\ jar' = [jar EXCEPT !.regular = Empty]
    /\ UNCHANGED <<live, shown, call>>

Send(x, op, t) ==
    /\ call[x].at = "idle"
    /\ sends < MaxSends /\ sends' = sends + 1
    /\ call' = [call EXCEPT ![x] = Request(op, t, jar)]
    /\ UNCHANGED <<live, jar, shown>>

(* What the pages offer depends on the context; /login is always there,    *)
(* and mounting a tab asks who it is.                                      *)
Mount(x, t) == Send(x, "me", t)
LogIn(x, t) == Send(x, "login", t)
LogOut(x, t) == shown[t] # "nobody" /\ Send(x, "logout", t)
StartImpersonation(x, t) == shown[t] = "admin" /\ Send(x, "start", t)
ExitImpersonation(x, t) == shown[t] = "impersonated" /\ Send(x, "exit", t)
RegisterByLink(x, t) == shown[t] = "nobody" /\ Send(x, "join", t)
SelectFamily(x, t) == shown[t] # "nobody" /\ Send(x, "associate", t)

Act(x, t) ==
    \/ Mount(x, t) \/ LogIn(x, t) \/ LogOut(x, t)
    \/ StartImpersonation(x, t) \/ ExitImpersonation(x, t)
    \/ RegisterByLink(x, t) \/ SelectFamily(x, t)

(* What follows a call of a tab: login, startImpersonation,                *)
(* exitImpersonation and the join page ask who they are, the selection of  *)
(* family members does not.                                                *)
Followed(x, ok, j) ==
    IF ok /\ call[x].op \in {"login", "start", "exit", "join"}
    THEN Request("me", call[x].tab, j) ELSE Idle

(* Mutant of Believed: a failing /auth/me leaves the context as it was.    *)
BelievedStill(x, ok) ==
    CASE call[x].op = "me" /\ ok -> {call[x].as}
      [] call[x].op = "logout" -> {"nobody"}
      [] OTHER -> {}

(* Mutant of Believed: a failing /auth/me answers undefined.               *)
BelievedUndefined(x, ok) ==
    CASE call[x].op = "me" /\ ok -> {call[x].as}
      [] call[x].op = "me" /\ ~ok -> {None}
      [] call[x].op = "logout" -> {"nobody"}
      [] OTHER -> {}

(* The context after a call: me, or nobody when it fails or after logout.  *)
Believed(x, ok) ==
    CASE call[x].op = "me" /\ ok -> {call[x].as}
      [] call[x].op = "me" /\ ~ok -> {"nobody"}
      [] call[x].op = "logout" -> {"nobody"}
      [] OTHER -> {}

Settle(X, t, ok, j) ==
    /\ call' = [y \in DOMAIN call |->
                  IF y \in X THEN Followed(y, ok, j) ELSE call[y]]
    /\ LET told == UNION {Believed(y, ok) : y \in X}
       IN  shown' = [shown EXCEPT ![t] = IF told = {} THEN shown[t]
                                         ELSE CHOOSE who \in told : TRUE]

(* A 401 waits for the tab's refresh, starting it unless one is in flight. *)
Await(x) ==
    LET t == call[x].tab
    IN  call' = [call EXCEPT
                   ![x] = [Idle EXCEPT !.op = call[x].op, !.tab = t,
                                       !.at = "waiting", !.retried = TRUE],
                   ![t] = IF call[t].at = "idle"
                          THEN Request("refresh", t, jar) ELSE call[t]]

Deliver(x) ==
    /\ x \in Calls /\ call[x].at = "answered"
    /\ IF call[x].result = "401" /\ ~call[x].retried
       THEN Await(x) /\ UNCHANGED <<jar, shown>>
       ELSE /\ jar' = Arrived(jar, call[x].set)
            /\ Settle({x}, call[x].tab, call[x].result = "ok", jar')
    /\ UNCHANGED live

Waiting(t) == {x \in Calls : call[x].tab = t /\ call[x].at = "waiting"}

(* Mutant of Refreshed: the interceptor takes the refresh for any call.    *)
RefreshedAwaits(t) ==
    /\ call[t].at = "answered"
    /\ jar' = Arrived(jar, call[t].set)
    /\ IF call[t].result = "ok"
       THEN /\ call' = [y \in DOMAIN call |->
                          IF y = t THEN Idle
                          ELSE IF y \in Waiting(t)
                          THEN [Request(call[y].op, t, jar')
                                  EXCEPT !.retried = TRUE]
                          ELSE call[y]]
       ELSE call' = [call EXCEPT ![t].at = "waiting"]
    /\ UNCHANGED <<live, shown>>

(* The refresh of tab t has ended: the calls that waited for it are sent   *)
(* again with the cookies of now, or fail.                                 *)
Refreshed(t) ==
    /\ call[t].at = "answered"
    /\ jar' = Arrived(jar, call[t].set)
    /\ IF call[t].result = "ok"
       THEN /\ call' = [y \in DOMAIN call |->
                          IF y = t THEN Idle
                          ELSE IF y \in Waiting(t)
                          THEN [Request(call[y].op, t, jar')
                                  EXCEPT !.retried = TRUE]
                          ELSE call[y]]
            /\ UNCHANGED shown
       ELSE Settle(Waiting(t) \cup {t}, t, FALSE, jar')
    /\ UNCHANGED live

(* No connection, or a 5xx: the call fails and sets no cookie.  The server  *)
(* may have handled it.                                                    *)
Lose(x) ==
    LET t == call[x].tab
    IN  /\ call[x].at \in {"sent", "answered"}
        /\ Settle(IF x \in Tabs THEN Waiting(t) \cup {t} ELSE {x},
                  t, FALSE, jar)
        /\ UNCHANGED <<live, jar>>

-----------------------------------------------------------------------------
Busy(t, c) == {x \in Calls : c[x].tab = t}

(* Tabs whose /auth/me is on its way alone with the cookies of now.        *)
Asking ==
    {t \in Tabs : \E x \in Calls :
        /\ Busy(t, call') = {x}
        /\ call'[x].op = "me" /\ call'[x].at = "sent"
        /\ call'[x] # call[x]}

(* Tabs that lose an answer that would have told them, or log out.         *)
Unsure ==
    {t \in Tabs : \E x \in Busy(t, call) \cup {t} :
        \/ /\ Lose(x) /\ call[x].op \in {"me", "refresh"}
           /\ call[x].result # "401"
        \/ call[x].op = "logout" /\ call'[x].op # "logout"}

FallBehind ==
    behind' = ((IF Who(jar)' = Who(jar) THEN behind ELSE Tabs)
               \cup Unsure) \ Asking

Next ==
    /\ \/ /\ \/ \E x \in DOMAIN call : Serve(x) \/ Lose(x)
             \/ \E x \in Calls : Deliver(x)
             \/ \E t \in Tabs : Refreshed(t)
             \/ ExpireAccess \/ ExpirePair
          /\ UNCHANGED sends
       \/ \E x \in Calls, t \in Tabs : Act(x, t)
    /\ FallBehind

Spec == Init /\ [][Next]_vars

-----------------------------------------------------------------------------
(* Properties.                                                             *)

(* The impersonation cookies only ever hold sessions of an impersonation,  *)
(* and the regular ones never do: in the browser and in every answer on    *)
(* its way, however refreshes, joins, logins and exits overlap.  (What     *)
(* setAuthCookies and setImpersonationCookies are called with.)            *)
PairsMatch ==
    \A j \in {jar} \cup {call[x].set : x \in DOMAIN call} :
        /\ j.regular.as # "impersonated"
        /\ j.imp.as \in {"nobody", "impersonated"}

(* A tab with no call in flight shows the identity the server would act    *)
(* as, unless that changed behind its back, an answer was lost, or it has  *)
(* logged out.  (refetchMe after login, start, exit and join, the failing  *)
(* refetchMe, the shared refresh.)                                         *)
ContextFollows ==
    \A t \in Tabs \ behind :
        Busy(t, call) = {} => shown[t] = Who(jar)

(* A call that waits for the refresh of its tab is never left waiting: the *)
(* refresh is on its way, and an answer or its loss will come.             *)
(* (refreshPromise, shared by the 401s of a tab and reset when it ends.)   *)
WaitersAreServed ==
    \A x \in DOMAIN call :
        call[x].at = "waiting" => call[call[x].tab].at \in {"sent", "answered"}

(* "logging out of an impersonated session must never clear the admin's    *)
(* own session cookies": the answer to a logout sent while impersonating   *)
(* leaves the regular pair alone.                                          *)
LogoutSparesAdmin ==
    [][\A x \in Calls :
          call[x].op = "logout" /\ call[x].at = "sent"
          /\ call'[x].result = "ok" /\ call[x].as = "impersonated"
          => call'[x].set.regular = Keep]_vars
=============================================================================
