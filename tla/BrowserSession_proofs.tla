------------------------ MODULE BrowserSession_proofs ------------------------
(* Proofs about BrowserSession, for any rows, calls and tabs.               *)
EXTENDS BrowserSession, TLAPS

Exchanges == Calls \cup Tabs

(* Every pair is where it belongs.                                          *)
Matches(j) ==
    /\ j.regular.as # "impersonated"
    /\ j.imp.as \in {"nobody", "impersonated"}

(* A call in flight belongs to a tab, the refresh of a tab to that tab, and *)
(* a refresh never waits for a refresh.                                     *)
CallInv ==
    /\ \A x \in Exchanges : call[x].at # "idle" => call[x].tab \in Tabs
    /\ \A t \in Tabs : /\ call[t].at # "waiting"
                       /\ call[t].at # "idle" => call[t].tab = t
    /\ WaitersAreServed

IInv == TypeOK /\ PairsMatch /\ CallInv

(* PairsMatch, one pair of cookies at a time.                               *)
LEMMA MatchesAll ==
    ASSUME TypeOK
    PROVE  PairsMatch <=> /\ Matches(jar)
                          /\ \A x \in Exchanges : Matches(call[x].set)
BY DEF TypeOK, PairsMatch, Matches, Exchanges

(* The same in the next state.                                              *)
LEMMA MatchesAllNext ==
    ASSUME TypeOK', Matches(jar)',
           \A x \in Exchanges : Matches(call'[x].set)
    PROVE  PairsMatch'
BY DEF TypeOK, PairsMatch, Matches, Exchanges

(* Cookies that are kept, cleared or set.                                   *)
LEMMA CookieTypes ==
    /\ Empty \in Pair /\ Keep \in Pair
    /\ Keeping \in Jar /\ Matches(Keeping)
    /\ NoCookies \in Jar /\ Matches(NoCookies)
    /\ ClearAuthCookies \in Jar /\ Matches(ClearAuthCookies)
    /\ ClearImpersonationCookies \in Jar /\ Matches(ClearImpersonationCookies)
<1>1. Empty \in Pair /\ Keep \in Pair
  BY DEF Empty, Keep, Pair, Identity
<1>2. Empty.as = "nobody" /\ Keep.as = "nobody"
  BY DEF Empty, Keep
<1> QED BY <1>1, <1>2 DEF Keeping, NoCookies, ClearAuthCookies,
           ClearImpersonationCookies, Jar, Matches

LEMMA SetTypes ==
    ASSUME NEW pair \in Pair
    PROVE  /\ pair.as # "impersonated" =>
                  /\ SetAuthCookies[pair] \in Jar
                  /\ Matches(SetAuthCookies[pair])
           /\ pair.as = "impersonated" =>
                  /\ SetImpersonationCookies[pair] \in Jar
                  /\ Matches(SetImpersonationCookies[pair])
<1>1. /\ Keep \in Pair /\ Keep.as = "nobody"
      /\ Keeping = [regular |-> Keep, imp |-> Keep]
  BY CookieTypes DEF Keep, Keeping
<1>2. /\ SetAuthCookies[pair] = [regular |-> pair, imp |-> Keep]
      /\ SetImpersonationCookies[pair] = [regular |-> Keep, imp |-> pair]
  BY <1>1 DEF SetAuthCookies, SetImpersonationCookies
<1> QED BY <1>1, <1>2 DEF Jar, Matches

LEMMA ArrivedType ==
    ASSUME NEW j \in Jar, NEW set \in Jar, Matches(j), Matches(set)
    PROVE  Arrived(j, set) \in Jar /\ Matches(Arrived(j, set))
BY DEF Arrived, Jar, Matches

(* What a call starts as.                                                   *)
LEMMA RequestType ==
    ASSUME NEW op \in Ops \cup {"none"}, NEW t \in Tabs, NEW j \in Jar
    PROVE  /\ Request(op, t, j) \in Exchange
           /\ Request(op, t, j).at = "sent" /\ Request(op, t, j).tab = t
           /\ Request(op, t, j).set = Keeping
<1>1. Who(j) \in Identity
  BY DEF Who, Jar, Pair, Identity
<1>2. RawRefreshToken(j) \in Pair
  BY DEF RawRefreshToken, Jar
<1> QED BY <1>1, <1>2, CookieTypes DEF Request, Idle, Exchange, Jar

LEMMA IdleType ==
    /\ Idle \in Exchange /\ Idle.at = "idle" /\ Idle.set = Keeping
BY CookieTypes DEF Idle, Exchange, Identity

(* The invariant holds at the start.                                        *)
LEMMA InitInv == Init => IInv
<1> SUFFICES ASSUME Init PROVE IInv
  OBVIOUS
<1>1. /\ jar = NoCookies /\ call = [x \in Exchanges |-> Idle]
      /\ live = {} /\ sends = 0 /\ behind = {}
      /\ shown = [t \in Tabs |-> "nobody"]
  BY DEF Init, Exchanges
<1>2. TypeOK
  BY <1>1, IdleType, CookieTypes, BoundAssumption
     DEF TypeOK, Exchanges, Identity
<1>3. PairsMatch
  BY <1>1, <1>2, IdleType, CookieTypes, MatchesAll
<1>4. CallInv
  BY <1>1, IdleType DEF CallInv, WaitersAreServed, Exchanges
<1> QED BY <1>2, <1>3, <1>4 DEF IInv

-----------------------------------------------------------------------------
(* What every step says of the calls makes the invariant hold again.        *)
LEMMA StepInv ==
    ASSUME live' \in SUBSET Rows, jar' \in Jar, Matches(jar)',
           shown' \in [Tabs -> Identity],
           call' \in [Exchanges -> Exchange],
           sends' \in 0 .. MaxSends, behind' \in SUBSET Tabs,
           \A x \in Exchanges : Matches(call'[x].set),
           CallInv'
    PROVE  IInv'
<1>1. TypeOK'
  BY DEF TypeOK, Exchanges
<1> QED BY <1>1, MatchesAllNext DEF IInv

(* What the invariant says of the tables.                                   *)
LEMMA Types ==
    ASSUME IInv
    PROVE  /\ live \in SUBSET Rows /\ jar \in Jar /\ Matches(jar)
           /\ shown \in [Tabs -> Identity]
           /\ call \in [Exchanges -> Exchange]
           /\ sends \in 0 .. MaxSends /\ behind \in SUBSET Tabs
           /\ \A x \in Exchanges : Matches(call[x].set)
           /\ CallInv
BY MatchesAll DEF IInv, TypeOK, Exchanges

(* The server answers a call.                                               *)
LEMMA AnswerStep ==
    ASSUME IInv, NEW x \in Exchanges, call[x].at = "sent",
           NEW result \in {"ok", "401", "failed"},
           NEW set \in Jar, Matches(set), Answer(x, result, set),
           live' \in SUBSET Rows, UNCHANGED <<jar, shown>>,
           sends' \in 0 .. MaxSends, behind' \in SUBSET Tabs
    PROVE  IInv'
<1> DEFINE c == [call[x] EXCEPT
               !.at = "answered", !.result = result, !.set = set,
               !.as = IF call[x].op = "me" THEN call[x].as ELSE "nobody",
               !.raw = IF call[x].op = "refresh" THEN call[x].raw
                       ELSE Empty]
<1> USE Types
<1>1. call[x] \in Exchange
  OBVIOUS
<1>2. call' = [call EXCEPT ![x] = c]
  BY <1>1 DEF Answer, Exchange
<1>3. /\ c \in Exchange /\ c.at = "answered" /\ c.set = set
      /\ c.tab = call[x].tab
  BY <1>1, CookieTypes DEF Exchange, Identity
<1> HIDE DEF c
<1>4. \A y \in Exchanges : call'[y] = IF y = x THEN c ELSE call[y]
  BY <1>2
<1>5. call' \in [Exchanges -> Exchange]
  BY <1>2, <1>3
<1>6. CallInv'
  <2>1. DOMAIN call = Exchanges /\ DOMAIN call' = Exchanges
    BY <1>5
  <2> QED BY <1>3, <1>4, <2>1, CallsAssumption
          DEF CallInv, WaitersAreServed, Exchanges
<1>7. \A y \in Exchanges : Matches(call'[y].set)
  BY <1>3, <1>4
<1> QED BY <1>5, <1>6, <1>7, StepInv DEF Matches

(* The tables are untouched.                                                *)
LEMMA RefuseStep ==
    ASSUME IInv, NEW x \in Exchanges, call[x].at = "sent",
           NEW result \in {"401", "failed"}, Refuse(x, result),
           UNCHANGED <<jar, shown>>,
           sends' \in 0 .. MaxSends, behind' \in SUBSET Tabs
    PROVE  IInv'
BY Types, CookieTypes, AnswerStep DEF Refuse

(* A new pair goes where its kind belongs.                                  *)
LEMMA IssueStep ==
    ASSUME IInv, NEW x \in Exchanges, call[x].at = "sent", NEW old,
           NEW kind \in Identity, NEW cookies,
           \/ kind # "impersonated" /\ cookies = SetAuthCookies
           \/ kind = "impersonated" /\ cookies = SetImpersonationCookies,
           IssuePair(x, old, kind, cookies), UNCHANGED <<jar, shown>>,
           sends' \in 0 .. MaxSends, behind' \in SUBSET Tabs
    PROVE  IInv'
<1>1. PICK i \in Unused :
         /\ live' = (live \ (Unused \cup {old})) \cup {i}
         /\ Answer(x, "ok", cookies[[id |-> i, as |-> kind, fresh |-> TRUE]])
  BY DEF IssuePair
<1>2. i \in Rows
  BY DEF Unused
<1> DEFINE pair == [id |-> i, as |-> kind, fresh |-> TRUE]
<1>3. pair \in Pair /\ pair.as = kind
  BY <1>2 DEF Pair
<1> HIDE DEF pair
<1>4. cookies[pair] \in Jar /\ Matches(cookies[pair])
  BY <1>3, SetTypes
<1>5. Answer(x, "ok", cookies[pair])
  BY <1>1 DEF pair
<1>6. live' \in SUBSET Rows
  BY <1>1, <1>2, Types
<1> QED BY <1>4, <1>5, <1>6, AnswerStep

(* The server handles a call.                                               *)
LEMMA ServeStep ==
    ASSUME IInv, NEW x \in Exchanges, Serve(x),
           sends' \in 0 .. MaxSends, behind' \in SUBSET Tabs
    PROVE  IInv'
<1>1. call[x].at = "sent" /\ UNCHANGED <<jar, shown>>
  BY DEF Serve
<1>2. live \in SUBSET Rows /\ call[x].as \in Identity
  BY Types DEF Exchange
<1> USE <1>1, <1>2, CookieTypes
<1>3. CASE ServeMe(x)
  <2>1. CASE Refuse(x, "401")
    BY <2>1, RefuseStep
  <2>2. CASE Answer(x, "ok", Keeping) /\ UNCHANGED live
    BY <2>2, AnswerStep
  <2> QED BY <1>3, <2>1, <2>2 DEF ServeMe
<1>4. CASE ServeLogin(x)
  <2>1. CASE Refuse(x, "401")
    BY <2>1, RefuseStep
  <2>2. ASSUME NEW kind \in {"admin", "target"},
               IssuePair(x, None, kind, SetAuthCookies)
        PROVE  IInv'
    <3>1. kind \in Identity /\ kind # "impersonated"
      BY DEF Identity, Kinds
    <3> QED BY <2>2, <3>1, IssueStep
  <2> QED BY <1>4, <2>1, <2>2 DEF ServeLogin
<1>5. CASE ServeStart(x)
  <2>1. CASE Refuse(x, "401") \/ Refuse(x, "failed")
    BY <2>1, RefuseStep
  <2>2. CASE IssuePair(x, None, "impersonated", SetImpersonationCookies)
    <3>1. "impersonated" \in Identity
      BY DEF Identity, Kinds
    <3> QED BY <2>2, <3>1, IssueStep
  <2> QED BY <1>5, <2>1, <2>2 DEF ServeStart
<1>6. CASE ServeExit(x)
  <2>1. CASE Refuse(x, "401")
    BY <2>1, RefuseStep
  <2>2. CASE Answer(x, "ok", ClearImpersonationCookies) /\ UNCHANGED live
    BY <2>2, AnswerStep
  <2>3. CASE Answer(x, "ok", Keeping) /\ UNCHANGED live
    BY <2>3, AnswerStep
  <2> QED BY <1>6, <2>1, <2>2, <2>3 DEF ServeExit
<1>7. CASE ServeJoin(x)
  <2>1. CASE Refuse(x, "failed")
    BY <2>1, RefuseStep
  <2>2. ASSUME NEW kind \in {"admin", "target"},
               IssuePair(x, None, kind, SetAuthCookies)
        PROVE  IInv'
    <3>1. kind \in Identity /\ kind # "impersonated"
      BY DEF Identity, Kinds
    <3> QED BY <2>2, <3>1, IssueStep
  <2> QED BY <1>7, <2>1, <2>2 DEF ServeJoin
<1>8. CASE ServeLogout(x)
  <2>1. PICK set \in {NoCookies, ClearImpersonationCookies,
                      ClearAuthCookies} : Answer(x, "ok", set)
    BY <1>8 DEF ServeLogout
  <2>2. live' \in SUBSET Rows
    BY <1>8 DEF ServeLogout
  <2> QED BY <2>1, <2>2, AnswerStep
<1>9. CASE ServeRefresh(x)
  <2>1. CASE Answer(x, "401", Keeping) /\ live' = live \ {call[x].raw.id}
    BY <2>1, AnswerStep
  <2>2. CASE IF call[x].raw.as = "impersonated"
             THEN IssuePair(x, call[x].raw.id, call[x].raw.as,
                            SetImpersonationCookies)
             ELSE IssuePair(x, call[x].raw.id, call[x].raw.as,
                            SetAuthCookies)
    <3>1. call[x].raw.as \in Identity
      BY Types DEF Exchange, Pair
    <3> QED BY <2>2, <3>1, IssueStep
  <2> QED BY <1>9, <2>1, <2>2 DEF ServeRefresh
<1> QED BY <1>3, <1>4, <1>5, <1>6, <1>7, <1>8, <1>9 DEF Serve

-----------------------------------------------------------------------------
(* A call that ends leaves its tab with nobody, or with who an answer says. *)
LEMMA BelievedType ==
    ASSUME IInv, NEW x \in Exchanges, NEW ok
    PROVE  Believed(x, ok) \subseteq Identity
<1>1. call[x].as \in Identity /\ "nobody" \in Identity
  BY Types DEF Exchange, Identity
<1> QED BY <1>1 DEF Believed

(* What follows a call belongs to the same tab, and does not wait.          *)
LEMMA FollowedType ==
    ASSUME IInv, NEW x \in Exchanges, call[x].at # "idle", NEW ok,
           NEW j \in Jar
    PROVE  /\ Followed(x, ok, j) \in Exchange
           /\ Followed(x, ok, j).set = Keeping
           /\ Followed(x, ok, j).at \in {"idle", "sent"}
           /\ Followed(x, ok, j).at = "sent" =>
                  Followed(x, ok, j).tab = call[x].tab
<1>1. call[x].tab \in Tabs /\ "me" \in Ops
  BY Types DEF CallInv, Ops
<1> QED BY <1>1, RequestType, IdleType DEF Followed

(* Calls that end.                                                          *)
LEMMA SettleStep ==
    ASSUME IInv, NEW X \in SUBSET Exchanges, NEW t \in Tabs, NEW ok,
           NEW j \in Jar, Settle(X, t, ok, j),
           \A y \in X : call[y].at # "idle",
           \A y \in Exchanges \ X :
               call[y].at = "waiting" => call[y].tab \notin X,
           UNCHANGED live, jar' \in Jar, Matches(jar)',
           sends' \in 0 .. MaxSends, behind' \in SUBSET Tabs
    PROVE  IInv'
<1>1. /\ call \in [Exchanges -> Exchange] /\ live' \in SUBSET Rows
      /\ shown \in [Tabs -> Identity] /\ CallInv
      /\ \A y \in Exchanges : Matches(call[y].set)
  BY Types
<1>2. call' = [y \in Exchanges |->
                 IF y \in X THEN Followed(y, ok, j) ELSE call[y]]
  BY <1>1 DEF Settle
<1>3. \A y \in Exchanges :
         call'[y] = IF y \in X THEN Followed(y, ok, j) ELSE call[y]
  BY <1>2
<1>4. \A y \in X : /\ Followed(y, ok, j) \in Exchange
                   /\ Followed(y, ok, j).set = Keeping
                   /\ Followed(y, ok, j).at \in {"idle", "sent"}
                   /\ Followed(y, ok, j).at = "sent" =>
                          Followed(y, ok, j).tab = call[y].tab
  BY FollowedType
<1>5. call' \in [Exchanges -> Exchange]
  BY <1>1, <1>2, <1>4
<1>6. \A y \in Exchanges : Matches(call'[y].set)
  BY <1>1, <1>3, <1>4, CookieTypes
<1>7. CallInv'
  <2>1. \A y \in Exchanges :
           \/ y \notin X /\ call'[y] = call[y]
           \/ /\ y \in X /\ call'[y].at \in {"idle", "sent"}
              /\ call'[y].at = "sent" => call'[y].tab = call[y].tab
    BY <1>3, <1>4
  <2>2. DOMAIN call = Exchanges /\ DOMAIN call' = Exchanges
    BY <1>1, <1>5
  <2>3. \A y \in Exchanges : call'[y].at # "idle" => call'[y].tab \in Tabs
    BY <1>1, <2>1 DEF CallInv
  <2>4. \A y \in Tabs : /\ call'[y].at # "waiting"
                        /\ call'[y].at # "idle" => call'[y].tab = y
    BY <1>1, <2>1 DEF CallInv, Exchanges
  <2>5. ASSUME NEW y \in Exchanges, call'[y].at = "waiting"
        PROVE  call'[call'[y].tab].at \in {"sent", "answered"}
    <3>1. y \notin X /\ call'[y] = call[y]
      BY <2>1, <2>5
    <3>2. call[y].tab \in Tabs /\ call[y].tab \notin X
      BY <1>1, <2>5, <3>1 DEF CallInv
    <3>3. call'[call[y].tab] = call[call[y].tab]
      BY <2>1, <3>2 DEF Exchanges
    <3> QED BY <1>1, <2>2, <2>5, <3>1, <3>3 DEF CallInv, WaitersAreServed
  <2> QED BY <2>2, <2>3, <2>4, <2>5 DEF CallInv, WaitersAreServed
<1>8. shown' \in [Tabs -> Identity]
  <2> DEFINE told == UNION {Believed(y, ok) : y \in X}
  <2>1. told \subseteq Identity
    BY BelievedType
  <2>2. shown' = [shown EXCEPT ![t] = IF told = {} THEN shown[t]
                                      ELSE CHOOSE who \in told : TRUE]
    BY DEF Settle
  <2> HIDE DEF told
  <2>3. told # {} => (CHOOSE who \in told : TRUE) \in Identity
    BY <2>1
  <2> QED BY <1>1, <2>2, <2>3
<1> QED BY <1>1, <1>5, <1>6, <1>7, <1>8, StepInv

(* A 401 waits for the refresh of its tab.                                  *)
LEMMA AwaitStep ==
    ASSUME IInv, NEW x \in Calls, call[x].at = "answered", Await(x),
           UNCHANGED <<live, jar, shown>>,
           sends' \in 0 .. MaxSends, behind' \in SUBSET Tabs
    PROVE  IInv'
<1> DEFINE t == call[x].tab
           c == [Idle EXCEPT !.op = call[x].op, !.tab = t,
                             !.at = "waiting", !.retried = TRUE]
           f == IF call[t].at = "idle" THEN Request("refresh", t, jar)
                ELSE call[t]
<1>1. /\ call \in [Exchanges -> Exchange] /\ jar \in Jar /\ CallInv
      /\ \A y \in Exchanges : Matches(call[y].set)
      /\ x \in Exchanges /\ call[x] \in Exchange
  BY Types DEF Exchanges
<1>2. t \in Tabs /\ t \in Exchanges /\ x # t
  BY <1>1, CallsAssumption DEF CallInv, Exchanges
<1>3. call' = [call EXCEPT ![x] = c, ![t] = f]
  BY DEF Await
<1>4. /\ c \in Exchange /\ c.at = "waiting" /\ c.tab = t
      /\ c.set = Keeping
  <2>1. t \in Tabs \cup {None} /\ call[x].op \in Ops \cup {"none"}
    BY <1>1 DEF Exchange
  <2> HIDE DEF t
  <2> QED BY <2>1, CookieTypes DEF Idle, Exchange, Identity
<1>5. /\ f \in Exchange /\ f.at \in {"sent", "answered"} /\ f.tab = t
      /\ Matches(f.set)
  <2>1. CASE call[t].at = "idle"
    <3>1. "refresh" \in Ops
      BY DEF Ops
    <3> QED BY <1>1, <1>2, <2>1, <3>1, RequestType, CookieTypes
  <2>2. CASE call[t].at # "idle"
    <3>1. call[t].at \in {"idle", "sent", "answered", "waiting"}
      BY <1>1, <1>2 DEF Exchange
    <3> QED BY <1>1, <1>2, <2>2, <3>1 DEF CallInv
  <2> QED BY <2>1, <2>2
<1> HIDE DEF c, f, t
<1>6. /\ call' \in [Exchanges -> Exchange]
      /\ \A y \in Exchanges :
            call'[y] = IF y = t THEN f ELSE IF y = x THEN c ELSE call[y]
  BY <1>1, <1>2, <1>3, <1>4, <1>5
<1>7. \A y \in Exchanges : Matches(call'[y].set)
  BY <1>1, <1>4, <1>5, <1>6, CookieTypes
<1>8. CallInv'
  <2>1. DOMAIN call = Exchanges /\ DOMAIN call' = Exchanges
    BY <1>1, <1>6
  <2>2. \A y \in Tabs : y # x
    BY CallsAssumption
  <2>3. \A y \in Exchanges : call'[y].at # "idle" => call'[y].tab \in Tabs
    BY <1>1, <1>2, <1>4, <1>5, <1>6 DEF CallInv
  <2>4. \A y \in Tabs : /\ call'[y].at # "waiting"
                        /\ call'[y].at # "idle" => call'[y].tab = y
    BY <1>1, <1>5, <1>6, <2>2 DEF CallInv, Exchanges
  <2>5. ASSUME NEW y \in Exchanges, call'[y].at = "waiting"
        PROVE  call'[call'[y].tab].at \in {"sent", "answered"}
    <3>1. CASE y = x
      BY <1>2, <1>4, <1>5, <1>6, <3>1
    <3>2. CASE y # x
      <4>1. y # t /\ call'[y] = call[y]
        BY <1>5, <1>6, <2>5, <3>2
      <4>2. /\ call[y].tab \in Tabs
            /\ call[call[y].tab].at \in {"sent", "answered"}
        BY <1>1, <2>1, <2>5, <4>1 DEF CallInv, WaitersAreServed
      <4> QED BY <1>5, <1>6, <2>2, <4>1, <4>2 DEF Exchanges
    <3> QED BY <3>1, <3>2
  <2> QED BY <2>1, <2>3, <2>4, <2>5 DEF CallInv, WaitersAreServed
<1> QED BY <1>6, <1>7, <1>8, Types, StepInv DEF Matches

(* The answer of a call reaches its tab.                                    *)
LEMMA DeliverStep ==
    ASSUME IInv, NEW x \in Calls, Deliver(x),
           sends' \in 0 .. MaxSends, behind' \in SUBSET Tabs
    PROVE  IInv'
<1>1. /\ call[x].at = "answered" /\ x \in Exchanges /\ UNCHANGED live
      /\ call[x].tab \in Tabs
  BY Types DEF Deliver, Exchanges, CallInv
<1>2. CASE Await(x) /\ UNCHANGED <<jar, shown>>
  BY <1>1, <1>2, AwaitStep
<1>3. CASE /\ jar' = Arrived(jar, call[x].set)
           /\ Settle({x}, call[x].tab, call[x].result = "ok", jar')
  <2>1. jar' \in Jar /\ Matches(jar')
    BY <1>1, <1>3, Types, ArrivedType DEF Exchange
  <2>2. ASSUME NEW y \in Exchanges, call[y].at = "waiting"
        PROVE  call[y].tab \notin {x}
    BY <2>2, Types, CallsAssumption DEF CallInv
  <2>3. DEFINE t == call[x].tab
               ok == call[x].result = "ok"
               j == jar'
  <2>4. Settle({x}, t, ok, j) /\ t \in Tabs /\ j \in Jar
    BY <1>1, <1>3, <2>1
  <2> HIDE DEF t, ok, j
  <2>5. {x} \in SUBSET Exchanges /\ \A y \in {x} : call[y].at # "idle"
    BY <1>1
  <2>6. Matches(jar)'
    BY <2>1 DEF Matches
  <2> QED BY <1>1, <2>1, <2>2, <2>4, <2>5, <2>6, SettleStep
<1> QED BY <1>2, <1>3 DEF Deliver

(* A call, or the refresh of a tab and those that wait for it, fails.       *)
LEMMA LoseStep ==
    ASSUME IInv, NEW x \in Exchanges, Lose(x),
           sends' \in 0 .. MaxSends, behind' \in SUBSET Tabs
    PROVE  IInv'
<1> DEFINE t == call[x].tab
           X == IF x \in Tabs THEN Waiting(t) \cup {t} ELSE {x}
<1>1. /\ call[x].at \in {"sent", "answered"} /\ Settle(X, t, FALSE, jar)
      /\ UNCHANGED <<live, jar>>
  BY DEF Lose
<1>2. /\ t \in Tabs
      /\ x \in Tabs => t = x
  BY <1>1, Types DEF CallInv
<1>3. X \in SUBSET Exchanges /\ \A y \in X : call[y].at # "idle"
  BY <1>1, <1>2 DEF Waiting, Exchanges
<1>4. ASSUME NEW y \in Exchanges \ X, call[y].at = "waiting"
      PROVE  call[y].tab \notin X
  <2>1. y \in Calls /\ call[y].tab \in Tabs
    BY <1>4, Types DEF CallInv, Exchanges
  <2>2. call[y].tab \notin Calls
    BY <2>1, CallsAssumption
  <2>3. CASE x \in Tabs
    BY <1>4, <2>1, <2>2, <2>3 DEF Waiting
  <2>4. CASE x \notin Tabs
    BY <2>1, <2>4
  <2> QED BY <2>3, <2>4
<1> HIDE DEF X, t
<1>5. jar' \in Jar /\ Matches(jar)'
  BY <1>1, Types DEF Matches
<1> QED BY <1>1, <1>2, <1>3, <1>4, <1>5, Types, SettleStep

(* The refresh of a tab has ended.                                          *)
LEMMA RefreshedStep ==
    ASSUME IInv, NEW t \in Tabs, Refreshed(t),
           sends' \in 0 .. MaxSends, behind' \in SUBSET Tabs
    PROVE  IInv'
<1>1. /\ call[t].at = "answered" /\ jar' = Arrived(jar, call[t].set)
      /\ UNCHANGED live /\ t \in Exchanges
  BY DEF Refreshed, Exchanges
<1>2. /\ call \in [Exchanges -> Exchange] /\ jar \in Jar /\ CallInv
      /\ \A y \in Exchanges : Matches(call[y].set) /\ Matches(jar)
  BY Types
<1>3. jar' \in Jar /\ Matches(jar')
  BY <1>1, <1>2, ArrivedType DEF Exchange
<1>4. Matches(jar)'
  BY <1>3 DEF Matches
<1>5. ASSUME NEW y \in Exchanges, y \notin Waiting(t),
             call[y].at = "waiting"
      PROVE  call[y].tab \in Tabs \ (Waiting(t) \cup {t})
  <2>1. y \in Calls /\ call[y].tab \in Tabs
    BY <1>2, <1>5 DEF CallInv, Exchanges
  <2> QED BY <1>5, <2>1, CallsAssumption DEF Waiting
<1>6. CASE call[t].result = "ok"
  <2> DEFINE j == jar'
             again(y) == [Request(call[y].op, t, j) EXCEPT !.retried = TRUE]
  <2>1. /\ shown' = shown
        /\ call' = [y \in Exchanges |->
                      IF y = t THEN Idle
                      ELSE IF y \in Waiting(t) THEN again(y) ELSE call[y]]
    BY <1>2, <1>6 DEF Refreshed
  <2>2. j \in Jar
    BY <1>3
  <2> HIDE DEF j
  <2>3. ASSUME NEW y \in Waiting(t)
        PROVE  /\ again(y) \in Exchange /\ again(y).at = "sent"
               /\ again(y).tab = t /\ again(y).set = Keeping
    <3>1. call[y].op \in Ops \cup {"none"}
      BY <1>2 DEF Waiting, Exchange, Exchanges
    <3> DEFINE q == Request(call[y].op, t, j)
    <3>2. /\ q \in Exchange /\ q.at = "sent" /\ q.tab = t
          /\ q.set = Keeping
      BY <2>2, <3>1, RequestType
    <3>3. again(y) = [q EXCEPT !.retried = TRUE]
      OBVIOUS
    <3> HIDE DEF q, again
    <3> QED BY <3>2, <3>3 DEF Exchange
  <2> HIDE DEF again
  <2>4. \A y \in Exchanges :
           call'[y] = IF y = t THEN Idle
                      ELSE IF y \in Waiting(t) THEN again(y) ELSE call[y]
    BY <2>1
  <2>5. call' \in [Exchanges -> Exchange]
    BY <1>2, <2>1, <2>3, IdleType
  <2>6. \A y \in Exchanges : Matches(call'[y].set)
    BY <1>2, <2>3, <2>4, IdleType, CookieTypes
  <2>7. CallInv'
    <3>1. DOMAIN call = Exchanges /\ DOMAIN call' = Exchanges
      BY <1>2, <2>5
    <3>2. \A y \in Tabs : y \notin Waiting(t)
      BY CallsAssumption DEF Waiting
    <3>3. \A y \in Exchanges :
             call'[y].at # "idle" => call'[y].tab \in Tabs
      BY <1>2, <2>3, <2>4, IdleType DEF CallInv
    <3>4. \A y \in Tabs : /\ call'[y].at # "waiting"
                          /\ call'[y].at # "idle" => call'[y].tab = y
      BY <1>2, <2>4, <3>2, IdleType DEF CallInv, Exchanges
    <3>5. ASSUME NEW y \in Exchanges, call'[y].at = "waiting"
          PROVE  call'[call'[y].tab].at \in {"sent", "answered"}
      <4>1. y # t /\ y \notin Waiting(t) /\ call'[y] = call[y]
        BY <2>3, <2>4, <3>5, IdleType
      <4>2. /\ call[y].tab \in Tabs \ {t}
            /\ call[call[y].tab].at \in {"sent", "answered"}
        BY <1>2, <1>5, <3>1, <3>5, <4>1 DEF CallInv, WaitersAreServed
      <4> QED BY <2>4, <3>2, <4>1, <4>2 DEF Exchanges
    <3> QED BY <3>1, <3>3, <3>4, <3>5 DEF CallInv, WaitersAreServed
  <2> QED BY <1>1, <1>3, <1>4, <2>1, <2>5, <2>6, <2>7, Types, StepInv
<1>7. CASE call[t].result # "ok"
  <2> DEFINE X == Waiting(t) \cup {t}
             j == jar'
  <2>1. Settle(X, t, FALSE, j) /\ j \in Jar
    BY <1>3, <1>7 DEF Refreshed
  <2> HIDE DEF j
  <2>2. X \in SUBSET Exchanges /\ \A y \in X : call[y].at # "idle"
    BY <1>1 DEF Waiting, Exchanges
  <2>3. \A y \in Exchanges \ X :
           call[y].at = "waiting" => call[y].tab \notin X
    BY <1>5
  <2> HIDE DEF X
  <2> QED BY <1>1, <1>3, <1>4, <2>1, <2>2, <2>3, SettleStep
<1> QED BY <1>6, <1>7

(* The user makes a call.                                                   *)
LEMMA SendStep ==
    ASSUME IInv, NEW x \in Calls, NEW t \in Tabs, Act(x, t),
           behind' \in SUBSET Tabs
    PROVE  IInv'
<1>1. PICK op \in Ops : Send(x, op, t)
  BY DEF Act, Mount, LogIn, LogOut, StartImpersonation, ExitImpersonation,
     RegisterByLink, SelectFamily, Ops
<1> DEFINE c == Request(op, t, jar)
<1>2. /\ call[x].at = "idle" /\ call' = [call EXCEPT ![x] = c]
      /\ sends < MaxSends /\ sends' = sends + 1
      /\ UNCHANGED <<live, jar, shown>>
  BY <1>1 DEF Send
<1>3. /\ call \in [Exchanges -> Exchange] /\ jar \in Jar /\ CallInv
      /\ sends \in 0 .. MaxSends
      /\ \A y \in Exchanges : Matches(call[y].set)
  BY Types
<1>4. /\ c \in Exchange /\ c.at = "sent" /\ c.tab = t /\ c.set = Keeping
  BY <1>3, RequestType
<1> HIDE DEF c
<1>5. /\ call' \in [Exchanges -> Exchange]
      /\ \A y \in Exchanges : call'[y] = IF y = x THEN c ELSE call[y]
  BY <1>2, <1>3, <1>4
<1>6. \A y \in Exchanges : Matches(call'[y].set)
  BY <1>3, <1>4, <1>5, CookieTypes
<1>7. \A y \in Tabs : y # x
  BY CallsAssumption
<1>8. CallInv'
  <2>1. DOMAIN call = Exchanges /\ DOMAIN call' = Exchanges
    BY <1>3, <1>5
  <2> QED BY <1>3, <1>4, <1>5, <1>7, <2>1
          DEF CallInv, WaitersAreServed, Exchanges
<1>9. sends' \in 0 .. MaxSends
  BY <1>2, <1>3, BoundAssumption
<1> QED BY <1>2, <1>5, <1>6, <1>8, <1>9, Types, StepInv DEF Matches

(* Cookies expire.                                                          *)
LEMMA ExpireStep ==
    ASSUME IInv, ExpireAccess \/ ExpirePair,
           sends' \in 0 .. MaxSends, behind' \in SUBSET Tabs
    PROVE  IInv'
<1>1. jar \in Jar /\ Matches(jar) /\ UNCHANGED <<live, shown, call>>
  BY Types DEF ExpireAccess, ExpirePair
<1>2. Empty \in Pair /\ Empty.as = "nobody"
  BY CookieTypes DEF Empty
<1>3. jar' \in Jar /\ Matches(jar')
  <2>1. PICK p \in Pair, f \in {"regular", "imp"} :
           /\ jar' = [jar EXCEPT ![f] = p]
           /\ p.as \in {jar[f].as, "nobody"}
    <3>1. jar.imp \in Pair /\ jar.regular \in Pair
      BY <1>1 DEF Jar
    <3>2. \A p \in Pair : /\ [p EXCEPT !.fresh = FALSE] \in Pair
                          /\ [p EXCEPT !.fresh = FALSE].as = p.as
      BY DEF Pair
    <3>3. CASE jar' = [jar EXCEPT !.imp.fresh = FALSE]
      <4> DEFINE p == [jar.imp EXCEPT !.fresh = FALSE]
      <4>1. jar' = [jar EXCEPT !.imp = p]
        BY <3>3
      <4>2. p \in Pair /\ p.as = jar.imp.as
        BY <3>1, <3>2
      <4> HIDE DEF p
      <4> QED BY <4>1, <4>2
    <3>4. CASE jar' = [jar EXCEPT !.regular.fresh = FALSE]
      <4> DEFINE p == [jar.regular EXCEPT !.fresh = FALSE]
      <4>1. jar' = [jar EXCEPT !.regular = p]
        BY <3>4
      <4>2. p \in Pair /\ p.as = jar.regular.as
        BY <3>1, <3>2
      <4> HIDE DEF p
      <4> QED BY <4>1, <4>2
    <3>5. CASE \/ jar' = [jar EXCEPT !.imp = Empty]
               \/ jar' = [jar EXCEPT !.regular = Empty]
      BY <1>2, <3>5
    <3> QED BY <3>3, <3>4, <3>5 DEF ExpireAccess, ExpirePair
  <2> QED BY <1>1, <2>1 DEF Jar, Matches
<1>4. CallInv'
  BY <1>1, Types DEF CallInv, WaitersAreServed
<1> QED BY <1>1, <1>3, <1>4, Types, StepInv DEF Matches

-----------------------------------------------------------------------------
(* Every step keeps the invariant.                                          *)
LEMMA NextInv == IInv /\ [Next]_vars => IInv'
<1> SUFFICES ASSUME IInv, [Next]_vars PROVE IInv'
  OBVIOUS
<1>1. CASE UNCHANGED vars
  BY <1>1 DEF vars, IInv, TypeOK, PairsMatch, CallInv, WaitersAreServed
<1>2. CASE Next
  <2>1. behind' \in SUBSET Tabs
    <3>1. FallBehind /\ behind \in SUBSET Tabs
      BY <1>2, Types DEF Next
    <3>2. Unsure \subseteq Tabs
      BY DEF Unsure
    <3> HIDE DEF Unsure
    <3> QED BY <3>1, <3>2 DEF FallBehind
  <2>2. DOMAIN call = Exchanges
    BY Types
  <2>3. ASSUME UNCHANGED sends,
               \/ \E x \in DOMAIN call : Serve(x) \/ Lose(x)
               \/ \E x \in Calls : Deliver(x)
               \/ \E t \in Tabs : Refreshed(t)
               \/ ExpireAccess \/ ExpirePair
        PROVE  IInv'
    <3>1. sends' \in 0 .. MaxSends
      BY <2>3, Types
    <3> QED BY <2>1, <2>2, <2>3, <3>1, ServeStep, LoseStep, DeliverStep,
               RefreshedStep, ExpireStep
  <2>4. ASSUME NEW x \in Calls, NEW t \in Tabs, Act(x, t) PROVE IInv'
    BY <2>1, <2>4, SendStep
  <2> QED BY <1>2, <2>3, <2>4 DEF Next
<1> QED BY <1>1, <1>2

(* The inductive invariant holds of every reachable state.                  *)
THEOREM InductiveInvariant == Spec => []IInv
BY InitInv, NextInv, PTL DEF Spec

(* Type correctness.                                                        *)
THEOREM TypeCorrect == Spec => []TypeOK
<1>1. IInv => TypeOK
  BY DEF IInv
<1> QED BY <1>1, InductiveInvariant, PTL

(* The impersonation cookies hold sessions of an impersonation only, and    *)
(* the regular ones never do (setAuthCookies, setImpersonationCookies).     *)
THEOREM CookiesStayApart == Spec => []PairsMatch
<1>1. IInv => PairsMatch
  BY DEF IInv
<1> QED BY <1>1, InductiveInvariant, PTL

(* No call waits for a refresh that has ended (refreshPromise).             *)
THEOREM NobodyWaitsInVain == Spec => []WaitersAreServed
<1>1. IInv => WaitersAreServed
  BY DEF IInv, CallInv
<1> QED BY <1>1, InductiveInvariant, PTL
-----------------------------------------------------------------------------
(* What a tab shows.  The invariant above says nothing of identities; a     *)
(* second one, on top of it, follows them from a request to its answer and  *)
(* from the answer to the tab.                                              *)

(* What is known of answers: /auth/me is refused for want of a session and  *)
(* for nothing else, and what a tab has in flight of its own is a refresh.  *)
AnswerInv ==
    /\ \A x \in Exchanges :
          /\ call[x].at = "sent" => call[x].result = "none"
          /\ call[x].op = "me" /\ call[x].at = "answered" =>
                call[x].result = IF call[x].as = "nobody" THEN "401" ELSE "ok"
    /\ \A t \in Tabs : call[t].at # "idle" => call[t].op = "refresh"

(* Call x of tab t is to tell the tab who it is.                            *)
Asks(x, t) == call[x].tab = t /\ call[x].op = "me" /\ call[x].at # "idle"

(* The calls that are to tell tab t carry the identity of now, or wait      *)
(* because it is nobody's; and the tab shows it unless one is on its way.   *)
Follows(t) ==
    /\ \A x \in Calls :
          Asks(x, t) => Who(jar) = IF call[x].at = "waiting" THEN "nobody"
                                   ELSE call[x].as
    /\ \/ shown[t] = Who(jar)
       \/ \E x \in Calls : Asks(x, t)

FollowInv == AnswerInv /\ \A t \in Tabs \ behind : Follows(t)

(* A call of the step that asks who the user is carries who that is now.    *)
AsksNow ==
    \A x \in Calls :
        /\ call'[x] # call[x]
        /\ call'[x].op = "me" /\ call'[x].at = "sent"
        => call'[x].as = Who(jar')

(* A step that tells the tab what it should leaves the tab following.       *)
KeepsUp(t) ==
    t \notin Unsure /\ Who(jar') = Who(jar) /\ Follows(t) => Follows(t)'

Steady == AnswerInv' /\ AsksNow /\ \A t \in Tabs : KeepsUp(t)

(* The fields of a new call.                                                *)
LEMMA RequestFields ==
    ASSUME NEW op, NEW t, NEW j
    PROVE  LET c == Request(op, t, j)
           IN  /\ c.op = op /\ c.tab = t /\ c.at = "sent"
               /\ c.as = Who(j) /\ c.result = "none"
BY DEF Request, Idle

LEMMA IdleFields ==
    Idle.op = "none" /\ Idle.at = "idle" /\ Idle.result = "none"
BY DEF Idle

(* A tab that follows, in the next state.                                   *)
LEMMA FollowsNext ==
    ASSUME NEW t \in Tabs, Who(jar') = Who(jar),
           \A x \in Calls :
               call'[x].tab = t /\ call'[x].op = "me" /\ call'[x].at # "idle"
               => Who(jar) = IF call'[x].at = "waiting" THEN "nobody"
                             ELSE call'[x].as,
           \/ shown'[t] = Who(jar)
           \/ \E x \in Calls : /\ call'[x].tab = t /\ call'[x].op = "me"
                               /\ call'[x].at # "idle"
    PROVE  Follows(t)'
<1>1. Who(jar)' = Who(jar)
  BY DEF Who
<1> QED BY <1>1 DEF Follows, Asks

(* A tab whose logout ends, or whose question is lost, is unsure.           *)
LEMMA LogoutUnsure ==
    ASSUME NEW t \in Tabs, NEW x \in Busy(t, call) \cup {t},
           call[x].op = "logout", call'[x].op # "logout"
    PROVE  t \in Unsure
BY DEF Unsure

LEMMA LossUnsure ==
    ASSUME NEW t \in Tabs, NEW x \in Busy(t, call) \cup {t}, Lose(x),
           call[x].op \in {"me", "refresh"}, call[x].result # "401"
    PROVE  t \in Unsure
BY DEF Unsure

(* Calls of another tab, and of this one that a step leaves alone.          *)
LEMMA Bystander ==
    ASSUME NEW t \in Tabs, shown'[t] = shown[t],
           \A x \in Calls :
               \/ call'[x] = call[x]
               \/ ~Asks(x, t) /\ call'[x].op # "me"
               \/ ~Asks(x, t) /\ call'[x].at = "idle"
               \/ ~Asks(x, t) /\ call'[x].tab # t
               \/ /\ Asks(x, t) /\ call[x].at # "waiting"
                  /\ call'[x].at \notin {"waiting", "idle"}
                  /\ call'[x].tab = t /\ call'[x].op = "me"
                  /\ call'[x].as = call[x].as
    PROVE  KeepsUp(t)
<1> SUFFICES ASSUME Who(jar') = Who(jar), Follows(t) PROVE Follows(t)'
  BY DEF KeepsUp
<1>1. \A x \in Calls :
         call'[x].tab = t /\ call'[x].op = "me" /\ call'[x].at # "idle"
         => Who(jar) = IF call'[x].at = "waiting" THEN "nobody"
                       ELSE call'[x].as
  BY DEF Follows, Asks
<1>2. \A x \in Calls :
         Asks(x, t) => /\ call'[x].tab = t /\ call'[x].op = "me"
                       /\ call'[x].at # "idle"
  BY DEF Asks
<1> QED BY <1>1, <1>2, FollowsNext DEF Follows

(* What the server makes of a call.                                         *)
LEMMA AnswerFields ==
    ASSUME IInv, NEW x \in Exchanges, NEW result, NEW set,
           Answer(x, result, set)
    PROVE  /\ \A y \in Exchanges \ {x} : call'[y] = call[y]
           /\ call'[x].op = call[x].op /\ call'[x].tab = call[x].tab
           /\ call'[x].at = "answered" /\ call'[x].result = result
           /\ call[x].op = "me" => call'[x].as = call[x].as
<1> DEFINE c == [call[x] EXCEPT
               !.at = "answered", !.result = result, !.set = set,
               !.as = IF call[x].op = "me" THEN call[x].as ELSE "nobody",
               !.raw = IF call[x].op = "refresh" THEN call[x].raw
                       ELSE Empty]
<1>1. call \in [Exchanges -> Exchange] /\ call[x] \in Exchange
  BY Types
<1>2. call' = [call EXCEPT ![x] = c]
  BY <1>1 DEF Answer, Exchange
<1>3. /\ c.op = call[x].op /\ c.tab = call[x].tab
      /\ c.at = "answered" /\ c.result = result
      /\ call[x].op = "me" => c.as = call[x].as
  BY <1>1 DEF Exchange
<1> HIDE DEF c
<1> QED BY <1>1, <1>2, <1>3

LEMMA ServeFields ==
    ASSUME IInv, NEW x \in Exchanges, Serve(x)
    PROVE  /\ \A y \in Exchanges \ {x} : call'[y] = call[y]
           /\ call'[x].op = call[x].op /\ call'[x].tab = call[x].tab
           /\ call'[x].at = "answered"
           /\ call[x].op = "me" =>
                  /\ call'[x].as = call[x].as
                  /\ call'[x].result = IF call[x].as = "nobody" THEN "401"
                                       ELSE "ok"
<1>1. \E result, set : Answer(x, result, set)
  BY DEF Serve, ServeMe, ServeLogin, ServeStart, ServeExit, ServeJoin,
         ServeLogout, ServeRefresh, Refuse, IssuePair
<1>2. call[x].op = "me" =>
         \E set : Answer(x, IF call[x].as = "nobody" THEN "401" ELSE "ok",
                         set)
  BY DEF Serve, ServeMe, ServeLogin, ServeStart, ServeExit, ServeJoin,
         ServeLogout, ServeRefresh, Refuse
<1>3. PICK result, set : Answer(x, result, set)
  BY <1>1
<1>4. CASE call[x].op = "me"
  <2>1. PICK s : Answer(x, IF call[x].as = "nobody" THEN "401" ELSE "ok", s)
    BY <1>2, <1>4
  <2> QED BY <1>4, <2>1, AnswerFields
<1> QED BY <1>3, <1>4, AnswerFields

(* The server handles a call.                                               *)
LEMMA ServeSteady ==
    ASSUME IInv, AnswerInv, NEW x \in Exchanges, Serve(x)
    PROVE  Steady
<1>1. call[x].at = "sent" /\ UNCHANGED <<jar, shown>>
  BY DEF Serve
<1>2. AnswerInv'
  BY <1>1, ServeFields DEF AnswerInv, Exchanges
<1>3. AsksNow
  BY ServeFields DEF AsksNow, Exchanges
<1>4. ASSUME NEW t \in Tabs PROVE KeepsUp(t)
  <2>1. ASSUME NEW y \in Calls
        PROVE  \/ call'[y] = call[y]
               \/ ~Asks(y, t) /\ call'[y].op # "me"
               \/ ~Asks(y, t) /\ call'[y].tab # t
               \/ /\ Asks(y, t) /\ call[y].at # "waiting"
                  /\ call'[y].at \notin {"waiting", "idle"}
                  /\ call'[y].tab = t /\ call'[y].op = "me"
                  /\ call'[y].as = call[y].as
    BY <1>1, ServeFields DEF Asks, Exchanges
  <2> QED BY <1>1, <2>1, Bystander
<1> QED BY <1>2, <1>3, <1>4 DEF Steady

(* The user makes a call.                                                   *)
LEMMA SendSteady ==
    ASSUME IInv, AnswerInv, NEW x \in Calls, NEW u \in Tabs, Act(x, u)
    PROVE  Steady
<1>1. PICK op \in Ops : Send(x, op, u)
  BY DEF Act, Mount, LogIn, LogOut, StartImpersonation, ExitImpersonation,
     RegisterByLink, SelectFamily, Ops
<1> DEFINE c == Request(op, u, jar)
<1>2. /\ call[x].at = "idle" /\ call' = [call EXCEPT ![x] = c]
      /\ UNCHANGED <<live, jar, shown>>
  BY <1>1 DEF Send
<1>3. /\ c.op = op /\ c.tab = u /\ c.at = "sent"
      /\ c.as = Who(jar) /\ c.result = "none"
  BY RequestFields
<1> HIDE DEF c
<1>4. \A y \in Exchanges : call'[y] = IF y = x THEN c ELSE call[y]
  BY <1>2, Types
<1>5. \A y \in Tabs : y # x
  BY CallsAssumption
<1>6. AnswerInv'
  BY <1>3, <1>4, <1>5 DEF AnswerInv, Exchanges
<1>7. AsksNow
  BY <1>2, <1>3, <1>4 DEF AsksNow, Exchanges
<1>8. ASSUME NEW t \in Tabs PROVE KeepsUp(t)
  <2> SUFFICES ASSUME Follows(t) PROVE Follows(t)'
    BY DEF KeepsUp
  <2>1. \A y \in Calls :
           call'[y].tab = t /\ call'[y].op = "me" /\ call'[y].at # "idle"
           => Who(jar) = IF call'[y].at = "waiting" THEN "nobody"
                         ELSE call'[y].as
    BY <1>3, <1>4 DEF Follows, Asks, Exchanges
  <2>2. \A y \in Calls : Asks(y, t) => call'[y] = call[y]
    BY <1>2, <1>4 DEF Asks, Exchanges
  <2>3. Who(jar') = Who(jar) /\ shown'[t] = shown[t]
    BY <1>2
  <2> QED BY <2>1, <2>2, <2>3, FollowsNext DEF Follows, Asks
<1> QED BY <1>6, <1>7, <1>8 DEF Steady

(* Cookies expire.                                                          *)
LEMMA ExpireSteady ==
    ASSUME AnswerInv, ExpireAccess \/ ExpirePair
    PROVE  Steady
<1>1. UNCHANGED <<live, shown, call>>
  BY DEF ExpireAccess, ExpirePair
<1>2. AnswerInv' /\ AsksNow
  BY <1>1 DEF AnswerInv, AsksNow
<1>3. \A t \in Tabs : KeepsUp(t)
  BY <1>1, Bystander
<1> QED BY <1>2, <1>3 DEF Steady

(* Calls that end: what a tab is told is who the user is.                   *)
LEMMA SettleSteady ==
    ASSUME IInv, AnswerInv, NEW X \in SUBSET Exchanges, NEW u \in Tabs,
           NEW ok, Settle(X, u, ok, jar'),
           \A y \in X : call[y].at # "idle" /\ call[y].tab = u,
           u \notin Unsure /\ Who(jar') = Who(jar) /\ Follows(u) =>
               \A y \in X : call[y].op = "me" => Believed(y, ok) = {Who(jar)}
    PROVE  Steady
<1>1. /\ call \in [Exchanges -> Exchange] /\ CallInv
      /\ shown \in [Tabs -> Identity]
  BY Types
<1>2. \A y \in Exchanges :
         call'[y] = IF y \in X THEN Followed(y, ok, jar') ELSE call[y]
  BY <1>1 DEF Settle
<1>3. ASSUME NEW y \in X
      PROVE  \/ call'[y] = Idle
             \/ /\ call'[y] = Request("me", u, jar')
                /\ call[y].op \in {"login", "start", "exit", "join"}
  BY <1>2 DEF Followed
<1>4. \A y \in X :
         /\ call'[y].result = "none" /\ call'[y].at \in {"idle", "sent"}
         /\ call'[y].op \in {"none", "me"}
         /\ call'[y].at = "sent" => /\ call'[y].tab = u
                                    /\ call'[y].as = Who(jar')
                                    /\ call'[y].op = "me"
                                    /\ call[y].op # "refresh"
  BY <1>3, RequestFields, IdleFields
<1>5. AnswerInv'
  <2>1. ASSUME NEW y \in Exchanges
        PROVE  /\ call'[y].at = "sent" => call'[y].result = "none"
               /\ call'[y].op = "me" /\ call'[y].at = "answered" =>
                     call'[y].result = IF call'[y].as = "nobody" THEN "401"
                                       ELSE "ok"
    BY <1>2, <1>4 DEF AnswerInv
  <2>2. ASSUME NEW y \in Tabs, call'[y].at # "idle"
        PROVE  call'[y].op = "refresh"
    <3>1. y \in Exchanges
      BY DEF Exchanges
    <3>2. CASE y \in X
      <4>1. call'[y].at = "sent" /\ call[y].op # "refresh"
        BY <1>4, <2>2, <3>2
      <4> QED BY <3>2, <4>1 DEF AnswerInv
    <3> QED BY <1>2, <2>2, <3>1, <3>2 DEF AnswerInv
  <2> QED BY <2>1, <2>2 DEF AnswerInv
<1>6. AsksNow
  BY <1>2, <1>4 DEF AsksNow, Exchanges
<1>7. ASSUME NEW t \in Tabs PROVE KeepsUp(t)
  <2> DEFINE told == UNION {Believed(y, ok) : y \in X}
  <2>1. shown' = [shown EXCEPT ![u] = IF told = {} THEN shown[u]
                                      ELSE CHOOSE who \in told : TRUE]
    BY DEF Settle
  <2>2. CASE t # u
    <3>1. shown'[t] = shown[t]
      BY <1>1, <2>1, <2>2
    <3>2. ASSUME NEW y \in Calls
          PROVE  \/ call'[y] = call[y]
                 \/ ~Asks(y, t) /\ call'[y].at = "idle"
                 \/ ~Asks(y, t) /\ call'[y].tab # t
      BY <1>2, <1>4, <2>2 DEF Asks, Exchanges
    <3> QED BY <3>1, <3>2, Bystander
  <2>3. CASE t = u
    <3> SUFFICES ASSUME t \notin Unsure, Who(jar') = Who(jar), Follows(t)
                 PROVE  Follows(t)'
      BY DEF KeepsUp
    <3>1. \A y \in X : call[y].op = "me" => Believed(y, ok) = {Who(jar)}
      BY <2>3
    <3>2. ASSUME NEW y \in X PROVE call[y].op # "logout"
      <4>1. y \in Busy(t, call) \cup {t}
        BY <1>1, <2>3 DEF Busy, CallInv, Exchanges
      <4>2. call'[y].op # "logout"
        BY <1>4
      <4> QED BY <4>1, <4>2, LogoutUnsure
    <3>3. \A y \in X : call[y].op # "me" => Believed(y, ok) = {}
      BY <3>2 DEF Believed
    <3>4. \A y \in Calls :
             call'[y].tab = t /\ call'[y].op = "me" /\ call'[y].at # "idle"
             => Who(jar) = IF call'[y].at = "waiting" THEN "nobody"
                           ELSE call'[y].as
      BY <1>2, <1>4 DEF Follows, Asks, Exchanges
    <3>5. CASE \E y \in X : call[y].op = "me"
      <4>1. told = {Who(jar)}
        BY <3>1, <3>3, <3>5
      <4> HIDE DEF told
      <4>2. shown'[t] = Who(jar)
        BY <1>1, <2>1, <2>3, <4>1
      <4> QED BY <3>4, <4>2, FollowsNext
    <3>6. CASE ~\E y \in X : call[y].op = "me"
      <4>1. told = {}
        BY <3>3, <3>6
      <4> HIDE DEF told
      <4>2. shown'[t] = shown[t]
        BY <1>1, <2>1, <2>3, <4>1
      <4>3. \A y \in Calls : Asks(y, t) => call'[y] = call[y]
        BY <1>2, <3>6 DEF Asks, Exchanges
      <4> QED BY <3>4, <4>2, <4>3, FollowsNext DEF Follows, Asks
    <3> QED BY <3>5, <3>6
  <2> QED BY <2>2, <2>3
<1> QED BY <1>5, <1>6, <1>7 DEF Steady

(* A 401 waits: who asked is nobody, and so is the user.                    *)
LEMMA AwaitSteady ==
    ASSUME IInv, AnswerInv, NEW x \in Calls, call[x].at = "answered",
           call[x].result = "401", Await(x), UNCHANGED <<jar, shown>>
    PROVE  Steady
<1> DEFINE u == call[x].tab
           c == [Idle EXCEPT !.op = call[x].op, !.tab = u,
                             !.at = "waiting", !.retried = TRUE]
           f == IF call[u].at = "idle" THEN Request("refresh", u, jar)
                ELSE call[u]
<1>1. /\ call \in [Exchanges -> Exchange] /\ CallInv
      /\ x \in Exchanges /\ call[x] \in Exchange
  BY Types DEF Exchanges
<1>2. u \in Tabs /\ u \in Exchanges /\ x # u
  BY <1>1, CallsAssumption DEF CallInv, Exchanges
<1>3. call' = [call EXCEPT ![x] = c, ![u] = f]
  BY DEF Await
<1>4. c.at = "waiting" /\ c.tab = u /\ c.op = call[x].op
  BY DEF Idle
<1>5. \/ f = call[u]
      \/ f.at = "sent" /\ f.op = "refresh" /\ f.result = "none"
  BY RequestFields
<1> HIDE DEF c, f
<1>6. \A y \in Exchanges :
         call'[y] = IF y = u THEN f ELSE IF y = x THEN c ELSE call[y]
  BY <1>1, <1>2, <1>3
<1>7. \A y \in Calls : y # u
  BY <1>2, CallsAssumption
<1> HIDE DEF u
<1>8. AnswerInv'
  <2>1. ASSUME NEW y \in Exchanges
        PROVE  /\ call'[y].at = "sent" => call'[y].result = "none"
               /\ call'[y].op = "me" /\ call'[y].at = "answered" =>
                     call'[y].result = IF call'[y].as = "nobody" THEN "401"
                                       ELSE "ok"
    BY <1>4, <1>5, <1>6, <2>1 DEF AnswerInv
  <2>2. ASSUME NEW y \in Tabs, call'[y].at # "idle"
        PROVE  call'[y].op = "refresh"
    <3>1. y # x /\ y \in Exchanges
      BY CallsAssumption DEF Exchanges
    <3> QED BY <1>5, <1>6, <2>2, <3>1 DEF AnswerInv
  <2> QED BY <2>1, <2>2 DEF AnswerInv
<1>9. AsksNow
  BY <1>4, <1>6, <1>7 DEF AsksNow, Exchanges
<1>10. ASSUME NEW t \in Tabs PROVE KeepsUp(t)
  <2> SUFFICES ASSUME Follows(t) PROVE Follows(t)'
    BY DEF KeepsUp
  <2>1. Asks(x, t) => Who(jar) = "nobody"
    <3>1. call[x].op = "me" => call[x].as = "nobody"
      BY <1>1 DEF AnswerInv
    <3> QED BY <3>1 DEF Follows, Asks
  <2>2. \A y \in Calls :
           \/ call'[y] = call[y]
           \/ /\ y = x /\ call'[y].at = "waiting"
              /\ call'[y].tab = call[y].tab /\ call'[y].op = call[y].op
    BY <1>4, <1>6, <1>7 DEF Exchanges, u
  <2>3. \A y \in Calls :
           call'[y].tab = t /\ call'[y].op = "me" /\ call'[y].at # "idle"
           => Who(jar) = IF call'[y].at = "waiting" THEN "nobody"
                         ELSE call'[y].as
    BY <2>1, <2>2 DEF Follows, Asks
  <2>4. \A y \in Calls :
           Asks(y, t) => /\ call'[y].tab = t /\ call'[y].op = "me"
                         /\ call'[y].at # "idle"
    BY <2>2 DEF Asks
  <2>5. Who(jar') = Who(jar) /\ shown'[t] = shown[t]
    OBVIOUS
  <2> QED BY <2>3, <2>4, <2>5, FollowsNext DEF Follows
<1> QED BY <1>8, <1>9, <1>10 DEF Steady

(* The answer of a call reaches its tab: of /auth/me, it is who the user is *)
(* now, or nobody when it is refused.                                       *)
LEMMA DeliverSteady ==
    ASSUME IInv, AnswerInv, NEW x \in Calls, Deliver(x)
    PROVE  Steady
<1>1. /\ call[x].at = "answered" /\ x \in Exchanges
      /\ call[x].tab \in Tabs
  BY Types DEF Deliver, Exchanges, CallInv
<1>2. CASE call[x].result = "401" /\ Await(x) /\ UNCHANGED <<jar, shown>>
  BY <1>1, <1>2, AwaitSteady
<1>3. CASE Settle({x}, call[x].tab, call[x].result = "ok", jar')
  <2> DEFINE u == call[x].tab
             ok == call[x].result = "ok"
  <2>1. ASSUME Follows(u), call[x].op = "me"
        PROVE  Believed(x, ok) = {Who(jar)}
    <3>1. Asks(x, u)
      BY <1>1, <2>1 DEF Asks
    <3>2. Who(jar) = call[x].as
      BY <1>1, <2>1, <3>1 DEF Follows
    <3>3. call[x].result = IF call[x].as = "nobody" THEN "401" ELSE "ok"
      BY <1>1, <2>1 DEF AnswerInv
    <3>4. CASE call[x].as = "nobody"
      <4>1. ~ok
        BY <3>3, <3>4
      <4> HIDE DEF ok
      <4> QED BY <2>1, <3>2, <3>4, <4>1 DEF Believed
    <3>5. CASE call[x].as # "nobody"
      <4>1. ok
        BY <3>3, <3>5
      <4> HIDE DEF ok
      <4> QED BY <2>1, <3>2, <4>1 DEF Believed
    <3> QED BY <3>4, <3>5
  <2>2. Settle({x}, u, ok, jar') /\ u \in Tabs
    BY <1>1, <1>3
  <2>3. \A y \in {x} : call[y].at # "idle" /\ call[y].tab = u
    BY <1>1
  <2> HIDE DEF u, ok
  <2> QED BY <1>1, <2>1, <2>2, <2>3, SettleSteady
<1> QED BY <1>2, <1>3 DEF Deliver

(* A refresh that fails takes along the calls that waited for it.           *)
LEMMA FailedSteady ==
    ASSUME IInv, AnswerInv, NEW u \in Tabs, call[u].at # "idle",
           Settle(Waiting(u) \cup {u}, u, FALSE, jar')
    PROVE  Steady
<1> DEFINE X == Waiting(u) \cup {u}
<1>1. /\ X \in SUBSET Exchanges
      /\ \A y \in X : call[y].at # "idle" /\ call[y].tab = u
  BY Types DEF Waiting, Exchanges, CallInv
<1>2. ASSUME Follows(u), NEW y \in X, call[y].op = "me"
      PROVE  Believed(y, FALSE) = {Who(jar)}
  <2>1. y \in Calls /\ call[y].tab = u /\ call[y].at = "waiting"
    BY <1>2 DEF Waiting, AnswerInv
  <2>2. Who(jar) = "nobody"
    BY <1>2, <2>1 DEF Follows, Asks
  <2> QED BY <1>2, <2>2 DEF Believed
<1>3. Settle(X, u, FALSE, jar')
  OBVIOUS
<1> HIDE DEF X
<1> QED BY <1>1, <1>2, <1>3, SettleSteady

(* A call is lost: it was refused, or its tab is unsure.                    *)
LEMMA LoseSteady ==
    ASSUME IInv, AnswerInv, NEW x \in Exchanges, Lose(x)
    PROVE  Steady
<1>1. /\ call[x].at \in {"sent", "answered"} /\ UNCHANGED jar
      /\ Settle(IF x \in Tabs THEN Waiting(call[x].tab) \cup {call[x].tab}
                ELSE {x}, call[x].tab, FALSE, jar)
  BY DEF Lose
<1>2. call[x].tab \in Tabs /\ (x \in Tabs => call[x].tab = x)
  BY <1>1, Types DEF CallInv
<1>3. CASE x \in Tabs
  BY <1>1, <1>2, <1>3, FailedSteady
<1>4. CASE x \notin Tabs
  <2> DEFINE u == call[x].tab
             ok == FALSE
  <2>1. ASSUME u \notin Unsure, Follows(u), call[x].op = "me"
        PROVE  Believed(x, ok) = {Who(jar)}
    <3>1. x \in Calls /\ x \in Busy(u, call) \cup {u} /\ u \in Tabs
      BY <1>2, <1>4 DEF Busy, Exchanges
    <3>2. call[x].result = "401"
      <4>1. call[x].op \in {"me", "refresh"}
        BY <2>1
      <4> HIDE DEF u
      <4> QED BY <2>1, <3>1, <4>1, LossUnsure
    <3>3. call[x].at = "answered" /\ call[x].as = "nobody"
      BY <1>1, <2>1, <3>2 DEF AnswerInv
    <3>4. Who(jar) = "nobody"
      BY <2>1, <3>1, <3>3 DEF Follows, Asks
    <3> QED BY <2>1, <3>4 DEF Believed
  <2>2. Settle({x}, u, ok, jar') /\ u \in Tabs
    BY <1>1, <1>2, <1>4
  <2>3. \A y \in {x} : call[y].at # "idle" /\ call[y].tab = u
    BY <1>1
  <2>4. {x} \in SUBSET Exchanges
    OBVIOUS
  <2> HIDE DEF u, ok
  <2> QED BY <2>1, <2>2, <2>3, <2>4, SettleSteady
<1> QED BY <1>3, <1>4

(* The refresh of a tab has ended: what waited is asked again.              *)
LEMMA RefreshedSteady ==
    ASSUME IInv, AnswerInv, NEW u \in Tabs, Refreshed(u)
    PROVE  Steady
<1>1. call[u].at = "answered" /\ u \in Exchanges
  BY DEF Refreshed, Exchanges
<1>2. CASE call[u].result # "ok"
  BY <1>1, <1>2, FailedSteady DEF Refreshed
<1>3. CASE call[u].result = "ok"
  <2> DEFINE again(y) == [Request(call[y].op, u, jar')
                            EXCEPT !.retried = TRUE]
  <2>1. /\ shown' = shown
        /\ call' = [y \in Exchanges |->
                      IF y = u THEN Idle
                      ELSE IF y \in Waiting(u) THEN again(y) ELSE call[y]]
    BY <1>3, Types DEF Refreshed
  <2>2. ASSUME NEW y \in Waiting(u)
        PROVE  /\ again(y).op = call[y].op /\ again(y).tab = u
               /\ again(y).at = "sent" /\ again(y).as = Who(jar')
               /\ again(y).result = "none"
    BY DEF Request, Idle
  <2> HIDE DEF again
  <2>3. \A y \in Exchanges :
           call'[y] = IF y = u THEN Idle
                      ELSE IF y \in Waiting(u) THEN again(y) ELSE call[y]
    BY <2>1
  <2>4. Waiting(u) \subseteq Calls /\ u \notin Calls
    BY CallsAssumption DEF Waiting
  <2>5. AnswerInv'
    <3>1. \A y \in Tabs : y \notin Waiting(u)
      BY <2>4, CallsAssumption
    <3> QED BY <2>2, <2>3, <3>1, IdleFields DEF AnswerInv, Exchanges
  <2>6. AsksNow
    BY <2>2, <2>3, <2>4 DEF AsksNow, Exchanges
  <2>7. ASSUME NEW t \in Tabs PROVE KeepsUp(t)
    <3> SUFFICES ASSUME Who(jar') = Who(jar), Follows(t) PROVE Follows(t)'
      BY DEF KeepsUp
    <3>1. \A y \in Calls :
             \/ call'[y] = call[y]
             \/ /\ call'[y].tab = call[y].tab /\ call'[y].op = call[y].op
                /\ call'[y].at = "sent" /\ call'[y].as = Who(jar')
      BY <2>2, <2>3, <2>4 DEF Waiting, Exchanges
    <3>2. \A y \in Calls :
             call'[y].tab = t /\ call'[y].op = "me" /\ call'[y].at # "idle"
             => Who(jar) = IF call'[y].at = "waiting" THEN "nobody"
                           ELSE call'[y].as
      BY <3>1 DEF Follows, Asks
    <3>3. \A y \in Calls :
             Asks(y, t) => /\ call'[y].tab = t /\ call'[y].op = "me"
                           /\ call'[y].at # "idle"
      BY <3>1 DEF Asks
    <3> QED BY <2>1, <3>2, <3>3, FollowsNext DEF Follows
  <2> QED BY <2>5, <2>6, <2>7 DEF Steady
<1> QED BY <1>2, <1>3

(* A tab that asks alone, and with the cookies of now, follows.             *)
LEMMA AskingFollows ==
    ASSUME AsksNow, NEW t \in Tabs, t \in Asking
    PROVE  Follows(t)'
<1>1. PICK x \in Calls :
         /\ Busy(t, call') = {x}
         /\ call'[x].op = "me" /\ call'[x].at = "sent"
         /\ call'[x] # call[x]
  BY DEF Asking
<1>2. /\ call'[x].tab = t /\ call'[x].as = Who(jar')
      /\ \A y \in Calls : call'[y].tab = t => y = x
  BY <1>1 DEF Busy, AsksNow
<1>3. Who(jar)' = Who(jar')
  BY DEF Who
<1> QED BY <1>1, <1>2, <1>3 DEF Follows, Asks

LEMMA InitFollow == Init => FollowInv
<1> SUFFICES ASSUME Init PROVE FollowInv
  OBVIOUS
<1>1. /\ \A x \in Exchanges : call[x] = Idle
      /\ \A t \in Tabs : shown[t] = "nobody"
      /\ jar = NoCookies
  BY DEF Init, Exchanges
<1>2. AnswerInv
  BY <1>1, IdleFields DEF AnswerInv, Exchanges
<1>3. Who(jar) = "nobody"
  BY <1>1 DEF Who, NoCookies, Empty
<1>4. \A t \in Tabs : Follows(t)
  BY <1>1, <1>3, IdleFields DEF Follows, Asks, Exchanges
<1> QED BY <1>2, <1>4 DEF FollowInv

(* Every step keeps the second invariant.                                   *)
LEMMA NextFollow == IInv /\ FollowInv /\ [Next]_vars => FollowInv'
<1> SUFFICES ASSUME IInv, FollowInv, [Next]_vars PROVE FollowInv'
  OBVIOUS
<1>1. AnswerInv /\ \A t \in Tabs \ behind : Follows(t)
  BY DEF FollowInv
<1>2. CASE UNCHANGED vars
  BY <1>1, <1>2
     DEF vars, FollowInv, AnswerInv, Follows, Asks, Who
<1>3. CASE Next
  <2>1. Steady
    <3>1. DOMAIN call = Exchanges
      BY Types
    <3>2. ASSUME \/ \E x \in Exchanges : Serve(x) \/ Lose(x)
                 \/ \E x \in Calls : Deliver(x)
                 \/ \E t \in Tabs : Refreshed(t)
                 \/ ExpireAccess \/ ExpirePair
          PROVE  Steady
      BY <1>1, <3>2, ServeSteady, LoseSteady, DeliverSteady,
         RefreshedSteady, ExpireSteady
    <3>3. ASSUME NEW x \in Calls, NEW t \in Tabs, Act(x, t) PROVE Steady
      BY <1>1, <3>3, SendSteady
    <3> QED BY <1>3, <3>1, <3>2, <3>3 DEF Next
  <2>2. FallBehind
    BY <1>3 DEF Next
  <2>3. ASSUME NEW t \in Tabs \ behind' PROVE Follows(t)'
    <3>1. CASE t \in Asking
      BY <2>1, <3>1, AskingFollows DEF Steady
    <3>2. CASE t \notin Asking
      <4>1. Who(jar)' = Who(jar')
        BY DEF Who
      <4>2. /\ Who(jar)' = Who(jar)
            /\ t \notin behind /\ t \notin Unsure
        <5> HIDE DEF Asking, Unsure
        <5> QED BY <2>2, <2>3, <3>2 DEF FallBehind
      <4>3. KeepsUp(t) /\ Follows(t)
        BY <1>1, <2>1, <4>2 DEF Steady
      <4> QED BY <4>1, <4>2, <4>3 DEF KeepsUp
    <3> QED BY <3>1, <3>2
  <2> QED BY <2>1, <2>3 DEF Steady, FollowInv
<1> QED BY <1>2, <1>3

(* A tab with no call in flight shows who the server would act as, unless   *)
(* that changed behind its back (AuthContext, refetchMe after every change  *)
(* of identity, the refresh that the 401s of a tab share).                  *)
THEOREM TabsShowWhoActs == Spec => []ContextFollows
<1>1. FollowInv => ContextFollows
  <2> SUFFICES ASSUME FollowInv, NEW t \in Tabs \ behind,
                      Busy(t, call) = {}
               PROVE  shown[t] = Who(jar)
    BY DEF ContextFollows
  <2>1. \A x \in Calls : ~Asks(x, t)
    BY DEF Busy, Asks
  <2> QED BY <2>1 DEF FollowInv, Follows
<1>2. Spec => []FollowInv
  BY InitFollow, NextFollow, InductiveInvariant, PTL DEF Spec
<1> QED BY <1>1, <1>2, PTL
=============================================================================
