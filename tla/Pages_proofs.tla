---------------------------- MODULE Pages_proofs ----------------------------
(* Proofs about Pages, for any members, filters, calls and length of visit. *)
EXTENDS Pages, FiniteSetTheorems, TLAPS

Somebody == Members \cup {None}
Times == [key : Somebody, holds : Somebody]

(* What may be in flight: fetches for the page, for the colours, and what   *)
(* was left behind.                                                         *)
Fits(b) ==
    /\ b.for \in {page, "branding", "nobody"}
    /\ b.for = "branding" => b.op = "get"
    /\ b.for = "nobody" => b.op \in {"change", "create", "save"}
    /\ b.for \in {"users", "family"} =>
           b.op \in {"get", "change", "create", "refetch"}
    /\ b.for = "roster" => b.op = "get"
    /\ b.for = "times" => b.op \in {"get", "save"}
    /\ b.for = "times" \/ b.op = "save" => b.content \in Times

KindInv ==
    /\ \A j \in Jobs : job[j].at # "idle" => Fits(job[j])
    /\ page = "times" => view.shown.holds \in Somebody
    /\ page \notin {"users", "roster"} => filter = None

(* The colours on their way are those of the active member.                 *)
BrandInv ==
    /\ BrandingIsCurrent
    /\ \A j \in Jobs :
          job[j].at # "idle" /\ job[j].for = "branding" =>
              job[j].content.key = selection

(* Times on their way are those of the member they are for, unless his were *)
(* saved from a grid that had gone astray.                                  *)
Own(m, holds) == holds = m \/ m \in mistaken

TimesFit(b) ==
    /\ b.for = "times" /\ b.op = "get" =>
           /\ b.content.key = selection
           /\ b.at = "answered" => Own(b.content.key, b.content.holds)
    /\ b.op = "save" => Own(b.content.key, b.content.holds)

TimesInv ==
    /\ \A m \in Somebody : Own(m, schedule[m])
    /\ \A j \in Jobs : job[j].at # "idle" => TimesFit(job[j])
    /\ page = "times" =>
           /\ Own(view.shown.key, view.shown.holds)
           /\ ~view.loading /\ "times" \notin excused =>
                  view.shown.key = selection

(* Every handler has one call in flight, until the page is left.            *)
Runs(b, handler) ==
    /\ b.at # "idle" /\ b.for = page
    /\ \/ b.op = handler
       \/ handler = "change" /\ b.op = "refetch"

HandlerInv ==
    \A handler \in {"change", "create", "save"}, j \in Jobs :
        Runs(job[j], handler) =>
            /\ handler \in view.handlers
            /\ \A k \in Jobs : Runs(job[k], handler) => j = k

(* A list that is not excused awaits one call, for the current filter, or   *)
(* is current.                                                              *)
ListFits(b) ==
    /\ b.at # "failed"
    /\ b.content.key = filter
    /\ b.op \in {"get", "refetch"} =>
           /\ view.loading
           /\ b.at = "answered" => b.content.holds = version

ListInv ==
    "list" \notin excused =>
        /\ Flying("nobody") = {}
        /\ page \in Lists =>
              /\ \A j \in Flying(page) : ListFits(job[j])
              /\ \A j, k \in Flying(page) : j = k
              /\ Flying(page) = {} /\ view.handlers = {} =>
                     view.shown = [key |-> filter, holds |-> version]

IInv == TypeOK /\ KindInv /\ BrandInv /\ TimesInv /\ HandlerInv /\ ListInv

LEMMA IdleType == Idle \in Job /\ Idle.at = "idle" /\ Nothing \in Content
BY DEF Idle, Job, Nothing, Content, Keys

(* The invariant holds at the start.                                        *)
LEMMA InitInv == Init => IInv
<1> SUFFICES ASSUME Init PROVE IInv
  OBVIOUS
<1>1. /\ page = None /\ job = [j \in Jobs |-> Idle] /\ selection = None
      /\ schedule = [m \in Somebody |-> m] /\ branding = None
      /\ page \notin Lists /\ page # "times"
  BY NoneAssumption DEF Init, PageNames, Lists, Somebody
<1>2. \A j \in Jobs : job[j].at = "idle"
  BY <1>1, IdleType
<1>3. TypeOK
  BY <1>1, IdleType, BoundAssumption DEF Init, TypeOK, View, Somebody
<1>4. KindInv /\ BrandInv
  BY <1>1, <1>2 DEF Init, KindInv, BrandInv, BrandingIsCurrent
<1>5. TimesInv
  BY <1>1, <1>2 DEF TimesInv, Own
<1>6. HandlerInv
  BY <1>2 DEF HandlerInv, Runs
<1>7. ListInv
  BY <1>1, <1>2 DEF ListInv, Flying
<1> QED BY <1>3, <1>4, <1>5, <1>6, <1>7 DEF IInv

-----------------------------------------------------------------------------
(* Whatever slots are taken, nothing is in flight that was not there or is  *)
(* new.                                                                     *)
LEMMA StartAny ==
    ASSUME NEW after, NEW new, Start(after, new)
    PROVE  /\ DOMAIN job' = Jobs
           /\ job' = [j \in Jobs |-> job'[j]]
           /\ \A j \in Jobs : job'[j] = after[j] \/ job'[j] \in new
<1> DEFINE slot == CHOOSE f \in [new -> Free] :
                       \A a, b \in new : f[a] = f[b] => a = b
<1>1. job' = [j \in Jobs |->
                IF \E c \in new : slot[c] = j
                THEN CHOOSE c \in new : slot[c] = j ELSE after[j]]
  BY DEF Start
<1> HIDE DEF slot
<1> QED BY <1>1

(* A single call takes a free slot.                                         *)
LEMMA StartOne ==
    ASSUME NEW after, NEW c, Start(after, {c})
    PROVE  \E k \in Free :
               \A j \in Jobs : job'[j] = IF j = k THEN c ELSE after[j]
<1> DEFINE P(f) == \A a, b \in {c} : f[a] = f[b] => a = b
           slot == CHOOSE f \in [{c} -> Free] : P(f)
<1>1. /\ job' = [j \in Jobs |->
                IF \E d \in {c} : slot[d] = j
                THEN CHOOSE d \in {c} : slot[d] = j ELSE after[j]]
      /\ Cardinality({c}) <= Cardinality(Free)
  BY DEF Start
<1>2. Free # {}
  <2>1. Cardinality({c}) = 1
    BY FS_Singleton
  <2> QED BY <1>1, <2>1, FS_EmptySet
<1>3. slot \in [{c} -> Free]
  <2>1. PICK k \in Free : TRUE
    BY <1>2
  <2>2. /\ [d \in {c} |-> k] \in [{c} -> Free]
        /\ P([d \in {c} |-> k])
    OBVIOUS
  <2> HIDE DEF P
  <2> QED BY <2>2
<1> HIDE DEF slot
<1>4. slot[c] \in Free /\ Free \subseteq Jobs
  BY <1>3 DEF Free
<1>5. \A j \in Jobs : job'[j] = IF j = slot[c] THEN c ELSE after[j]
  BY <1>1, <1>4
<1> QED BY <1>4, <1>5

(* What the invariant says of the variables.                                *)
LEMMA Types ==
    ASSUME IInv
    PROVE  /\ selection \in Somebody /\ page \in PageNames \cup {None}
           /\ filter \in Filters \cup {None}
           /\ view \in View /\ branding \in Somebody
           /\ job \in [Jobs -> Job] /\ version \in Nat
           /\ schedule \in [Somebody -> Somebody]
           /\ moves \in 0 .. MaxMoves /\ excused \in SUBSET {"list", "times"}
           /\ mistaken \in SUBSET Somebody
           /\ KindInv /\ BrandInv /\ TimesInv /\ HandlerInv /\ ListInv
BY DEF IInv, TypeOK, Somebody

LEMMA CallType ==
    ASSUME NEW for \in PageNames \cup {"branding"},
           NEW op \in {"get", "change", "create", "save", "refetch"},
           NEW key \in Keys, NEW holds \in Nat \cup Somebody
    PROVE  /\ Call(for, op, key, holds) \in Job
           /\ Call(for, op, key, holds).for = for
           /\ Call(for, op, key, holds).op = op
           /\ Call(for, op, key, holds).at = "sent"
           /\ Call(for, op, key, holds).content.key = key
           /\ Call(for, op, key, holds).content.holds = holds
           /\ (key \in Somebody /\ holds \in Somebody) =>
                  Call(for, op, key, holds).content \in Times
BY DEF Call, Job, Content, Somebody, Times

LEMMA GetType ==
    ASSUME NEW for \in PageNames \cup {"branding"}, NEW key \in Keys
    PROVE  /\ Get(for, key) \in Job
           /\ Get(for, key).for = for /\ Get(for, key).op = "get"
           /\ Get(for, key).at = "sent"
           /\ Get(for, key).content.key = key
           /\ key \in Somebody => Get(for, key).content \in Times
BY DEF Get, Call, Job, Content, Somebody, Times

LEMMA MoveType ==
    ASSUME IInv, Move PROVE moves' \in 0 .. MaxMoves
BY BoundAssumption, Types DEF Move

(* A step that runs no new handler.                                         *)
LEMMA HandlerFrame ==
    ASSUME HandlerInv, UNCHANGED page, view'.handlers = view.handlers,
           \A j \in Jobs : \/ job'[j] = job[j]
                           \/ job'[j].at = "idle" \/ job'[j].op = "get"
    PROVE  HandlerInv'
BY DEF HandlerInv, Runs

(* A step that has nothing to do with lists.                                *)
LEMMA ListFrame ==
    ASSUME ListInv,
           UNCHANGED <<page, filter, version>>, view'.shown = view.shown,
           view'.handlers = view.handlers, view'.loading = view.loading,
           "list" \notin excused' => "list" \notin excused,
           \A j \in Jobs :
               \/ job'[j] = job[j]
               \/ /\ j \notin Flying(page) /\ j \notin Flying("nobody")
                  /\ \/ job'[j].at = "idle"
                     \/ job'[j].for # page /\ job'[j].for # "nobody"
    PROVE  ListInv'
<1> SUFFICES ASSUME "list" \notin excused' PROVE ListInv'
  BY DEF ListInv
<1>1. /\ Flying(page)' = Flying(page)
      /\ Flying("nobody")' = Flying("nobody")
      /\ \A j \in Flying(page) : job'[j] = job[j]
  BY DEF Flying
<1> HIDE DEF Flying
<1> QED BY <1>1 DEF ListInv, ListFits

-----------------------------------------------------------------------------
(* The user makes another member active.                                    *)
LEMMA SelectStep ==
    ASSUME IInv, NEW m \in Members, Select(m) PROVE IInv'
<1> DEFINE new == {Get(p, m) : p \in {"branding"} \cup ({page} \cap {"times"})}
           after == Without(Cancelled("branding") \cup Cancelled("times"))
<1>0. /\ Move /\ selection' = m /\ branding' = None
      /\ Start(after, new)
      /\ view' = [view EXCEPT !.loading = view.loading \/ page = "times"]
      /\ UNCHANGED <<page, filter, version, schedule, excused, mistaken>>
  BY DEF Select
<1>1. m \in Keys /\ m \in Somebody /\ None \in Somebody
  BY DEF Keys, Somebody
<1>2. \A c \in new : /\ c \in Job /\ c.at = "sent" /\ c.op = "get"
                     /\ c.for \in {"branding", page}
                     /\ c.for = "branding" \/ c.for = "times"
                     /\ c.content.key = m /\ c.content \in Times
  <2>1. SUFFICES ASSUME NEW p \in {"branding", "times"},
                        p = "branding" \/ p = page
                 PROVE  /\ Get(p, m) \in Job
                        /\ Get(p, m).at = "sent" /\ Get(p, m).op = "get"
                        /\ Get(p, m).for = p
                        /\ Get(p, m).content.key = m
                        /\ Get(p, m).content \in Times
    OBVIOUS
  <2>2. p \in PageNames \cup {"branding"}
    BY DEF PageNames
  <2> QED BY <1>1, <2>2, GetType
<1>3. \A j \in Jobs :
         after[j] = IF j \in Cancelled("branding") \cup Cancelled("times")
                    THEN Idle ELSE job[j]
  BY DEF Without
<1>4. /\ DOMAIN job' = Jobs /\ job' = [j \in Jobs |-> job'[j]]
      /\ \A j \in Jobs : job'[j] = after[j] \/ job'[j] \in new
  BY <1>0, StartAny
<1> HIDE DEF new, after
<1>5. \A j \in Jobs :
         \/ job'[j] = Idle
         \/ /\ job'[j] = job[j]
            /\ j \notin Cancelled("branding") /\ j \notin Cancelled("times")
         \/ job'[j] \in new
  BY <1>3, <1>4
<1>6. /\ view'.shown = view.shown /\ view'.handlers = view.handlers
      /\ view'.loading = (view.loading \/ page = "times")
      /\ view' \in View
  BY <1>0, Types DEF View
<1>7. TypeOK'
  <2>1. job' \in [Jobs -> Job]
    BY <1>2, <1>4, <1>5, IdleType, Types
  <2>2. moves' \in 0 .. MaxMoves
    BY <1>0, MoveType
  <2> QED BY <1>0, <1>6, <2>1, <2>2, Types DEF TypeOK, Somebody
<1>8. KindInv'
  <2>1. ASSUME NEW j \in Jobs, job'[j].at # "idle" PROVE Fits(job[j])'
    <3>1. CASE job'[j] = job[j]
      BY <1>0, <2>1, <3>1, Types DEF KindInv, Fits
    <3>2. CASE job'[j] \in new
      BY <1>0, <1>2, <3>2 DEF Fits
    <3> QED BY <1>5, <2>1, <3>1, <3>2, IdleType
  <2> QED BY <1>0, <1>6, <2>1, Types DEF KindInv
<1>9. BrandInv'
  <2>1. ASSUME NEW j \in Jobs, job'[j].at # "idle", job'[j].for = "branding"
        PROVE  job'[j].content.key = m
    <3>1. CASE job'[j] = job[j] /\ j \notin Cancelled("branding")
      BY <2>1, <3>1, Types DEF KindInv, Fits, Cancelled, Flying
    <3> QED BY <1>2, <1>5, <2>1, <3>1, IdleType
  <2> QED BY <1>0, <2>1 DEF BrandInv, BrandingIsCurrent
<1>10. TimesInv'
  <2>1. ASSUME NEW j \in Jobs, job'[j].at # "idle" PROVE TimesFit(job[j])'
    <3>1. CASE job'[j] = job[j] /\ j \notin Cancelled("times")
      BY <1>0, <2>1, <3>1, Types DEF TimesInv, TimesFit, Own, Cancelled, Flying
    <3>2. CASE job'[j] \in new
      BY <1>0, <1>2, <3>2 DEF TimesFit, Own
    <3> QED BY <1>5, <2>1, <3>1, <3>2, IdleType
  <2>2. \A a \in Somebody : Own(a, schedule[a])'
    BY <1>0, Types DEF TimesInv, Own
  <2>3. page = "times" => Own(view.shown.key, view.shown.holds)'
    BY <1>0, <1>6, Types DEF TimesInv, Own
  <2> QED BY <1>0, <1>6, <2>1, <2>2, <2>3 DEF TimesInv
<1>11. HandlerInv'
  BY <1>0, <1>2, <1>5, <1>6, IdleType, Types, HandlerFrame
<1>12. ListInv'
  <2>1. CASE page = "times"
    <3>1. page \notin Lists
      BY <2>1 DEF Lists
    <3>2. "list" \notin excused => Flying("nobody") = {}
      BY Types DEF ListInv
    <3>3. "list" \notin excused => Flying("nobody")' = {}
      BY <1>2, <1>5, <3>2, IdleType DEF Flying
    <3> QED BY <1>0, <3>1, <3>3 DEF ListInv
  <2>2. CASE page # "times"
    <3> DEFINE g == Get("branding", m)
    <3>1. new = {g}
      BY <2>2 DEF new
    <3>2. g.for = "branding"
      BY <1>1, GetType
    <3> HIDE DEF g
    <3>3. PICK k \in Free :
             \A j \in Jobs : job'[j] = IF j = k THEN g ELSE after[j]
      BY <1>0, <3>1, StartOne
    <3>4. g.for = "branding" /\ page # "branding"
      BY <3>2, Types, NoneAssumption DEF PageNames, Lists
    <3>5. /\ k \notin Flying(page) /\ k \notin Flying("nobody")
          /\ k \in Jobs
      BY DEF Free, Flying
    <3>6. ASSUME NEW j \in Jobs, j # k
          PROVE  \/ job'[j] = job[j]
                 \/ /\ j \notin Flying(page) /\ j \notin Flying("nobody")
                    /\ job'[j].at = "idle"
      <4>1. job'[j] = after[j]
        BY <3>3, <3>6
      <4>2. CASE j \in Cancelled("branding") \cup Cancelled("times")
        <5>1. job'[j] = Idle /\ job[j].for \in {"branding", "times"}
          BY <1>3, <4>1, <4>2 DEF Cancelled, Flying
        <5> QED BY <2>2, <3>4, <5>1, IdleType DEF Flying
      <4> QED BY <1>3, <4>1, <4>2
    <3>7. \A j \in Jobs :
             \/ job'[j] = job[j]
             \/ /\ j \notin Flying(page) /\ j \notin Flying("nobody")
                /\ \/ job'[j].at = "idle"
                   \/ job'[j].for # page /\ job'[j].for # "nobody"
      BY <3>3, <3>4, <3>5, <3>6
    <3>8. view'.loading = view.loading
      BY <1>6, <2>2, Types DEF View
    <3> QED BY <1>0, <1>6, <3>7, <3>8, Types, ListFrame
  <2> QED BY <2>1, <2>2
<1> QED BY <1>7, <1>8, <1>9, <1>10, <1>11, <1>12 DEF IInv

-----------------------------------------------------------------------------
(* What Forgive forgives.                                                   *)
LEMMA ForgiveFacts ==
    ASSUME IInv, NEW when, Forgive(when)
    PROVE  /\ excused' \in SUBSET {"list", "times"}
           /\ "times" \in excused' <=> "times" \in excused
           /\ "list" \notin excused' => ~when /\ Flying("nobody") = {}
BY Types DEF Forgive

(* One call for a list is in flight.                                        *)
LEMMA OneFlying ==
    ASSUME "list" \notin excused' =>
               /\ Flying("nobody")' = {}
               /\ page' \in Lists =>
                     \E k \in Jobs : Flying(page)' = {k} /\ ListFits(job[k])'
    PROVE  ListInv'
BY DEF ListInv

(* A filter changes.                                                        *)
LEMMA FilterStep ==
    ASSUME IInv, NEW f \in Filters, FilterUsers(f) \/ FilterRoster(f)
    PROVE  IInv'
<1> DEFINE g == Get(page, f)
<1>1. /\ Move /\ page \in {"users", "roster"} /\ filter' = f
      /\ view' = [view EXCEPT !.loading = TRUE]
      /\ UNCHANGED <<selection, page, branding, version, schedule, mistaken>>
  BY DEF FilterUsers, FilterRoster
<1>2. PICK after :
         /\ Start(after, {g})
         /\ \A j \in Jobs :
               \/ after[j] = job[j]
               \/ after[j] = Idle /\ j \in Flying(page) /\ job[j].op = "get"
         /\ excused' \in SUBSET {"list", "times"}
         /\ "times" \in excused' <=> "times" \in excused
         /\ "list" \notin excused' =>
               /\ Flying("nobody") = {}
               /\ \A j \in Flying(page) : after[j] = Idle
  <2>1. CASE FilterUsers(f)
    <3>1. Start(job, {g}) /\ Forgive(Overlap)
      BY <2>1 DEF FilterUsers
    <3>2. "list" \notin excused' => Flying(page) = {}
      BY <2>1, <3>1, ForgiveFacts DEF FilterUsers, Overlap
    <3> QED BY <3>1, <3>2, ForgiveFacts
  <2>2. CASE FilterRoster(f)
    <3>1. Start(Without(Cancelled("roster")), {g}) /\ Forgive(FALSE)
          /\ page = "roster"
      BY <2>2 DEF FilterRoster
    <3>2. ASSUME NEW j \in Flying(page) PROVE job[j].op = "get" /\ j \in Jobs
      BY <3>1, <3>2, Types DEF KindInv, Fits, Flying
    <3>3. Cancelled("roster") = Flying(page)
      BY <3>1, <3>2 DEF Cancelled
    <3>4. \A j \in Jobs : Without(Cancelled("roster"))[j] =
                             IF j \in Flying(page) THEN Idle ELSE job[j]
      BY <3>3 DEF Without
    <3>5. \A j \in Flying(page) : j \in Jobs
      BY DEF Flying
    <3> QED BY <3>1, <3>2, <3>4, <3>5, ForgiveFacts
  <2> QED BY <2>1, <2>2
<1>3. /\ g \in Job /\ g.at = "sent" /\ g.op = "get" /\ g.for = page
      /\ g.content.key = f
  BY <1>1, GetType DEF PageNames, Lists, Keys
<1> HIDE DEF g
<1>4. PICK k \in Free :
         \A j \in Jobs : job'[j] = IF j = k THEN g ELSE after[j]
  <2>1. Start(after, {g})
    BY <1>2
  <2> QED BY <2>1, StartOne
<1>5. k \in Jobs /\ k \notin Flying(page) /\ k \notin Flying("nobody")
  BY DEF Free, Flying
<1>6. DOMAIN job' = Jobs /\ job' = [j \in Jobs |-> job'[j]]
  BY <1>2, StartAny
<1>7. \A j \in Jobs : \/ job'[j] = job[j] \/ job'[j] = Idle
                      \/ job'[j] = g
  BY <1>2, <1>4
<1>8. view' \in View /\ view'.loading = TRUE /\ view'.shown = view.shown
      /\ view'.handlers = view.handlers
  BY <1>1, Types DEF View
<1>9. TypeOK'
  <2>1. job' \in [Jobs -> Job]
    BY <1>3, <1>6, <1>7, IdleType, Types
  <2>2. moves' \in 0 .. MaxMoves
    BY <1>1, MoveType
  <2> QED BY <1>1, <1>2, <1>8, <2>1, <2>2, Types DEF TypeOK, Somebody
<1>10. KindInv'
  <2>1. ASSUME NEW j \in Jobs, job'[j].at # "idle" PROVE Fits(job[j])'
    <3>1. CASE job'[j] = job[j]
      BY <1>1, <2>1, <3>1, Types DEF KindInv, Fits
    <3>2. CASE job'[j] = g
      BY <1>1, <1>3, <3>2 DEF Fits
    <3> QED BY <1>7, <2>1, <3>1, <3>2, IdleType
  <2> QED BY <1>1, <1>8, <2>1 DEF KindInv
<1>11. BrandInv'
  BY <1>1, <1>3, <1>7, IdleType, Types DEF BrandInv, BrandingIsCurrent
<1>12. TimesInv'
  <2>1. ASSUME NEW j \in Jobs, job'[j].at # "idle" PROVE TimesFit(job[j])'
    <3>1. CASE job'[j] = job[j]
      BY <1>1, <1>2, <2>1, <3>1, Types DEF TimesInv, TimesFit, Own
    <3>2. CASE job'[j] = g
      BY <1>1, <1>3, <3>2 DEF TimesFit, Own
    <3> QED BY <1>7, <2>1, <3>1, <3>2, IdleType
  <2> QED BY <1>1, <1>2, <2>1, Types DEF TimesInv, Own
<1>13. HandlerInv'
  BY <1>1, <1>3, <1>7, <1>8, IdleType, Types, HandlerFrame
<1>14. ListInv'
  <2> SUFFICES ASSUME "list" \notin excused'
               PROVE  /\ Flying("nobody")' = {}
                      /\ Flying(page)' = {k} /\ ListFits(job[k])'
    BY <1>5, OneFlying
  <2>1. page # "nobody"
    BY <1>1
  <2>2. Flying("nobody")' = {}
    BY <1>2, <1>3, <1>7, <2>1, IdleType DEF Flying
  <2>3. Flying(page)' = {k}
    <3>1. ASSUME NEW j \in Jobs, j # k PROVE j \notin Flying(page)'
      <4>1. job'[j] = after[j]
        BY <1>4, <3>1
      <4> QED BY <1>1, <1>2, <4>1, IdleType DEF Flying
    <3>2. k \in Flying(page)'
      BY <1>1, <1>3, <1>4, <1>5 DEF Flying
    <3>3. Flying(page)' \subseteq Jobs
      BY DEF Flying
    <3> QED BY <3>1, <3>2, <3>3
  <2>4. ListFits(job[k])'
    BY <1>1, <1>3, <1>4, <1>5, <1>8 DEF ListFits
  <2> QED BY <2>2, <2>3, <2>4
<1> QED BY <1>9, <1>10, <1>11, <1>12, <1>13, <1>14 DEF IInv

-----------------------------------------------------------------------------
(* A handler makes its call, unless it is at work already.                  *)
LEMMA HandleStep ==
    ASSUME IInv, NEW handler \in {"change", "create", "save"},
           NEW key \in Keys, NEW holds \in Nat \cup Somebody,
           Handle(handler, key, holds),
           \/ page \in {"users", "family"} /\ handler # "save"
           \/ /\ page = "times" /\ handler = "save"
              /\ key = selection /\ holds = view.shown.holds
              /\ ~view.loading,
           excused' \in SUBSET {"list", "times"},
           "times" \in excused' <=> "times" \in excused,
           mistaken' \in SUBSET Somebody, mistaken \subseteq mistaken',
           handler = "save" /\ "times" \in excused => key \in mistaken',
           "list" \notin excused' =>
               /\ "list" \notin excused
               /\ page \in Lists => Flying(page) = {} /\ key = filter
    PROVE  IInv'
<1> DEFINE c == Call(page, handler, key, holds)
<1>1. /\ Move /\ handler \notin view.handlers
      /\ view' = [view EXCEPT !.handlers = view.handlers \cup {handler}]
      /\ Start(job, {c})
      /\ UNCHANGED <<selection, page, filter, branding, version, schedule>>
  BY DEF Handle
<1>2. /\ c \in Job /\ c.at = "sent" /\ c.op = handler /\ c.for = page
      /\ c.content.key = key /\ c.content.holds = holds
      /\ page = "times" => c.content \in Times
  <2>1. page \in PageNames \cup {"branding"}
    BY DEF PageNames, Lists
  <2>2. page = "times" => key \in Somebody /\ holds \in Somebody
    BY Types DEF KindInv
  <2> QED BY <2>1, <2>2, CallType
<1> HIDE DEF c
<1>3. PICK k \in Free :
         \A j \in Jobs : job'[j] = IF j = k THEN c ELSE job[j]
  BY <1>1, StartOne
<1>4. k \in Jobs /\ job[k].at = "idle"
  BY DEF Free
<1>5. DOMAIN job' = Jobs /\ job' = [j \in Jobs |-> job'[j]]
  BY <1>1, StartAny
<1>6. view' \in View /\ view'.loading = view.loading
      /\ view'.shown = view.shown
      /\ view'.handlers = view.handlers \cup {handler}
  BY <1>1, Types DEF View
<1>7. TypeOK'
  <2>1. job' \in [Jobs -> Job]
    BY <1>2, <1>3, <1>5, Types
  <2>2. moves' \in 0 .. MaxMoves
    BY <1>1, MoveType
  <2> QED BY <1>1, <1>6, <2>1, <2>2, Types DEF TypeOK, Somebody
<1>8. KindInv'
  <2>1. ASSUME NEW j \in Jobs, job'[j].at # "idle" PROVE Fits(job[j])'
    <3>1. CASE j # k
      BY <1>1, <1>3, <2>1, <3>1, Types DEF KindInv, Fits
    <3>2. CASE j = k
      BY <1>1, <1>2, <1>3, <3>2 DEF Fits
    <3> QED BY <3>1, <3>2
  <2> QED BY <1>1, <1>6, <2>1, Types DEF KindInv
<1>9. BrandInv'
  BY <1>1, <1>2, <1>3, Types DEF BrandInv, BrandingIsCurrent
<1>10. TimesInv'
  <2>1. ASSUME NEW j \in Jobs, job'[j].at # "idle" PROVE TimesFit(job[j])'
    <3>1. CASE j # k
      BY <1>1, <1>3, <2>1, <3>1, Types DEF TimesInv, TimesFit, Own
    <3>2. CASE j = k
      <4>1. handler = "save" => holds = key \/ key \in mistaken'
        BY Types DEF TimesInv, Own
      <4> QED BY <1>1, <1>2, <1>3, <3>2, <4>1 DEF TimesFit, Own
    <3> QED BY <3>1, <3>2
  <2> QED BY <1>1, <1>6, <2>1, Types DEF TimesInv, Own
<1>11. HandlerInv'
  <2>1. ASSUME NEW h \in {"change", "create", "save"}, NEW j \in Jobs,
               Runs(job[j], h)'
        PROVE  /\ h \in view'.handlers
               /\ \A i \in Jobs : Runs(job[i], h)' => j = i
    <3>1. \A i \in Jobs \ {k} : Runs(job[i], h)' <=> Runs(job[i], h)
      BY <1>1, <1>3 DEF Runs
    <3>2. Runs(job[k], h)' <=> h = handler
      BY <1>1, <1>2, <1>3, <1>4 DEF Runs
    <3>3. \A i \in Jobs : Runs(job[i], h) => h \in view.handlers
      BY Types DEF HandlerInv
    <3>4. CASE h = handler
      <4>1. \A i \in Jobs : Runs(job[i], h)' => i = k
        BY <1>1, <3>1, <3>3, <3>4
      <4> QED BY <1>6, <2>1, <3>4, <4>1
    <3>5. CASE h # handler
      BY <1>6, <2>1, <3>1, <3>2, <3>5, Types DEF HandlerInv
    <3> QED BY <3>4, <3>5
  <2> QED BY <2>1 DEF HandlerInv
<1>12. ListInv'
  <2> SUFFICES ASSUME "list" \notin excused'
               PROVE  /\ Flying("nobody")' = {}
                      /\ page' \in Lists =>
                            Flying(page)' = {k} /\ ListFits(job[k])'
    BY <1>4, OneFlying
  <2>1. page # "nobody" /\ Flying("nobody") = {}
    BY Types DEF ListInv
  <2>2. Flying("nobody")' = {}
    BY <1>2, <1>3, <2>1 DEF Flying
  <2>3. ASSUME page \in Lists
        PROVE  Flying(page)' = {k} /\ ListFits(job[k])'
    <3>1. Flying(page) = {} /\ key = filter
      BY <2>3
    <3>2. Flying(page)' = {k}
      BY <1>1, <1>2, <1>3, <1>4, <3>1 DEF Flying
    <3> QED BY <1>1, <1>2, <1>3, <1>4, <3>1, <3>2 DEF ListFits
  <2> QED BY <1>1, <2>2, <2>3
<1> QED BY <1>7, <1>8, <1>9, <1>10, <1>11, <1>12 DEF IInv

(* The buttons of the pages.                                                *)
LEMMA HandlersStep ==
    ASSUME IInv, \/ ChangeUser \/ CreateTrainer \/ RemoveTrainer
                 \/ AddChild \/ SaveTimes
    PROVE  IInv'
<1>1. /\ None \in Keys /\ None \in Nat \cup Somebody /\ filter \in Keys
  BY Types DEF Keys, Somebody
<1>2. CASE \/ ChangeUser \/ CreateTrainer
  <2>1. /\ page = "users" /\ Excuse("list", Overlap)
        /\ \E handler \in {"change", "create"} : Handle(handler, filter, None)
        /\ mistaken' = mistaken
    BY <1>2 DEF ChangeUser, CreateTrainer
  <2>2. /\ excused' \in SUBSET {"list", "times"}
        /\ "times" \in excused' <=> "times" \in excused
        /\ "list" \notin excused' => "list" \notin excused /\ ~Overlap
    BY <2>1, Types DEF Excuse
  <2>3. "list" \notin excused' => Flying(page) = {}
    BY <2>1, <2>2 DEF Overlap
  <2> QED BY <1>1, <2>1, <2>2, <2>3, Types, HandleStep
<1>3. CASE RemoveTrainer \/ AddChild
  <2>1. /\ page = "family" /\ mistaken' = mistaken
        /\ \E handler \in {"change", "create"} : Handle(handler, None, None)
        /\ Excuse("list", Flying("family") # {} \/ view.handlers # {})
    BY <1>3 DEF RemoveTrainer, AddChild
  <2>2. /\ excused' \in SUBSET {"list", "times"}
        /\ "times" \in excused' <=> "times" \in excused
        /\ "list" \notin excused' =>
               "list" \notin excused /\ Flying("family") = {}
    BY <2>1, Types DEF Excuse
  <2>3. filter = None
    BY <2>1, Types DEF KindInv
  <2> QED BY <1>1, <2>1, <2>2, <2>3, Types, HandleStep
<1>4. CASE SaveTimes
  <2>1. /\ page = "times" /\ ~view.loading /\ excused' = excused
        /\ Handle("save", selection, view.shown.holds)
        /\ mistaken' = mistaken \cup (IF "times" \in excused THEN {selection}
                                                             ELSE {})
    BY <1>4 DEF SaveTimes
  <2>2. /\ selection \in Keys /\ view.shown.holds \in Nat \cup Somebody
        /\ page \notin Lists
    BY <2>1, Types DEF Keys, Somebody, KindInv, Lists
  <2>3. /\ mistaken' \in SUBSET Somebody /\ mistaken \subseteq mistaken'
        /\ "times" \in excused => selection \in mistaken'
    BY <2>1, Types
  <2>4. /\ excused' \in SUBSET {"list", "times"}
        /\ "times" \in excused' <=> "times" \in excused
        /\ "list" \notin excused' => "list" \notin excused
    BY <2>1, Types
  <2> QED BY <2>1, <2>2, <2>3, <2>4, HandleStep
<1> QED BY <1>2, <1>3, <1>4

-----------------------------------------------------------------------------
(* The router shows another page.                                           *)
LEMMA NavigateStep ==
    ASSUME IInv, NEW p \in PageNames, Navigate(p) PROVE IInv'
<1> DEFINE key == IF p = "times" THEN selection ELSE None
           g == Get(p, key)
           after == [j \in Jobs |->
               IF j \notin Flying(page) THEN job[j]
               ELSE IF job[j].op \in {"change", "create", "save"}
               THEN [job[j] EXCEPT !.for = "nobody"] ELSE Idle]
<1>1. /\ Move /\ p # page /\ page' = p /\ filter' = None
      /\ view' = [shown |-> Nothing, loading |-> TRUE, handlers |-> {}]
      /\ Start(after, {g}) /\ Forgive(view.handlers # {})
      /\ UNCHANGED <<selection, branding, version, schedule, mistaken>>
  BY DEF Navigate
<1>2. key \in Somebody /\ key \in Keys /\ (p # "times" => key = None)
  BY Types DEF Somebody, Keys
<1> HIDE DEF key
<1>3. /\ g \in Job /\ g.at = "sent" /\ g.op = "get" /\ g.for = p
      /\ g.content.key = key /\ g.content \in Times
  BY <1>2, GetType
<1>4. /\ p = "times" => key = selection
      /\ p \in {"users", "family", "roster", "times"}
      /\ p \notin {"branding", "nobody"}
      /\ page \notin {"branding", "nobody"}
  BY Types, NoneAssumption DEF key, PageNames, Lists
<1> HIDE DEF g
<1>5. \A j \in Jobs :
         \/ after[j] = Idle
         \/ after[j] = job[j] /\ j \notin Flying(page)
         \/ /\ after[j] \in Job /\ after[j].for = "nobody"
            /\ after[j].op = job[j].op /\ after[j].at = job[j].at
            /\ after[j].content = job[j].content
            /\ j \in Flying(page)
            /\ job[j].op \in {"change", "create", "save"}
  <2> SUFFICES ASSUME NEW j \in Jobs, j \in Flying(page),
                      job[j].op \in {"change", "create", "save"}
               PROVE  LET a == [job[j] EXCEPT !.for = "nobody"]
                      IN  /\ a \in Job /\ a.for = "nobody"
                          /\ a.op = job[j].op /\ a.at = job[j].at
                          /\ a.content = job[j].content
    OBVIOUS
  <2> QED BY Types DEF Job
<1> HIDE DEF after
<1>6. PICK k \in Free :
         \A j \in Jobs : job'[j] = IF j = k THEN g ELSE after[j]
  <2>1. Start(after, {g})
    BY <1>1
  <2> QED BY <2>1, StartOne
<1>7. k \in Jobs
  BY DEF Free
<1>8. DOMAIN job' = Jobs /\ job' = [j \in Jobs |-> job'[j]]
  BY <1>1, StartAny
<1>9. /\ view' \in View /\ view'.loading = TRUE /\ view'.handlers = {}
      /\ view'.shown.key = None /\ view'.shown.holds = None
  BY <1>1, IdleType DEF View, Nothing
(* Nothing is in flight for the new page yet.                               *)
<1>10. \A j \in Jobs :
          \/ j = k /\ job'[j] = g
          \/ j # k /\ job'[j] = Idle
          \/ /\ j # k /\ job'[j] = job[j] /\ job[j].at # "idle"
             /\ job[j].for \in {"branding", "nobody"} /\ Fits(job[j])
          \/ j # k /\ job'[j] = job[j] /\ job[j].at = "idle"
          \/ /\ j # k /\ job'[j].for = "nobody" /\ Fits(job[j])
             /\ job'[j].op = job[j].op /\ job'[j].at = job[j].at
             /\ job'[j].content = job[j].content
             /\ j \in Flying(page) /\ job'[j] \in Job
             /\ job[j].op \in {"change", "create", "save"}
  <2> SUFFICES ASSUME NEW j \in Jobs, j # k
               PROVE  \/ job'[j] = Idle
                      \/ /\ job'[j] = job[j] /\ job[j].at # "idle"
                         /\ job[j].for \in {"branding", "nobody"}
                         /\ Fits(job[j])
                      \/ job'[j] = job[j] /\ job[j].at = "idle"
                      \/ /\ job'[j].for = "nobody" /\ Fits(job[j])
                         /\ job'[j].op = job[j].op
                         /\ job'[j].at = job[j].at
                         /\ job'[j].content = job[j].content
                         /\ j \in Flying(page) /\ job'[j] \in Job
                         /\ job[j].op \in {"change", "create", "save"}
    BY <1>6
  <2>1. job'[j] = after[j]
    BY <1>6
  <2>2. job[j].at # "idle" =>
           Fits(job[j]) /\ job[j].for \in {page, "branding", "nobody"}
    BY Types DEF KindInv, Fits
  <2>3. j \in Flying(page) <=> job[j].at # "idle" /\ job[j].for = page
    BY DEF Flying
  <2> QED BY <1>5, <2>1, <2>2, <2>3
<1>11. TypeOK'
  <2>1. job' \in [Jobs -> Job]
    BY <1>3, <1>8, <1>10, IdleType, Types
  <2>2. moves' \in 0 .. MaxMoves
    BY <1>1, MoveType
  <2> QED BY <1>1, <1>9, <2>1, <2>2, Types, ForgiveFacts
          DEF TypeOK, Somebody
<1>12. KindInv'
  <2>1. ASSUME NEW j \in Jobs, job'[j].at # "idle" PROVE Fits(job[j])'
    <3>1. CASE job'[j] = g
      BY <1>1, <1>3, <1>4, <3>1 DEF Fits
    <3>2. CASE /\ job'[j] = job[j] /\ Fits(job[j])
               /\ job[j].for \in {"branding", "nobody"}
      BY <1>1, <3>2 DEF Fits
    <3>3. CASE /\ job'[j].for = "nobody" /\ Fits(job[j])
               /\ job'[j].op = job[j].op
               /\ job'[j].content = job[j].content
               /\ job[j].op \in {"change", "create", "save"}
      BY <1>1, <3>3 DEF Fits
    <3> QED BY <1>10, <2>1, <3>1, <3>2, <3>3, IdleType
  <2>2. None \in Somebody
    BY DEF Somebody
  <2> QED BY <1>1, <1>9, <2>1, <2>2 DEF KindInv
<1>13. BrandInv'
  <2>1. ASSUME NEW j \in Jobs, job'[j].at # "idle", job'[j].for = "branding"
        PROVE  job'[j] = job[j]
    BY <1>3, <1>4, <1>10, <2>1, IdleType
  <2> QED BY <1>1, <2>1, Types DEF BrandInv, BrandingIsCurrent
<1>14. TimesInv'
  <2>1. ASSUME NEW j \in Jobs, job'[j].at # "idle" PROVE TimesFit(job[j])'
    <3>1. CASE job'[j] = g
      BY <1>1, <1>3, <1>4, <3>1 DEF TimesFit, Own
    <3>2. CASE job'[j] = job[j]
      BY <1>1, <2>1, <3>2, Types DEF TimesInv, TimesFit, Own
    <3>3. CASE /\ job'[j].for = "nobody" /\ job'[j].op = job[j].op
               /\ job'[j].content = job[j].content
               /\ job'[j].at = job[j].at
      BY <1>1, <2>1, <3>3, Types DEF TimesInv, TimesFit, Own
    <3> QED BY <1>10, <2>1, <3>1, <3>2, <3>3, IdleType
  <2> QED BY <1>1, <1>9, <2>1, Types DEF TimesInv, Own
<1>15. HandlerInv'
  <2>1. ASSUME NEW h \in {"change", "create", "save"}, NEW j \in Jobs,
               Runs(job[j], h)'
        PROVE  FALSE
    <3>1. /\ job'[j].at # "idle" /\ job'[j].for = p
          /\ job'[j].op # "get"
      BY <1>1, <2>1 DEF Runs
    <3> QED BY <1>3, <1>4, <1>10, <3>1, IdleType
  <2> QED BY <2>1 DEF HandlerInv
<1>16. ListInv'
  <2> SUFFICES ASSUME "list" \notin excused'
               PROVE  /\ Flying("nobody")' = {}
                      /\ page' \in Lists =>
                            Flying(page)' = {k} /\ ListFits(job[k])'
    BY <1>7, OneFlying
  <2>1. view.handlers = {} /\ Flying("nobody") = {}
    BY <1>1, ForgiveFacts
  <2>2. ASSUME NEW j \in Flying(page)
        PROVE  job[j].op \notin {"change", "create", "save"}
    BY <2>1, Types DEF HandlerInv, Runs, Flying
  <2>3. ASSUME NEW j \in Jobs, job'[j].for = "nobody"
        PROVE  job'[j].at = "idle"
    <3>1. \/ job'[j].at = "idle"
          \/ job'[j] = job[j] /\ job[j].for = "nobody"
      BY <1>3, <1>4, <1>10, <2>2, <2>3, IdleType
    <3>2. job[j].for = "nobody" => job[j].at = "idle"
      BY <2>1 DEF Flying
    <3> QED BY <3>1, <3>2
  <2>4. Flying("nobody")' = {}
    BY <2>3 DEF Flying
  <2>5. Flying(page)' = {k}
    <3>1. \A j \in Jobs : job'[j].at # "idle" /\ job'[j].for = p <=> j = k
      BY <1>3, <1>4, <1>10, IdleType
    <3> QED BY <1>1, <1>7, <3>1 DEF Flying
  <2>6. page' \in Lists => ListFits(job[k])'
    <3>1. job'[k] = g
      BY <1>7, <1>10
    <3>2. p \in Lists => g.content.key = None
      BY <1>2, <1>3 DEF Lists
    <3> QED BY <1>1, <1>3, <1>9, <3>1, <3>2 DEF ListFits
  <2> QED BY <2>4, <2>5, <2>6
<1> QED BY <1>11, <1>12, <1>13, <1>14, <1>15, <1>16 DEF IInv

-----------------------------------------------------------------------------
(* One call changes.                                                        *)
LEMMA Replace ==
    ASSUME IInv, NEW j \in Jobs, NEW b \in Job,
           job' = [job EXCEPT ![j] = b]
    PROVE  /\ job' \in [Jobs -> Job]
           /\ \A i \in Jobs : job'[i] = IF i = j THEN b ELSE job[i]
BY Types

(* The server answers.                                                      *)
LEMMA ServeStep ==
    ASSUME IInv, NEW j \in Jobs, Serve(j) PROVE IInv'
<1> DEFINE c == job[j].content
           now == IF job[j].op = "save" THEN c.holds
                  ELSE IF job[j].for = "times" THEN schedule[c.key]
                  ELSE version
           b == [job[j] EXCEPT !.at = "answered",
                               !.content = [key |-> c.key, holds |-> now]]
<1>1. /\ job[j].at = "sent" /\ job[j] \in Job /\ Fits(job[j])
      /\ version' = IF job[j].op \in {"change", "create"} THEN version + 1
                    ELSE version
      /\ schedule' = IF job[j].op = "save"
                     THEN [schedule EXCEPT ![c.key] = c.holds] ELSE schedule
      /\ UNCHANGED <<selection, page, filter, view, branding, moves, excused,
                     mistaken>>
  BY Types DEF Serve, KindInv
<1>2. job' = [job EXCEPT ![j] = b]
  BY Types DEF Serve, Job
<1>3. /\ c.key \in Keys
      /\ job[j].op = "save" \/ job[j].for = "times" =>
             c.key \in Somebody /\ c.holds \in Somebody
  BY <1>1 DEF Job, Content, Fits, Times
<1>4. /\ now \in Nat \cup Somebody
      /\ job[j].op = "save" \/ job[j].for = "times" => now \in Somebody
  BY <1>3, Types
<1> DEFINE d == [key |-> c.key, holds |-> now]
<1>5. /\ d \in Content /\ d.key = c.key /\ d.holds = now
      /\ job[j].op = "save" \/ job[j].for = "times" => d \in Times
  BY <1>3, <1>4 DEF Content, Times, Somebody
<1>6. /\ job[j].op = "save" => now = c.holds
      /\ job[j].op # "save" /\ job[j].for = "times" => now = schedule[c.key]
      /\ job[j].op # "save" /\ job[j].for # "times" => now = version
  OBVIOUS
<1> HIDE DEF now
<1>7. /\ b \in Job /\ b.at = "answered" /\ b.for = job[j].for
      /\ b.op = job[j].op /\ b.content = d
  BY <1>1, <1>5 DEF Job
<1> HIDE DEF b, c, d
<1>8. /\ job' \in [Jobs -> Job]
      /\ \A i \in Jobs : job'[i] = IF i = j THEN b ELSE job[i]
  BY <1>2, <1>7, Replace
<1>9. TypeOK'
  <2>1. version' \in Nat
    BY <1>1, Types
  <2>2. schedule' \in [Somebody -> Somebody]
    BY <1>1, <1>3, Types
  <2> QED BY <1>1, <1>8, <2>1, <2>2, Types DEF TypeOK, Somebody
<1>10. KindInv'
  BY <1>1, <1>5, <1>7, <1>8, Types DEF KindInv, Fits
<1>11. BrandInv'
  BY <1>1, <1>5, <1>7, <1>8, Types DEF c, BrandInv, BrandingIsCurrent
<1>12. TimesInv'
  <2>1. TimesFit(job[j])
    BY <1>1, Types DEF TimesInv, Own
  <2>2. job[j].op = "save" => Own(c.key, c.holds)
    BY <2>1 DEF TimesFit, Own, c
  <2>3. job[j].for = "times" => Own(c.key, schedule[c.key])
    BY <1>3, Types DEF TimesInv, Own
  <2>4. \A m \in Somebody : Own(m, schedule[m])'
    BY <1>1, <1>3, <2>2, Types DEF TimesInv, Own
  <2>5. TimesFit(job[j])'
    BY <1>1, <1>5, <1>6, <1>7, <1>8, <2>1, <2>2, <2>3 DEF TimesFit, Own, c
  <2>6. \A i \in Jobs : job'[i].at # "idle" => TimesFit(job[i])'
    BY <1>1, <1>8, <2>5, Types DEF TimesInv, TimesFit, Own
  <2> QED BY <1>1, <2>4, <2>6, Types DEF TimesInv, Own
<1>13. HandlerInv'
  <2>1. \A i \in Jobs, h \in {"change", "create", "save"} :
           Runs(job[i], h)' <=> Runs(job[i], h)
    BY <1>1, <1>7, <1>8 DEF Runs
  <2> QED BY <1>1, <2>1, Types DEF HandlerInv
<1>14. ListInv'
  <2> SUFFICES ASSUME "list" \notin excused PROVE ListInv'
    BY <1>1 DEF ListInv
  <2>1. /\ Flying(page)' = Flying(page)
        /\ Flying("nobody")' = Flying("nobody")
    BY <1>1, <1>7, <1>8 DEF Flying
  <2>2. Flying("nobody") = {} /\ job[j].for # "nobody"
    BY <1>1, Types DEF ListInv, Flying
  <2>3. CASE page \notin Lists
    BY <1>1, <2>1, <2>2, <2>3 DEF ListInv
  <2>4. CASE page \in Lists
    <3>1. page # "times" /\ page \in {"users", "family", "roster"}
      BY <2>4 DEF Lists
    <3>2. /\ \A i \in Flying(page) : ListFits(job[i])
          /\ \A i, k \in Flying(page) : i = k
          /\ Flying(page) = {} /\ view.handlers = {} =>
                 view.shown = [key |-> filter, holds |-> version]
      BY <2>4, Types DEF ListInv
    <3>3. CASE job[j].for = page
      <4>1. j \in Flying(page) /\ \A i \in Flying(page) : i = j
        BY <1>1, <3>2, <3>3 DEF Flying
      <4>2. job[j].op # "save"
        BY <1>1, <3>1, <3>3 DEF Fits
      <4>3. ListFits(job[j])'
        BY <1>1, <1>5, <1>6, <1>7, <1>8, <3>1, <3>2, <3>3, <4>1, <4>2
           DEF ListFits, c
      <4> QED BY <1>1, <2>1, <2>2, <4>1, <4>3 DEF ListInv
    <3>4. CASE job[j].for # page
      <4>1. j \notin Flying(page) /\ job[j].op = "get"
        BY <1>1, <2>2, <3>4 DEF Fits, Flying
      <4>2. version' = version
        BY <1>1, <4>1
      <4>3. \A i \in Flying(page) : ListFits(job[i])'
        BY <1>1, <1>8, <3>2, <4>1, <4>2 DEF ListFits, Flying
      <4> QED BY <1>1, <2>1, <2>2, <3>2, <4>2, <4>3 DEF ListInv
    <3> QED BY <3>3, <3>4
  <2> QED BY <2>3, <2>4
<1> QED BY <1>9, <1>10, <1>11, <1>12, <1>13, <1>14 DEF IInv

(* An error.                                                                *)
LEMMA FailStep ==
    ASSUME IInv, NEW j \in Jobs, Fail(j) PROVE IInv'
<1> DEFINE b == [job[j] EXCEPT !.at = "failed"]
<1>1. /\ job[j].at \in {"sent", "answered"} /\ job[j] \in Job
      /\ Fits(job[j])
      /\ UNCHANGED <<selection, page, filter, view, branding, version,
                     schedule, moves, mistaken>>
  BY Types DEF Fail, KindInv
<1>2. job' = [job EXCEPT ![j] = b]
  BY DEF Fail
<1>3. /\ b \in Job /\ b.at = "failed" /\ b.for = job[j].for
      /\ b.op = job[j].op /\ b.content = job[j].content
  BY <1>1 DEF Job
<1> HIDE DEF b
<1>4. /\ job' \in [Jobs -> Job]
      /\ \A i \in Jobs : job'[i] = IF i = j THEN b ELSE job[i]
  BY <1>2, <1>3, Replace
<1>5. /\ excused' \in SUBSET {"list", "times"} /\ excused \subseteq excused'
      /\ job[j].for \in Lists => "list" \in excused'
      /\ "times" \in excused' <=> "times" \in excused
  BY Types DEF Fail, Excuse
<1>6. TypeOK'
  BY <1>1, <1>4, <1>5, Types DEF TypeOK, Somebody
<1>7. KindInv'
  BY <1>1, <1>3, <1>4, Types DEF KindInv, Fits
<1>8. BrandInv'
  BY <1>1, <1>3, <1>4, Types DEF BrandInv, BrandingIsCurrent
<1>9. TimesInv'
  <2>1. TimesFit(job[j])
    BY <1>1, Types DEF TimesInv, Own
  <2>2. \A i \in Jobs : job'[i].at # "idle" => TimesFit(job[i])'
    BY <1>1, <1>3, <1>4, <2>1, Types DEF TimesInv, TimesFit, Own
  <2> QED BY <1>1, <1>5, <2>2, Types DEF TimesInv, Own
<1>10. HandlerInv'
  <2>1. \A i \in Jobs, h \in {"change", "create", "save"} :
           Runs(job[i], h)' <=> Runs(job[i], h)
    BY <1>1, <1>3, <1>4 DEF Runs
  <2> QED BY <1>1, <2>1, Types DEF HandlerInv
<1>11. ListInv'
  <2> SUFFICES ASSUME "list" \notin excused' PROVE ListInv'
    BY DEF ListInv
  <2>1. /\ Flying(page)' = Flying(page)
        /\ Flying("nobody")' = Flying("nobody")
    BY <1>1, <1>3, <1>4 DEF Flying
  <2>2. "list" \notin excused /\ job[j].for \notin Lists
    BY <1>5
  <2>3. page \in Lists => j \notin Flying(page)
    BY <2>2 DEF Flying
  <2>4. ASSUME page \in Lists, NEW i \in Flying(page)
        PROVE  ListFits(job[i])'
    BY <1>1, <1>4, <2>2, <2>3, <2>4, Types DEF ListInv, ListFits, Flying
  <2> QED BY <1>1, <2>1, <2>2, <2>4, Types DEF ListInv
<1> QED BY <1>6, <1>7, <1>8, <1>9, <1>10, <1>11 DEF IInv

-----------------------------------------------------------------------------
(* A call that ends leaves the others as they are.                          *)
LEMMA DoneStep ==
    ASSUME IInv, NEW j \in Jobs, Done(j),
           UNCHANGED <<selection, page, filter, version, schedule, moves,
                       mistaken>>,
           view' \in View, branding' \in {None, selection},
           page = "times" => view'.shown.holds \in Somebody,
           excused' \in SUBSET {"list", "times"}
    PROVE  /\ job' \in [Jobs -> Job]
           /\ \A i \in Jobs : job'[i] = IF i = j THEN Idle ELSE job[i]
           /\ TypeOK' /\ KindInv' /\ BrandInv'
<1>1. /\ job' \in [Jobs -> Job]
      /\ \A i \in Jobs : job'[i] = IF i = j THEN Idle ELSE job[i]
  BY IdleType, Replace DEF Done
<1>2. TypeOK'
  BY <1>1, Types DEF TypeOK, Somebody
<1>3. KindInv'
  BY <1>1, IdleType, Types DEF KindInv, Fits
<1>4. BrandInv'
  BY <1>1, IdleType, Types DEF BrandInv, BrandingIsCurrent
<1> QED BY <1>1, <1>2, <1>3, <1>4

(* An answer is shown.                                                      *)
LEMMA DeliverFetchStep ==
    ASSUME IInv, NEW j \in Jobs, DeliverFetch(j), UNCHANGED branding,
           UNCHANGED <<selection, page, filter, version, schedule, moves,
                       mistaken>>
    PROVE  IInv'
<1>1. /\ job[j].for = page /\ job[j].op \in {"get", "refetch"}
      /\ job[j].at \in {"answered", "failed"} /\ Done(j)
      /\ job[j] \in Job /\ Fits(job[j]) /\ j \in Flying(page)
  BY Types DEF DeliverFetch, KindInv, Flying
<1>9. /\ excused' \in SUBSET {"list", "times"}
      /\ "list" \in excused' <=> "list" \in excused
      /\ page = "times" =>
             ("times" \notin excused' <=> job[j].at = "answered")
  BY <1>1, Types DEF DeliverFetch, Stray
<1>2. view' = [shown |-> IF job[j].at = "answered" THEN job[j].content
                         ELSE view.shown,
               loading |-> FALSE,
               handlers |-> IF job[j].op = "refetch"
                            THEN view.handlers \ {"change"}
                            ELSE view.handlers]
  BY DEF DeliverFetch
<1>3. /\ view' \in View /\ view'.loading = FALSE
      /\ view'.shown = IF job[j].at = "answered" THEN job[j].content
                       ELSE view.shown
      /\ view'.handlers = IF job[j].op = "refetch"
                          THEN view.handlers \ {"change"} ELSE view.handlers
  BY <1>1, <1>2, Types DEF View, Job
<1>4. page = "times" => view'.shown.holds \in Somebody
  BY <1>1, <1>3, Types DEF KindInv, Fits, Times
<1>5. /\ \A i \in Jobs : job'[i] = IF i = j THEN Idle ELSE job[i]
      /\ TypeOK' /\ KindInv' /\ BrandInv'
  <2>1. branding' \in {None, selection}
    BY Types DEF BrandInv, BrandingIsCurrent
  <2> QED BY <1>1, <1>3, <1>4, <1>9, <2>1, Types, DoneStep
<1>6. TimesInv'
  <2>1. \A i \in Jobs : job'[i].at # "idle" => TimesFit(job[i])'
    BY <1>5, IdleType, Types DEF TimesInv, TimesFit, Own
  <2>2. ASSUME page = "times"
        PROVE  /\ Own(view'.shown.key, view'.shown.holds)
               /\ job[j].at = "answered" => view'.shown.key = selection
    <3>1. TimesFit(job[j]) /\ job[j].op = "get"
      BY <1>1, <2>2, Types DEF TimesInv, Fits
    <3>2. Own(view.shown.key, view.shown.holds)
      BY <2>2, Types DEF TimesInv, Own
    <3> QED BY <1>1, <1>3, <2>2, <3>1, <3>2 DEF TimesFit, Own
  <2> QED BY <1>9, <2>1, <2>2, Types DEF TimesInv, Own
<1>7. HandlerInv'
  <2>1. ASSUME NEW h \in {"change", "create", "save"}, NEW i \in Jobs,
               Runs(job[i], h)'
        PROVE  /\ h \in view'.handlers
               /\ \A k \in Jobs : Runs(job[k], h)' => i = k
    <3>1. \A k \in Jobs : Runs(job[k], h)' => k # j /\ Runs(job[k], h)
      BY <1>5, IdleType DEF Runs
    <3>2. job[j].op = "refetch" => Runs(job[j], "change")
      BY <1>1 DEF Runs
    <3>3. h = "change" => job[j].op # "refetch"
      BY <2>1, <3>1, <3>2, Types DEF HandlerInv
    <3> QED BY <1>3, <2>1, <3>1, <3>3, Types DEF HandlerInv
  <2> QED BY <2>1 DEF HandlerInv
<1>8. ListInv'
  <2> SUFFICES ASSUME "list" \notin excused PROVE ListInv'
    BY <1>9 DEF ListInv
  <2>1. Flying("nobody")' = {}
    BY <1>5, IdleType, Types DEF ListInv, Flying
  <2>2. ASSUME page \in Lists
        PROVE  /\ Flying(page)' = {}
               /\ view'.shown = [key |-> filter, holds |-> version]
    <3>1. ListFits(job[j]) /\ \A i \in Flying(page) : i = j
      BY <1>1, <2>2, Types DEF ListInv
    <3>2. Flying(page)' = {}
      BY <1>5, <3>1, IdleType DEF Flying
    <3>3. job[j].content \in Content /\ view'.shown = job[j].content
      BY <1>1, <1>3, <3>1 DEF Job, ListFits
    <3>4. /\ job[j].content.key = filter
          /\ job[j].content.holds = version
      BY <1>1, <3>1 DEF ListFits
    <3> QED BY <3>2, <3>3, <3>4 DEF Content
  <2> QED BY <1>1, <2>1, <2>2 DEF ListInv
<1> QED BY <1>5, <1>6, <1>7, <1>8 DEF IInv

(* A handler goes on, or ends.                                              *)
LEMMA DeliverChangeStep ==
    ASSUME IInv, NEW j \in Jobs, DeliverChange(j), UNCHANGED branding,
           UNCHANGED <<selection, page, filter, version, schedule, moves,
                       mistaken>>
    PROVE  IInv'
<1>1. /\ job[j].for = page /\ job[j].op \in {"change", "create"}
      /\ job[j].at \in {"answered", "failed"}
      /\ excused' = excused /\ job[j] \in Job /\ Fits(job[j])
      /\ j \in Flying(page) /\ Runs(job[j], job[j].op)
  BY Types DEF DeliverChange, KindInv, Flying, Runs
<1>2. page \in {"users", "family"} /\ page \in Lists
  <2>1. page # "branding" /\ page # "nobody"
    BY Types, NoneAssumption DEF PageNames, Lists
  <2>2. page \in PageNames
    BY <1>1, <2>1 DEF Job
  <2> QED BY <1>1, <2>1, <2>2 DEF Fits, PageNames, Lists
<1>3. PICK b \in Job :
         /\ job' = [job EXCEPT ![j] = b] /\ view' \in View
         /\ view'.shown = view.shown
         /\ \/ /\ b.at = "sent" /\ b.for = page
               /\ b.op = IF job[j].op = "change" THEN "refetch" ELSE "get"
               /\ b.content.key = job[j].content.key
               /\ view'.loading = TRUE
               /\ view'.handlers = view.handlers \ ({job[j].op} \cap
                                                    {"create"})
            \/ /\ b = Idle /\ job[j].at = "failed"
               /\ view'.loading = view.loading
               /\ view'.handlers = view.handlers \ {job[j].op}
  <2>1. CASE job[j].at = "failed" /\ Done(j)
             /\ view' = [view EXCEPT !.handlers =
                                        view.handlers \ {job[j].op}]
    BY <2>1, IdleType, Types DEF Done, View
  <2>2. ASSUME /\ job' = [job EXCEPT ![j] = Call(page,
                            IF job[j].op = "change" THEN "refetch"
                            ELSE "get", job[j].content.key, None)]
               /\ view' = [view EXCEPT
                            !.loading = TRUE,
                            !.handlers = view.handlers \ ({job[j].op} \cap
                                                          {"create"})]
        PROVE  \E b \in Job :
                 /\ job' = [job EXCEPT ![j] = b] /\ view' \in View
                 /\ view'.shown = view.shown
                 /\ b.at = "sent" /\ b.for = page
                 /\ b.op = IF job[j].op = "change" THEN "refetch" ELSE "get"
                 /\ b.content.key = job[j].content.key
                 /\ view'.loading = TRUE
                 /\ view'.handlers = view.handlers \ ({job[j].op} \cap
                                                      {"create"})
    <3> DEFINE op == IF job[j].op = "change" THEN "refetch" ELSE "get"
               key == job[j].content.key
               b == Call(page, op, key, None)
    <3>1. /\ op \in {"get", "change", "create", "save", "refetch"}
          /\ key \in Keys /\ None \in Nat \cup Somebody
          /\ page \in PageNames \cup {"branding"}
      BY <1>1, <1>2 DEF Job, Content, Somebody, PageNames
    <3> HIDE DEF op, key
    <3>2. /\ b \in Job /\ b.at = "sent" /\ b.for = page /\ b.op = op
          /\ b.content.key = key
      BY <3>1 DEF Call, Job, Content, Somebody
    <3>3. /\ view' \in View /\ view'.shown = view.shown
          /\ view'.loading = TRUE
          /\ view'.handlers = view.handlers \ ({job[j].op} \cap {"create"})
      BY <2>2, Types DEF View
    <3>4. job' = [job EXCEPT ![j] = b]
      BY <2>2 DEF op, key
    <3> HIDE DEF b
    <3> QED BY <3>2, <3>3, <3>4 DEF op, key
  <2> QED BY <2>1, <2>2 DEF DeliverChange
<1>4. /\ job' \in [Jobs -> Job]
      /\ \A i \in Jobs : job'[i] = IF i = j THEN b ELSE job[i]
  BY <1>3, Replace
<1>5. b.at # "idle" =>
         /\ b.for = page
         /\ b.op = IF job[j].op = "change" THEN "refetch" ELSE "get"
         /\ b.content.key = job[j].content.key
  BY <1>3, IdleType
<1>6. TypeOK'
  BY <1>1, <1>3, <1>4, Types DEF TypeOK, Somebody
<1>7. KindInv'
  <2>1. b.at # "idle" => b.op \in {"get", "refetch"}
    BY <1>5
  <2>2. ASSUME NEW i \in Jobs, job'[i].at # "idle" PROVE Fits(job[i])'
    <3>1. CASE i # j
      BY <1>4, <2>2, <3>1, Types DEF KindInv, Fits
    <3>2. CASE i = j
      BY <1>2, <1>4, <1>5, <2>1, <2>2, <3>2 DEF Fits
    <3> QED BY <3>1, <3>2
  <2> QED BY <1>2, <2>2, Types DEF KindInv
<1>8. BrandInv'
  BY <1>2, <1>4, <1>5, Types DEF BrandInv, BrandingIsCurrent
<1>9. TimesInv'
  <2>1. b.at # "idle" => b.op # "save" /\ b.for # "times"
    BY <1>2, <1>5
  <2>2. \A i \in Jobs : job'[i].at # "idle" => TimesFit(job[i])'
    BY <1>4, <2>1, Types DEF TimesInv, TimesFit, Own
  <2> QED BY <1>1, <1>2, <2>2, Types DEF TimesInv, Own
<1>10. HandlerInv'
  <2>1. ASSUME NEW h \in {"change", "create", "save"}, NEW i \in Jobs,
               Runs(job[i], h)'
        PROVE  /\ h \in view'.handlers
               /\ \A k \in Jobs : Runs(job[k], h)' => i = k
    <3>1. \A k \in Jobs : Runs(job[k], h)' => Runs(job[k], h)
      <4>1. \A k \in Jobs : k # j => (Runs(job[k], h)' <=> Runs(job[k], h))
        BY <1>4 DEF Runs
      <4>2. Runs(job[j], h)' => Runs(job[j], h)
        BY <1>1, <1>4, <1>5 DEF Runs
      <4> QED BY <4>1, <4>2
    <3>2. /\ h \in view.handlers
          /\ \A k \in Jobs : Runs(job[k], h) => i = k
      BY <2>1, <3>1, Types DEF HandlerInv
    <3>3. h \in view'.handlers
      <4>1. CASE h # job[j].op
        BY <1>3, <3>2, <4>1
      <4>2. CASE h = job[j].op
        <5>1. i = j
          BY <1>1, <3>2, <4>2
        <5>2. b.at # "idle" /\ h = "change"
          BY <1>1, <1>4, <1>5, <2>1, <4>2, <5>1 DEF Runs
        <5> QED BY <1>3, <3>2, <4>2, <5>2, IdleType
      <4> QED BY <4>1, <4>2
    <3> QED BY <3>1, <3>2, <3>3
  <2> QED BY <2>1 DEF HandlerInv
<1>11. ListInv'
  <2>1. SUFFICES ASSUME "list" \notin excused'
                 PROVE  /\ Flying("nobody")' = {}
                        /\ Flying(page)' = {j} /\ ListFits(job[j])'
    BY OneFlying
  <2>2. /\ ListFits(job[j]) /\ \A i \in Flying(page) : i = j
        /\ Flying("nobody") = {}
    BY <1>1, <1>2, <2>1, Types DEF ListInv
  <2>3. /\ b.at = "sent" /\ b.for = page /\ view'.loading = TRUE
        /\ b.content.key = filter
    BY <1>1, <1>3, <2>2 DEF ListFits
  <2>4. Flying("nobody")' = {} /\ Flying(page)' = {j}
    BY <1>2, <1>4, <2>2, <2>3 DEF Flying
  <2>5. ListFits(job[j])'
    BY <1>4, <2>3 DEF ListFits
  <2> QED BY <2>4, <2>5
<1> QED BY <1>6, <1>7, <1>8, <1>9, <1>10, <1>11 DEF IInv

(* The grid shows what was saved.                                           *)
LEMMA DeliverSaveStep ==
    ASSUME IInv, NEW j \in Jobs, DeliverSave(j), UNCHANGED branding,
           UNCHANGED <<selection, page, filter, version, schedule, moves,
                       mistaken>>
    PROVE  IInv'
<1>1. /\ job[j].for = page /\ job[j].op = "save" /\ Done(j)
      /\ job[j].at \in {"answered", "failed"}
      /\ job[j] \in Job /\ Fits(job[j]) /\ Runs(job[j], "save")
  BY Types DEF DeliverSave, KindInv, Runs
<1>2. page = "times" /\ page \notin Lists /\ job[j].content \in Times
  <2>1. page # "branding" /\ page # "nobody"
    BY Types, NoneAssumption DEF PageNames, Lists
  <2> QED BY <1>1, <2>1 DEF Job, Fits, PageNames, Lists
<1>3. /\ view' \in View /\ view'.loading = view.loading
      /\ view'.shown = IF job[j].at = "answered" THEN job[j].content
                       ELSE view.shown
      /\ view'.handlers = {}
  BY <1>1, Types DEF DeliverSave, View, Job
<1>4. /\ excused' \in SUBSET {"list", "times"}
      /\ "list" \in excused' <=> "list" \in excused
      /\ job[j].at = "answered" /\ "times" \notin excused' =>
             job[j].content.key = selection
      /\ job[j].at # "answered" => excused' = excused
  BY <1>1, Types DEF DeliverSave, Stray
<1>5. view'.shown.holds \in Somebody
  BY <1>2, <1>3, Types DEF Times, KindInv
<1>6. /\ \A i \in Jobs : job'[i] = IF i = j THEN Idle ELSE job[i]
      /\ TypeOK' /\ KindInv' /\ BrandInv'
  <2>1. branding' \in {None, selection}
    BY Types DEF BrandInv, BrandingIsCurrent
  <2> QED BY <1>1, <1>3, <1>4, <1>5, <2>1, DoneStep
<1>7. TimesInv'
  <2>1. \A i \in Jobs : job'[i].at # "idle" => TimesFit(job[i])'
    BY <1>6, IdleType, Types DEF TimesInv, TimesFit, Own
  <2>2. TimesFit(job[j])
    BY <1>1, Types DEF TimesInv, Own
  <2>3. /\ Own(view'.shown.key, view'.shown.holds)
        /\ ~view.loading /\ "times" \notin excused' =>
               view'.shown.key = selection
    BY <1>1, <1>2, <1>3, <1>4, <2>2, Types DEF TimesFit, Own, TimesInv
  <2> QED BY <1>3, <2>1, <2>3, Types DEF TimesInv, Own
<1>8. HandlerInv'
  <2>1. ASSUME NEW h \in {"change", "create", "save"}, NEW i \in Jobs,
               Runs(job[i], h)'
        PROVE  FALSE
    <3>1. i # j /\ Runs(job[i], h) /\ job[i].at # "idle"
          /\ job[i].for = "times"
      BY <1>2, <1>6, <2>1, IdleType DEF Runs
    <3>2. job[i].op \in {"get", "save"}
      BY <3>1, Types DEF KindInv, Fits
    <3>3. h = "save"
      BY <3>1, <3>2 DEF Runs
    <3> QED BY <1>1, <3>1, <3>3, Types DEF HandlerInv
  <2> QED BY <2>1 DEF HandlerInv
<1>9. ListInv'
  <2>1. "list" \notin excused => Flying("nobody")' = {}
    BY <1>6, IdleType, Types DEF ListInv, Flying
  <2> QED BY <1>2, <1>4, <2>1 DEF ListInv
<1> QED BY <1>6, <1>7, <1>8, <1>9 DEF IInv

(* The colours, and the answers that nobody waits for.                      *)
LEMMA DeliverOtherStep ==
    ASSUME IInv, NEW j \in Jobs,
           DeliverBranding(j) \/ (Ignore(j) /\ UNCHANGED branding),
           UNCHANGED <<selection, page, filter, version, schedule, moves,
                       mistaken>>
    PROVE  IInv'
<1>1. /\ job[j].for \in {"branding", "nobody"} /\ Done(j)
      /\ job[j].at \in {"answered", "failed"}
      /\ UNCHANGED <<view, excused>> /\ page \notin {"branding", "nobody"}
  BY Types, NoneAssumption
     DEF DeliverBranding, Ignore, PageNames, Lists
<1>2. branding' \in {None, selection}
  BY <1>1, Types DEF DeliverBranding, BrandInv, BrandingIsCurrent
<1>3. /\ \A i \in Jobs : job'[i] = IF i = j THEN Idle ELSE job[i]
      /\ TypeOK' /\ KindInv' /\ BrandInv'
  <2>1. page = "times" => view'.shown.holds \in Somebody
    BY <1>1, Types DEF KindInv
  <2> QED BY <1>1, <1>2, <2>1, Types, DoneStep
<1>4. TimesInv'
  <2>1. \A i \in Jobs : job'[i].at # "idle" => TimesFit(job[i])'
    BY <1>3, IdleType, Types DEF TimesInv, TimesFit, Own
  <2> QED BY <1>1, <2>1, Types DEF TimesInv, Own
<1>5. HandlerInv'
  <2>1. \A i \in Jobs : job'[i] = job[i] \/ job'[i].at = "idle"
    BY <1>3, IdleType
  <2> QED BY <1>1, <2>1, Types, HandlerFrame
<1>6. ListInv'
  <2> SUFFICES ASSUME "list" \notin excused PROVE ListInv'
    BY <1>1 DEF ListInv
  <2>1. job[j].for = "branding"
    BY <1>1, Types DEF ListInv, Flying
  <2>2. j \notin Flying(page) /\ j \notin Flying("nobody")
    BY <1>1, <2>1 DEF Flying
  <2> QED BY <1>1, <1>3, <2>2, IdleType, Types, ListFrame
<1> QED BY <1>3, <1>4, <1>5, <1>6 DEF IInv

-----------------------------------------------------------------------------
(* Every step keeps the invariant.                                          *)
LEMMA NextInv == IInv /\ [Next]_vars => IInv'
<1> SUFFICES ASSUME IInv, [Next]_vars PROVE IInv'
  OBVIOUS
<1>1. CASE UNCHANGED vars
  BY <1>1 DEF vars, IInv, TypeOK, KindInv, Fits, BrandInv,
     BrandingIsCurrent, TimesInv, TimesFit, Own, HandlerInv, Runs, ListInv,
     ListFits, Flying
<1>2. CASE Act
  BY <1>2, NavigateStep, SelectStep, FilterStep, HandlersStep DEF Act
<1>3. ASSUME NEW j \in Jobs, Deliver(j) PROVE IInv'
  BY <1>3, DeliverFetchStep, DeliverChangeStep, DeliverSaveStep,
     DeliverOtherStep DEF Deliver
<1> QED BY <1>1, <1>2, <1>3, ServeStep, FailStep DEF Next

(* The inductive invariant holds of every reachable state.                  *)
THEOREM InductiveInvariant == Spec => []IInv
BY InitInv, NextInv, PTL DEF Spec

(* Type correctness.                                                        *)
THEOREM TypeCorrect == Spec => []TypeOK
<1>1. IInv => TypeOK
  BY DEF IInv
<1> QED BY <1>1, InductiveInvariant, PTL

(* A list at rest is current (fetchUsers, fetchProfiles, the effect of      *)
(* TrainerRosterPage).                                                      *)
THEOREM ListsAreCurrent == Spec => []ListIsCurrent
<1>1. IInv => ListIsCurrent
  BY DEF IInv, ListInv, ListIsCurrent
<1> QED BY <1>1, InductiveInvariant, PTL

(* Another's times are saved for a member only from a grid that a failed    *)
(* fetch or an overtaken save left as it was, and every other grid shows    *)
(* the active member's (the effect and handleSave of BestTimesPage).        *)
THEOREM NobodyGetsOthersTimes == Spec => []TimesStayTheirs
<1>1. IInv => TimesStayTheirs
  <2> SUFFICES ASSUME IInv PROVE TimesStayTheirs
    OBVIOUS
  <2>1. DOMAIN schedule = Somebody
    BY Types
  <2> QED BY <2>1, Types DEF TimesInv, Own, TimesStayTheirs
<1> QED BY <1>1, InductiveInvariant, PTL

(* The colours are those of the active trainer (BrandingProvider).          *)
THEOREM ColoursFollow == Spec => []BrandingIsCurrent
<1>1. IInv => BrandingIsCurrent
  BY DEF IInv, BrandInv
<1> QED BY <1>1, InductiveInvariant, PTL
=============================================================================
