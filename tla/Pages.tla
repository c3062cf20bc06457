-------------------------------- MODULE Pages --------------------------------
(***************************************************************************)
(* The pages of a signed-in user: the router shows one of them, every page *)
(* fetches what it shows, and answers arrive in any order while filters    *)
(* and the active family member change.  An effect with a cancelled flag   *)
(* drops the answers of its earlier runs; the others take whichever answer *)
(* comes last.  A handler works with the values of the render that it was  *)
(* clicked in.                                                             *)
(***************************************************************************)
EXTENDS Naturals, FiniteSets

CONSTANTS Members,  \* family members that can be the active context
          Filters,  \* filters, searches and page numbers of a list
          Jobs,     \* API calls that may be in flight together
          MaxMoves, \* bound on what the user does
          None

ASSUME BoundAssumption == IsFiniteSet(Jobs) /\ MaxMoves \in Nat

VARIABLES selection, \* the active member: ActiveContext
          page,      \* the page the router shows
          filter,    \* what its list is filtered by
          view,      \* what it shows, isLoading, and its handlers at work
          branding,  \* whose colours are applied
          job,       \* API calls in flight
          version,   \* server: how often the lists have changed
          schedule,  \* server: for whom the times of every member, and of
                     \* the caller (None), were entered
          moves,     \* history: what the user has done
          excused,   \* history: see Excuse and Stray
          mistaken   \* history: members whose times were saved from a grid
                     \* that had gone astray

vars == <<selection, page, filter, view, branding, job, version, schedule,
          moves, excused, mistaken>>

-----------------------------------------------------------------------------
Lists == {"users", "family", "roster"}
PageNames == Lists \cup {"times"}
Keys == Members \cup Filters \cup {None}

ASSUME NoneAssumption ==
    None \notin Members \cup Filters \cup PageNames \cup {"branding", "nobody"}

(* What a fetch returned: the filter or member it was for, and how recent  *)
(* the list was or for whom the times had been entered.                    *)
Content == [key : Keys, holds : Nat \cup Members \cup {None}]
Nothing == [key |-> None, holds |-> None]

View == [shown : Content, loading : BOOLEAN,
         handlers : SUBSET {"change", "create", "save"}]

(* What is sent, then what is answered.  "refetch" ends a handler;         *)
(* "nobody" waits for a change whose page is left.                         *)
Job == [for : PageNames \cup {"branding", "nobody"},
        op : {"get", "change", "create", "save", "refetch", "none"},
        at : {"idle", "sent", "answered", "failed"}, content : Content]

Idle == [for |-> "nobody", op |-> "none", at |-> "idle", content |-> Nothing]

TypeOK ==
    /\ selection \in Members \cup {None}
    /\ page \in PageNames \cup {None}
    /\ filter \in Filters \cup {None}
    /\ view \in View
    /\ branding \in Members \cup {None}
    /\ job \in [Jobs -> Job]
    /\ version \in Nat
    /\ schedule \in [Members \cup {None} -> Members \cup {None}]
    /\ moves \in 0 .. MaxMoves
    /\ excused \in SUBSET {"list", "times"}
    /\ mistaken \in SUBSET (Members \cup {None})

Init ==
    /\ selection = None /\ page = None /\ filter = None
    /\ view = [shown |-> Nothing, loading |-> FALSE, handlers |-> {}]
    /\ branding = None
    /\ job = [j \in Jobs |-> Idle]
    /\ version = 0
    /\ schedule = [m \in Members \cup {None} |-> m]
    /\ moves = 0
    /\ excused = {} /\ mistaken = {}

-----------------------------------------------------------------------------
Call(for, op, key, holds) ==
    [for |-> for, op |-> op, at |-> "sent",
     content |-> [key |-> key, holds |-> holds]]

Get(for, key) == Call(for, "get", key, None)

Flying(for) == {j \in Jobs : job[j].for = for /\ job[j].at # "idle"}

Free == {j \in Jobs : job[j].at = "idle"}

Move == moves < MaxMoves /\ moves' = moves + 1

(* Mutant of Cancelled: the effect has no clean-up.                        *)
CancelledNever(for) == {}

(* The clean-up of an effect: the answer of its last run is ignored.       *)
Cancelled(for) == {j \in Flying(for) : job[j].op = "get"}

(* Calls started in one render, in place of the cancelled ones.            *)
Start(after, new) ==
    LET slot == CHOOSE f \in [new -> Free] :
                    \A a, b \in new : f[a] = f[b] => a = b
    IN  /\ Cardinality(new) <= Cardinality(Free)
        /\ job' = [j \in Jobs |->
                     IF \E c \in new : slot[c] = j
                     THEN CHOOSE c \in new : slot[c] = j ELSE after[j]]

Without(drop) == [j \in Jobs |-> IF j \in drop THEN Idle ELSE job[j]]

(* Two fetches of the list of users overlap, or a handler that will fetch  *)
(* for the filter it was clicked under is at work.                         *)
Overlap ==
    page = "users" /\ (Flying("users") # {} \/ view.handlers # {})

(* A list is excused when its fetches overlap, one fails, or a change is   *)
(* on its way that no handler waits for.                                   *)
Excuse(what, when) ==
    excused' = IF when THEN excused \cup {what} ELSE excused

Forgive(when) ==
    excused' = IF when \/ Flying("nobody") # {} THEN excused \cup {"list"}
               ELSE excused \ {"list"}

(* The grid goes astray, or shows the active member's times again.         *)
Stray(when) ==
    excused' = IF when THEN excused \cup {"times"} ELSE excused \ {"times"}

-----------------------------------------------------------------------------
(* The user.                                                               *)

(* Leaving a page unmounts it: nothing it still awaits is shown any more.  *)
Navigate(p) ==
    /\ Move
    /\ p # page /\ page' = p /\ filter' = None
    /\ view' = [shown |-> Nothing, loading |-> TRUE, handlers |-> {}]
    /\ Start([j \in Jobs |->
               IF j \notin Flying(page) THEN job[j]
               ELSE IF job[j].op \in {"change", "create", "save"}
               THEN [job[j] EXCEPT !.for = "nobody"] ELSE Idle],
             {Get(p, IF p = "times" THEN selection ELSE None)})
    /\ Forgive(view.handlers # {})
    /\ UNCHANGED <<selection, branding, version, schedule, mistaken>>

(* Mutant of Select: the colours stay until the new ones arrive.           *)
SelectKeepsColours(m) ==
    /\ Move
    /\ m # selection /\ selection' = m
    /\ Start(Without(Cancelled("branding") \cup Cancelled("times")),
             {Get(p, m) : p \in {"branding"} \cup ({page} \cap {"times"})})
    /\ view' = [view EXCEPT !.loading = view.loading \/ page = "times"]
    /\ UNCHANGED <<page, filter, branding, version, schedule, excused,
                   mistaken>>

(* handleSelect of the switcher; BrandingProvider and BestTimesPage fetch  *)
(* again, the former after dropping the colours.  (The one when the trainer *)
(* changes, the other when the member does: a member stands for both.)     *)
Select(m) ==
    /\ Move
    /\ m # selection /\ selection' = m
    /\ branding' = None
    /\ Start(Without(Cancelled("branding") \cup Cancelled("times")),
             {Get(p, m) : p \in {"branding"} \cup ({page} \cap {"times"})})
    /\ view' = [view EXCEPT !.loading = view.loading \/ page = "times"]
    /\ UNCHANGED <<page, filter, version, schedule, excused, mistaken>>

(* UsersListPage: fetchUsers changes with the filter, and is not cancelled.*)
FilterUsers(f) ==
    /\ Move
    /\ page = "users" /\ f # filter /\ filter' = f
    /\ view' = [view EXCEPT !.loading = TRUE]
    /\ Start(job, {Get("users", f)})
    /\ Forgive(Overlap)
    /\ UNCHANGED <<selection, page, branding, version, schedule, mistaken>>

(* TrainerRosterPage.                                                      *)
FilterRoster(f) ==
    /\ Move
    /\ page = "roster" /\ f # filter /\ filter' = f
    /\ view' = [view EXCEPT !.loading = TRUE]
    /\ Start(Without(Cancelled("roster")), {Get("roster", f)})
    /\ Forgive(FALSE)
    /\ UNCHANGED <<selection, page, branding, version, schedule, mistaken>>

Handle(handler, key, holds) ==
    /\ Move
    /\ handler \notin view.handlers
    /\ view' = [view EXCEPT !.handlers = view.handlers \cup {handler}]
    /\ Start(job, {Call(page, handler, key, holds)})
    /\ UNCHANGED <<selection, page, filter, branding, version, schedule>>

(* Deactivating, reactivating and deleting a user: the modal is opened from *)
(* a row, and confirmed when the list may be loading again.                *)
ChangeUser ==
    /\ page = "users" /\ view.shown # Nothing
    /\ Handle("change", filter, None)
    /\ Excuse("list", Overlap)
    /\ UNCHANGED mistaken

CreateTrainer ==
    /\ page = "users"
    /\ Handle("create", filter, None)
    /\ Excuse("list", Overlap)
    /\ UNCHANGED mistaken

(* PlayerProfilesPage: removing a trainer of a member, adding a child.     *)
RemoveTrainer ==
    /\ page = "family" /\ view.shown # Nothing
    /\ Handle("change", None, None)
    /\ Excuse("list", Flying("family") # {} \/ view.handlers # {})
    /\ UNCHANGED mistaken

AddChild ==
    /\ page = "family"
    /\ Handle("create", None, None)
    /\ Excuse("list", Flying("family") # {} \/ view.handlers # {})
    /\ UNCHANGED mistaken

(* BestTimesPage: the grid is saved for the member active in this render.  *)
SaveTimes ==
    /\ page = "times" /\ ~view.loading
    /\ Handle("save", selection, view.shown.holds)
    /\ mistaken' = mistaken \cup (IF "times" \in excused THEN {selection}
                                                        ELSE {})
    /\ UNCHANGED excused

-----------------------------------------------------------------------------
(* The server, as far as the pages can tell.                               *)

Serve(j) ==
    LET c == job[j].content
        now == IF job[j].op = "save" THEN c.holds
               ELSE IF job[j].for = "times" THEN schedule[c.key] ELSE version
    IN  /\ job[j].at = "sent"
        /\ job' = [job EXCEPT ![j].at = "answered",
                              ![j].content = [key |-> c.key, holds |-> now]]
        /\ version' = IF job[j].op \in {"change", "create"} THEN version + 1
                      ELSE version
        /\ schedule' = IF job[j].op = "save"
                       THEN [schedule EXCEPT ![c.key] = c.holds] ELSE schedule
        /\ UNCHANGED <<selection, page, filter, view, branding, moves,
                       excused, mistaken>>

(* An error, or an answer that is lost.                                    *)
Fail(j) ==
    /\ job[j].at \in {"sent", "answered"}
    /\ job' = [job EXCEPT ![j].at = "failed"]
    /\ Excuse("list", job[j].for \in Lists)
    /\ UNCHANGED <<selection, page, filter, view, branding, version, schedule,
                   moves, mistaken>>

-----------------------------------------------------------------------------
(* The browser gets an answer.                                             *)

Done(j) == job' = [job EXCEPT ![j] = Idle]

(* Mutant of DeliverFetch: isLoading is reset only after success.          *)
DeliverFetchThen(j) ==
    LET ok == job[j].at = "answered"
    IN  /\ job[j].for = page /\ job[j].op \in {"get", "refetch"}
        /\ job[j].at \in {"answered", "failed"}
        /\ view' = [shown |-> IF ok THEN job[j].content ELSE view.shown,
                    loading |-> IF ok THEN FALSE ELSE view.loading,
                    handlers |-> IF job[j].op = "refetch"
                                 THEN view.handlers \ {"change"}
                                 ELSE view.handlers]
        /\ Done(j)
        /\ IF page = "times" THEN Stray(~ok) ELSE UNCHANGED excused

(* A fetch of the page, and the handler it may end: finally.  After an     *)
(* error the grid is what it was, and can be saved.                        *)
DeliverFetch(j) ==
    LET ok == job[j].at = "answered"
    IN  /\ job[j].for = page /\ job[j].op \in {"get", "refetch"}
        /\ job[j].at \in {"answered", "failed"}
        /\ view' = [shown |-> IF ok THEN job[j].content ELSE view.shown,
                    loading |-> FALSE,
                    handlers |-> IF job[j].op = "refetch"
                                 THEN view.handlers \ {"change"}
                                 ELSE view.handlers]
        /\ Done(j)
        /\ IF page = "times" THEN Stray(~ok) ELSE UNCHANGED excused

(* Mutant of DeliverChange: the list is left as it is.                     *)
DeliverChangeOnly(j) ==
    /\ job[j].for = page /\ job[j].op \in {"change", "create"}
    /\ job[j].at \in {"answered", "failed"}
    /\ Done(j)
    /\ view' = [view EXCEPT !.handlers = view.handlers \ {job[j].op}]
    /\ UNCHANGED excused

(* A handler goes on: the list is fetched again, for its filter; creating  *)
(* does not wait for that.                                                 *)
DeliverChange(j) ==
    LET c == job[j].content
        again == IF job[j].op = "change" THEN "refetch" ELSE "get"
    IN  /\ job[j].for = page /\ job[j].op \in {"change", "create"}
        /\ \/ /\ job[j].at = "answered"
              /\ job' = [job EXCEPT ![j] = Call(page, again, c.key, None)]
              /\ view' = [view EXCEPT
                           !.loading = TRUE,
                           !.handlers = view.handlers \ ({job[j].op} \cap
                                                          {"create"})]
           \/ /\ job[j].at = "failed" /\ Done(j)
              /\ view' = [view EXCEPT !.handlers = view.handlers \ {job[j].op}]
        /\ UNCHANGED excused

(* Mutant of DeliverSave: the answer has no body.                          *)
DeliverSaveEmpty(j) ==
    /\ job[j].for = page /\ job[j].op = "save"
    /\ job[j].at \in {"answered", "failed"}
    /\ view' = [view EXCEPT !.handlers = {}, !.shown = None]
    /\ Done(j)
    /\ UNCHANGED excused

(* The grid shows what was saved, whoever is active by now.                *)
DeliverSave(j) ==
    /\ job[j].for = page /\ job[j].op = "save"
    /\ job[j].at \in {"answered", "failed"}
    /\ view' = [view EXCEPT !.handlers = {},
                            !.shown = IF job[j].at = "answered"
                                      THEN job[j].content ELSE view.shown]
    /\ Done(j)
    /\ IF job[j].at = "answered" THEN Stray(job[j].content.key # selection)
                                 ELSE UNCHANGED excused

DeliverBranding(j) ==
    /\ job[j].for = "branding" /\ job[j].at \in {"answered", "failed"}
    /\ branding' = IF job[j].at = "answered" THEN job[j].content.key ELSE None
    /\ Done(j)
    /\ UNCHANGED <<view, excused>>

Ignore(j) ==
    /\ job[j].for = "nobody" /\ job[j].at \in {"answered", "failed"}
    /\ Done(j)
    /\ UNCHANGED <<view, excused>>

Deliver(j) ==
    /\ \/ /\ DeliverFetch(j) \/ DeliverChange(j) \/ DeliverSave(j) \/ Ignore(j)
          /\ UNCHANGED branding
       \/ DeliverBranding(j)
    /\ UNCHANGED <<selection, page, filter, version, schedule, moves, mistaken>>

Act ==
    \/ \E p \in PageNames : Navigate(p)
    \/ \E m \in Members : Select(m)
    \/ \E f \in Filters : FilterUsers(f) \/ FilterRoster(f)
    \/ ChangeUser \/ CreateTrainer \/ RemoveTrainer \/ AddChild \/ SaveTimes

Next == Act \/ \E j \in Jobs : Serve(j) \/ Fail(j) \/ Deliver(j)

(* Every call is answered or fails, and its continuation runs.             *)
Fairness ==
    \A j \in Jobs : WF_vars(Serve(j) \/ Fail(j)) /\ WF_vars(Deliver(j))

Spec == Init /\ [][Next]_vars /\ Fairness

-----------------------------------------------------------------------------
(* Properties.                                                             *)

(* A list at rest shows what the server has for the current filter, the    *)
(* latest change included, unless fetches of the users list overlapped,    *)
(* one failed, or a change was left to itself.  (fetchUsers and its        *)
(* handlers, fetchProfiles, the effect of TrainerRosterPage.)              *)
ListIsCurrent ==
    (/\ page \in Lists /\ Flying(page) = {} /\ view.handlers = {}
     /\ "list" \notin excused)
    => view.shown = [key |-> filter, holds |-> version]

(* The grid shows the active member's times, and only those are saved for  *)
(* him, whatever is answered late.  Nothing is promised of a grid that a   *)
(* failed fetch, or a save answered after another member became active,    *)
(* left as it was: until the next fetch succeeds it may show, and save for *)
(* the active member, the times of another.  (BestTimesPage: the effect,   *)
(* handleSave.)                                                            *)
TimesStayTheirs ==
    /\ \A m \in DOMAIN schedule : schedule[m] = m \/ m \in mistaken
    /\ page = "times" /\ ~view.loading /\ "times" \notin excused =>
           view.shown.key = selection

(* "Re-fetches whenever the active trainer changes so switching context    *)
(* never leaves stale (or another trainer's) color applied."               *)
BrandingIsCurrent == branding \in {None, selection}

(* Whatever fails or overtakes, the page ends up loaded and its buttons    *)
(* usable again.                                                           *)
PageSettles ==
    (view.loading \/ view.handlers # {})
        ~> (~view.loading /\ view.handlers = {})
=============================================================================
