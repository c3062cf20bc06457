------------------------------- MODULE Profiles -------------------------------
(***************************************************************************)
(* What an account shows of itself: its photo and, for a trainer, a logo,  *)
(* each a row that points to a file written in another step; for a coach,  *)
(* a public page under a slug; and the weekly schedule of a coach or a     *)
(* player, replaced as a whole by every save.  One action per call of the  *)
(* database or the file system.  Thumbnails, which no row points to and    *)
(* nothing deletes, are left out, and so are the texts and the colour.     *)
(***************************************************************************)
EXTENDS Naturals, FiniteSets

CONSTANTS Files,          \* names that may be given to uploaded files
          Slugs, Taken,   \* slugs, and those that other coaches have
          MaxSlugRetries, \* MAX_SLUG_RETRIES
          Saves,          \* saves of the schedule, each with its slots
          Requests,       \* handlers that may be in flight together
          None

ASSUME SlugAssumption == Taken \subseteq Slugs /\ MaxSlugRetries \in Nat
ASSUME NoneAssumption ==
    None \notin Files \cup Slugs \cup Saves /\ None \notin BOOLEAN

VARIABLES role,     \* User.role
          deleted,  \* User.status = DELETED
          photo,    \* Profile.photoUrl
          logo,     \* Branding.logoUrl
          files,    \* files on the disk
          coach,    \* CoachProfile: publicVisible, publicSlug
          schedule, \* saves that have rows in table Availability
          req,      \* handlers in flight
          hist      \* history: pairs of saves that met, files that were
                    \* shown while another handler had found an older one,
                    \* files a stopped handler dealt with, and whether it
                    \* was PATCH /profile/me that published the page

vars == <<role, deleted, photo, logo, files, coach, schedule, req, hist>>
account == <<role, deleted>>
media == <<photo, logo, files>>

-----------------------------------------------------------------------------
PhotoStages == {"savePhoto", "pointPhoto", "dropPhoto", "erase"}
LogoStages == {"saveLogo", "dropLogo", "pointLogo"}
PageStages == {"slug", "plain", "own"}
ScheduleStages == {"delete", "insert"}
Stages == PhotoStages \cup LogoStages \cup PageStages \cup ScheduleStages

(* A handler holds the file it saved, the one its read found, the answer   *)
(* to publish (None: not in the body), its tries, its save and the saves   *)
(* its deletion saw.                                                       *)
Handler == [at : Stages \cup {"idle"},
            file : Files \cup {None}, old : Files \cup {None},
            visible : BOOLEAN \cup {None}, tries : Nat,
            save : Saves \cup {None}, seen : SUBSET Saves]

Idle == [at |-> "idle", file |-> None, old |-> None, visible |-> None,
         tries |-> 0, save |-> None, seen |-> {}]

History == [met : SUBSET SUBSET Saves, raced : SUBSET Files,
            failed : SUBSET Files, via : BOOLEAN]

TypeOK ==
    /\ role \in {"TRAINER", "COACH", "PLAYER"}
    /\ deleted \in BOOLEAN
    /\ photo \in Files \cup {None}
    /\ logo \in Files \cup {None}
    /\ files \in SUBSET Files
    /\ coach \in [visible : BOOLEAN, slug : Slugs \cup {None}]
    /\ schedule \in SUBSET Saves
    /\ req \in [Requests -> Handler]
    /\ hist \in History

Init ==
    /\ role \in {"TRAINER", "COACH", "PLAYER"}
    /\ deleted = FALSE
    /\ photo = None /\ logo = None /\ files = {}
    /\ coach = [visible |-> FALSE, slug |-> None]
    /\ schedule = {}
    /\ req = [r \in Requests |-> Idle]
    /\ hist = [met |-> {}, raced |-> {}, failed |-> {}, via |-> FALSE]

-----------------------------------------------------------------------------
Begin(r, handler) ==
    /\ req[r].at = "idle"
    /\ req' = [req EXCEPT ![r] = handler]

Resume(r, handler) == req' = [req EXCEPT ![r] = handler]

Respond(r) == req' = [req EXCEPT ![r] = Idle]

(* A name that nothing in the system refers to is as good as one that was  *)
(* never used.                                                             *)
Unused ==
    Files \ (files \cup {photo, logo} \cup hist.failed
             \cup UNION {{req[r].file, req[r].old} : r \in Requests})

(* Names left for the uploads in flight and one more: a bound.             *)
NamesLeft ==
    Cardinality(Unused) >
        Cardinality({r \in Requests : req[r].at \in {"savePhoto", "saveLogo"}})

(* savePhoto and saveLogo write under a new name, that of the account and  *)
(* the millisecond: two uploads of an account in one millisecond are left  *)
(* out.  The photo and its thumbnail are written in one step.              *)
Save(r, next) ==
    \E f \in Unused :
        /\ files' = files \cup {f}
        /\ hist' = [hist EXCEPT !.raced = hist.raced \ {f}]
        /\ Resume(r, [req[r] EXCEPT !.at = next, !.file = f])

(* The file a row now points to, if a handler that has not pointed yet     *)
(* found an older one there: nobody may delete the file later.             *)
Raced(r, stages) ==
    IF \E s \in Requests \ {r} : req[s].at \in stages
    THEN [hist EXCEPT !.raced = hist.raced \cup {req[r].file}]
    ELSE hist

-----------------------------------------------------------------------------
(* Photos: uploadPhoto, and the part of deleteUser that is about the photo.*)

UploadPhoto(r) ==
    /\ NamesLeft
    /\ Begin(r, [Idle EXCEPT !.at = "savePhoto", !.old = photo])
    /\ UNCHANGED <<account, media, coach, schedule, hist>>

(* Mutant of SavePhoto: the old file goes first, as uploadLogo does it.    *)
SavePhotoDropsFirst(r) ==
    /\ req[r].at = "savePhoto"
    /\ \E f \in Unused :
          /\ files' = (files \cup {f}) \ {req[r].old}
          /\ hist' = [hist EXCEPT !.raced = hist.raced \ {f}]
          /\ Resume(r, [req[r] EXCEPT !.at = "pointPhoto", !.file = f])
    /\ UNCHANGED <<account, photo, logo, coach, schedule>>

SavePhoto(r) ==
    /\ req[r].at = "savePhoto"
    /\ Save(r, "pointPhoto")
    /\ UNCHANGED <<account, photo, logo, coach, schedule>>

(* What was found before is deleted once nothing points to it.             *)
DropOrRespond(r) ==
    IF req[r].old = None
    THEN Respond(r)
    ELSE Resume(r, [req[r] EXCEPT !.at = "dropPhoto", !.file = None])

(* Mutant of PointPhoto: the old file is forgotten.                        *)
PointPhotoOnly(r) ==
    /\ req[r].at = "pointPhoto"
    /\ photo' = req[r].file
    /\ hist' = Raced(r, {"savePhoto", "pointPhoto", "erase"})
    /\ Respond(r)
    /\ UNCHANGED <<account, logo, files, coach, schedule>>

PointPhoto(r) ==
    /\ req[r].at = "pointPhoto"
    /\ photo' = req[r].file
    /\ hist' = Raced(r, {"savePhoto", "pointPhoto", "erase"})
    /\ DropOrRespond(r)
    /\ UNCHANGED <<account, logo, files, coach, schedule>>

(* A file that is not there any more is no error.                          *)
DropPhoto(r) ==
    /\ req[r].at = "dropPhoto"
    /\ files' = files \ {req[r].old}
    /\ Respond(r)
    /\ UNCHANGED <<account, photo, logo, coach, schedule, hist>>

DeleteUser(r) ==
    /\ ~deleted
    /\ Begin(r, [Idle EXCEPT !.at = "erase", !.old = photo])
    /\ UNCHANGED <<account, media, coach, schedule, hist>>

Erase(r) ==
    /\ req[r].at = "erase"
    /\ deleted' = TRUE
    /\ photo' = None
    /\ DropOrRespond(r)
    /\ UNCHANGED <<role, logo, files, coach, schedule, hist>>

-----------------------------------------------------------------------------
(* Logos: uploadLogo deletes the old file before the row gets the new one. *)

UploadLogo(r) ==
    /\ role = "TRAINER" /\ NamesLeft
    /\ Begin(r, [Idle EXCEPT !.at = "saveLogo", !.old = logo])
    /\ UNCHANGED <<account, media, coach, schedule, hist>>

SaveLogo(r) ==
    /\ req[r].at = "saveLogo"
    /\ Save(r, IF req[r].old = None THEN "pointLogo" ELSE "dropLogo")
    /\ UNCHANGED <<account, photo, logo, coach, schedule>>

DropLogo(r) ==
    /\ req[r].at = "dropLogo"
    /\ files' = files \ {req[r].old}
    /\ Resume(r, [req[r] EXCEPT !.at = "pointLogo"])
    /\ UNCHANGED <<account, photo, logo, coach, schedule, hist>>

PointLogo(r) ==
    /\ req[r].at = "pointLogo"
    /\ logo' = req[r].file
    /\ hist' = Raced(r, LogoStages)
    /\ Respond(r)
    /\ UNCHANGED <<account, photo, files, coach, schedule>>

-----------------------------------------------------------------------------
(* Coach pages.                                                            *)

(* Mutant of UpdateProfile: a slug is made for every public page.          *)
UpdateProfileRenews(r, visible) ==
    LET willBePublic == IF visible = None THEN coach.visible ELSE visible
    IN  /\ role = "COACH"
        /\ Begin(r, [Idle EXCEPT !.at = IF willBePublic THEN "slug"
                                                        ELSE "plain",
                                 !.visible = visible,
                                 !.tries = MaxSlugRetries])
        /\ UNCHANGED <<account, media, coach, schedule, hist>>

(* CoachProfileService.updateProfile: a page that becomes public without a *)
(* slug gets one.                                                          *)
UpdateProfile(r, visible) ==
    LET willBePublic == IF visible = None THEN coach.visible ELSE visible
        needsSlug == willBePublic /\ coach.slug = None
    IN  /\ role = "COACH"
        /\ Begin(r, [Idle EXCEPT !.at = IF needsSlug THEN "slug" ELSE "plain",
                                 !.visible = visible,
                                 !.tries = MaxSlugRetries])
        /\ UNCHANGED <<account, media, coach, schedule, hist>>

(* Mutant of Publish: an absent publicVisible is written.                  *)
PublishAbsent(r) == [coach EXCEPT !.visible = req[r].visible]

Publish(r) ==
    [coach EXCEPT !.visible = IF req[r].visible = None THEN coach.visible
                                                       ELSE req[r].visible]

PlainUpdate(r) ==
    /\ req[r].at = "plain"
    /\ coach' = Publish(r)
    /\ hist' = [hist EXCEPT !.via = hist.via /\ req[r].visible = None]
    /\ Respond(r)
    /\ UNCHANGED <<account, media, schedule>>

(* updateWithFreshSlug: the unique index refuses a slug that is taken, and *)
(* another one is tried.                                                   *)
SlugUpdate(r) ==
    /\ req[r].at = "slug"
    /\ \E slug \in Slugs :
          IF slug \in Taken
          THEN /\ UNCHANGED coach
               /\ IF req[r].tries > 0
                  THEN Resume(r, [req[r] EXCEPT !.tries = req[r].tries - 1])
                  ELSE Respond(r)
          ELSE /\ coach' = [Publish(r) EXCEPT !.slug = slug]
               /\ Respond(r)
    /\ UNCHANGED <<account, media, schedule, hist>>

(* ProfileService.updateOwnProfile: names first, then the role's fields,   *)
(* publicVisible among a coach's.  No slug is made.                        *)
UpdateOwnProfile(r, visible) ==
    /\ role = "COACH"
    /\ Begin(r, [Idle EXCEPT !.at = "own", !.visible = visible])
    /\ UNCHANGED <<account, media, coach, schedule, hist>>

OwnUpdate(r) ==
    /\ req[r].at = "own"
    /\ coach' = Publish(r)
    /\ hist' = [hist EXCEPT !.via = req[r].visible]
    /\ Respond(r)
    /\ UNCHANGED <<account, media, schedule>>

-----------------------------------------------------------------------------
(* Schedules: setMine, a transaction of a deletion and inserts, at READ    *)
(* COMMITTED.  The deletion sees the rows committed when it starts; it     *)
(* waits for another one that has locked some of them, but does not look   *)
(* again for what that one inserted.                                       *)

Meets(save) ==
    {{save, req[s].save} :
        s \in {s \in Requests : req[s].at \in ScheduleStages}}

SetMine(r, save) ==
    /\ role \in {"COACH", "PLAYER"}
    /\ save \notin schedule
    /\ \A s \in Requests : save \notin req[s].seen \cup {req[s].save}
    /\ Begin(r, [Idle EXCEPT !.at = "delete", !.save = save,
                             !.seen = schedule])
    /\ hist' = [hist EXCEPT !.met =
                   {pair \in hist.met : save \notin pair} \cup Meets(save)]
    /\ UNCHANGED <<account, media, coach, schedule>>

DeleteSlots(r) ==
    /\ req[r].at = "delete"
    /\ \A s \in Requests :
          req[s].at = "insert" => req[s].seen \cap req[r].seen = {}
    /\ Resume(r, [req[r] EXCEPT !.at = "insert"])
    /\ UNCHANGED <<account, media, coach, schedule, hist>>

(* Mutant of InsertSlots: the deletion is not in the transaction.          *)
InsertSlotsOnly(r) ==
    /\ req[r].at = "insert"
    /\ schedule' = schedule \cup {req[r].save}
    /\ Respond(r)
    /\ UNCHANGED <<account, media, coach, hist>>

(* The commit.  The body may have no slots at all.                         *)
InsertSlots(r) ==
    /\ req[r].at = "insert"
    /\ \E rows \in {{}, {req[r].save}} :
          schedule' = (schedule \ req[r].seen) \cup rows
    /\ Respond(r)
    /\ UNCHANGED <<account, media, coach, hist>>

-----------------------------------------------------------------------------
(* A database or file error, or the end of the process; an open            *)
(* transaction is rolled back.                                             *)
Fail(r) ==
    LET h == req[r]
        dropped == IF h.at \in {"dropPhoto", "pointLogo"} THEN {h.old} ELSE {}
        dealt == ({h.file} \cup dropped) \ {None}
    IN  /\ h.at # "idle"
        /\ hist' = [hist EXCEPT !.failed = hist.failed \cup dealt]
        /\ Respond(r)
        /\ UNCHANGED <<account, media, coach, schedule>>

Arrive(r) ==
    \/ UploadPhoto(r) \/ DeleteUser(r) \/ UploadLogo(r)
    \/ \E visible \in BOOLEAN \cup {None} : UpdateProfile(r, visible)
    \/ \E visible \in BOOLEAN : UpdateOwnProfile(r, visible)
    \/ \E save \in Saves : SetMine(r, save)

Continue(r) ==
    \/ SavePhoto(r) \/ PointPhoto(r) \/ DropPhoto(r) \/ Erase(r)
    \/ SaveLogo(r) \/ DropLogo(r) \/ PointLogo(r)
    \/ PlainUpdate(r) \/ SlugUpdate(r) \/ OwnUpdate(r)
    \/ DeleteSlots(r) \/ InsertSlots(r)

Next == \E r \in Requests : Arrive(r) \/ Continue(r) \/ Fail(r)

Spec == Init /\ [][Next]_vars

-----------------------------------------------------------------------------
(* Properties.                                                             *)

(* A picture that is shown is on the disk, whatever uploads and deletions  *)
(* overlap and wherever they stop: a photo always, for a handler deletes   *)
(* only what nothing points to any more; a logo unless the upload that     *)
(* replaces it is about to write the row, or stopped there.  (uploadPhoto, *)
(* deleteUser, uploadLogo.)                                                *)
PicturesExist ==
    /\ photo \in files \cup {None}
    /\ \/ logo \in files \cup hist.failed \cup {None}
       \/ \E r \in Requests : req[r].at = "pointLogo" /\ req[r].old = logo

(* Every file on the disk is shown, or a handler is about to show it or to *)
(* delete it; no file is left over but one that a handler stopped with, or *)
(* that was shown while another handler had found an older one and was     *)
(* about to replace it.  (uploadPhoto, uploadLogo, deleteUser.)            *)
Held(f) ==
    \E r \in Requests :
        f = req[r].file \/ (req[r].at = "dropPhoto" /\ f = req[r].old)

FilesAccounted ==
    \A f \in files \ (hist.failed \cup hist.raced) :
        f \in {photo, logo} \/ Held(f)

(* A page that is public has an address, unless it was PATCH /profile/me   *)
(* that published it last.  (updateOwnProfile does not look at the slug,   *)
(* updateProfile does.)                                                    *)
PublishedHasSlug == coach.visible => coach.slug # None \/ hist.via

(* An address is made only by handlers that found none, and once by each,  *)
(* so it is final when the last of those that overlapped has answered.     *)
(* (updateProfile tests the slug in one call, updateWithFreshSlug writes   *)
(* it in another.)                                                         *)
SlugPhase == [i \in {"slug"} |-> IF coach.slug = None THEN "open" ELSE "closed"]
SlugMakers == [i \in {"slug"} |-> {r \in Requests : req[r].at = "slug"}]

SlugLedger == INSTANCE CheckedWrites WITH
    Items <- {"slug"}, Handlers <- Requests, phase <- SlugPhase,
    value <- [i \in {"slug"} |-> coach.slug], takers <- SlugMakers

PageKeepsAddress == SlugLedger!Spec /\ []PublishedHasSlug

(* The schedule is that of one save; two have rows in it together only if  *)
(* they were in flight together: the second deletion does not see what the *)
(* first is about to insert.  (setMine.)                                   *)
OneSchedule == \A k, l \in schedule : k = l \/ {k, l} \in hist.met
=============================================================================
