--------------------------- MODULE Profiles_proofs ---------------------------
(* Proofs about Profiles, for any files, slugs, saves and handlers.         *)
EXTENDS Profiles, TLAPS

MediaStages == PhotoStages \cup LogoStages

(* A file that a handler has saved is its own until some row points to it,  *)
(* what a handler is about to delete is shown no more, and a photo is never *)
(* a logo.                                                                  *)
FileInv ==
    /\ photo # None => photo # logo
    /\ \A r \in Requests :
          LET h == req[r]
          IN  /\ h.file # None =>
                     /\ h.file \in files /\ h.file \notin {photo, logo}
                     /\ \A s \in Requests : h.file # req[s].old
                     /\ \A s \in Requests : h.file = req[s].file => s = r
              /\ h.at \in {"pointPhoto", "dropLogo", "pointLogo"} =>
                     h.file # None
              /\ h.at \in {"savePhoto", "saveLogo", "dropPhoto", "erase"} =>
                     h.file = None
              /\ h.at = "dropPhoto" => h.old \notin {photo, None}
              /\ h.at \in PhotoStages /\ h.old # None => h.old # logo
              /\ h.at \in LogoStages /\ h.old # None => h.old # photo
              /\ h.at \notin MediaStages => h.file = None /\ h.old = None

(* What a row points to is what a handler found there, unless it was        *)
(* replaced before that handler was done.                                   *)
RacedInv ==
    \A r \in Requests :
        /\ req[r].at \in PhotoStages \ {"dropPhoto"} =>
               photo \in hist.raced \cup {None, req[r].old}
        /\ req[r].at \in LogoStages =>
               logo \in hist.raced \cup {None, req[r].old}
        /\ req[r].at = "pointLogo" => req[r].old \notin files

MediaInv == FileInv /\ RacedInv /\ PicturesExist /\ FilesAccounted

(* Only a page that has an address is published without making one.         *)
PageInv ==
    /\ PublishedHasSlug
    /\ \A r \in Requests :
          /\ req[r].at = "plain" /\ req[r].visible = TRUE => coach.slug # None
          /\ req[r].at = "own" => req[r].visible \in BOOLEAN

(* A save has seen what is there or met the save it is of.                  *)
ScheduleInv ==
    /\ OneSchedule
    /\ \A r \in Requests : req[r].at \in ScheduleStages =>
          /\ req[r].save \in Saves
          /\ \A j \in schedule :
                j \in req[r].seen \/ {j, req[r].save} \in hist.met
    /\ \A r, s \in Requests :
          req[r].at \in ScheduleStages /\ req[s].at \in ScheduleStages =>
              r = s \/ {req[r].save, req[s].save} \in hist.met

IInv == TypeOK /\ MediaInv /\ PageInv /\ ScheduleInv

(* The invariant holds at the start.                                        *)
LEMMA InitInv == Init => IInv
<1> SUFFICES ASSUME Init PROVE IInv
  OBVIOUS
<1> USE DEF Init, Idle
<1>1. TypeOK
  BY DEF TypeOK, Handler, History
<1>2. MediaInv
  <2>1. FileInv
    BY DEF FileInv, MediaStages, PhotoStages, LogoStages
  <2>2. RacedInv
    BY DEF RacedInv, PhotoStages, LogoStages
  <2>3. PicturesExist /\ FilesAccounted
    BY DEF PicturesExist, FilesAccounted
  <2> QED BY <2>1, <2>2, <2>3 DEF MediaInv
<1>3. PageInv
  BY DEF PageInv, PublishedHasSlug
<1>4. ScheduleInv
  BY DEF ScheduleInv, OneSchedule, ScheduleStages
<1> QED BY <1>1, <1>2, <1>3, <1>4 DEF IInv

(* A step of a handler that has nothing to do with the pictures.            *)
LEMMA MediaFrame ==
    ASSUME MediaInv, NEW r \in Requests, NEW handler,
           req' = [req EXCEPT ![r] = handler], DOMAIN req = Requests,
           req[r].at \notin MediaStages, handler.at \notin MediaStages,
           handler.file = None, handler.old = None,
           hist'.raced = hist.raced, hist'.failed = hist.failed,
           UNCHANGED media
    PROVE  MediaInv'
<1>1. \A s \in Requests : req'[s] = IF s = r THEN handler ELSE req[s]
  OBVIOUS
<1>2. req[r].file = None /\ req[r].old = None
  BY DEF MediaInv, FileInv
<1> USE <1>1, <1>2 DEF media, MediaInv, MediaStages, PhotoStages, LogoStages
<1>3. FileInv'
  BY DEF FileInv
<1>4. RacedInv'
  BY DEF RacedInv
<1>5. PicturesExist'
  BY DEF PicturesExist
<1>6. FilesAccounted'
  BY DEF FilesAccounted, Held
<1> QED BY <1>3, <1>4, <1>5, <1>6

(* A step of a handler that has nothing to do with the page.                *)
LEMMA PageFrame ==
    ASSUME PageInv, NEW r \in Requests, NEW handler,
           req' = [req EXCEPT ![r] = handler], DOMAIN req = Requests,
           handler.at \notin PageStages,
           hist'.via = hist.via, UNCHANGED coach
    PROVE  PageInv'
<1>1. \A s \in Requests : req'[s] = IF s = r THEN handler ELSE req[s]
  OBVIOUS
<1> QED BY <1>1 DEF PageInv, PublishedHasSlug, PageStages

(* A step of a handler that has nothing to do with the schedule.            *)
LEMMA ScheduleFrame ==
    ASSUME ScheduleInv, NEW r \in Requests, NEW handler,
           req' = [req EXCEPT ![r] = handler], DOMAIN req = Requests,
           handler.at \notin ScheduleStages,
           hist'.met = hist.met, UNCHANGED schedule
    PROVE  ScheduleInv'
<1>1. \A s \in Requests : req'[s] = IF s = r THEN handler ELSE req[s]
  OBVIOUS
<1> QED BY <1>1 DEF ScheduleInv, OneSchedule, ScheduleStages

-----------------------------------------------------------------------------
(* Stages are what a handler may be at.                                     *)
LEMMA StageType == Stages = MediaStages \cup PageStages \cup ScheduleStages
BY DEF Stages, MediaStages

(* A handler that begins.                                                   *)
LEMMA BeginStep ==
    ASSUME TypeOK, NEW r \in Requests, NEW handler \in Handler,
           Begin(r, handler)
    PROVE  /\ req[r].at = "idle" /\ DOMAIN req = Requests
           /\ req' = [req EXCEPT ![r] = handler]
           /\ req' \in [Requests -> Handler]
           /\ \A s \in Requests : req'[s] = IF s = r THEN handler ELSE req[s]
BY DEF TypeOK, Begin

(* uploadPhoto, deleteUser and uploadLogo read what the row points to.      *)
LEMMA BeginMedia ==
    ASSUME IInv, NEW r \in Requests, NEW handler \in Handler,
           Begin(r, handler),
           UNCHANGED <<account, media, coach, schedule, hist>>,
           handler.file = None,
           \/ handler.at \in {"savePhoto", "erase"} /\ handler.old = photo
           \/ handler.at = "saveLogo" /\ handler.old = logo
    PROVE  IInv'
<1> USE DEF account, media
<1>0. TypeOK /\ MediaInv /\ PageInv /\ ScheduleInv
  BY DEF IInv
<1>1. /\ req[r].at = "idle" /\ DOMAIN req = Requests
      /\ req' = [req EXCEPT ![r] = handler]
      /\ \A s \in Requests : req'[s] = IF s = r THEN handler ELSE req[s]
  BY <1>0, BeginStep
<1>2. TypeOK'
  BY <1>0, BeginStep DEF TypeOK
<1>3. handler.at \notin PageStages /\ handler.at \notin ScheduleStages
  BY DEF PageStages, ScheduleStages
<1>4. PageInv' /\ ScheduleInv'
  BY <1>0, <1>1, <1>3, PageFrame, ScheduleFrame
<1>5. FileInv'
  BY <1>0, <1>1 DEF MediaInv, FileInv, MediaStages, PhotoStages, LogoStages
<1>6. RacedInv'
  BY <1>0, <1>1 DEF MediaInv, RacedInv, PhotoStages, LogoStages
<1>7. PicturesExist'
  BY <1>0, <1>1 DEF MediaInv, PicturesExist
<1>8. FilesAccounted'
  <2>1. req[r].file = None /\ req[r].old = None
    BY <1>0, <1>1 DEF MediaInv, FileInv, MediaStages, PhotoStages, LogoStages
  <2> QED BY <1>0, <1>1, <2>1, NoneAssumption
          DEF MediaInv, FilesAccounted, Held, TypeOK
<1> QED BY <1>2, <1>4, <1>5, <1>6, <1>7, <1>8 DEF IInv, MediaInv

LEMMA UploadStep ==
    ASSUME IInv, NEW r \in Requests,
           UploadPhoto(r) \/ DeleteUser(r) \/ UploadLogo(r)
    PROVE  IInv'
<1> USE StageType DEF Handler, Idle, MediaStages, PhotoStages, LogoStages
<1>0. photo \in Files \cup {None} /\ logo \in Files \cup {None}
  BY DEF IInv, TypeOK
<1>1. CASE UploadPhoto(r)
  <2>1. [Idle EXCEPT !.at = "savePhoto", !.old = photo] \in Handler
    BY <1>0
  <2> QED BY <1>1, <2>1, BeginMedia DEF UploadPhoto
<1>2. CASE DeleteUser(r)
  <2>1. [Idle EXCEPT !.at = "erase", !.old = photo] \in Handler
    BY <1>0
  <2> QED BY <1>2, <2>1, BeginMedia DEF DeleteUser
<1>3. CASE UploadLogo(r)
  <2>1. [Idle EXCEPT !.at = "saveLogo", !.old = logo] \in Handler
    BY <1>0
  <2> QED BY <1>3, <2>1, BeginMedia DEF UploadLogo
<1> QED BY <1>1, <1>2, <1>3

-----------------------------------------------------------------------------
(* A step of a handler that works on a picture.                             *)
LEMMA MediaContinue ==
    ASSUME IInv, NEW r \in Requests, NEW handler \in Handler,
           req' = [req EXCEPT ![r] = handler],
           handler.at \in MediaStages \cup {"idle"},
           hist' \in History, hist'.met = hist.met, hist'.via = hist.via,
           UNCHANGED <<role, coach, schedule>>, deleted' \in BOOLEAN,
           photo' \in Files \cup {None}, logo' \in Files \cup {None},
           files' \in SUBSET Files, MediaInv'
    PROVE  IInv'
<1>1. TypeOK'
  BY DEF IInv, TypeOK
<1>2. handler.at \notin PageStages /\ handler.at \notin ScheduleStages
  BY DEF PageStages, ScheduleStages, MediaStages, PhotoStages, LogoStages
<1>3. PageInv' /\ ScheduleInv'
  BY <1>2, PageFrame, ScheduleFrame DEF IInv, TypeOK
<1> QED BY <1>1, <1>3 DEF IInv

(* What the type invariant says of a handler at work.                       *)
LEMMA HandlerType ==
    ASSUME IInv, NEW r \in Requests
    PROVE  /\ req[r] \in Handler /\ DOMAIN req = Requests
           /\ photo \in Files \cup {None} /\ logo \in Files \cup {None}
           /\ files \in SUBSET Files /\ deleted \in BOOLEAN
           /\ hist \in History
           /\ Idle \in Handler
BY StageType DEF IInv, TypeOK, Handler, Idle

(* savePhoto and saveLogo: the name is new.                                 *)
LEMMA SaveStep ==
    ASSUME IInv, NEW r \in Requests, NEW next,
           \/ req[r].at = "savePhoto" /\ next = "pointPhoto"
           \/ req[r].at = "saveLogo" /\ next = "dropLogo"
           \/ req[r].at = "saveLogo" /\ next = "pointLogo"
                                     /\ req[r].old = None,
           Save(r, next),
           UNCHANGED <<account, photo, logo, coach, schedule>>
    PROVE  IInv'
<1> USE HandlerType DEF account, MediaStages, PhotoStages, LogoStages
<1>1. PICK f \in Unused :
         /\ files' = files \cup {f}
         /\ hist' = [hist EXCEPT !.raced = hist.raced \ {f}]
         /\ req' = [req EXCEPT ![r] = [req[r] EXCEPT !.at = next, !.file = f]]
  BY DEF Save, Resume
<1> DEFINE handler == [req[r] EXCEPT !.at = next, !.file = f]
<1>2. /\ f \in Files /\ f \notin files /\ f \notin {photo, logo}
      /\ f \notin hist.failed /\ f # None
      /\ \A s \in Requests : f # req[s].file /\ f # req[s].old
  BY NoneAssumption DEF Unused
<1>3. /\ handler \in Handler /\ handler.at = next /\ handler.file = f
      /\ handler.old = req[r].old
  BY <1>2, StageType DEF Handler
<1>4. \A s \in Requests : req'[s] = IF s = r THEN handler ELSE req[s]
  BY <1>1
<1>12. /\ hist' \in History /\ hist'.raced = hist.raced \ {f}
       /\ hist'.met = hist.met /\ hist'.via = hist.via
       /\ hist'.failed = hist.failed
  BY <1>1 DEF History
<1> HIDE DEF handler
<1>5. FileInv'
  BY <1>1, <1>2, <1>3, <1>4 DEF IInv, MediaInv, FileInv
<1>6. RacedInv'
  <2>1. req[r].at = "saveLogo" => req[r].old = None \/ next = "dropLogo"
    BY DEF PhotoStages
  <2>2. files' \subseteq Files /\ None \notin files'
    BY <1>1, <1>2, NoneAssumption
  <2> QED BY <1>1, <1>2, <1>3, <1>4, <1>12, <2>1, <2>2
          DEF IInv, MediaInv, RacedInv
<1>7. PicturesExist'
  BY <1>1, <1>3, <1>4, <1>12 DEF IInv, MediaInv, PicturesExist
<1>8. FilesAccounted'
  <2>1. req[r].file = None
    BY DEF IInv, MediaInv, FileInv
  <2>2. None \notin files
    BY NoneAssumption
  <2>3. FilesAccounted /\ UNCHANGED <<photo, logo>>
    BY DEF IInv, MediaInv
  <2>4. next # "dropPhoto" /\ req[r].at # "dropPhoto"
    OBVIOUS
  <2>5. ASSUME NEW g \in files', g \notin hist'.failed, g \notin hist'.raced
        PROVE  g \in {photo', logo'} \/ Held(g)'
    <3>1. CASE g = f
      BY <1>3, <1>4, <3>1 DEF Held
    <3>2. CASE g # f
      <4>1. g \in {photo, logo} \/ Held(g)
        BY <1>1, <1>12, <2>3, <2>5, <3>2 DEF FilesAccounted
      <4> QED BY <1>1, <1>3, <1>4, <2>1, <2>2, <2>3, <2>4, <2>5, <3>2, <4>1
              DEF Held
    <3> QED BY <3>1, <3>2
  <2> QED BY <2>5 DEF FilesAccounted
<1>9. /\ files' \in SUBSET Files /\ UNCHANGED <<role, coach, schedule>>
      /\ deleted' \in BOOLEAN /\ photo' \in Files \cup {None}
      /\ logo' \in Files \cup {None} /\ handler.at \in MediaStages
  <2>1. files' \in SUBSET Files
    BY <1>1, <1>2
  <2>2. UNCHANGED <<role, coach, schedule>> /\ deleted' \in BOOLEAN
    OBVIOUS
  <2>3. photo' \in Files \cup {None} /\ logo' \in Files \cup {None}
    OBVIOUS
  <2>4. handler.at \in MediaStages
    BY <1>3
  <2> QED BY <2>1, <2>2, <2>3, <2>4
<1>10. MediaInv'
  BY <1>5, <1>6, <1>7, <1>8 DEF MediaInv
<1>11. req' = [req EXCEPT ![r] = handler]
  BY <1>1 DEF handler
<1> QED BY <1>3, <1>9, <1>10, <1>11, <1>12, MediaContinue

LEMMA SavesStep ==
    ASSUME IInv, NEW r \in Requests, SavePhoto(r) \/ SaveLogo(r)
    PROVE  IInv'
<1>1. CASE SavePhoto(r)
  BY <1>1, SaveStep DEF SavePhoto
<1>2. CASE SaveLogo(r)
  BY <1>2, SaveStep DEF SaveLogo
<1> QED BY <1>1, <1>2

(* What was shown is deleted next, by the handler that replaced it.         *)
LEMMA PointPhotoStep ==
    ASSUME IInv, NEW r \in Requests, PointPhoto(r) \/ Erase(r) PROVE IInv'
<1> USE DEF MediaStages, PhotoStages, LogoStages
<1> DEFINE handler == IF req[r].old = None THEN Idle
                      ELSE [req[r] EXCEPT !.at = "dropPhoto", !.file = None]
<1>0. /\ req[r] \in Handler /\ DOMAIN req = Requests /\ Idle \in Handler
      /\ photo \in Files \cup {None} /\ logo \in Files \cup {None}
      /\ files \in SUBSET Files /\ MediaInv
      /\ hist \in History
  BY HandlerType DEF IInv
<1>1. /\ \/ /\ req[r].at = "pointPhoto" /\ photo' = req[r].file
            /\ hist' = Raced(r, {"savePhoto", "pointPhoto", "erase"})
         \/ req[r].at = "erase" /\ photo' = None /\ hist' = hist
      /\ req' = [req EXCEPT ![r] = handler]
      /\ UNCHANGED <<role, logo, files, coach, schedule>>
  BY DEF PointPhoto, Erase, DropOrRespond, Respond, Resume, account
<1>2. /\ handler \in Handler
      /\ handler.at \in {"idle", "dropPhoto"}
      /\ handler.at = "dropPhoto" <=> handler.old # None
      /\ handler.file = None /\ handler.old = req[r].old
  BY <1>0, StageType DEF Handler, Idle
<1>3. \A s \in Requests : req'[s] = IF s = r THEN handler ELSE req[s]
  BY <1>0, <1>1
<1> HIDE DEF handler
<1>4. /\ photo' \in Files \cup {None}
      /\ photo' # None => photo' \in files /\ photo' = req[r].file
      /\ photo \in hist.raced \cup {None, req[r].old}
  BY <1>0, <1>1 DEF MediaInv, FileInv, RacedInv, Handler
<1>10. /\ hist' \in History /\ hist.raced \subseteq hist'.raced
       /\ hist'.met = hist.met /\ hist'.via = hist.via
       /\ hist'.failed = hist.failed
       /\ \/ photo' = None
          \/ photo' \in hist'.raced
          \/ \A s \in Requests \ {r} :
                req[s].at \notin {"savePhoto", "pointPhoto", "erase"}
  <2>1. CASE hist' = hist /\ photo' = None
    BY <1>0, <2>1
  <2>2. CASE /\ req[r].at = "pointPhoto" /\ photo' = req[r].file
             /\ hist' = Raced(r, {"savePhoto", "pointPhoto", "erase"})
    <3>1. req[r].file \in Files
      BY <1>0, <2>2 DEF MediaInv, FileInv, Handler
    <3> QED BY <1>0, <2>2, <3>1 DEF Raced, History
  <2> QED BY <1>1, <2>1, <2>2
<1>5. FileInv'
  <2>1. photo' # None => photo' # logo'
    BY <1>0, <1>1 DEF MediaInv, FileInv
  <2>2. ASSUME NEW s \in Requests, s # r
        PROVE  req[s].file # None => req[s].file # photo'
    BY <1>0, <1>1, <2>2 DEF MediaInv, FileInv
  <2>3. ASSUME NEW s \in Requests
        PROVE  photo' # None => req[s].old # photo'
    BY <1>0, <1>1 DEF MediaInv, FileInv
  <2>4. req[r].old # None => req[r].old # logo
    BY <1>0, <1>1 DEF MediaInv, FileInv
  <2> QED BY <1>0, <1>1, <1>2, <1>3, <2>1, <2>2, <2>3, <2>4
          DEF MediaInv, FileInv
<1>6. RacedInv'
  BY <1>0, <1>1, <1>2, <1>3, <1>10 DEF MediaInv, RacedInv
<1>7. PicturesExist'
  BY <1>0, <1>1, <1>3, <1>4, <1>10 DEF MediaInv, PicturesExist
<1>8. FilesAccounted'
  <2>1. req[r].file \in {None, photo'}
    BY <1>0, <1>1 DEF MediaInv, FileInv
  <2>2. None \notin files
    BY <1>0, NoneAssumption
  <2>3. ASSUME NEW f \in files', f \notin hist'.failed, f \notin hist'.raced
        PROVE  f \in {photo', logo'} \/ Held(f)'
    <3>1. f \in {photo, logo} \/ Held(f)
      BY <1>0, <1>1, <1>10, <2>3 DEF MediaInv, FilesAccounted
    <3>2. f # None /\ f \notin hist.raced
      BY <1>1, <1>10, <2>2, <2>3
    <3>3. CASE f = photo
      <4>1. handler.at = "dropPhoto" /\ handler.old = f
        BY <1>2, <1>4, <3>2, <3>3
      <4> QED BY <1>3, <4>1 DEF Held
    <3>4. CASE f = logo
      BY <1>1, <3>4
    <3>5. ASSUME NEW s \in Requests,
                 \/ f = req[s].file
                 \/ req[s].at = "dropPhoto" /\ f = req[s].old
          PROVE  f \in {photo', logo'} \/ Held(f)'
      BY <1>1, <1>3, <2>1, <3>2, <3>5 DEF Held
    <3> QED BY <3>1, <3>3, <3>4, <3>5 DEF Held
  <2> QED BY <2>3 DEF FilesAccounted
<1>9. deleted' \in BOOLEAN
  BY HandlerType DEF PointPhoto, Erase, account
<1> QED BY <1>0, <1>1, <1>2, <1>4, <1>5, <1>6, <1>7, <1>8, <1>9, <1>10,
           MediaContinue DEF MediaInv

(* deleteFile after the row was written.                                    *)
LEMMA DropPhotoStep ==
    ASSUME IInv, NEW r \in Requests, DropPhoto(r) PROVE IInv'
<1> USE DEF MediaStages, PhotoStages, LogoStages
<1>0. /\ req[r] \in Handler /\ DOMAIN req = Requests /\ Idle \in Handler
      /\ photo \in Files \cup {None} /\ logo \in Files \cup {None}
      /\ files \in SUBSET Files /\ MediaInv /\ deleted \in BOOLEAN
      /\ hist \in History
  BY HandlerType DEF IInv
<1>1. /\ req[r].at = "dropPhoto" /\ files' = files \ {req[r].old}
      /\ req' = [req EXCEPT ![r] = Idle]
      /\ UNCHANGED <<role, deleted, photo, logo, coach, schedule, hist>>
  BY DEF DropPhoto, Respond, account
<1>2. Idle.at = "idle" /\ Idle.file = None /\ Idle.old = None
  BY DEF Idle
<1>3. \A s \in Requests : req'[s] = IF s = r THEN Idle ELSE req[s]
  BY <1>0, <1>1
<1>4. req[r].file = None /\ req[r].old \notin {photo, logo, None}
  BY <1>0, <1>1 DEF MediaInv, FileInv
<1>5. FileInv'
  BY <1>0, <1>1, <1>2, <1>3, <1>4 DEF MediaInv, FileInv
<1>6. RacedInv'
  BY <1>0, <1>1, <1>2, <1>3 DEF MediaInv, RacedInv
<1>7. PicturesExist'
  BY <1>0, <1>1, <1>3, <1>4 DEF MediaInv, PicturesExist
<1>8. FilesAccounted'
  BY <1>0, <1>1, <1>2, <1>3, <1>4, NoneAssumption
     DEF MediaInv, FilesAccounted, Held
<1>9. files' \in SUBSET Files
  BY <1>0, <1>1
<1> QED BY <1>0, <1>1, <1>2, <1>5, <1>6, <1>7, <1>8, <1>9,
           MediaContinue DEF MediaInv

(* uploadLogo deletes what the row still points to.                         *)
LEMMA DropLogoStep ==
    ASSUME IInv, NEW r \in Requests, DropLogo(r) PROVE IInv'
<1> USE DEF MediaStages, PhotoStages, LogoStages
<1> DEFINE handler == [req[r] EXCEPT !.at = "pointLogo"]
<1>0. /\ req[r] \in Handler /\ DOMAIN req = Requests
      /\ photo \in Files \cup {None} /\ logo \in Files \cup {None}
      /\ files \in SUBSET Files /\ MediaInv /\ deleted \in BOOLEAN
      /\ hist \in History
  BY HandlerType DEF IInv
<1>1. /\ req[r].at = "dropLogo" /\ files' = files \ {req[r].old}
      /\ req' = [req EXCEPT ![r] = handler]
      /\ UNCHANGED <<role, deleted, photo, logo, coach, schedule, hist>>
  BY DEF DropLogo, Resume, account
<1>2. /\ handler \in Handler /\ handler.at = "pointLogo"
      /\ handler.file = req[r].file /\ handler.old = req[r].old
  BY <1>0, StageType DEF Handler
<1>3. \A s \in Requests : req'[s] = IF s = r THEN handler ELSE req[s]
  BY <1>0, <1>1
<1> HIDE DEF handler
<1>4. req[r].old # None => req[r].old # photo
  BY <1>0, <1>1 DEF MediaInv, FileInv
<1>5. FileInv'
  BY <1>0, <1>1, <1>2, <1>3, <1>4 DEF MediaInv, FileInv
<1>6. RacedInv'
  BY <1>0, <1>1, <1>2, <1>3 DEF MediaInv, RacedInv
<1>7. PicturesExist'
  BY <1>0, <1>1, <1>2, <1>3, <1>4, NoneAssumption
     DEF MediaInv, PicturesExist
<1>8. FilesAccounted'
  BY <1>0, <1>1, <1>2, <1>3 DEF MediaInv, FilesAccounted, Held
<1>9. files' \in SUBSET Files
  BY <1>0, <1>1
<1> QED BY <1>0, <1>1, <1>2, <1>5, <1>6, <1>7, <1>8, <1>9,
           MediaContinue DEF MediaInv

LEMMA PointLogoStep ==
    ASSUME IInv, NEW r \in Requests, PointLogo(r) PROVE IInv'
<1> USE DEF MediaStages, PhotoStages, LogoStages
<1>0. /\ req[r] \in Handler /\ DOMAIN req = Requests /\ Idle \in Handler
      /\ photo \in Files \cup {None} /\ logo \in Files \cup {None}
      /\ files \in SUBSET Files /\ MediaInv /\ deleted \in BOOLEAN
      /\ hist \in History
  BY HandlerType DEF IInv
<1>1. /\ req[r].at = "pointLogo" /\ logo' = req[r].file
      /\ req' = [req EXCEPT ![r] = Idle]
      /\ hist' = Raced(r, LogoStages)
      /\ UNCHANGED <<role, deleted, photo, files, coach, schedule>>
  BY DEF PointLogo, Respond, account
<1>2. Idle.at = "idle" /\ Idle.file = None /\ Idle.old = None
  BY DEF Idle
<1>3. \A s \in Requests : req'[s] = IF s = r THEN Idle ELSE req[s]
  BY <1>0, <1>1
<1>4. logo' \in files /\ logo' # None
  BY <1>0, <1>1 DEF MediaInv, FileInv
<1>9. /\ hist' \in History /\ hist.raced \subseteq hist'.raced
      /\ hist'.met = hist.met /\ hist'.via = hist.via
      /\ hist'.failed = hist.failed
      /\ \/ logo' \in hist'.raced
         \/ \A s \in Requests \ {r} : req[s].at \notin LogoStages
  BY <1>0, <1>1, <1>4 DEF Raced, History
<1>5. FileInv'
  BY <1>0, <1>1, <1>2, <1>3, <1>4 DEF MediaInv, FileInv
<1>6. RacedInv'
  BY <1>0, <1>1, <1>2, <1>3, <1>9 DEF MediaInv, RacedInv
<1>7. PicturesExist'
  BY <1>0, <1>1, <1>4 DEF MediaInv, PicturesExist
<1>8. FilesAccounted'
  <2>1. None \notin files /\ req[r].file # None
    BY <1>0, <1>1, NoneAssumption DEF MediaInv, FileInv
  <2>2. logo \in hist.raced \cup {None, req[r].old} /\ req[r].old \notin files
    BY <1>0, <1>1 DEF MediaInv, RacedInv
  <2>3. ASSUME NEW f \in files', f \notin hist'.failed, f \notin hist'.raced
        PROVE  f \in {photo', logo'} \/ Held(f)'
    <3>1. f \in {photo, logo} \/ Held(f)
      BY <1>0, <1>1, <1>9, <2>3 DEF MediaInv, FilesAccounted
    <3>2. f # logo
      BY <1>1, <1>9, <2>1, <2>2, <2>3
    <3> QED BY <1>1, <1>3, <3>1, <3>2 DEF Held
  <2> QED BY <2>3 DEF FilesAccounted
<1> QED BY <1>0, <1>1, <1>2, <1>4, <1>5, <1>6, <1>7, <1>8, <1>9,
           MediaContinue DEF MediaInv

-----------------------------------------------------------------------------
(* A step of a handler that works on the page or the schedule.              *)
LEMMA OtherStep ==
    ASSUME IInv, NEW r \in Requests, NEW handler \in Handler,
           req' = [req EXCEPT ![r] = handler],
           req[r].at \notin MediaStages, handler.at \notin MediaStages,
           handler.file = None, handler.old = None,
           hist' \in History, hist'.raced = hist.raced,
           hist'.failed = hist.failed,
           UNCHANGED <<account, media>>,
           coach' \in [visible : BOOLEAN, slug : Slugs \cup {None}],
           schedule' \in SUBSET Saves, PageInv', ScheduleInv'
    PROVE  IInv'
<1>1. TypeOK'
  BY DEF IInv, TypeOK, account, media
<1>2. MediaInv'
  BY MediaFrame DEF IInv, TypeOK
<1> QED BY <1>1, <1>2 DEF IInv

(* updateProfile and updateOwnProfile read the page.                        *)
LEMMA UpdateStep ==
    ASSUME IInv, NEW r \in Requests, NEW visible \in BOOLEAN \cup {None},
           \/ UpdateProfile(r, visible)
           \/ visible \in BOOLEAN /\ UpdateOwnProfile(r, visible)
    PROVE  IInv'
<1>1. PICK handler \in Handler :
         /\ Begin(r, handler) /\ handler.at \in PageStages
         /\ handler.file = None /\ handler.old = None
         /\ handler.at = "own" => handler.visible \in BOOLEAN
         /\ handler.at = "plain" /\ handler.visible = TRUE =>
                coach.slug # None
  <2>0. Idle \in Handler
    BY HandlerType
  <2>1. CASE UpdateProfile(r, visible)
    <3> DEFINE willBePublic == IF visible = None THEN coach.visible
                               ELSE visible
               needsSlug == willBePublic /\ coach.slug = None
               h == [Idle EXCEPT !.at = IF needsSlug THEN "slug" ELSE "plain",
                                 !.visible = visible,
                                 !.tries = MaxSlugRetries]
    <3>1. Begin(r, h)
      BY <2>1 DEF UpdateProfile
    <3>2. /\ h.at = (IF needsSlug THEN "slug" ELSE "plain")
          /\ h.visible = visible /\ h.file = None /\ h.old = None
          /\ h \in Handler
      BY SlugAssumption, StageType DEF Idle, Handler, PageStages
    <3> HIDE DEF h
    <3>3. visible = TRUE /\ ~needsSlug => coach.slug # None
      BY NoneAssumption
    <3> HIDE DEF needsSlug
    <3> QED BY <3>1, <3>2, <3>3 DEF PageStages
  <2>2. CASE visible \in BOOLEAN /\ UpdateOwnProfile(r, visible)
    <3> DEFINE h == [Idle EXCEPT !.at = "own", !.visible = visible]
    <3>1. Begin(r, h)
      BY <2>2 DEF UpdateOwnProfile
    <3>2. /\ h.at = "own" /\ h.visible = visible
          /\ h.file = None /\ h.old = None /\ h \in Handler
      BY StageType DEF Idle, Handler, PageStages
    <3> HIDE DEF h
    <3> QED BY <2>2, <3>1, <3>2 DEF PageStages
  <2> QED BY <2>1, <2>2
<1>2. UNCHANGED <<account, media, coach, schedule, hist>>
  BY DEF UpdateProfile, UpdateOwnProfile
<1>3. /\ req[r].at = "idle" /\ DOMAIN req = Requests
      /\ req' = [req EXCEPT ![r] = handler]
      /\ \A s \in Requests : req'[s] = IF s = r THEN handler ELSE req[s]
  BY <1>1, BeginStep DEF IInv
<1>4. /\ handler.at \notin MediaStages /\ handler.at \notin ScheduleStages
      /\ req[r].at \notin MediaStages
  BY <1>1, <1>3 DEF PageStages, MediaStages, PhotoStages, LogoStages,
     ScheduleStages
<1>5. PageInv'
  BY <1>1, <1>2, <1>3 DEF IInv, PageInv, PublishedHasSlug
<1>6. ScheduleInv'
  BY <1>2, <1>3, <1>4, ScheduleFrame DEF IInv
<1>7. /\ coach' \in [visible : BOOLEAN, slug : Slugs \cup {None}]
      /\ schedule' \in SUBSET Saves /\ hist' \in History
  BY <1>2 DEF IInv, TypeOK
<1> QED BY <1>1, <1>2, <1>3, <1>4, <1>5, <1>6, <1>7, OtherStep

(* What a handler at work on the page or the schedule leaves alone.         *)
LEMMA PageHandler ==
    ASSUME IInv, NEW r \in Requests,
           req[r].at \in PageStages \cup ScheduleStages
    PROVE  /\ req[r].at \notin MediaStages
           /\ req[r].file = None /\ req[r].old = None
           /\ Idle.at = "idle" /\ Idle.file = None /\ Idle.old = None
           /\ Idle.at \notin MediaStages \cup PageStages \cup ScheduleStages
<1>1. req[r].at \notin MediaStages
  BY DEF PageStages, ScheduleStages, MediaStages, PhotoStages, LogoStages
<1>2. req[r].file = None /\ req[r].old = None
  BY <1>1 DEF IInv, MediaInv, FileInv
<1>3. /\ Idle.at = "idle" /\ Idle.file = None /\ Idle.old = None
      /\ "idle" \notin MediaStages \cup PageStages \cup ScheduleStages
  BY DEF Idle, MediaStages, PhotoStages, LogoStages, PageStages,
     ScheduleStages
<1> QED BY <1>1, <1>2, <1>3

(* The fields that are published.                                           *)
LEMMA PublishType ==
    ASSUME IInv, NEW r \in Requests
    PROVE  /\ Publish(r) \in [visible : BOOLEAN, slug : Slugs \cup {None}]
           /\ Publish(r).slug = coach.slug
           /\ Publish(r).visible = IF req[r].visible = None
                                   THEN coach.visible ELSE req[r].visible
<1>1. /\ coach \in [visible : BOOLEAN, slug : Slugs \cup {None}]
      /\ req[r].visible \in BOOLEAN \cup {None}
  BY DEF IInv, TypeOK, Handler
<1> QED BY <1>1 DEF Publish

LEMMA PlainUpdateStep ==
    ASSUME IInv, NEW r \in Requests, PlainUpdate(r) \/ OwnUpdate(r)
    PROVE  IInv'
<1>0. /\ req[r] \in Handler /\ DOMAIN req = Requests /\ Idle \in Handler
      /\ hist \in History
  BY HandlerType
<1>1. /\ req[r].at \in {"plain", "own"}
      /\ req' = [req EXCEPT ![r] = Idle] /\ coach' = Publish(r)
      /\ UNCHANGED <<account, media, schedule>>
  BY DEF PlainUpdate, OwnUpdate, Respond
<1>2. \A s \in Requests : req'[s] = IF s = r THEN Idle ELSE req[s]
  BY <1>0, <1>1
<1>3. /\ hist' \in History
      /\ hist'.raced = hist.raced /\ hist'.failed = hist.failed
      /\ hist'.met = hist.met
  <2>1. CASE PlainUpdate(r)
    BY <1>0, <2>1 DEF PlainUpdate, History
  <2>2. CASE OwnUpdate(r)
    <3>1. req[r].visible \in BOOLEAN
      BY <2>2 DEF OwnUpdate, IInv, PageInv
    <3> QED BY <1>0, <2>2, <3>1 DEF OwnUpdate, History
  <2> QED BY <2>1, <2>2
<1>4. req[r].at \in PageStages \cup ScheduleStages
  BY <1>1 DEF PageStages
<1>5. /\ coach' \in [visible : BOOLEAN, slug : Slugs \cup {None}]
      /\ coach'.slug = coach.slug
      /\ coach'.visible = IF req[r].visible = None THEN coach.visible
                          ELSE req[r].visible
  BY <1>1, PublishType
<1>6. PublishedHasSlug'
  <2>1. CASE PlainUpdate(r)
    <3>1. req[r].visible = TRUE => coach.slug # None
      BY <2>1 DEF PlainUpdate, IInv, PageInv
    <3>2. coach.visible => coach.slug # None \/ hist.via
      BY DEF IInv, PageInv, PublishedHasSlug
    <3>3. req[r].visible \in BOOLEAN \cup {None}
      BY <1>0 DEF Handler
    <3>4. req[r].visible = None => hist'.via = hist.via
      <4>1. hist' = [hist EXCEPT !.via = hist.via /\ req[r].visible = None]
        BY <2>1 DEF PlainUpdate
      <4> QED BY <1>0, <4>1 DEF History
    <3> QED BY <1>5, <3>1, <3>2, <3>3, <3>4 DEF PublishedHasSlug
  <2>2. CASE OwnUpdate(r)
    <3>1. hist'.via = req[r].visible /\ req[r].visible \in BOOLEAN
      BY <1>0, <2>2 DEF OwnUpdate, IInv, PageInv, History
    <3>2. req[r].visible # None
      BY <3>1, NoneAssumption
    <3> QED BY <1>5, <3>1, <3>2 DEF PublishedHasSlug
  <2> QED BY <2>1, <2>2
<1>7. PageInv'
  <2>1. coach'.slug = coach.slug
    BY <1>5
  <2>2. Idle.at \notin PageStages
    BY <1>4, PageHandler
  <2>3. PageInv
    BY DEF IInv
  <2> QED BY <1>2, <1>6, <2>1, <2>2, <2>3 DEF PageInv, PageStages
<1>8. ScheduleInv'
  BY <1>0, <1>1, <1>3, <1>4, PageHandler, ScheduleFrame DEF IInv
<1>9. schedule' \in SUBSET Saves
  BY <1>1 DEF IInv, TypeOK
<1> QED BY <1>0, <1>1, <1>3, <1>4, <1>5, <1>7, <1>8, <1>9, PageHandler,
           OtherStep

(* updateWithFreshSlug writes a slug that is free, or tries again.          *)
LEMMA SlugUpdateStep ==
    ASSUME IInv, NEW r \in Requests, SlugUpdate(r) PROVE IInv'
<1>0. /\ req[r] \in Handler /\ DOMAIN req = Requests /\ Idle \in Handler
      /\ hist \in History
      /\ coach \in [visible : BOOLEAN, slug : Slugs \cup {None}]
      /\ schedule \in SUBSET Saves
  BY HandlerType DEF IInv, TypeOK
<1>1. req[r].at = "slug" /\ UNCHANGED <<account, media, schedule, hist>>
  BY DEF SlugUpdate
<1>2. req[r].at \in PageStages \cup ScheduleStages
  BY <1>1 DEF PageStages
<1> USE PageHandler
<1>3. PICK slug \in Slugs :
         \/ /\ UNCHANGED coach
            /\ \/ /\ req[r].tries > 0
                  /\ Resume(r, [req[r] EXCEPT !.tries = req[r].tries - 1])
               \/ Respond(r)
         \/ /\ coach' = [Publish(r) EXCEPT !.slug = slug]
            /\ Respond(r)
  BY DEF SlugUpdate
<1>4. CASE UNCHANGED coach /\ req[r].tries > 0
           /\ Resume(r, [req[r] EXCEPT !.tries = req[r].tries - 1])
  <2> DEFINE h == [req[r] EXCEPT !.tries = req[r].tries - 1]
  <2>1. req' = [req EXCEPT ![r] = h]
    BY <1>4 DEF Resume
  <2>2. /\ h \in Handler /\ h.at = "slug" /\ h.file = None /\ h.old = None
        /\ h.visible = req[r].visible
    BY <1>0, <1>1, <1>2, <1>4 DEF Handler
  <2> HIDE DEF h
  <2>3. \A s \in Requests : req'[s] = IF s = r THEN h ELSE req[s]
    BY <1>0, <2>1
  <2>4. PageInv'
    BY <1>1, <1>4, <2>2, <2>3 DEF IInv, PageInv, PublishedHasSlug
  <2>5. h.at \notin ScheduleStages /\ h.at \notin MediaStages
    BY <1>1, <1>2, <2>2 DEF ScheduleStages
  <2>6. ScheduleInv'
    BY <1>0, <1>1, <2>1, <2>5, ScheduleFrame DEF IInv
  <2> QED BY <1>0, <1>1, <1>2, <1>4, <2>1, <2>2, <2>4, <2>5, <2>6, OtherStep
<1>5. CASE Respond(r) /\ (\/ UNCHANGED coach
                          \/ coach' = [Publish(r) EXCEPT !.slug = slug])
  <2>1. req' = [req EXCEPT ![r] = Idle]
    BY <1>5 DEF Respond
  <2>2. \A s \in Requests : req'[s] = IF s = r THEN Idle ELSE req[s]
    BY <1>0, <2>1
  <2>3. /\ coach' \in [visible : BOOLEAN, slug : Slugs \cup {None}]
        /\ coach' = coach \/ coach'.slug # None
    BY <1>0, <1>5, PublishType, NoneAssumption
  <2>4. PublishedHasSlug'
    BY <1>1, <2>3 DEF IInv, PageInv, PublishedHasSlug
  <2>5. PageInv'
    BY <1>1, <1>2, <2>2, <2>3, <2>4 DEF IInv, PageInv, PageStages
  <2>6. ScheduleInv'
    BY <1>0, <1>1, <1>2, <2>1, ScheduleFrame DEF IInv
  <2> QED BY <1>0, <1>1, <1>2, <2>1, <2>3, <2>5, <2>6, OtherStep
<1> QED BY <1>3, <1>4, <1>5
-----------------------------------------------------------------------------
(* setMine starts its deletion: it sees what is committed.                  *)
LEMMA SetMineStep ==
    ASSUME IInv, NEW r \in Requests, NEW save \in Saves, SetMine(r, save)
    PROVE  IInv'
<1> DEFINE h == [Idle EXCEPT !.at = "delete", !.save = save,
                             !.seen = schedule]
<1>1. Begin(r, h) /\ UNCHANGED <<account, media, coach, schedule>>
  BY DEF SetMine
<1>2. /\ schedule \in SUBSET Saves
      /\ coach \in [visible : BOOLEAN, slug : Slugs \cup {None}]
  BY DEF IInv, TypeOK
<1>3. /\ h \in Handler /\ h.at = "delete" /\ h.seen = schedule
      /\ h.save = save
      /\ h.file = None /\ h.old = None
  BY <1>2, StageType DEF Idle, Handler, ScheduleStages
<1> HIDE DEF h
<1>4. /\ req[r].at = "idle" /\ DOMAIN req = Requests
      /\ req' = [req EXCEPT ![r] = h]
      /\ \A s \in Requests : req'[s] = IF s = r THEN h ELSE req[s]
  BY <1>1, <1>3, BeginStep DEF IInv
<1>5. /\ h.at \in ScheduleStages /\ h.at \notin MediaStages
      /\ h.at \notin PageStages
      /\ req[r].at \notin MediaStages
  BY <1>3, <1>4 DEF ScheduleStages, PageStages, MediaStages, PhotoStages,
     LogoStages
<1>6. /\ hist' \in History
      /\ hist'.met = {m \in hist.met : save \notin m} \cup Meets(save)
      /\ hist'.raced = hist.raced /\ hist'.failed = hist.failed
      /\ hist'.via = hist.via
  <2>1. /\ hist \in History
        /\ hist' = [hist EXCEPT !.met =
                       {m \in hist.met : save \notin m} \cup Meets(save)]
    BY DEF SetMine, IInv, TypeOK
  <2>2. Meets(save) \subseteq SUBSET Saves
    BY DEF Meets, IInv, ScheduleInv
  <2> QED BY <2>1, <2>2 DEF History
<1>7. ScheduleInv'
  <2>1. ScheduleInv /\ schedule' = schedule
    BY <1>1 DEF IInv
  <2>2. /\ save \notin schedule
        /\ \A s \in Requests : req[s].save # save
    BY DEF SetMine
  <2>3. ASSUME NEW s \in Requests, req[s].at \in ScheduleStages
        PROVE  {save, req[s].save} \in hist'.met
    BY <1>6, <2>3 DEF Meets
  <2>4. ASSUME NEW j, NEW k, {j, k} \in hist.met, j # save, k # save
        PROVE  {j, k} \in hist'.met
    BY <1>6, <2>4
  <2>5. OneSchedule'
    BY <2>1, <2>2, <2>4 DEF ScheduleInv, OneSchedule
  <2>6. ASSUME NEW s \in Requests, req'[s].at \in ScheduleStages
        PROVE  /\ req'[s].save \in Saves
               /\ \A j \in schedule :
                     j \in req'[s].seen \/ {j, req'[s].save} \in hist'.met
    BY <1>3, <1>4, <2>1, <2>2, <2>4, <2>6 DEF ScheduleInv
  <2>7. ASSUME NEW s \in Requests, NEW t \in Requests,
               req'[s].at \in ScheduleStages, req'[t].at \in ScheduleStages,
               s # t
        PROVE  {req'[s].save, req'[t].save} \in hist'.met
    <3>1. CASE s = r
      BY <1>3, <1>4, <2>3, <2>7, <3>1
    <3>2. CASE t = r
      <4>1. {save, req[s].save} \in hist'.met
        BY <1>4, <2>3, <2>7, <3>2
      <4>2. {req'[s].save, req'[t].save} = {save, req[s].save}
        BY <1>3, <1>4, <2>7, <3>2
      <4> QED BY <4>1, <4>2
    <3>3. CASE s # r /\ t # r
      <4>1. {req[s].save, req[t].save} \in hist.met
        BY <1>4, <2>1, <2>7, <3>3 DEF ScheduleInv
      <4> QED BY <1>4, <2>2, <2>4, <3>3, <4>1
    <3> QED BY <3>1, <3>2, <3>3
  <2> QED BY <2>1, <2>5, <2>6, <2>7 DEF ScheduleInv
<1>8. PageInv'
  BY <1>1, <1>4, <1>5, <1>6, PageFrame DEF IInv
<1> QED BY <1>1, <1>2, <1>3, <1>4, <1>5, <1>6, <1>7, <1>8, OtherStep

(* The deletion runs, or waits for the commit of another one.               *)
LEMMA DeleteSlotsStep ==
    ASSUME IInv, NEW r \in Requests, DeleteSlots(r) PROVE IInv'
<1> DEFINE h == [req[r] EXCEPT !.at = "insert"]
<1>1. /\ req[r].at = "delete" /\ req' = [req EXCEPT ![r] = h]
      /\ UNCHANGED <<account, media, coach, schedule, hist>>
  BY DEF DeleteSlots, Resume
<1>2. /\ req[r] \in Handler /\ DOMAIN req = Requests
      /\ hist \in History
      /\ coach \in [visible : BOOLEAN, slug : Slugs \cup {None}]
      /\ schedule \in SUBSET Saves
  BY HandlerType DEF IInv, TypeOK
<1>3. req[r].at \in PageStages \cup ScheduleStages
  BY <1>1 DEF ScheduleStages
<1>4. /\ h.at = "insert" /\ h.seen = req[r].seen /\ h.save = req[r].save
      /\ h.file = req[r].file /\ h.old = req[r].old
      /\ h \in Handler
  BY <1>2, StageType DEF Handler, ScheduleStages
<1> HIDE DEF h
<1>5. h.file = None /\ h.old = None /\ req[r].at \notin MediaStages
  BY <1>3, <1>4, PageHandler
<1>6. /\ h.at \in ScheduleStages /\ h.at \notin MediaStages
      /\ h.at \notin PageStages /\ req[r].at \in ScheduleStages
  BY <1>1, <1>4 DEF ScheduleStages, PageStages, MediaStages, PhotoStages,
     LogoStages
<1>7. \A s \in Requests : req'[s] = IF s = r THEN h ELSE req[s]
  BY <1>1, <1>2
<1>8. ScheduleInv'
  <2>1. ScheduleInv /\ schedule' = schedule /\ hist' = hist
    BY <1>1 DEF IInv
  <2> QED BY <1>4, <1>6, <1>7, <2>1 DEF ScheduleInv, OneSchedule
<1>9. PageInv'
  BY <1>1, <1>2, <1>6, PageFrame DEF IInv
<1> QED BY <1>1, <1>2, <1>4, <1>5, <1>6, <1>8, <1>9, OtherStep

(* A handler that is alone with the schedule leaves its own slots.          *)
LEMMA InsertSlotsStep ==
    ASSUME IInv, NEW r \in Requests, InsertSlots(r) PROVE IInv'
<1>1. PICK rows \in {{}, {req[r].save}} :
         schedule' = (schedule \ req[r].seen) \cup rows
  BY DEF InsertSlots
<1>2. /\ req[r].at = "insert" /\ req' = [req EXCEPT ![r] = Idle]
      /\ UNCHANGED <<account, media, coach, hist>>
  BY DEF InsertSlots, Respond
<1>3. /\ req[r] \in Handler /\ DOMAIN req = Requests /\ Idle \in Handler
      /\ hist \in History
      /\ coach \in [visible : BOOLEAN, slug : Slugs \cup {None}]
      /\ schedule \in SUBSET Saves
  BY HandlerType DEF IInv, TypeOK
<1>4. req[r].at \in ScheduleStages
  BY <1>2 DEF ScheduleStages
<1>5. /\ req[r].at \notin MediaStages
      /\ Idle.file = None /\ Idle.old = None
      /\ Idle.at \notin MediaStages \cup PageStages \cup ScheduleStages
  BY <1>4, PageHandler
<1>6. \A s \in Requests : req'[s] = IF s = r THEN Idle ELSE req[s]
  BY <1>2, <1>3
<1>7. schedule' \in SUBSET Saves
  <2>1. req[r].save \in Saves
    BY <1>4 DEF IInv, ScheduleInv
  <2> QED BY <1>1, <1>3, <2>1
<1>8. ScheduleInv'
  <2>1. /\ ScheduleInv /\ hist' = hist
        /\ schedule' \subseteq (schedule \ req[r].seen) \cup {req[r].save}
    BY <1>1, <1>2 DEF IInv
  <2>2. \A j \in schedule \ req[r].seen : {j, req[r].save} \in hist.met
    BY <1>4, <2>1 DEF ScheduleInv
  <2>3. ASSUME NEW k \in schedule', NEW l \in schedule', k # l
        PROVE  {k, l} \in hist.met
    <3>1. CASE k = req[r].save
      <4>1. {l, k} \in hist.met
        BY <2>1, <2>2, <2>3, <3>1
      <4>2. {l, k} = {k, l}
        OBVIOUS
      <4> QED BY <4>1, <4>2
    <3>2. CASE l = req[r].save
      BY <2>1, <2>2, <2>3, <3>2
    <3>3. CASE k # req[r].save /\ l # req[r].save
      BY <2>1, <2>3, <3>3 DEF ScheduleInv, OneSchedule
    <3> QED BY <3>1, <3>2, <3>3
  <2>4. ASSUME NEW s \in Requests, req'[s].at \in ScheduleStages,
               NEW j \in schedule'
        PROVE  j \in req'[s].seen \/ {j, req'[s].save} \in hist.met
    <3>1. s # r /\ req'[s] = req[s] /\ req[s].at \in ScheduleStages
      BY <1>5, <1>6, <2>4
    <3>2. CASE j = req[r].save
      BY <1>4, <2>1, <3>1, <3>2 DEF ScheduleInv
    <3>3. CASE j # req[r].save
      BY <2>1, <2>4, <3>1, <3>3 DEF ScheduleInv
    <3> QED BY <3>2, <3>3
  <2>5. \A s \in Requests : req'[s].at \in ScheduleStages =>
            s # r /\ req'[s] = req[s]
    BY <1>5, <1>6
  <2> QED BY <2>1, <2>3, <2>4, <2>5 DEF ScheduleInv, OneSchedule
<1>9. PageInv'
  BY <1>2, <1>3, <1>5, PageFrame DEF IInv
<1> QED BY <1>2, <1>3, <1>5, <1>7, <1>8, <1>9, OtherStep

-----------------------------------------------------------------------------
(* A handler that stops leaves its files behind, and they are counted.      *)
LEMMA FailStep ==
    ASSUME IInv, NEW r \in Requests, Fail(r) PROVE IInv'
<1> DEFINE dropped == IF req[r].at \in {"dropPhoto", "pointLogo"}
                      THEN {req[r].old} ELSE {}
           dealt == ({req[r].file} \cup dropped) \ {None}
<1>1. /\ hist' = [hist EXCEPT !.failed = hist.failed \cup dealt]
      /\ req' = [req EXCEPT ![r] = Idle]
      /\ UNCHANGED <<account, media, coach, schedule>>
  BY DEF Fail, Respond
<1>2. /\ req[r] \in Handler /\ DOMAIN req = Requests /\ Idle \in Handler
      /\ hist \in History
      /\ MediaInv
  BY HandlerType DEF IInv
<1>3. dealt \subseteq Files
  BY <1>2 DEF Handler
<1>4. /\ hist'.raced = hist.raced /\ hist'.via = hist.via
      /\ hist'.met = hist.met
      /\ hist'.failed = hist.failed \cup dealt /\ hist' \in History
  BY <1>1, <1>2, <1>3 DEF History
<1>5. /\ req[r].file # None => req[r].file \in dealt
      /\ req[r].at \in {"dropPhoto", "pointLogo"} /\ req[r].old # None =>
             req[r].old \in dealt
  OBVIOUS
<1> HIDE DEF dealt
<1>6. \A s \in Requests : req'[s] = IF s = r THEN Idle ELSE req[s]
  BY <1>1, <1>2
<1>7. /\ Idle.at = "idle" /\ Idle.file = None /\ Idle.old = None
      /\ Idle.at \notin MediaStages \cup PageStages \cup ScheduleStages
  BY DEF Idle, MediaStages, PhotoStages, LogoStages, PageStages,
     ScheduleStages
<1>8. photo' = photo /\ logo' = logo /\ files' = files
  BY <1>1 DEF media
<1>9. TypeOK'
  BY <1>1, <1>2, <1>4 DEF IInv, TypeOK, account, media
<1>10. FileInv'
  BY <1>2, <1>6, <1>7, <1>8
     DEF MediaInv, FileInv, MediaStages, PhotoStages, LogoStages
<1>11. RacedInv'
  BY <1>2, <1>4, <1>6, <1>7, <1>8
     DEF MediaInv, RacedInv, PhotoStages, LogoStages
<1>12. PicturesExist'
  <2>1. CASE req[r].at = "pointLogo" /\ req[r].old = logo
    <3>1. logo \in hist'.failed \cup {None}
      BY <1>4, <1>5, <2>1
    <3> QED BY <1>2, <1>8, <3>1 DEF MediaInv, PicturesExist
  <2>2. CASE ~(req[r].at = "pointLogo" /\ req[r].old = logo)
    BY <1>2, <1>4, <1>6, <1>8, <2>2 DEF MediaInv, PicturesExist
  <2> QED BY <2>1, <2>2
<1>13. FilesAccounted'
  <2>1. None \notin files
    BY <1>2, NoneAssumption DEF IInv, TypeOK
  <2>2. ASSUME NEW f \in files, f \notin hist'.failed, f \notin hist'.raced
        PROVE  f \in {photo, logo} \/ Held(f)'
    <3>1. f \in {photo, logo} \/ Held(f)
      BY <1>2, <1>4, <2>2 DEF MediaInv, FilesAccounted
    <3>2. f # req[r].file /\ ~(req[r].at = "dropPhoto" /\ f = req[r].old)
      BY <1>4, <1>5, <2>1, <2>2
    <3> QED BY <1>6, <3>1, <3>2 DEF Held
  <2> QED BY <1>8, <2>2 DEF FilesAccounted
<1>14. PageInv' /\ ScheduleInv'
  BY <1>1, <1>2, <1>4, <1>7, PageFrame, ScheduleFrame DEF IInv
<1> QED BY <1>9, <1>10, <1>11, <1>12, <1>13, <1>14 DEF IInv, MediaInv

-----------------------------------------------------------------------------
(* Every step keeps the invariant.                                          *)
LEMMA NextInv == IInv /\ [Next]_vars => IInv'
<1> SUFFICES ASSUME IInv, [Next]_vars PROVE IInv'
  OBVIOUS
<1>1. ASSUME NEW r \in Requests, Arrive(r) PROVE IInv'
  <2>1. ASSUME UploadPhoto(r) \/ DeleteUser(r) \/ UploadLogo(r)
        PROVE  IInv'
    BY <2>1, UploadStep
  <2>2. ASSUME \/ \E visible \in BOOLEAN \cup {None} :
                      UpdateProfile(r, visible)
               \/ \E visible \in BOOLEAN : UpdateOwnProfile(r, visible)
        PROVE  IInv'
    BY <2>2, UpdateStep
  <2>3. ASSUME \E save \in Saves : SetMine(r, save) PROVE IInv'
    BY <2>3, SetMineStep
  <2> QED BY <1>1, <2>1, <2>2, <2>3 DEF Arrive
<1>2. ASSUME NEW r \in Requests, Continue(r) PROVE IInv'
  BY <1>2, SavesStep, PointPhotoStep, DropPhotoStep, DropLogoStep,
     PointLogoStep, PlainUpdateStep, SlugUpdateStep, DeleteSlotsStep,
     InsertSlotsStep DEF Continue
<1>3. CASE UNCHANGED vars
  <2>1. TypeOK' /\ FileInv' /\ RacedInv'
    BY <1>3 DEF vars, IInv, TypeOK, MediaInv, FileInv, RacedInv
  <2>2. PicturesExist' /\ FilesAccounted'
    BY <1>3 DEF vars, IInv, MediaInv, PicturesExist, FilesAccounted, Held
  <2>3. PageInv' /\ ScheduleInv'
    BY <1>3 DEF vars, IInv, PageInv, PublishedHasSlug, ScheduleInv,
       OneSchedule
  <2> QED BY <2>1, <2>2, <2>3 DEF IInv, MediaInv
<1> QED BY <1>1, <1>2, <1>3, FailStep DEF Next

(* The inductive invariant holds of every reachable state.                  *)
THEOREM InductiveInvariant == Spec => []IInv
BY InitInv, NextInv, PTL DEF Spec

(* Type correctness.                                                        *)
THEOREM TypeCorrect == Spec => []TypeOK
<1>1. IInv => TypeOK
  BY DEF IInv
<1> QED BY <1>1, InductiveInvariant, PTL

(* What a profile shows is on the disk (uploadPhoto, uploadLogo,            *)
(* deleteUser).                                                             *)
THEOREM PicturesAreThere == Spec => []PicturesExist
<1>1. IInv => PicturesExist
  BY DEF IInv, MediaInv
<1> QED BY <1>1, InductiveInvariant, PTL

(* A file is left over only by a handler that stopped, or when it was shown *)
(* while another handler had found an older one (uploadPhoto, uploadLogo,   *)
(* deleteUser).                                                             *)
THEOREM FilesAreAccounted == Spec => []FilesAccounted
<1>1. IInv => FilesAccounted
  BY DEF IInv, MediaInv
<1> QED BY <1>1, InductiveInvariant, PTL

(* A schedule mixes two saves only if these two were in flight together     *)
(* (setMine).                                                               *)
THEOREM OneScheduleAtATime == Spec => []OneSchedule
<1>1. IInv => OneSchedule
  BY DEF IInv, ScheduleInv
<1> QED BY <1>1, InductiveInvariant, PTL

-----------------------------------------------------------------------------
(* The address as CheckedWrites sees it.                                    *)
PhaseOf(page) == IF page.slug = None THEN "open" ELSE "closed"
MakersIn(handlers) == {r \in Requests : handlers[r].at = "slug"}

LEMMA SlugRead ==
    /\ SlugPhase = [i \in {"slug"} |-> PhaseOf(coach)]
    /\ SlugPhase' = [i \in {"slug"} |-> PhaseOf(coach')]
    /\ SlugMakers = [i \in {"slug"} |-> MakersIn(req)]
    /\ SlugMakers' = [i \in {"slug"} |-> MakersIn(req')]
BY DEF SlugPhase, SlugMakers, PhaseOf, MakersIn

(* A handler found none, wrote one, or gave up.                             *)
LEMMA SlugMoves ==
    ASSUME NEW before, before = PhaseOf(coach),
           NEW after, after = PhaseOf(coach'),
           NEW took, took = MakersIn(req), NEW take, take = MakersIn(req'),
           NEW kept \in BOOLEAN, kept => coach'.slug = coach.slug,
           \/ after = before /\ kept /\ take = took
           \/ \E r \in Requests :
                 \/ /\ before = "open" /\ after = before /\ kept
                    /\ r \notin took /\ take = took \cup {r}
                 \/ r \in took /\ after = "closed" /\ take = took \ {r}
                 \/ r \in took /\ after = before /\ kept /\ take = took \ {r}
    PROVE  [SlugLedger!Next]_(SlugLedger!vars)
<1>1. PICK phase : phase = [i \in {"slug"} |-> before]
  OBVIOUS
<1>2. PICK phase2 : phase2 = [i \in {"slug"} |-> after]
  OBVIOUS
<1>3. PICK takers : takers = [i \in {"slug"} |-> took]
  OBVIOUS
<1>4. PICK takers2 : takers2 = [i \in {"slug"} |-> take]
  OBVIOUS
<1>5. /\ SlugPhase = phase /\ SlugPhase' = phase2
      /\ SlugMakers = takers /\ SlugMakers' = takers2
  BY <1>1, <1>2, <1>3, <1>4, SlugRead
<1>6. /\ phase2 = [phase EXCEPT !["slug"] = after]
      /\ takers2 = [takers EXCEPT !["slug"] = take]
      /\ phase["slug"] = before /\ takers["slug"] = took
      /\ after = before => phase2 = phase
      /\ take = took => takers2 = takers
  BY <1>1, <1>2, <1>3, <1>4
<1>7. kept => [i \in {"slug"} |-> coach'.slug] = [i \in {"slug"} |-> coach.slug]
  OBVIOUS
<1>8. \A k \in {"slug"} : k = "slug"
  OBVIOUS
<1>9. CASE after = before /\ kept /\ take = took
  BY <1>5, <1>6, <1>7, <1>9 DEF SlugLedger!vars
<1>10. ASSUME NEW r \in Requests, before = "open", after = before, kept,
              r \notin took, take = took \cup {r}
       PROVE  [SlugLedger!Next]_(SlugLedger!vars)
  <2>1. SlugLedger!Take(r, "slug")
    BY <1>5, <1>6, <1>7, <1>8, <1>10 DEF SlugLedger!Take
  <2> QED BY <2>1 DEF SlugLedger!Next
<1>11. ASSUME NEW r \in Requests, r \in took, after = "closed",
              take = took \ {r}
       PROVE  [SlugLedger!Next]_(SlugLedger!vars)
  <2>1. SlugLedger!Write(r, "slug")
    BY <1>5, <1>6, <1>8, <1>11 DEF SlugLedger!Write
  <2> QED BY <2>1 DEF SlugLedger!Next
<1>12. ASSUME NEW r \in Requests, r \in took, after = before, kept,
              take = took \ {r}
       PROVE  [SlugLedger!Next]_(SlugLedger!vars)
  <2>1. SlugLedger!Leave(r, "slug")
    BY <1>5, <1>6, <1>7, <1>12 DEF SlugLedger!Leave
  <2> QED BY <2>1 DEF SlugLedger!Next
<1> QED BY <1>9, <1>10, <1>11, <1>12

(* The handler that moves is the only one that starts or stops making one.  *)
LEMMA MakersChange ==
    ASSUME IInv, NEW r \in Requests, NEW handler,
           req' = [req EXCEPT ![r] = handler]
    PROVE  /\ handler.at = "slug" => MakersIn(req') = MakersIn(req) \cup {r}
           /\ handler.at # "slug" => MakersIn(req') = MakersIn(req) \ {r}
           /\ r \in MakersIn(req) <=> req[r].at = "slug"
<1>1. \A s \in Requests : req'[s] = IF s = r THEN handler ELSE req[s]
  BY DEF IInv, TypeOK
<1> QED BY <1>1 DEF MakersIn

(* A handler that makes none, before and after, or goes on making one.      *)
LEMMA SlugFrame ==
    ASSUME NEW r \in Requests,
           \A s \in Requests : s # r => req'[s] = req[s],
           req'[r].at = "slug" <=> req[r].at = "slug",
           coach'.slug = coach.slug
    PROVE  [SlugLedger!Next]_(SlugLedger!vars)
<1>1. MakersIn(req') = MakersIn(req)
  BY DEF MakersIn
<1>2. PhaseOf(coach') = PhaseOf(coach)
  BY DEF PhaseOf
<1> QED BY <1>1, <1>2, SlugMoves

(* A handler that gives up.                                                 *)
LEMMA SlugLeft ==
    ASSUME IInv, NEW r \in Requests, Respond(r), coach' = coach
    PROVE  [SlugLedger!Next]_(SlugLedger!vars)
<1>1. /\ Idle \in Handler /\ Idle.at # "slug"
      /\ req' = [req EXCEPT ![r] = Idle]
  BY HandlerType DEF Respond, Idle
<1>2. CASE req[r].at # "slug"
  <2>1. \A s \in Requests : req'[s] = IF s = r THEN Idle ELSE req[s]
    BY <1>1 DEF IInv, TypeOK
  <2> QED BY <1>1, <1>2, <2>1, SlugFrame
<1>3. CASE req[r].at = "slug"
  <2>1. r \in MakersIn(req) /\ MakersIn(req') = MakersIn(req) \ {r}
    BY <1>1, <1>3, MakersChange
  <2>2. PhaseOf(coach') = PhaseOf(coach)
    OBVIOUS
  <2> QED BY <2>1, <2>2, SlugMoves
<1> QED BY <1>2, <1>3

(* updateProfile looks for an address.                                      *)
LEMMA SlugTaken ==
    ASSUME IInv, NEW r \in Requests, NEW visible \in BOOLEAN \cup {None},
           UpdateProfile(r, visible)
    PROVE  [SlugLedger!Next]_(SlugLedger!vars)
<1> DEFINE willBePublic == IF visible = None THEN coach.visible ELSE visible
           needsSlug == willBePublic /\ coach.slug = None
           h == [Idle EXCEPT !.at = IF needsSlug THEN "slug" ELSE "plain",
                             !.visible = visible, !.tries = MaxSlugRetries]
<1>1. Begin(r, h) /\ coach' = coach
  BY DEF UpdateProfile
<1>2. /\ h.at = (IF needsSlug THEN "slug" ELSE "plain")
      /\ h \in Handler
  BY SlugAssumption, StageType, HandlerType DEF Idle, Handler, PageStages
<1>3. needsSlug => coach.slug = None
  OBVIOUS
<1> HIDE DEF h, needsSlug
<1>4. req' = [req EXCEPT ![r] = h] /\ req[r].at = "idle"
  BY <1>1 DEF Begin
<1>5. CASE ~needsSlug
  <2>1. h.at # "slug" /\ req[r].at # "slug" /\ coach'.slug = coach.slug
    BY <1>1, <1>2, <1>4, <1>5
  <2>2. \A s \in Requests : req'[s] = IF s = r THEN h ELSE req[s]
    BY <1>4 DEF IInv, TypeOK
  <2> QED BY <2>1, <2>2, SlugFrame
<1>6. CASE needsSlug
  <2>1. /\ r \notin MakersIn(req)
        /\ MakersIn(req') = MakersIn(req) \cup {r}
    BY <1>2, <1>4, <1>6, MakersChange
  <2>2. PhaseOf(coach) = "open" /\ PhaseOf(coach') = "open"
    BY <1>1, <1>3, <1>6 DEF PhaseOf
  <2>3. coach'.slug = coach.slug
    BY <1>1
  <2> QED BY <2>1, <2>2, <2>3, SlugMoves
<1> QED BY <1>5, <1>6

(* updateWithFreshSlug.                                                     *)
LEMMA SlugWritten ==
    ASSUME IInv, NEW r \in Requests, SlugUpdate(r)
    PROVE  [SlugLedger!Next]_(SlugLedger!vars)
<1>1. PICK slug \in Slugs :
         \/ UNCHANGED coach /\ Respond(r)
         \/ /\ UNCHANGED coach
            /\ Resume(r, [req[r] EXCEPT !.tries = req[r].tries - 1])
            /\ req[r].tries > 0
         \/ coach' = [Publish(r) EXCEPT !.slug = slug] /\ Respond(r)
  BY DEF SlugUpdate
<1>2. CASE UNCHANGED coach /\ Respond(r)
  BY <1>2, SlugLeft
<1>3. CASE /\ UNCHANGED coach
           /\ Resume(r, [req[r] EXCEPT !.tries = req[r].tries - 1])
           /\ req[r].tries > 0
  <2> DEFINE h == [req[r] EXCEPT !.tries = req[r].tries - 1]
  <2>1. req' = [req EXCEPT ![r] = h]
    BY <1>3 DEF Resume
  <2>2. h \in Handler /\ h.at = req[r].at
    BY <1>3, HandlerType DEF Handler
  <2> HIDE DEF h
  <2>3. \A s \in Requests : req'[s] = IF s = r THEN h ELSE req[s]
    BY <2>1 DEF IInv, TypeOK
  <2> QED BY <1>3, <2>2, <2>3, SlugFrame
<1>4. CASE coach' = [Publish(r) EXCEPT !.slug = slug] /\ Respond(r)
  <2>1. /\ Idle \in Handler /\ Idle.at # "slug"
        /\ req' = [req EXCEPT ![r] = Idle]
    BY <1>4, HandlerType DEF Respond, Idle
  <2>2. r \in MakersIn(req) /\ MakersIn(req') = MakersIn(req) \ {r}
    BY <2>1, MakersChange DEF SlugUpdate
  <2>3. coach'.slug # None
    BY <1>4, PublishType, NoneAssumption
  <2>4. PhaseOf(coach') = "closed"
    BY <2>3 DEF PhaseOf
  <2> QED BY <2>2, <2>4, SlugMoves
<1> QED BY <1>1, <1>2, <1>3, <1>4

(* The steps that are not about the address.                                *)
LEMMA SlugElsewhere ==
    ASSUME IInv, NEW r \in Requests,
           \/ UploadPhoto(r) \/ DeleteUser(r) \/ UploadLogo(r)
           \/ \E visible \in BOOLEAN : UpdateOwnProfile(r, visible)
           \/ \E save \in Saves : SetMine(r, save)
           \/ SavePhoto(r) \/ PointPhoto(r) \/ DropPhoto(r) \/ Erase(r)
           \/ SaveLogo(r) \/ DropLogo(r) \/ PointLogo(r)
           \/ PlainUpdate(r) \/ OwnUpdate(r)
           \/ DeleteSlots(r) \/ InsertSlots(r)
    PROVE  [SlugLedger!Next]_(SlugLedger!vars)
<1>0. req[r] \in Handler /\ req \in [Requests -> Handler]
  BY DEF IInv, TypeOK
<1> USE <1>0 DEF Handler, Idle
<1>1. ASSUME \/ UploadPhoto(r) \/ DeleteUser(r) \/ UploadLogo(r)
             \/ \E visible \in BOOLEAN : UpdateOwnProfile(r, visible)
             \/ \E save \in Saves : SetMine(r, save)
             \/ SavePhoto(r) \/ SaveLogo(r) \/ DropLogo(r)
             \/ PointPhoto(r) \/ Erase(r) \/ DropPhoto(r) \/ PointLogo(r)
             \/ DeleteSlots(r) \/ InsertSlots(r)
      PROVE  /\ \A s \in Requests : s # r => req'[s] = req[s]
             /\ req[r].at # "slug" /\ req'[r].at # "slug" /\ coach' = coach
  <2>1. CASE UploadPhoto(r)
    BY <2>1 DEF UploadPhoto, Begin
  <2>2. CASE DeleteUser(r)
    BY <2>2 DEF DeleteUser, Begin
  <2>3. CASE UploadLogo(r)
    BY <2>3 DEF UploadLogo, Begin
  <2>4. CASE \E visible \in BOOLEAN : UpdateOwnProfile(r, visible)
    BY <2>4 DEF UpdateOwnProfile, Begin
  <2>5. CASE \E save \in Saves : SetMine(r, save)
    <3>1. PICK save \in Saves : SetMine(r, save)
      BY <2>5
    <3> DEFINE h == [Idle EXCEPT !.at = "delete", !.save = save,
                                 !.seen = schedule]
    <3>2. h.at = "delete"
      OBVIOUS
    <3>3. Begin(r, h) /\ coach' = coach
      BY <3>1 DEF SetMine
    <3> HIDE DEF h
    <3>4. req[r].at = "idle" /\ req' = [req EXCEPT ![r] = h]
      BY <3>3 DEF Begin
    <3> QED BY <3>2, <3>3, <3>4
  <2>6. CASE SavePhoto(r)
    BY <2>6 DEF SavePhoto, Save, Resume
  <2>7. CASE SaveLogo(r)
    BY <2>7 DEF SaveLogo, Save, Resume
  <2>8. CASE DropLogo(r)
    BY <2>8 DEF DropLogo, Resume
  <2>9. CASE DeleteSlots(r)
    BY <2>9 DEF DeleteSlots, Resume
  <2>10. CASE PointPhoto(r)
    <3>1. /\ req[r].at # "slug" /\ coach' = coach
          /\ Respond(r) \/ Resume(r, [req[r] EXCEPT !.at = "dropPhoto",
                                                    !.file = None])
      BY <2>10 DEF PointPhoto, DropOrRespond
    <3> DEFINE h == [req[r] EXCEPT !.at = "dropPhoto", !.file = None]
    <3>2. h.at = "dropPhoto" /\ Idle.at = "idle"
      OBVIOUS
    <3> HIDE DEF h
    <3>3. \/ req' = [req EXCEPT ![r] = Idle]
          \/ req' = [req EXCEPT ![r] = h]
      BY <3>1 DEF Resume, Respond, h
    <3> QED BY <3>1, <3>2, <3>3
  <2>11. CASE Erase(r)
    <3>1. /\ req[r].at # "slug" /\ coach' = coach
          /\ Respond(r) \/ Resume(r, [req[r] EXCEPT !.at = "dropPhoto",
                                                    !.file = None])
      BY <2>11 DEF Erase, DropOrRespond
    <3> DEFINE h == [req[r] EXCEPT !.at = "dropPhoto", !.file = None]
    <3>2. h.at = "dropPhoto" /\ Idle.at = "idle"
      OBVIOUS
    <3> HIDE DEF h
    <3>3. \/ req' = [req EXCEPT ![r] = Idle]
          \/ req' = [req EXCEPT ![r] = h]
      BY <3>1 DEF Resume, Respond, h
    <3> QED BY <3>1, <3>2, <3>3
  <2>12. CASE DropPhoto(r)
    BY <2>12 DEF DropPhoto, Respond
  <2>13. CASE PointLogo(r)
    BY <2>13 DEF PointLogo, Respond
  <2>14. CASE InsertSlots(r)
    BY <2>14 DEF InsertSlots, Respond
  <2> QED BY <1>1, <2>1, <2>2, <2>3, <2>4, <2>5, <2>6, <2>7,
             <2>8, <2>9, <2>10, <2>11, <2>12, <2>13, <2>14
<1>2. CASE PlainUpdate(r) \/ OwnUpdate(r)
  <2>1. /\ \A s \in Requests : s # r => req'[s] = req[s]
        /\ req[r].at # "slug" /\ req'[r].at # "slug"
        /\ coach' = Publish(r)
    BY <1>2 DEF PlainUpdate, OwnUpdate, Respond
  <2>2. coach'.slug = coach.slug
    BY <2>1, PublishType
  <2> QED BY <2>1, <2>2, SlugFrame
<1>3. CASE ~(PlainUpdate(r) \/ OwnUpdate(r))
  BY <1>1, <1>3, SlugFrame
<1> QED BY <1>2, <1>3

(* Every step is one of the ledger or leaves it alone.                      *)
LEMMA SlugStep ==
    ASSUME IInv, Next
    PROVE  [SlugLedger!Next]_(SlugLedger!vars)
<1>1. PICK r \in Requests : Arrive(r) \/ Continue(r) \/ Fail(r)
  BY DEF Next
<1>2. CASE SlugUpdate(r)
  BY <1>2, SlugWritten
<1>3. CASE Fail(r)
  BY <1>3, SlugLeft DEF Fail
<1>4. CASE \E visible \in BOOLEAN \cup {None} : UpdateProfile(r, visible)
  BY <1>4, SlugTaken
<1> QED BY <1>1, <1>2, <1>3, <1>4, SlugElsewhere DEF Arrive, Continue

(* A page that updateProfile published has an address, and only handlers    *)
(* that found none make one (updateProfile, updateWithFreshSlug,            *)
(* updateOwnProfile).                                                       *)
THEOREM PagesKeepTheirAddress == Spec => PageKeepsAddress
<1>1. IInv => PublishedHasSlug
  BY DEF IInv, PageInv
<1>2. Init => SlugLedger!Init
  BY DEF Init, Idle, SlugLedger!Init, SlugPhase, SlugMakers
<1>3. IInv /\ [Next]_vars => [SlugLedger!Next]_(SlugLedger!vars)
  <2> SUFFICES ASSUME IInv, [Next]_vars
               PROVE  [SlugLedger!Next]_(SlugLedger!vars)
    OBVIOUS
  <2>1. CASE UNCHANGED vars
    BY <2>1 DEF vars, SlugLedger!vars, SlugPhase, SlugMakers
  <2> QED BY <2>1, SlugStep
<1> QED BY <1>1, <1>2, <1>3, InductiveInvariant, PTL
        DEF Spec, PageKeepsAddress, SlugLedger!Spec
=============================================================================
