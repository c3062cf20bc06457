# Verification of the swim-club application

The repository is a web application: a NestJS backend (`apps/backend`) over
PostgreSQL through Prisma, and a React frontend (`apps/frontend`). These TLA+
modules model the parts of both whose correctness depends on the order in which
handlers, transactions, answers and the clock interleave. TLC checks them on
small instances and TLAPS proves the central invariants for every instance.

Two conventions run through the modules.

*Backend.* A Node handler runs without interruption up to its next `await`, and
any other handler may run while it waits. So there is **one action per call** of
the database or the disk, together with the synchronous code up to the next
call; `req[r]` is what handler `r` holds in its local variables, `req[r].at` the
call it is about to make, and `Requests` bounds how many handlers overlap.
`Fail` stops a handler at any await (a database error or the end of the
process): what it held is lost and what it wrote stays, except inside a
transaction, which is rolled back. Handlers whose check rejects the caller
change nothing and are left out.

*Frontend.* A tab runs one callback at a time. An API call is sent with the
cookies of that moment, is handled by the server later, may be lost, and its
answer runs the continuation with the values of the render it came from.

Time is `now` in abstract units where a property is about time (`Sessions`,
`CoachInvites`, `PurchaseApprovals`); elsewhere expiry is an action that may
happen at any moment. Nothing happens by itself: there are no background jobs.
`hist`, `lost`, `behind`, `excused`, `mistaken` and the like are history
variables: no guard reads them, but that a name in `hist.failed` of `Profiles` is
not given to another file.

## Inventory

| Component | State it keeps | Operations | Hard behaviour | What makes it correct |
|---|---|---|---|---|
| Refresh-token sessions (`auth/token.service.ts`, `auth.service.ts`) | `RefreshToken` rows | login, refresh, logout | refresh is find / revoke / insert in separate calls | a refresh replaces, never adds; identity is carried along |
| Impersonation (`impersonation/`, `shared/impersonation-log/`) | `ImpersonationLog` rows, the cap of the session | start, exit, close on logout | sliding refresh under a cap, zero lifetime, failures between token and audit row | bounded, always logged, only the own pair's row is closed |
| Browser session (`auth.controller.ts`, `auth-cookies.util.ts`, `jwt.strategy.ts`, `api/client.ts`, `AuthContext.tsx`) | two cookie pairs, a context per tab | every call, refresh on 401, impersonate, exit, logout | two tabs, answers out of order, two pairs at once | pairs never mix; a tab shows whom the server acts as |
| Coach invites (`sharelink.service.ts`, `coach-invite-accept.service.ts`) | `ShareLink`, `User`, `CoachProfile` | generate, resend, accept | one transaction with row and index locks against concurrent accepts and resends | used once, atomically with the coach joining |
| Purchase approvals (`purchase-approval/`) | `ChildPurchaseApproval`, e-mails | create, list, approve, deny, lazy expiry | check and update in two calls, rows read before others expire them | answered or expired only by who read it as pending, once each; expiry announced |
| Accounts (`users/user-admin.service.ts`, `auth/`) | `User`, one-time tokens, `UserDeletionLog` | register, create trainer, verify, reset, deactivate, reactivate, delete, edit | checked in one call, written in another | deletion is permanent and logged; a token works for who found it good, with effect; everybody can get in |
| Families (`player-profile/`, `player-registration.service.ts`) | `PlayerProfile`, `TrainerPlayerAssociation` | register by link, join, add child, provision login, add / remove trainer | look-up and create in two calls, unique indexes | only adults have families; a child gets a login from who found none; removed stays removed |
| Camp drafts (`camp-conversion/`) | bounded map in memory | create, expire, evict, consume | a registration commits before it consumes | spent once, and then the trainer is there |
| Profiles (`profile/`, `branding/`, `coach-profile/`, `availability/`, `shared/storage/`) | photo, logo, slug, slots, files | upload, publish, replace | a row and a file written in two steps; replacement by two savers | what is shown exists, is reachable and is one person's doing |
| Pages (`frontend/src/pages`, `nav/`, `layout/`) | what a page shows, its handlers at work | filter, change, select, save | answers out of order, stale closures, failures | shows what the server has, for whom it was asked, and comes to rest |
| Guards, roster, e-mail, Prisma, deployment | none of their own | - | - | preconditions of the handlers; reads; external; configuration |

Components interact through the database (all), through direct calls
(`AuthService.logout` and `ImpersonationService.exit` both call
`closeOpenImpersonationLog`; accepting an invite, joining and registering issue a
token pair through `TokenService.issuePair`; registration consumes a camp draft,
which makes a profile and an association; creating a trainer makes a reset
token; deleting a user removes a file), and, between backend and frontend,
through cookies. `PROJECT.json` lists every component and, under `hazards`, each
place where one of these behaviours can go wrong.

## Modules

**`Sessions`** - tables `RefreshToken` (`token`) and `ImpersonationLog` (`log`);
`held` are the tokens some client received in an answer, so a token whose
handler failed before answering is never presented. Login is
`Login`, `LoginIssue`, `LoginTouch`; refresh is `Refresh`, `RefreshRevoke`,
`RefreshIssue`; impersonation is `Start`, `StartIssue`, `StartLog`, and `Exit` or
`Logout`, `LogoutRevoke` followed by `FindLog`, `CloseLog`. `IssuedRow` keeps the
difference between `??` and `?` for a lifetime of 0. `RefreshIssue` reads the
clock twice, up to `ClockLag` ticks apart, because the code does
(`token.service.ts:95` and `:54`); with `ClockLag` at least 1 the cap really
drifts, by milliseconds per refresh, and `hist[k].lag` accounts for it.

**`BrowserSession`** - the same sessions seen from a browser: the cookie jar with
its regular and its impersonation pair (`jar`), shared by all tabs; what
`AuthContext` of each tab says (`shown`); the calls in flight (`call`), one of
them per tab the refresh that all its 401s wait for (`refreshPromise`). One
action per gesture of the user (`Mount` to `SelectFamily`), one per endpoint
(`ServeMe` to `ServeRefresh`), and `Deliver`, `Refreshed`, `Lose` for what the
interceptor and `AuthContext` do with an answer. `Who` is `jwt.strategy.ts`'s
choice of access cookie, `RawRefreshToken` is `resolveRawRefreshToken`, which
prefers the pairs the other way round. A call is handled in one step: what
happens between the database calls of a refresh is `Sessions`' business. The
two modules meet in the row: here a refresh revokes the row and issues another
with the same identity, which is what `RefreshReplaces` proves there.

**`CoachInvites`** - `ShareLink` rows of type `UNIQUE`, the e-mails of `User`, and
the trainer of each `CoachProfile`. Inside `acceptInvite`'s transaction nothing
is visible to others, so the tables hold only what is committed and `Commit`
publishes everything at once; what the open transaction locks follows from where
its handler stands (`LinkLocked`, `UserLocked`, `ProfileLocked`). At READ
COMMITTED an update or insert that meets such a lock waits and then sees the
outcome, which is the guard and the `IF` of `Claim`, `CreateUser`,
`CreateProfile` and `Deactivate`. `Emails` are spellings: the unique index
compares spellings and `assertMatchesTargetEmail` folds case (`Mailbox`).
It implements **`InviteLedger`**, in which accepting an invite and joining the
trainer are one step.

**`PurchaseApprovals`** - `ChildPurchaseApproval` rows and the number of expiry
e-mails per row. `List`, `ListNext` go through the rows as read; `Answer` is
`assertOwnedAndPending`; `Expire`, `Notify` are `expireIfStale`; `Decide` is the
update of approve and deny. Every update is by id. It implements
**`ApprovalLifecycle`**, which is what a check in one call and a write in a later
one can promise: `takers` are the handlers that read a request as pending
(`Takers` in the code's state) and `announcers` those that expired it. Only a
taker writes, once; only an announcer announces, once; and nobody becomes a taker
of a request that is not pending. So handlers that overlap may overrule each other
and announce one expiry each, but what was answered when the last of them has left
stays answered.

**`Accounts`** - the life of an account from `Register` or `CreateTrainer` to
`Delete`, with both kinds of one-time tokens. `Present` is the check that
`verifyEmail` and `confirm` make, `Redeem` the transaction that follows;
`Deactivate`, `Reactivate`, `Delete` check, `WriteStatus` and `WriteDeletion`
write. `Lapse` is the expiry of a token. `EditUser` stands for the two ways to
write names back under a deleted account: `editUser`, and `PATCH /profile/me` with
a deleted user's token that still works.

**`CheckedWrites`** - the same promise for one value, used three times: the
redemption of a token (`RedemptionsAreChecked`), the login of a child
(`ChildLoginsAreChecked`) and the slug of a coach (`PageKeepsAddress`). An item is
open until it is written, or closed without; whoever writes it looked while it was
open, and writes once for that look; no other item changes with it. It does not
promise that the first write wins, because the code does not: that two who looked
together both write is among the disagreements below, and that a third who looks
later writes is what the property forbids.

**`Families`** - accounts, profiles and associations, with the map of camp drafts.
Registration is `Register` (with a draft) or `RegisterByLink`, `CreateAccount`,
`Consume`, `FindSelf`, `CreateSelf`, `Look`, `Insert` or `Activate`; joining is
`Join`, `JoinNext`, `Enrol` for one pair after another; children are
`CreateChild`, `ChildNext`, and `Provision`, `CreateLogin` for their login. Drafts
live in memory, so what happens to them between two awaits is one step; the map
keeps them by age (`draft[d].at`), the oldest is evicted at `MaxDrafts`. Drafts
implement **`SingleUse`**: offered, then spent once or void, for good. A map that is
read and written between two awaits can promise this; tokens in the database cannot.

**`Profiles`** - one account's photo, logo, slug and schedule, each a set of
handler stages of its own (`Stages`). The order of file and row is that of the
code: a photo is saved, pointed to, and then the old one dropped; a logo is
saved, the old one dropped, and then pointed to. `DeleteSlots` and `InsertSlots`
are the transaction of `setMine` at READ COMMITTED: the deletion sees what was
committed when it started (`seen`) and waits for a deletion that locks the same
rows. `hist.met` are the pairs of saves that were in flight together, and
`hist.raced` the files that a row came to point to while another handler had found
an older one and was about to replace it. File names are never given out twice,
although they are the account and the millisecond (`local-disk.storage.ts:25`,
`:48`): two uploads of one account in one millisecond are left out. A photo and its
thumbnail are written in one step.

**`Pages`** - the router's page, the filter, the active member, the content, the
loading flag and the handlers at work; `job` are the API calls. `Cancelled` is
the clean-up of an effect with a `cancelled` flag; pages without one
(`UsersListPage`, `PlayerProfilesPage`) keep their calls. A handler keeps the
filter or member of the render it was clicked in (`key`). A member and his trainer
are one value, although branding follows the trainer (`BrandingProvider.tsx:56`) and
the grid the member (`BestTimesPage.tsx:36`). `"times"` is in `excused` exactly while
the grid shows what a failed fetch or an overtaken save left, and `mistaken` are the
members for whom such a grid was saved.

`MC*` modules give the constants their values. Operators whose comment starts
with "Mutant of" are used by no specification: each is a plausible bug of the
definition after it, used to confirm that a property can fail.

## Runs

| Run | Instance | What it shows |
|---|---|---|
| `sessions` | 1 user, 1 admin, 3 tokens, 1 log row, 2 handlers, clock to 3, lifetimes 3 and 2, lag 1, failures | `RefreshReplaces`, `ImpersonationBounded`, `ImpersonationLogged`; long enough for a start and two refreshes, the second at the very end of the session |
| `sessions_closers` | 2 admins, 2 log rows, 2 tokens, 2 handlers, fairness, no failures | only rows of the closer's own pair are ended, and a row that was open when the closer looked does end, even if two closers pick the same |
| `invites` | 2 trainers, 2 spellings of one mailbox, 1 existing account that may already be a coach of either, 2 links, 2 handlers, failures, fairness | an invite is used once and brought its coach, no orphaned account, the ledger is implemented, and no handler waits for a lock for ever |
| `invites_pending` | 1 trainer, 1 address, 3 links, 2 handlers | **violated**: two open invites for one address |
| `approvals` | 1 parent, 2 requests, 2 handlers, lifetime 2, clock to 3, failures, fairness | the life cycle is implemented however handlers overlap, nothing expires early, and what expires is announced unless its handler stops |
| `accounts` | 1 account, 3 tokens, 2 handlers, failures | deletions are recorded, tokens are redeemed by who found them good, once each and with effect, nobody is locked out; three tokens make a used, a lapsed and a fresh one possible together |
| `accounts_forever` | 1 account, 2 tokens, 2 handlers | **violated**: a deactivation that overlaps a deletion undoes it |
| `families` | 3 accounts, 2 profiles, 1 trainer, 2 drafts where 1 fits, 2 handlers, failures | two adults and a child, or an adult and two rival child logins: families stay apart, a child gets a login only from who found none, removals hold, a draft is spent once and brings the trainer |
| `profiles` | 3 file names, 3 slugs (1 taken), 1 retry, 3 saves, 2 handlers, failures | what is shown exists, a file is left over only by a stop or a race on record, an address is made by who found none, and rows of two saves are of saves that met |
| `browser` | 3 rows, 2 tabs, 2 calls and a refresh for each tab, 4 gestures, cookies that expire, calls that are lost | the pairs never mix, tabs show whom the server acts as, nobody waits for ever for a refresh |
| `browser_logout` | as `browser` | **violated**: logging out while impersonating ends the admin's own session |
| `pages` | 2 members, 2 filters, 3 calls, 4 gestures, failures, fairness | lists are current, colours belong to the active member, times of another are saved only from a grid that a failure or an overtaken save left, pages come to rest |

*Bounds.* Two handlers are what every race in the backend needs: no decision
depends on more than one other handler having moved between a read and the write
that follows. In the browser three rows are the regular pair, the impersonation
and what replaces one of them; ids that nothing refers to are used again, so
rows do not run out. Four gestures (`MaxSends`) reach log in, impersonate, and
two more calls that overlap, with any number of refreshes; `MaxMoves` of `Pages`
reaches a page, a filter or member, a change and another filter. `NamesLeft`,
`ProfilesLeft`, `TokensLeft` and `LogsLeft` keep pools of ids from running dry
while a handler needs one. `MaxTime` ends the clock. Where such a bound stops the
system (`sessions`, `invites`, `profiles`, `browser`, `pages`) the configuration
switches the deadlock check off; `approvals`, `accounts` and `families` keep it
on.

*Fairness* is weak for the continuation of each handler: the event loop resumes
a handler once its call has settled, and nothing is assumed of users. In `Pages`
it is weak for the answer (or failure) of each call and for its continuation. For
`CoachInvites` it is strong, because PostgreSQL queues the transactions that
wait for a lock in their order, so a waiting handler is not passed over for ever
while others take and release the lock. `CloserEndsARow` cannot survive a crash,
so its run has `MayFail = FALSE`; `ExpiryIsAnnounced`, `HandlersAnswer` and
`PageSettles` allow failures.

*Excuses.* Some properties hold but for a named situation that a history variable
records, because there the code does otherwise. Each is as narrow as the code allows
and listed below, and the hazards that are nothing but such a situation name no
property:

- a handler that stops between two calls: a trainer without a set-up token
  (`AccountsCanBeEntered`), an expiry that is not announced (`ExpiryIsAnnounced`), a
  logo or a file that is left (`PicturesExist`, `FilesAccounted`), a draft spent for
  nothing (`DraftBringsTrainer`);
- a page that `PATCH /profile/me` published last (`PageKeepsAddress`), an edit after
  the deletion (`DeletionRecorded`);
- a file that was shown while another handler was about to replace an older one
  (`FilesAccounted`), two saves that were in flight together (`OneSchedule`);
- fetches of the users list that overlap, a fetch that fails, a change that no handler
  waits for any more (`ListIsCurrent`); a grid that a failed fetch or an overtaken save
  left (`TimesStayTheirs`); a change of the cookies that a tab cannot know of, or an
  answer that is lost (`ContextFollows`).

Handlers that overlap on one request, token, child or slug are not excused:
`ApprovalLifecycle` and `CheckedWrites` say what the code still promises of them.

## Disagreements between the code and what it says

Three are runs with expectation `violation`, quoted in `PROJECT.json`: two
pending invites (`sharelink.service.ts:107`), deleted accounts brought back
(`user-admin.service.ts:174`, `:192`), and the logout that ends the admin's own
session (`auth.controller.ts:196`). The first two are one pattern: a status is
checked in one call and the row written in another; an `updateMany` whose `where`
repeats the status, as `acceptInvite` does for its link, would close them.

Others were met on the way. They follow from the modules but have no run of
their own:

- An impersonation that expires leaves its audit row open: only exit and logout
  call `closeOpenImpersonationLog`, while FR-014
  (`tasks/TASK-008/requirements-analyst-requirements.md:77`) wants end and
  duration of every impersonation.
- An answer that was checked in time is written over another answer, or over an
  expiry (`purchase-approval.service.ts:117`), although the messages at `:219`
  and `:227` exclude it; overlapping handlers announce one expiry twice
  (`:145` says exactly once). `ApprovalLifecycle` allows both to handlers that read
  the request as pending, and to nobody else.
- Two confirmations that both find a token unused both redeem it
  (`password-reset.service.ts:69`): the later password wins.
- Editing a deleted account writes personal data back (`user-admin.service.ts:149`,
  against FR-013), and so does `PATCH /profile/me` with a deleted user's access token
  (`profile.service.ts:88`). `DeletionRecorded` excuses only that.
- Two refreshes with one token both succeed (`token.service.ts:87`); in two tabs
  one of them is signed out when the other rotates first.
- The impersonation cap drifts with each refresh (`token.service.ts:92` says never).
- When only the access cookie of an impersonation has expired, the 401 renews the
  admin's pair, because `resolveRawRefreshToken` prefers it, and the call is sent
  again as the admin.
- A player's join while an admin impersonates them overwrites the admin's regular
  pair with the player's (`player-registration.controller.ts:60-65` calls it a
  harmless no-op).
- A wrong password is a 401 too: the client answers it with a refresh and sends
  the login again.
- A join of a family whose association was removed answers with success and
  leaves it removed (`player-registration.service.ts:122`).
- A coach page published through `PATCH /profile/me` has no slug
  (`profile.service.ts:132`); two first publications replace each other's slug.
- Two saves of a schedule can merge (`availability.service.ts:33`); two
  provisionings leave a child account without a profile (`child-account.service.ts:37`).
- A draft that was evicted or expired makes the registration answer 404 after the
  account was committed (`auth.controller.ts:92`).
- `BestTimesPage` shows a save's answer under whichever member is active by then,
  and keeps the previous member's slots when a fetch fails (`BestTimesPage.tsx:28`,
  `:43`); in both cases the grid can be saved, and stores one member's times for
  another. `UsersListPage` shows the answer that comes last.
- Photo thumbnails are never deleted (`local-disk.storage.ts:72`).

## Proofs

Every theorem holds for all values of the constants that satisfy the named
assumptions of its module; there is one lemma per action, and each inductive
invariant was checked with TLC before it was proved.

`Sessions_proofs`: `TypeOK`, `RefreshReplaces`, `ImpersonationBounded`,
`ImpersonationLogged`, `ClosesOwnPair`. None of them is inductive. `IInv` adds
`HandlerInv` (what a suspended handler holds is still true of the tables: a
refresh past its revocation holds a revoked token, a closer a row of its own
pair), `RowInv` (an unused row has no admin, parent or holder) and `CapInv`: a
token of an impersonation session either carries its cap, equal to its expiry and
at most the lost ticks past the allowed end, or was dead when it was issued. The
second case is the override of 0, whose successor has no cap at all; it is
harmless because `Refresh` demands a token that has not expired, which is what
`RefreshInv` carries across the two awaits.

`CoachInvites_proofs`: `TypeOK`, `UsedLinkBroughtCoach`, `NoOrphanedAccount`, and
the refinement `ImplementsLedger`. `LockInv` is the heart of it: two open
transactions never hold the same link, insert the same account or insert a
profile for the same account. The tables show nothing of an open transaction, so
its locks are all that keeps others from changing what it relies on.
`HandlerInv`: therefore what a handler found holds until it commits. In the
refinement `Create` is the ledger's `Invite`, `Deactivate` its `Withdraw` (or
nothing), `Commit` its `Accept`, and every other action stutters.

`PurchaseApprovals_proofs`: `TypeOK`, `OnlyOverdueExpires` and the refinement
`ImplementsLifecycle`. `HandlerInv` says that the rows a handler holds exist, and
that one it is about to expire or announce is overdue; both survive the other
handlers because `expiresAt` is never written again and the clock does not go
back. In the refinement a listing or an answer is `Take` of the requests it read as
pending, going on to a row that is not stale gives it up (`Leave`), and `Expire`,
`Notify` and `Decide` are `Expire`, `Announce` and `Answer`; `HandsChange` shows that
a step changes hands only for the handler that makes it, however many others hold
the same row.

`Accounts_proofs`: `TypeOK`, `DeletionRecorded`, `UsedTokenHadEffect`,
`AccountsCanBeEntered`, and `RedemptionsAreChecked`: `Present` is `Take`, `Redeem` is
`Write`, a failure `Leave`, `Lapse` is `Close` (or nothing, of a used token), for any
number of handlers that hold one token. What makes
overlapping deletions harmless is in `HandlerInv`: a deletion that read the
anonymised address can only exist once the log has the original one. `TokenInv`
ties tokens to accounts that exist.

`Families_proofs`: `TypeOK`, `ParentsAreAdults`, `ChildLoginsAreChecked`,
`RemovedStaysRemoved`. `Known` is what a handler in flight may rely on, although
others run: nothing ever deletes an account or a profile, and an adult stays one.
In the refinement of `CheckedWrites` a provisioning is `Take`, and the transaction that
makes the account and writes the login is `Write`; `LoginsMadeForChild` is inductive
with it. The drafts need a second
invariant on top of it: `DraftBringsTrainer`, and the refinement
`DraftsAreSingleUse`. `HolderInv`: the account a registration has made from a draft
is its own, nobody else gives it a profile, and the trainer it works for is the
draft's, although the draft has left the map; `LoginInv` says why, since the
profile that a login finds belongs to that login; `SpentInv`: the account that
spent a draft is still being served, has stopped, or has an association with the
draft's trainer. No step takes that away, because a removed player keeps a row. In
the refinement `CreateDraft` opens one draft and voids the oldest when the map is
full, `Expire` voids, `Consume` spends, and every other action stutters
(`LedgerMoves`).

`Profiles_proofs`: `TypeOK`, `PicturesExist`, `FilesAccounted`, `OneSchedule`,
`PageKeepsAddress`. `FileInv` is why a photo that is shown survives any overlap:
a file that was saved is known to its handler alone until a row points to it, and
a photo about to be deleted is shown by nothing and never shown again, because
names in use are not given out. `RacedInv` is why nothing else is left over: what is
shown while a handler is about to replace a file it read is that file, or a raced one.
`ScheduleInv`: a save about to insert has seen every row of the schedule, and deletes
it, or met the save it is of. `PageInv` ties a public page to an address; in the
refinement of `CheckedWrites` an update that finds no slug is `Take`, the write that
succeeds is `Write`, and a conflict, which tries again, is no step at all or `Leave`.

`BrowserSession_proofs`: `TypeOK`, `PairsMatch`, `WaitersAreServed`. `PairsMatch`
is inductive once it speaks of the answers on their way as well as of the jar,
which is why it is stated so. `CallInv` says that the refresh of a tab never waits
itself and that what waits belongs to a tab, so every step that ends a refresh
meets all the calls that wait for it. `ContextFollows` has a second invariant,
`FollowInv`, about a tab that is not excused: every `/auth/me` on its way to it
carries the identity of now, or waits for a refresh because the identity of now is
nobody; and the tab shows that identity unless such a call is on its way. `AnswerInv`
is what makes the second half true: `/auth/me` is refused only to nobody, so a 401 that
waits, or that fails for good, tells the tab the truth. The proof has one lemma per
action (`Steady`), which shows that the step keeps up every tab that loses no answer,
and `FallBehind` then excuses the rest or finds the one call that asks anew.

`Pages_proofs`: `TypeOK`, `ListIsCurrent`, `TimesStayTheirs`, `BrandingIsCurrent`.
`HandlerInv` gives every handler at work one call; `ListInv` is that a list which
is not excused awaits exactly one answer, or is current, so the answer that comes
is the last one; `TimesInv` follows the times of a member from the server through
the grid and back: they are his own (`Own`) wherever they are on the way, unless his
were saved from a grid gone astray.

Only model-checked: the liveness properties (`CloserEndsARow`, `HandlersAnswer`,
`ExpiryIsAnnounced`, `PageSettles`), which are out of the prover's reach. Every
invariant, action property and refinement that a passing run checks has its theorem.

## Not modelled, and why

Hashing, DTOs, validation, e-mail texts, the read-only endpoints (histories,
listings, the roster), the role test (the precondition of a handler), deployment
and seed data. Of modelled components: `ShareLink.useCount` of static links, which
no handler reads and one atomic statement increments; renaming a profile, texts,
the colour and thumbnails; the conflict test of the coach override, a comparison
of times. Of the frontend: pages that show and submit one form
(`ProfileEditPage`, `TrainerBrandingPage`, the e-mail and password pages, the
share-link modal, `PendingApprovals`, the invitation list). Account status is
absent from `Sessions` because `refresh` does not read it, and access tokens are
not tables: `BrowserSession` has them as the `fresh` half of a pair.

## Plan

Built in this order: `Sessions`, `CoachInvites`, `PurchaseApprovals`,
`Accounts` (with `CheckedWrites`), `Families` (with `SingleUse`), `Profiles`,
`BrowserSession`, `Pages`.
What is left, the most useful first:

1. `BrowserSession` over `Sessions` with its handlers instead of one-step calls, to
   see a logout that overtakes a refresh, and what deactivating an account ends.
2. The use count of static links and the conflict override of coaches.
3. The remaining pages, as instances of the patterns in `Pages`.
