# swim-flow-api: specifications, model checks and proofs

swim-flow-api is the back end of a swimming club: a NestJS service over
PostgreSQL (through Prisma) with private storage for photographs and a small
BLOB broker in front of it. Nearly all state is in the database; requests run
concurrently in one or more Node processes and meet in transactions at READ
COMMITTED. The hard behaviour is what happens when two requests overlap, when
one decides on what it read before another one wrote, when one dies between two
steps, and when a call to the storage service has an unknown outcome. This
directory models that behaviour in TLA+, checks it with TLC and proves the main
results with TLAPS.

## Inventory

| Part | State | Operations | Hard behaviour | Correct when |
|---|---|---|---|---|
| Private BLOB images | `private_media_objects`, `private_media_active_bindings`, the legacy photo column, stored objects | upload, commit, activate, legacy edit, claim, reconcile | races for one record; unknown outcomes of PUT, INSERT, DELETE; crashes between them | what is shown exists, what is deleted is gone, private and legacy photos exclude each other, claims complete |
| Legacy R2 uploads | `private_media_objects` with a ticket, objects the client writes | prepare, confirm, cleanup, download | a signed PUT still in progress, a confirmation and a cleanup of one object | a verified row keeps the bytes that were verified |
| Sessions, local identity | `auth_sessions`, `local_auth_identities`, `local_auth_action_tokens` | invite, reissue, redeem, login, refresh, reuse, logout | two exchanges of one token, a reset during a login, snapshots of bulk updates | one successor per token, one open link per purpose, resets and reuse end all sessions |
| Accounts: roles, teacher links | `profiles.role`, `teachers.profile_id`, link events | bootstrap, invite, change a role, link, unlink | counts and rows read before they are relied on | an administrator remains; the trail tells which account stands |
| Guards and scoped reads | none (sessions, roles, coaches, enrolments, cache) | session, role, scope, cache, query | access taken away between a guard and the query | an answer holds only what the user could see |
| Departures | `ex_students`, `students.status` | archive, update, void, reactivate; retry of rolled back transactions | overlapping archives, closings, edits of the status | one departure in force, closed once, then history |
| Class coaches | `class_teachers` | add, change of role, remove, transfer, replace | plans on a roster read before the transaction | one head coach; a plan is done entirely or not at all |
| Enrolment | `student_classes` | create, update, transfer, delete | the same | one class per student, a history that stays |
| Guardians | `student_guardians` | the forms of adults and students | two adults who find no principal guardian | one principal per student |
| Attendance | `attendance_records` | save a batch, summary | a check before the transaction, row by row upserts | recorded means enrolled, two batches do not mix |
| Seasons | `seasons`, their results and categories | create, update, link | checks before the write | one active season |
| Events and program | `events`, races, heats, results | create, change, remove | mixing of disciplines, two row locks in one request | one discipline per event, no cycle of waiters |
| Results | `pool_results`, `open_water_results` | write; lists, ranking, records, evolution, summary | paging over two tables, ties, times shown with fewer digits | the routes agree with each other and with the standard ranking |
| List caches | a map in each process | fill, clear, expire | a fill that finishes after the clear, other processes | outdated for the time to live at most |
| Rate limiter | a map in each process | count, sweep | the sweep at 500 entries, the edge of two windows | limits hold, nobody is locked out wrongly |
| BLOB broker | nonces in PostgreSQL | verify, claim, dispatch, purge | replays at another instance with another clock | a signed request has its effect once |
| Trainings, assessments, pools | their tables | create, read, update, delete | little | references stay valid |
| Storage adapters, mail, environment, HTTP | none | translate and deliver | failures, which their callers see | |

The parts interact through the database: uploads look up records and profiles,
edits of students, teachers, guardians and profiles call the legacy photo guard,
departures and students write one status, rolls are checked against enrolments,
results refer to events, races and seasons. They interact through the storage
port, through the caches that the repositories drop after their writes, and
through the guards, which read session, role and classes of every request.
`PROJECT.json` lists the parts with their files and status, and under `hazards`
the places a test would hardly reach, each with the properties about it.

## Modules

| Module | What it is |
|---|---|
| `PhotoRegister` | Abstract specification: what the image service promises, without requests, locks or timeouts. |
| `PrivateImages` | The image service in detail. Instantiates `PhotoRegister` for the refinement. |
| `MediaUploads` | One legacy upload: signed PUT, confirmation, cleanup, download. |
| `AuthSessions` | One account: links, password and sessions. |
| `Accounts` | Roles, the accounts of teachers and their trail. |
| `Access` | Guards, cache and query of the scoped read routes. |
| `Departures` | Departures and the status of students. |
| `Coaches`, `Roster`, `Guardians` | Coaches of classes, enrolments, guardians. |
| `Attendance` | Rolls; composes `Roster`, which it instantiates and interleaves with. |
| `Seasons`, `Competition` | Seasons; events with their program and results. |
| `Results`, `Durations` | What the read routes compute from results; the text of a time. |
| `ListCache`, `RateLimit` | The two maps in memory. |
| `Broker` | Signed requests and their nonces. |
| `Club`, `Services` | Compositions: nine, respectively seven of these modules side by side, with the properties of each under its own name. |
| `MCPrivateImages`, `MCClub`, `MCServices` | Constants, symmetry and small instances for TLC. |
| `PrivateImages_proofs` | Theorems about `PrivateImages`. |
| `AuthSessions_proofs`, `Departures_proofs` | Theorems about these modules. |
| `Classes_proofs` | Theorems about `Roster`, `Guardians`, `Coaches` and `Attendance`, as `Club` instantiates them. |
| `Competition_proofs` | Theorems about `Competition` and `Seasons`, as `Club` instantiates them. |
| `Staff_proofs` | Theorems about `Accounts` and `Access`, as `Club` instantiates them. |
| `Services_proofs` | Theorems about `MediaUploads`, `Broker`, `ListCache`, `Durations` and `RateLimit`, as `Services` instantiates them. |
| `Results_proofs` | Theorems about `Results`, as `Services` instantiates it. |

An operator introduced by a comment "Mutant: ..." is a faulty variant of the
operator that follows it. It is used in no specification; it breaks a property
of a run and shows that the property has something to say.

### How a request is modelled

A request is a process. Its state (`req[p]`, `call[p]`, `plan[p]`, ...) is a
record of what it read and where it is, or a set that holds that record while it
runs. There is one action from one await that matters to the next. What a
transaction has written but not committed stays with the request; the tables
change in the action that commits. Row locks are read off the program counters
(`EntityLocked`, `IdentityLocked`, `Locked`, `LockedByOther`, ...), so `Crash`
and `Abort` release them and discard the writes, as PostgreSQL does. A statement
that waited for a lock sees what was committed meanwhile, which is what READ
COMMITTED means for a single row; a conditional UPDATE that no longer finds its
row rolls its transaction back. An UPDATE of many rows is different: it chooses
them when it starts (`RevokeScan`, `RedeemScan`) and examines them again after it
waited (`Revoked`).

Where every statement of a transaction goes by ids, and rows and unique indexes
keep others away from what it touches, the transaction is one step:
`Coaches`, `Roster`, `Seasons`, `Guardians` have a step that reads and a step that
is the whole transaction. Where the order of statements matters (`Departures`,
`Attendance`, `Accounts`, `Competition`, `PrivateImages`, `AuthSessions`) each
statement or each lock has a step of its own.

### PrivateImages

| Action | Code |
|---|---|
| `BeginUpload`, `PutSucceeds`, `PutFails`, `InsertSucceeds`, `InsertFails`, `Compensate`, `CompensationFails` | `store-private-blob-image.ts`. A failed PUT may have stored the object; a failed INSERT may have committed; a failed DELETE may be executed later. |
| `BeginCommit`, `CommitLegacy`, `CommitReference`, `CommitEnds` | `commit-private-blob-image.ts`, `commitPrivateBlobBinding`: compare and clear the legacy column (which locks the record), compare and write the binding (which takes KEY SHARE on the image through the foreign key), commit. |
| `BeginActivate`, `Activate`, `ActivateRefused` | `assign-private-blob-image.ts`, `assignActiveVerifiedBlob`. |
| `BeginEdit`, `EditWithoutPhoto`, `EditLock`, `EditGuard`, `EditWrite` | The updates of students, teachers, guardians and profiles with `assertLegacyPhotoWriteAllowed`. |
| `ClaimLock`, `ClaimCheck`, `ClaimMark` | `claimUnboundVerifiedBlobForCleanup`. |
| `BeginReconcile` to `ReconcileComplete` | `reconcile-claimed-private-blob-image.ts`, `completeClaimedBlobCleanup`. |
| `LateDelete`, `Crash`, `Tick` | The storage service, the process, the calendar. |

An image is a member of `Media`; `OwnerOf` is the record it was uploaded for.
ETags are not modelled: a pathname contains a fresh UUID and is written at most
once, so there is one generation of every object. The authorisation of the
caller is reduced to its outcome (a request begins or not; the third check of an
upload may refuse, `InsertFails`). An edit without an address clears the column,
as the updates do when the field is null; an edit that leaves the field out
changes nothing here and has no action.

### MediaUploads

| Action | Code |
|---|---|
| `Prepare` | `prepare-private-media-upload.ts`: the row and the signed address. |
| `Put` | The client's PUT. It has `If-None-Match: *`, so it creates the object where none is, and may arrive at any time while the object is absent, also after a cleanup. What it stored may or may not be the declared image (`genuine`). |
| `BeginConfirm`, `Head`, `ReadPrefix`, `HeadAgain`, `MarkVerifiedIfPending`, `RejectInvalid` | `confirm-private-media-upload.ts`, one step per call to the bucket or the database; the range read has `If-Match`. |
| `BeginCleanup`, `Claim`, `DeleteObject`, `MarkDeletedIfRejected` | `cleanup-private-media-uploads.ts`. |
| `SignDownload` | `request-private-media-download.ts`: a signed GET with `If-Match` for the version in a verified row. The client holds the ticket (`pc = "ticket"`) and uses it without the service. |
| `Settle`, `Abort` | `private-media-settlement-policy.ts`; a call fails, the process dies or a ticket runs out. |

`VerifiedHasBytes` covers both sides: a verified row has the bytes that were verified,
and every ticket still finds them. Who may ask for a download is not modelled.

### AuthSessions

| Action | Code |
|---|---|
| `Invite`, `BeginIssue`, `IssueLock`, `IssueEnd` | `local-admin-invitations.service.ts`, `local-password-reset.service.ts`, `issueForIdentity`. |
| `BeginRedeem`, `RedeemLock`, `RedeemScan`, `RedeemEnd` | `redeemWithPassword`: lock the identity, consume the link, set the password, revoke the sessions. |
| `BeginLogin`, `LoginCheck`, `LoginCreate` | `signInWithPassword`, then the INSERT of the session in a transaction of its own. `generation` names the password hash. |
| `BeginRefresh`, `RotateLock`, `RotateEnd`, `RotateRollback` | `ApiAuthService.refresh`, `rotateRefreshSession`. |
| `BeginReuse`, `RevokeScan`, `RevokeEnd` | The branch of `refresh` for a token that was exchanged, `revokeAllForUser`. |
| `BeginLogout`, `LogoutEnd` | `ApiAuthService.logout`, `revoke`. |
| `Expire`, `Crash` | Time and the process. |

Accounts are independent of each other, so one is modelled. It is never removed
or disabled: no code under `src/` sets `disabled_at`, and the local directory
refuses to delete users. `parent` is a history variable that no action reads.

### Accounts

`ReadLink` and `ReadUnlink` are the reads of `prisma-teacher-account-links-repository.ts`,
`WriteTeacher` its conditional UPDATE (which takes the row lock of the teacher and
the unique entry of the account), `CommitLink` and `CommitUnlink` the event and the
commit. `CreateTeacher`, `UpdateTeacher` and `DeleteTeacher` are the teachers'
repository, which writes the same table; `Bootstrap` is `bootstrap-first-admin.cjs`,
`Invite` the invitation of an administrator, `CheckRole` and `WriteRole`
`update-access-profile-role.ts`, whose count and write are separate statements.

### Access

A read (the list of students, one student, birthdays, attendance, a photo) runs through
`JwtAuthGuard`, `RolesGuard`, `ScopeGuard` and, for lists of an administrator, the cache
(`Hit`, `Miss`, `Load`), each on the database of its own moment. `Permissions` says which
routes a role opens; `PermissionsGuard` runs with `RolesGuard` because it decides on the
role which that one read. `Birthdays` is a query of its own and never cached. `Photo`
reads the role once more and shows the image to an administrator only, although a plain
user has the permission of the route. `SetRole`, `SetSession`, `SetCoach`, `SetEnrolled` are what the other
modules' commits do to that database, between any two steps; `Evict` is expiry or
a `deleteMatching`. `seen` remembers what was in the scope of the user at some
moment since the request was sent; no action reads it.

### Departures

`BeginArchive` and `BeginOnDeparture` are the use cases; `ReadArchive`,
`ReadDeparture`, `CasStudent`, `InsertDeparture`, `CloseDeparture`,
`UpdateDeparture` the statements of the four transactions of
`prisma-ex-students-repository.ts`. `Conflict` is `retryRolledBackTransaction`, which
wraps the archive alone and runs it a second time. `EditStudent` and
`DeleteStudent` are the students' repository. `Editable` bounds whose status the
form of a student writes.

### Coaches, Roster, Guardians, Attendance

| Action | Code |
|---|---|
| `PlanAdd`, `PlanRole`, `PlanRemoval`, `PlanTransfer` | The read of the class and `class-teacher-policy.ts`. |
| `AddTeacher`, `UpdateTeacherRole`, `RemoveTeacher`, `TransferTeacher` | The transactions of `prisma-classes-repository.ts`. `Commit` rolls back when a row is gone or an index refuses one. |
| `ReplaceTeachers` | PUT of a class, `replaceRelations`. |
| `PlanUpdate`, `UpdateStudent`, `CreateStudent`, `DeleteStudent` | `student-class-assignment-policy.ts` and `prisma-students-repository.ts`. |
| `PlanTransfer`, `TransferStudent` (`Roster`) | `transferStudent` of the classes' repository. |
| `ReadForm`, `CreateParent`, `UpdateParent`, `WriteForm` | `syncChildren`: who has a principal, later the INSERT with `skipDuplicates`. |
| `Send`, `Upsert`, `Save`, `Fail` | `save-attendance-batch.ts` with its policy, and `saveBatch`, row by row. `Completed`, `StudentSummaries` and `Totals` are the summary, without what a record says (present, late, ...). |

Ids of rows are drawn from a small set, and an id nobody refers to counts as new.
`Attendance` adds rolls to every step of `Roster`, so that a student may leave the
class between the check of a batch and its write.

### Competition and Seasons

A request that writes a result or a race locks its events in the order of their ids
(`LockEvent`), checks (`Check`) and writes (`WriteResult`, `WriteRace`). Edits and
removals of an event check first (`BeginEdit`, `BeginRemove`) and write later
(`WriteEvent`, `DeleteEvent`). `Unlink` is the ON DELETE SET NULL of the schema. A
heat or a start follows its race and is not told apart from it; style and distance,
which must agree with the race too, are left out. In `Seasons` each `Check...` is a
read and each `Write...` the write that follows; `OneActiveAfter` is the partial
unique index, the only rule that the database keeps.

### Results and Durations

`Create`, `Update`, `Delete` give every table of results there is. On each of them
the read routes are evaluated as operators: `InOrder` is an ORDER BY or a `sort`, in an
order that leaves no ties (queries order by the id last, and sorts are stable); `List` takes from both tables as
many rows as the page could need, merges and cuts; `Ranking` (`Faster`, `FirstOfEach`,
`Ranks`) is `ResultRankingPolicy.build`, `Records` is `ResultRecordPolicy.build`,
`Evolution`, `Summary`, `Contexts`, `Distribution`, `FilterOptions` are the methods of
`prisma-results-repository.ts`. In `Durations` a text is the numbers between its
colons and the digits of its fraction; `Type` stores `ParseDuration` of it,
`SendBack` stores what the form sends when another column is edited, which is
`ParseDuration(FormatDuration(...))`.

### ListCache, RateLimit, Broker

`ListCache` abstracts a page to whether it still shows what the database holds.
`Reads` is what the query of each list includes, `Writes` what each kind of write
changes, `Drops` what the repository calls `deleteMatching` on. `Gaps` lists the pairs
where a list shows what a write changes and keeps its pages; the code leaves these
to the time to live. `OtherProcess` writes the same database.

`RateLimit` has one counter per key; its `Attempt` is `canActivate`, sweep included.
The two window lengths of the routes are one here. `recent` is a history variable: the
attempts that were let in during the last window, each with its age and its number
among those of the same instant. An attempt leaves it when it is a window old.

`Broker` verifies (`VerifyMediaRequest`, `VerifyProbe`), claims the nonce
(`ClaimNonce`, an INSERT that one instance wins) and dispatches. The clock of an
instance is behind the database's by at most `Lag`. `Purge` deletes claims that
expired more than `Grace` ago, as `private_blob_broker_nonce_staging.sql` proposes with
two minutes.

## Runs

| Run | Instance | Question |
|---|---|---|
| `images_commit` | 1 record, 2 images, 1 upload, 2 commits, 1 legacy edit | `PrivateReplacesLegacy`, `LegacyWriteGuarded`: commits and guarded edits exclude each other; `RequestsFinish`: nobody waits for ever, and deadlock is checked. |
| `images_cleanup` | 1 record, 2 images, upload, commit, activation, claim, 2 reconciliations, 2 days | `BoundImageAvailable`, `IssuedImageStored`, `DeletedImageGone`, and `ImplementsRegister`, the refinement of `PhotoRegister`. |
| `images_reconcile` | 1 image, upload, commit, claim, 2 reconciliations | `ClaimsComplete` under retries. |
| `sessions` | 2 requests of any kind, 3 sessions, 2 links | `SingleSuccessor`, `CurrentPasswordLogsIn`, `RequestsFinish`. |
| `club` | nine small instances, see below | what overlapping requests may never do |
| `services` | seven small instances, see below | the same, and that requests end and outdated pages go |
| `images_retention` | 1 image | `RetainedAfterRelease` is violated (finding 1). |
| `images_activate` | 1 image, an activation and an edit | `LegacyWriteGuarded` is violated (finding 2). |
| `sessions_successor` | as `sessions`, nothing expires | `RevocationReachesSuccessors` is violated (finding 3). |
| `sessions_replay` | as `sessions`, nothing expires | `RotatedTokensRecognised` is violated (finding 4). |
| `departures_status` | 1 student, 2 departures, 2 requests, no edit of the status | `OpenDepartureMeansInactive` is violated (finding 5). |
| `accounts_last_admin` | 2 administrators | `AdminRemains` is violated (finding 6). |

`club` and `services` check `Club` and `Services`, which hold several modules each. The
initial state chooses one; its variables move and those of the others keep their
initial values, so the states are the sum of the instances and not their product.
`Club` gives its modules two sets of two things (`Left`, `Right`) and one of a single
thing (`One`), since no module tells apart what its sets are of; `RowId` bounds the ids
of rows and `Day` the calendar, and `Event` is a set of numbers because locks are taken
in the order of ids. That the compositions run their modules as these are specified is
proved (`ClubRuns...`, `ServicesRunTheirModules`).

| In | Module | Instance | Properties |
|---|---|---|---|
| `club` | `AuthSessions` | 2 requests, 1 session, 4 links | `OneOpenLink`, `OpenLinkSetsPassword` |
| | `Coaches` | 2 classes, 2 teachers, 3 row ids, 2 requests | `OneHeadCoach`; `HandOverComplete`: who takes a coach out also does the rest of its plan |
| | `Roster` | 2 classes, 2 students, 3 row ids, 2 requests | `EnrolledOnce`; `HistoryKept`: what has ended stays ended |
| | `Attendance` | 1 class, 2 students, 2 batches, 1 other request | `RecordedWereEnrolled`, `BatchesNeverMix`, `CompletedStays` |
| | `Competition` | 2 events, 2 results, 1 race, 2 requests | `DisciplinesNeverMix`, `RaceLinksHold`, `NoLockCycle` |
| | `Seasons` | 2 seasons, 1 result, 1 category, 2 requests | `OneActiveSeason` |
| | `Guardians` | 2 students, 2 adults, 2 requests | `OnePrincipal` |
| | `Accounts` | 2 teachers, 2 accounts, 2 requests | `TrailAgrees`: the trail is gapless and ends with what holds |
| | `Access` | 1 user, 2 classes, 2 students, 1 request | `AnswersWithinScope` |
| `services` | `Departures` | 1 student, 2 departures, 2 requests | `OneOpenDeparture`, `SingleClosure`, `HistoryImmutable`, `RequestsEnd` |
| | `MediaUploads` | 2 versions, 2 calls | `VerifiedHasBytes` |
| | `ListCache` | 2 lists asked for, 9 kinds of writes, 2 requests, 2 seconds to live | `StaleIsExplained`, `EventuallyFresh` |
| | `Broker` | 1 request, 2 instances, skew, margin, lag, timeout, grace 1, clock to 4 | `ExecutedOnce` |
| | `Results` | 3 results, 3 students, 2 days, 2 times, pages of 1 and of 2 | `PagesPartition`, `RankingIsStandard`, `RoutesAgree` |
| | `Durations` | 2 results, numbers 0, 59, 60, three fractions | `TimesSurviveEdits` |
| | `RateLimit` | 2 routes, 1 client, 2 addresses, limit, window and capacity 2 | `WindowsHold` |

**Bounds.** Two requests of the same kind are enough for a race, and one more of
another kind to come between. Two images of one record compete for its binding;
one record is enough because the foreign key keeps images of different records
apart, which the proofs confirm for any number. `MaxDay = 1` with `Retention = 1`
gives a day on which a claim is not yet allowed and one on which it is. Three
sessions are the least with which a token could be exchanged twice, two links the
least for a reset after an invitation; four links leave two for overlapping
issuances of one purpose beside those used before. `Expiring` bounds which session
and link may expire. The counter `generation` is bounded by the number of links,
since a link is used up when the password is set. Two classes and two people are the
least for a transfer and a removal planned on the same roster, three row ids the
least for two in force beside one that ended. Two batches of two students can mix.
Two events are the least for two locks taken in opposite orders, two results for
two disciplines in one event. In `Broker` the bounds are tight: with all durations 1 a
purge becomes possible only at time 4, after the last delivery that can still be in
time; one unit less of margin or grace breaks `ExecutedOnce`. Three results of three
students show a tie followed by a rank that skips, and pages of two a page that is cut
short. The numbers of `Durations` are the
edges of a minute and its first invalid value, the fractions none, one digit and
three. With `TTL = 2` a page lives through a write and through a hit.

**Symmetry** is used in `images_cleanup` and `club`, which check safety.

**Deadlock** is checked in `images_commit`. `CHECK_DEADLOCK FALSE` is set where images,
ids, links or days run out and the instance really stops. That requests do not wait
for each other is checked by `RequestsFinish`, `RequestsEnd` and `NoLockCycle`; batches
of attendance may, and PostgreSQL then ends one of them (`Fail`).

**Fairness.** A step that waits for nothing but itself is weakly fair: the event
loop runs continuations, and a call to the database or the storage service answers
or fails. A step that waits for a row lock is strongly fair, because PostgreSQL
queues the waiters of a lock; `Departures` assumes this of its statements, whose
locks are one row each. `ListCache` assumes only that time passes. Nothing is assumed
of crashes, of starting requests, or of which outcome a call has. `ClaimsComplete`
needs more (`RetryFairness`): reconciliation is run again while a claim stands, and
neither crashes nor timeouts strike every attempt. The service schedules no
reconciliation itself, so this is an assumption about its operation, made in that
run only.

## Findings

1. *Retention runs from verification.* `PRIVATE_BLOB_GC_RECONCILIATION_02E17G.md`
   speaks of images unbound for 30 days. The claim compares `created_at` and
   `verified_at` only; an image in use for years and replaced today can be
   claimed and deleted today.
2. *`/activate` passes the guard.* `assignActiveVerifiedBlob` does not lock the
   record, so it can bind between the guard of a legacy edit and its write and
   leave both photos. `PRIVATE_IMAGE_ATOMIC_COMMIT_02F06B3D.md` knows that
   `/activate` does not compare the legacy column; `LEGACY_PHOTO_WRITE_GUARD_02F06B3F.md`
   promises the guard for every active binding. `PrivateReplacesLegacy` and
   `LegacyWriteGuarded` are therefore checked and proved without activations.
3. *A successor survives revocation.* The UPDATE that revokes all sessions chooses
   its rows when it starts. If it waits for a rotation, it finds the old session
   already revoked and does not see the new one, which stays active after a
   password reset or after a reuse was detected.
4. *Logout erases a replay's trace.* Logout reads the session while it is active
   and updates it by id alone, with the successor null. If a refresh commits in
   between, a later replay of the exchanged token is no longer recognised.
5. *A departure is closed twice and its student escapes the next one.*
   `EX_STUDENT_LIFECYCLE_02C3.md` says that the conditional update of the student
   keeps a state from being reactivated twice and that a departure in force has an
   inactive student. The update looks at the status alone: a reactivation that read
   the departure open, and runs after it was closed and the student was archived
   again, closes the old departure a second time and makes the student active while
   the new departure stays open. From there the student can neither be archived nor
   the departure voided or reactivated.
6. *No administrator is left.* `update-access-profile-role.ts` counts the
   administrators before it writes; two who demote each other both count two.

## Proofs

Every theorem holds for all values of the constants, under the assumptions its
module names. Hardly any of the properties is inductive; what each invariant adds is
the reason why the property holds. Every safety invariant and action property of a
passing run has a theorem.

`PrivateImages_proofs`, under `OwnerOfAssumption`, `NoneAssumption` and `DayAssumption`
(the constants have the right types, and `None` is none of the values it stands for the
absence of):

| Theorem | Statement |
|---|---|
| `TypeCorrect` | `Spec => []TypeOK` |
| `BoundImagesAvailable` | `Spec => []BoundImageAvailable` |
| `IssuedImagesStored` | `Spec => []IssuedImageStored` |
| `DeletedImagesGone` | `Spec => []DeletedImageGone` |
| `RegisterImplemented` | `Spec => ImplementsRegister` |
| `PrivateImagesReplaceLegacy` | if `Activators = {}`: `Spec => []PrivateReplacesLegacy` |
| `LegacyWritesGuarded` | if `Activators = {}`: `Spec => LegacyWriteGuarded` |

That a bound image has its bytes depends on what every request in progress is about
to do: an upload must have its image to itself until its INSERT (`UploadInv`), a
written but uncommitted binding must keep claims away from its image (`BindInv`), a
claim that looked for a binding must still be right when it marks the row
(`ClaimInv`), a reconciliation must work on a condemned image (`ReconcileInv`), and a
DELETE on its way must be for an image nobody can bind (`LateInv`). `IInv` is their
conjunction with the tables' invariants. Each action has a lemma; actions that change
nothing but their own request share `RequestStep`, those that merely end it
`QuietStep`. The refinement uses the same invariant: `InsertSucceeds` offers the
image, `ClaimMark` condemns it, and no other step moves the register except as the
name says. The last two theorems add (`LInv`) that at most one transaction holds the
record's lock and that an edit past its guard still finds no binding.

`AuthSessions_proofs`, under `NoneAssumption`:

| Theorem | Statement |
|---|---|
| `TypeCorrect` | `Spec => []TypeOK` |
| `TokensHaveOneSuccessor` | `Spec => []SingleSuccessor` |
| `OneLinkIsOpen` | `Spec => []OneOpenLink` |
| `OpenLinksSetPasswords` | `Spec => OpenLinkSetsPassword` |
| `PasswordsAreCurrent` | `Spec => CurrentPasswordLogsIn` |

Its invariant says what the locks protect: the session under rotation is active and
nobody's parent, ids in use by two requests differ, at most one transaction holds the
identity, the links an issuance is about to use up are all the open ones of its
purpose, and the link of a redemption past its check stays open.

`Departures_proofs`, under `ConstantsAssumption` (there are students and departures):

| Theorem | Statement |
|---|---|
| `TypeCorrect` | `Spec => []TypeOK` |
| `DeparturesAreExclusive` | `Spec => []OneOpenDeparture` |
| `DeparturesCloseOnce` | `Spec => []SingleClosure` |
| `ClosedDeparturesStay` | `Spec => HistoryImmutable` |

A row that was not inserted has no closing (`UnbornInv`), a row has one kind of closing
(`ClosureInv`, a set form of `SingleClosure`), an archive in progress has not inserted
its row and any other request works on one that exists (`RequestInv`), and no two
archives have the same id (`PairInv`). The partial unique index is what makes
`OneOpenDeparture` hold, for no request's own check does.

The modules of `Club` and `Services` are proved about as instances: the specification
in a theorem is that of the instance (`Ro!Spec`), the sets it is about are constants of
`Club` or `Services`, and `ClubRuns...` and `ServicesRunTheirModules` say that the
composition implies these specifications. What is proved of them is therefore proved of
`ClubSpec` and `ServicesSpec`, the very behaviours that the runs explore, and of
instances of any size.

| Module | Theorem | Statement |
|---|---|---|
| `Classes_proofs` | `StudentsHaveOneClass` | `Ro!Spec => []EnrolledOnce` |
| | `EnrolmentHistoryGrows` | `Ro!Spec => HistoryKept` |
| | `StudentsHaveOnePrincipal` | `Gu!Spec => []OnePrincipal` |
| | `ClassesHaveOneHeadCoach` | `Co!Spec => []OneHeadCoach` |
| | `HandOversAreWhole` | `Co!Spec => HandOverComplete` |
| | `RecordsWereEnrolled` | `Attend!Spec => []RecordedWereEnrolled` |
| | `RollsAreNoMixture` | `Attend!Spec => []BatchesNeverMix` |
| | `SummariesOnlyGrow` | `Attend!Spec => CompletedStays` |
| | `ClubRunsClasses` | `ClubSpec` implies `Ro!Spec`, `Gu!Spec`, `Co!Spec`, `Attend!Spec` |
| `Competition_proofs` | `EventsHaveOneDiscipline` | `Cp!Spec => []DisciplinesNeverMix` |
| | `ResultsMatchTheirRace` | `Cp!Spec => []RaceLinksHold` |
| | `LocksMakeNoCycle` | `Cp!Spec => []NoLockCycle` |
| | `SeasonsHaveOneActive` | `Se!Spec => []OneActiveSeason` |
| | `ClubRunsCompetition` | `ClubSpec` implies `Cp!Spec`, `Se!Spec` |
| `Staff_proofs` | `TrailTellsTheLink` | `Ac!Spec => []TrailAgrees` |
| | `AnswersStayInScope` | `Rd!Spec => []AnswersWithinScope` |
| | `ClubRunsStaff` | `ClubSpec` implies `Ac!Spec`, `Rd!Spec`, `Spec` of `AuthSessions` |
| `Services_proofs` | `VerifiedUploadsHaveBytes` | `Up!Spec => []VerifiedHasBytes` |
| | `RequestsExecuteOnce` | under `DurationsFit`: `Br!Spec => []ExecutedOnce` |
| | `StaleListsAreExplained` | `Lc!Spec => []StaleIsExplained` |
| | `TimesAreKept` | `Du!Spec => []TimesSurviveEdits` |
| | `LimitsAreKept` | `Rl!Spec => []WindowsHold` |
| | `ServicesRunTheirModules` | `ServicesSpec` implies the specifications of all its modules |
| `Results_proofs` | `RankingsAreStandard` | `Rs!Spec => []RankingIsStandard` |
| | `PagesMakeTheList` | `Rs!Spec => []PagesPartition` |
| | `RoutesTellOneStory` | `Rs!Spec => []RoutesAgree` |

The assumptions are those that the compositions name. In `Club`: ids of events are
ordered, and there is an event and a day (`EventAssumption`, `DayAssumption`); the
tables of students and classes are finite (`TablesAssumption`, for the counts of
`CompletedStays`). In `Services`: pages are asked for of lists that exist, and live for
a second or more (`CacheAssumption`); a text consists of numbers and decimal digits
(`TextAssumption`); the limit and the window of the guard are positive
(`LimitAssumption`); results are in order by their ids, days and times, which are
numbers, a time of a classified result is positive, and so is the size of a page
(`ResultsAssumption`; `normalizePaginationParams` sees to the last, and a time of 0
stands for none).

- `Roster`: rows and plans are about students that exist or existed (`RoBornInv`), so
  that a student who is created has no row yet, and a student has one row in force
  (`OnePrimary`), which the unique index keeps. Rows are added or closed and never
  removed, whatever a plan names (`RoClosed`); that is `HistoryKept`.
- `Guardians`: one row of a student is primary, whatever two forms found before they
  inserted; the partial unique index drops the second.
- `Coaches`: the rows satisfy the indexes, and a request that removes or transfers has
  seen what it takes out (`CoPlanInv`). `HandOverComplete` then follows action by
  action: the transaction finds every row of its plan or rolls back.
- `Attendance`: two batches that write lock different pairs, and a locked pair bears the
  mark of the one that locks it (`AtLocks`); what a batch put aside when it locked a pair
  is what was committed there (`AtCommitted`), which is also what everyone else sees
  (`AtVisible`). No two saved batches are each the last on a pair they share
  (`AtNeverMix`): while one of them holds its first shared pair the other waits there,
  and then writes all of them later. `BatchesNeverMix` alone is not inductive, because
  it says nothing of what a rollback restores. `CompletedStays` adds that a pair that
  holds a mark holds one for ever, so that the sets the summary counts only grow;
  finiteness turns that into counts.
- `Competition`: the events of a request are in the order of their ids (`CpOrder`), among
  them the event it will write (`CpNamed`), what it creates does not exist and nobody
  else creates it (`CpTarget`, `CpPair`), and once it has checked it holds all its locks,
  so that what it found still holds when it writes (`CpChecked`). A cycle of two waiters
  would need two events each below the other.
- `Seasons`: at most one row is active, by the index alone; the checks that requests do
  beforehand are not needed.
- `Accounts`: a teacher without a row has no account and one not yet made no trail
  (`AcRowInv`), and the row lock has one holder and keeps the row (`AcLockInv`), so the
  event fits the trail although it is written after the column.
- `Access`: whoever passed the guards as an administrator has had every student in
  scope since (`RdAdminInv`). What the cache holds may be as old as it likes, for only
  administrators read it; everybody else gets what the query joins with their classes.
- `MediaUploads`: no call starts before the row (`UpBornInv`), whoever deletes has seen
  or made the row rejected (`UpCleanupInv`), and a confirmation of a pending row works on
  the version in the bucket and passes only with the declared image (`UpConfirmInv`); a
  ticket names the version of a verified row (`UpTicketInv`). The conditional UPDATE then
  finds the row pending, hence the object in its place.
- `Broker`: only what was signed is delivered (`BrIssuedInv`), a claim bears the expiry of
  its request (`BrClaimInv`), whoever is about to claim verified in time and has not
  timed out (`BrFreshInv`), a nonce that was used is still claimed or out of everybody's
  reach (`BrSpentInv`), one instance dispatches (`BrSoleInv`). `DurationsFit` says
  `Lag + Timeout <= Margin + Grace`. In the code a claim outlives its request by
  1000 ms and connecting and inserting may take 3000 and 3500 ms, so the theorem asks
  the purge to wait for at least 5.5 s more than the lag of a clock; the proposed
  statement waits for two minutes.
- `ListCache`: `StaleIsExplained` is inductive with the types, once it is shown that a
  write drops every list that shows what it changes, except for the gaps
  (`LcDropsCover`, over all pairs of lists and writes). Until a page is dropped, a
  request has the drop still to do.
- `Durations`: what is stored shows the hundredth that was typed (`DuRoundedInv`), because
  reading back what was shown gives the hundredths times ten. This is arithmetic on
  quotients and remainders (`DuShown` and the lemmas after it), for any number of
  seconds, minutes and hours; TLC tries only the edges of a minute.
- `RateLimit`: the attempts let in during the current window are as many as its counter
  says, those before it are fewer than the limit, since the one that opened their window
  has left, and without a running window there are only these (`RlKeyInv`). The sweep
  removes counters of windows that are over and so none that this speaks of.

- `Results`: the invariant is small (`Rows`: a finite table with one row per id), for the
  three properties are about what is computed from any such table. The rest are
  lemmas about sorting, folding and counting.
  - *Induction.* The library's induction theorems take the formula as an operator, which
    no prover here instantiates. `Least`, `Numbers`, `UpTo` and `Sets` take the set of
    numbers, or of finite sets, that satisfy it; they follow from the
    well-foundedness of strict inclusion among finite sets.
  - *Sorting.* A sort is an enumeration of a finite set in a strict total order
    (`IsOrder`, `Enumerates`). There is one (`EnumerationExists`), and it holds everything
    once (`EnumeratesAll`), so `InOrder` chooses one. The orders of the queries are total
    because each compares the id last.
  - *Folding.* The folds are recursive functions on sets of positions.
    `FoldExists` shows that there is such a function, and a lemma for each fold
    (`FirstOfEachSteps`, `RanksHasSteps`, `SummaryHasSteps`, `EvolutionHasSteps`) gives
    its result after every element, to which an invariant of the loop then applies
    (`Firsts`, `Ranked`, `SumsUpTo`, `LeastSoFar`).
  - *Ranking.* What `FirstOfEach` keeps is a student's best time (`BestIsFastest`), the
    rank is the first position with the same time (`RanksAreFirst`), and as many positions
    come before it as students were faster (`RankingHolds`).
  - *Pages.* Whatever is among the first n of both tables together is among the first n
    of its own (`NoLater`), so the merge of two prefixes begins as the merge of the
    tables does (`SamePrefix`); a page is a stretch of the whole list (`PageIs`), and
    stretches that follow each other join, past the end too (`NextStretch`).
  - *Agreement.* Every computation is compared with the best times of the students
    (`BestTimes`) and none with another one: `RecordIsFirst`, `SummaryIsRight`,
    `EvolutionIsRight`, `ContextsRank`, `FiltersFind`, `DistributionAddsUp`.

Only model-checked: liveness (`RequestsFinish`, `RequestsEnd`, `ClaimsComplete`,
`EventuallyFresh`), which rests on fairness and ENABLED. The violated properties
are, of course, not proved.

## Not modelled

Left out because they keep no state of their own: HTTP parsing and presentation, mail,
environment, the byte checks of the storage adapters and the normalisation of images.
The former Supabase provider is reached by no route. Trainings, assessments
and pools are created, changed and deleted row by row with no invariant across rows but
foreign keys; only their lists are in `ListCache`. Placements, the schedule
of a class, style and distance of a result, the status of an attendance and the categories
a student had are columns no property is about.

What the code leaves open, and no property claims:

- Outside the partial unique index, the rules on seasons and events are checks before
  writes at READ COMMITTED: an edit of a season that overlaps a link can leave a result
  outside its season, two seasons that overlap but are not both active, or an event
  whose date is not that of its results.
- A link that two adults' forms create at once loses its row silently (`skipDuplicates`),
  and a promotion planned on a head coach who left changes no row.
- A stale transfer may enrol a student whom an update has just unenrolled.
- The role of a profile is read before it is linked to a teacher and may have changed.
- A batch of attendance checks the teacher's scope in the guard and not when it writes.
- The attendance rate of a period divides records by current enrolments and can exceed
  100 %.
- With `CACHE_TTL_SECONDS = 0` a page never expires. `ListCache` assumes at least 1.
- A signed PUT that arrives after a cleanup leaves bytes that no row names, as does a
  crash between the PUT and the INSERT of a private image.
- A student deleted while a private image is bound leaves the binding behind.
- A login whose password was checked before a reset creates its session after it.
- A time below 10 ms is shown as zero and cannot be sent back, and of two results shown
  with equal times an edit of one may change which is ranked first.
