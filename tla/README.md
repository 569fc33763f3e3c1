# Verification of Fountaini Server

Fountaini Server is the back end of a school portal: an Express application in TypeScript over
PostgreSQL (Prisma).  One Node process serves many requests at once; each handler is a sequence of
SQL statements, some grouped in transactions, at PostgreSQL's default READ COMMITTED.  Nearly
everything that can go wrong is therefore a race between handlers, a crash between two statements,
or a rule checked on data that has changed when the write comes.  The models here take one SQL
statement as one step and let TLC interleave them.

Paths below are relative to `src/src/modules/` unless they start with another directory.

## Inventory

| component | state | operations that change it | what is hard | what makes it right |
|---|---|---|---|---|
| Scores (`scores`) | Score, SubjectResult | bulk edit, submit | edits race submissions; batches deadlock | submitted marks are frozen; acknowledged edits are there; results agree with the sheet |
| Results (`results`) | Result, ResultOverride, SessionResult | compute, finalize, rank, override, release, comments, session rollup | stale reads before transactions; advisory lock; crash before ranking | final marks change by override only; a complete class is ranked; snapshots are taken once |
| Fees (`fees`) | Payment, Receipt, status of an obligation | record, confirm, reject, edit | write skew between decisions | decisions are final; one receipt per confirmation; status follows payments |
| Attendance (`attendance`) | AttendanceSession, AttendanceRecord, StudentQrCode | open, scan, close, correct, rotate | scan races close; double rotation | everyone has one record when it closes; a closed session takes no scan; one active code |
| Auth (`auth`) | RefreshToken, PasswordResetToken, passwords | login, refresh, logout, change, request and use a reset | replayed tokens; revocation racing rotation | one successor per token; nothing outlives a revocation; a reset works once |
| Users, staff, credentials (`users`, `staff`, `students`) | User, Staff, first logins, enrolments | create, deactivate, re-issue, change email, enrol, transfer, status in bulk | a lost claim leaves an orphan user; a password nobody gets | the login is the number; passwords reach someone; the old address is told of a change |
| Identifiers (`identifiers`) | IdentifierCounter | next number, manual override | numbers typed by hand and not counted | generated numbers never collide |
| Admissions, parents | Enquiry, ParentStudent | convert, link, unlink | double conversion; primary contact | one student per enquiry; one primary contact |
| Academic structure (`academic-structure`), timetable, school | AcademicSession, Term, assignments, form teachers, timetable entries, School | set current, delete assignment, book a slot | three switches at once; dependents appear while an assignment is deleted | one current session and term, never none again; deletion is whole |
| Grading (`grading`) | GradingScale, GradeBand, AssessmentComponent | create, edit, delete | overlap checked on a stale read | bands do not overlap; gaps are found |
| Ratings, comments, report cards (`ratings`, `results`) | Trait, Rating, comments, SessionResult | bulk upsert, comment, rollup | no Result row to lock; three withholding queries | a published card is changed by recorded overrides only; the routes agree on what is withheld |
| Billing (`fees`, `reports`) | FeeStructure, FeeObligation | create, re-scope, generate; summary, defaulters, statement | unique index with NULL; four queries for one number | one bill per child and structure; reports agree |
| Notifications (`notifications`) | NotificationEvent, NotificationDelivery | create, dispatch, read, reminders | a crash between create and send; a call or a statement that fails | each delivery reaches a final state, whatever becomes of the other channels |
| Madrassah (`madrassah`) | progress rows | insert after two existence checks | - | - |
| Setup status (`admin`) | - | `getSetupStatus` | separate reads | a school reported ready can grade |
| Authorization (`src/src/authorization`, `http/middleware`, `app.ts`) | relationships kept by the others | role gates, scope resolvers, mounting order | resolvers read rows that change; blanket guards of earlier routers | the authorization matrix holds in every state; guards agree with each other |
| Server lifecycle (`src/src/server.ts`, `gracefulShutdown.ts`, `lib/fireAndForget.ts`) | in-flight work | shutdown | background writes cut | what was accepted is drained or abandoned at the deadline |
| Reports, audit, OpenAPI, seeding | - | reads, append-only rows, scripts | - | - |

Components interact through the database.  A submission (Scores) writes the SubjectResult rows
from which Results computes averages; closing an attendance session changes the count which
`finalizeResult` snapshots; enrolment (Students) moves the roster under Scores, Results, Attendance
and Fees; Fees decides whether Results withholds a report card; Users and Students revoke the
tokens of Auth; the setup report reads the calendar and the grading configuration together; the
scope resolvers read links, enrolments, assignments and the current session; many handlers notify
through `fireAndForget`.

## How the code is modelled

* **A request** is a process: `pc[r]` says what its handler does next, and its local variables die
  with it.  It starts whenever a client calls, so starting is never fair.
* **A step** is one SQL statement on a snapshot of the committed rows, or a run of reads
  nothing else can distinguish.  What a transaction wrote is in `buf[r]` until it commits, and a
  cell in `buf[r]` is locked.
* **A write** waits while another transaction holds the row or its unique key, then re-evaluates
  its WHERE on the newest version.  A multi-row statement takes its rows one at a time.
* **Deadlock** among waiting transactions aborts one of them (`DeadlockVictim`).  A connection loss, a
  crash of the process or a transaction timeout is `Abort`: the uncommitted rows and the locks go, the statements
  already committed stay.  In `Notices` a single statement fails (`DeliveryFails`, `RequestFails`) while the process
  runs on.  A statement that fails has written nothing: that a commit succeeds and only its acknowledgement is lost
  is not modelled.
* **Smaller handlers** are kept shorter: in the modules of `Portal` a request is one record (`desk`, `chair`,
  `editor`, `billing`, `pen`, `task`) with the step it takes next and what it remembers, and a transaction whose
  statements others can only wait for or see as a whole is one action.  It is split wherever a remembered read or
  a lock outlives a statement.  A refusal that writes nothing takes no step.
* **Data** is reduced to what the properties tell apart: a mark is a small number, a student's
  average a member of `Avg`, an amount one or two kobo, a bank reference a model value.

What a module leaves out is said at its head or below.  Cancellation of a request by its client does
not exist in this server: a handler runs on whether or not anybody waits for its answer.

## Modules

| module | models | correspondence |
|---|---|---|
| `Scores` | `scores.service.ts`: `bulkUpsertScores`, `submitScores` | `Bulk*` and `Submit*` are the handlers' statements in order.  The environment enrols, withdraws and adds or deletes components (`Enroll`, `Leave`, `AddComponent`, `RemoveComponent`). |
| `Results` | `results.service.ts`: compute, finalize, rank, override, release | `Compute*`, `Finalize*`, `Override*`, `Release*`; `TakePositionLock` .. `RankCommit` are `withPositionFillLock` with the check and the ranking inside it.  Submissions, attendance closes and the roster are the environment. |
| `Fees` | `fees.service.ts`: record, confirm, reject, edit | `ConfirmClaim`, `IssueReceipt`, `ReadObligation`, `SumPayments`, `CommitDecision` are one transaction. |
| `PaymentLedger` | what `Fees` promises | a claim is logged, then confirmed with a receipt or rejected, once |
| `Attendance` | `attendance.service.ts`: open, scan, close, correct, rotate | `Scan*`, `Close*`, `Rotate*`; the `FOR UPDATE` on the session is `sessionLock`. |
| `Register` | what `Attendance` promises | a paper register: marked while open, filled in and shut in one step |
| `Auth` | `auth.service.ts`; `setUserActive`, `reissueCredentialsForUser` of `users.service.ts` | one account, its refresh and reset tokens; `RefreshRead`, `Claim`, `Issue`, `Link` are `refresh`. |
| `Onboarding` | `identifiers`, `admissions`, `students`, `parents`, `staff`, re-issuing in `users` | `TakeNumber`, `InsertPerson` are a creation with its counter; `ReadEnquiry`, `ConvertEnquiry` a conversion; `LinkChild`, `LookUpStudent`, `IssueLogin`, `SendFirstLogin` a link and its background job; `Reissue`, `Deliver` a new password; `ReadTransfer`, `Transfer`, `BeginBulk`, `BulkOne` the enrolment handlers |
| `Calendar` | `academic-structure.service.ts`, `timetable`, `school` | `TakeSwitchLock`, `FindCurrent`, `ClearOthers`, `SetCurrent` are the statements of a switch; `CountDependents`, `CleanTimetable`, `RemoveAssignment` those of a deletion |
| `Grading` | `grading.service.ts` | `BandsOverlap`, `FindCoverageGaps` as operators; a band edit is `CheckNewBand` or `CheckBand`, then `WriteBand` |
| `Setup` | `admin.service.ts`: `getSetupStatus` | `SetupReady` is its checks over `Calendar` and `Grading` |
| `Billing` | `fees.service.ts`: structures, `generateObligations`, summary, statement, payment detail; two of `reports.service.ts` | `ReadStructure`, `FindEnrolled`, `FindExisting`, `CreateMany`; the reports are operators |
| `ReportCard` | `ratings.service.ts`; comments and their overrides, rollup and withholding of `results.service.ts` | `CheckTrait`, `LockResultsForUpdate`, `WriteRating`; `WriteDraftResultField` and `OverrideComment`, the two writers of a comment; `BuildWithholdingMap`, `WithholdingForSession` |
| `Notices` | `notifications.service.ts`, its provider, `updateUserEmail`, `server.ts`, `gracefulShutdown.ts` | `Post`, `Dispatch`, `ProviderAnswers`, `Continue` are `createNotification`; `DeliveryFails`, `RequestFails` a rejected await in it; `Shutdown`, `Exit` the process |
| `Access` | `app.ts`, the routers, `requireRole`, `scopeResolvers.ts` | each resolver is an operator of its name; `Mounts` lists the routers in order with their guards |
| `AuthMatrix` | `authMatrix.data.ts`, `publicRoutes.ts`, `sensitiveRoutes.snapshot.ts` | the repository's own tables, to check `Access` against |
| `Portal` | the offices above side by side | a behaviour is one `scene` |
| `Sentinel` | - | `Null` for the modules of `Portal` |
| `Scores_proofs`, `Results_proofs`, `Fees_proofs`, `Attendance_proofs`, `Auth_proofs` | theorems about the module of the name | one lemma per action, or per kind of step |
| `Records_proofs` | theorems about `Onboarding`, `Calendar`, `Grading` | the offices that keep the school's records, each by itself |
| `Portal_proofs` | theorems about `Billing`, `ReportCard`, `Notices`, `Access` and their composition | the invariant of each office, then of `PortalSpec` |
| `SumTheorems` | lemmas about `SumFunctionOnSet` | what the theorems about money and marks need of a sum over a finite set |
| `MC*` | instances for TLC | |

`Portal` composes the modules from `Onboarding` to `AuthMatrix`.  They share a process and a database, but apart from the setup report none reads
another's rows while it writes, so interleaving two of them would multiply states and show nothing.  A behaviour
follows one office, in one of fourteen scenes, and where an office needs rows of an earlier one the scene starts
with them.  Where offices do meet, the meeting is inside one module: bills and enrolments in `Billing`, ratings
and finalization in `ReportCard`, first logins and contacts in `Onboarding`, calendar and grading in `Setup`.

Abstractions a reader should know:

* `Scores`: `MaxScore` is a constant, since `updateAssessmentComponent` is not modelled; a batch is
  a function from cells to marks, so a cell given twice in one batch is not represented.  The three
  reads of a submission are one step, because what they read is changed by nothing another request
  of the model reads in between.
* `Results`: `overrideResult` writes the average or the position, which its properties look at; the total and the class size
  are left out, and the overrides of a comment are `OverrideComment` of `ReportCard`; `Submit` and
  `CloseSession` are the effects of Scores and Attendance, each in one step.
* `Fees`: the near-duplicate warning of `recordPayment` only refuses and is left out.  `Edit` is
  `updateObligation` with any status and amount.
* `Attendance`: a rotation's two writes become visible with its insert, since nothing but another
  rotation's update or insert can meet them before; those two wait (`RotateRevoke`) or fail
  (`Insertable`).
* `Auth`: the array transactions write the user, then revoke what is live; a login or refresh which
  overlaps one is ordered before or after it, with the same outcome, so they are one step.  The
  access token (a JWT, checked without the database) and the `mustChangePassword` gate are not
  modelled.  `overlap` remembers that a session was being issued at a revocation, or that a
  revocation was cut.

* `Onboarding`: a number is a prefix (kind and year) and a sequence; names, dates and addresses are data.  A student
  has one enrolment.  The rows a creation locks are the counter of its prefix and the unique keys it checks at its
  insert.  `issued`, `lost` and `raced` are history variables.
* `Calendar`: an UPDATE has a first look (`FindCurrent`), which fixes its candidates, and a second at each row
  once it is locked (`ClearOthers`); the partial unique index is `refused`.  Classes and subjects are fixed.
* `Grading`: marks are counted in the finest step the columns hold, and 100 is `Top`.
* `Billing`: a payment's decision is one step, since `Fees` has its statements.
* `ReportCard`: one student, one session, one trait.  A status and a balance are independent numbers, so every
  combination the fees handlers could leave is covered.  The class teacher's comment and the principal's have the same
  two writers, so one stands for both; `overrides` counts the `ResultOverride` rows of it.
* `Notices`: the categories of provider errors are one verdict, FAILED.  The answer and the update
  that records it are one step, because in between only the task knows the answer; `DeliveryFails` covers that the
  lookup, the call or the update is rejected.  Then `Promise.all` rejects, the caller goes no further, and the task
  is left with the other channels (`rest`).  `cut` remembers what an exit cut off, `failed` the deliveries of which
  a statement failed, `mixed` whose e-mail was being changed twice.
* `Access`: ids of a request lead to the rows named in a record; an account keeps its claims, which is what a token
  does for fifteen minutes.  The claims are those a token can be issued with (`Issuable`: `buildAccessTokenPayload`
  refuses a role without its profile, and creation writes both), and who is given a class or a form may teach
  (`MayTeach`).  That the public list, the role rows and the snapshot of sensitive routes agree with
  the routers as mounted is an `ASSUME` (`RolesAreTheDocumentedOnes`), which TLC evaluates in `portal`.

## Runs

| run | instance | checks | shows |
|---|---|---|---|
| `scores` | 2 students (one moves), 1 component, marks up to one above the maximum, 2 requests | `TypeOK`, `SubmittedHasResult`, `SubmittedIsFrozen`, `AcknowledgedBatchApplied`, `SubmitMarksAllItCounted`, `EveryRequestAnswered` | edits and submissions in any mix |
| `results` | 2 students, 2 averages, 2 requests that compute, finalize or rank | `FullClassIsRanked` | no lost ranking when the last two results are finalized at once |
| `result_requests` | 1 student who moves, all handlers, 2 requests | `FinalMarksChangeByOverride`, `ReleaseRecordedOnce`, `EveryRequestAnswered` | final marks, releases, and locks that are given back |
| `fees` | 3 payments of 1 or 2, one reference, 2 requests | `TypeOK`, `StatusNotOverstated`, `ImplementsLedger` | decisions implement the ledger |
| `attendance` | 2 students, 3 codes, 3 requests | `TypeOK`, `ActiveCodeIsNewest`, `RegisterComplete`, `ImplementsRegister` | the handlers implement the register |
| `auth` | 3 tokens, 1 reset, 2 passwords, 2 requests | `TypeOK`, `OneSuccessor`, `ResetUsedOnce`, `SessionsFollowPassword`, `InactiveHasNoSession` | rotation and revocation |
| `portal` | every scene, 2 requests per office | `PortalTypeOK` and the seventeen properties below | the offices, with crashes |
| `scores_stale`, `results_snapshot`, `fees_skew`, `auth_deactivated`, `registry_reissue` | as the runs above; the last one `Onboarding` alone | one statement of the repository each | a violation, see Findings |

The properties of `portal`, by the scenes in which they can fail:

| scene | properties |
|---|---|
| registry | `NeverReissued`, `OneStudentPerEnquiry` |
| logins | `CredentialsOpenTheAccount`, `PasswordReachesSomeone`, `LoginIsNumber` |
| enrolment | `LoginIsNumber`, and the type invariant: a status change closes the enrolment |
| calendar | `CurrentIsKept`, `ReadyMeansGraded` |
| assignments | `DeletedWhole` |
| bands, components | `OverlapNeedsARace`, `ReadyMeansGraded` |
| bills | `BilledOnce` |
| payments | `SummaryMatchesDefaulters` |
| access | `MatrixHolds`, `AccessAgrees` |
| publishing | `WithheldConsistently` |
| rating | `RatingsFrozen` |
| mail | `ChangeIsAnnounced`, `EveryDeliverySettles` |
| inbox | `EveryDeliverySettles` |

**Bounds.**  Two requests are enough for every race named under the hazards, because each is about
a handler that overlaps one other; `attendance` has a third, so that a scan, a close and a rotation meet.
Two students tell a batch or a class from its members; in `result_requests` one is enough, as its properties
speak of one row.  Three payments let two be decided at once beside one that was already
counted.  Three refresh tokens are the least with which a token could have two successors.
`MaxDays`, `MaxOverrides` and `MaxGen` cap counters which only grow, and appear in guards marked
`bound`.  Students, tokens, codes, payments and requests are interchangeable, and the
runs without liveness use that symmetry.

`portal` has two requests per office, for the same reason.  Registry and logins: two students, one member of staff,
two parents, an enquiry, sequences of two numbers (so that they run out and meet numbers typed by hand) and two
passwords per account (the first and one re-issued).  Enrolment: three classes of two grades, so that a transfer
inside a grade and one across exist.  Calendar: three sessions, which is what a lost switch
needs, and one term; two School rows; two assignments with one slot.  Grading: two bands over the marks 0 to 4 and
the edits of `Patch` (either bound alone, or both), two components of weight 1 or 2; `MaxRaces` lets one edit
overlap another.  Billing: two children in two grades, one structure per-term or session-wide, two amounts, two
payments in all (the least with which a join doubles a bill).  Access: one account per role, one of two roles,
one stranger; two rooms, sessions and guardians; two teachers and the bursar's own staff row, which may be given no
class; two pupils who may share a room, so that a classmate's parent is told from a stranger.  Report cards: two terms, a debt of each and one of the
session, balances -1, 0 and 1.  `MaxOverrides` lets a comment be overridden once, which is enough
to change it after the finalization.  Notices: two accounts, two addresses, two notifications (no task starts when none
is left), one exit and one delivery that fails (`MaxFailures`), so that the other channels are seen to go on; SMS always
fails, since no handler writes a phone number.

**Fairness** is assumed in `scores` and `result_requests` only, for `EveryRequestAnswered`.  Each
request's `Step` is strongly fair: Node's event loop and PostgreSQL go on with every handler, and
PostgreSQL grants a lock in the order it was asked for, so a request that is enabled again and again
between other holders of its lock gets its turn.  `DeadlockVictim` is weakly fair: the
detector runs after `deadlock_timeout`.  `portal` assumes for `EveryDeliverySettles` that each `TaskStep` of
`Notices` is weakly fair: the event loop resumes a task whose await has settled, and the provider's client
settles every call, with an answer or an error.  A client never has to call, and a crash or a failing
statement never has to happen.

**Deadlock** is checked in every run but `portal` and `registry_reissue`: there numbers, notices, payments and
passwords are bounded, and an office whose bounds are used up has nothing left to do.  In the others no state stops.

## Findings

* `scores_stale`: an edit that commits between a submission's reads and its transaction is accepted
  and marked SUBMITTED, but the SubjectResult keeps the total without it, which `scores.test.ts:248-250`
  says cannot be.
* `results_snapshot`: two concurrent finalizations both write, and the second overwrites the attendance
  snapshot of a FINALIZED result, which `schema.prisma:726-729` excludes.
* `fees_skew`: two concurrent confirmations each miss the other's payment, and a covered obligation
  stays PARTIALLY_PAID (`fees.test.ts:201` says PAID).
* `auth_deactivated`: a session being issued while its account is deactivated survives, and so does every
  session when the handler is cut between its two statements (`users.service.ts:123` says live
  sessions are killed immediately).  It is usable again after a reactivation.
* `registry_reissue`: a number typed in when an enquiry is converted never reaches the counter, so the generator
  produces it again for the next student, whose creation fails and rolls the counter back, every time
  (`identifiers.service.ts:97-99` says a generated number can never collide with one an administrator supplies).

Observed on the way, without a run of their own; the models show most of them by what a property has to exempt:

* `issueFirstLoginForStudent` returns false from its transaction when it loses the claim (`students.service.ts:77-80`).
  The comment at 56-60 says the transaction then rolls the account back, but a callback that returns commits it.  It
  takes a renumbering between two issues (the same login would fail the unique index first) and leaves an orphan
  which keeps its login taken.  No credentials are sent for it (`CredentialsOpenTheAccount`).
* `findCoverageGaps` reports a gap at the top only if the bands end more than one step below it
  (`grading.service.ts:224`): full marks may be left without a grade, the exception in `ReadyMeansGraded`.
* Overlapping band edits may leave bands that overlap or are inverted; the code accepts the first
  (`grading.service.ts:147-152`).
* A rating for a term without a Result row locks nothing, and may be written after the finalization
  (the exception in `RatingsFrozen`).
* `scores.service.ts:302-304` says a sheet is never a mix of DRAFT and SUBMITTED; a student enrolled after the
  submission gets DRAFT rows on it.
* Enrolling a student again in a session they withdrew from is refused by the unique index.
* `updateEnquiry` can move a CONVERTED enquiry back, after which it can be converted again (the exception in
  `OneStudentPerEnquiry`); a transfer writes by id after the enrolment may have been closed.
* A session-wide structure has a NULL term in its unique index, so two generations that overlap bill twice
  (`BilledOnce` confines it to these).
* A form teacher without an assignment in the class may comment on a student but not read the student.
* The fees summary counts confirmed payments of WAIVED obligations as collected; an overpaid obligation that is still open
  offsets another in the withholding of a session rollup.  Both are named in `SummaryMatchesDefaulters` and
  `WithheldConsistently`.
* Deliveries cut off by a crash stay PENDING: nothing resumes them (`EveryDeliverySettles` exempts `cut`).  So does
  the delivery of which a statement is rejected (`failed`), in a process that keeps running: a background caller only logs
  the error, and a round of fee reminders ends there, the remaining families untold.
* A FAILED verdict for the notice of a changed e-mail is not looked at: the address is replaced all the same.
  A crash between the update of an e-mail and the re-issue leaves the new address without credentials.
* An older session rollup may overwrite a newer one.

## Theorems

The theorems hold for any number of students, classes, components, bands, codes, tokens, periods, numbers, bills, accounts,
notices and concurrent requests.  They rest on the `ASSUME` of their module and of those it extends, which TLC
evaluates in its runs: constants are numbers where they are counted, sets are finite where they are summed over or
counted, `Null` is not a value of anything else, and the rows the portal opens with are rows its handlers could have
written (`PortalAssumption`).  `AccessAssumption` adds that every account's claims are `Issuable`.

| module | theorem | states |
|---|---|---|
| `Scores_proofs` | `TypeCorrect`, `SubmittedScoresHaveResults`, `SubmittedScoresFrozen`, `AcknowledgedBatches`, `SubmissionMarksAll` | the five safety properties of `scores` |
| `Results_proofs` | `FinalMarksAreKept`, `ReleasesRecordedOnce`, `CompleteClassIsRanked` | the safety properties of `result_requests` and of `results` |
| `Fees_proofs` | `TypeCorrect`, `ConfirmedHaveOneReceipt`, `ReferencesFundOneClaim`, `DecisionsAreFinal`, `FeesIsALedger`, `StatusIsBacked` | types; one receipt per confirmation, one claim per reference and final decisions, which TLC checks through the ledger they imply; the refinement of `PaymentLedger`; `StatusNotOverstated` |
| `Attendance_proofs` | `TypeCorrect`, `NewestCodeIsActive`, `ClosedRegisterComplete`, `AttendanceIsARegister` | the properties of `attendance`, the refinement of `Register` included |
| `Records_proofs` | `OnboardingTypeCorrect`, `NumbersAreSpent`, `ConvertedOnce`, `MailOpensTheAccount`, `PasswordsAreDelivered`, `LoginsAreNumbers` | types and the five properties of the scenes registry and logins |
| `Records_proofs` | `CalendarTypeCorrect`, `SwitchesSerialize`, `DeletionIsWhole` | types, `CurrentIsKept`, `DeletedWhole` |
| `Records_proofs` | `BandsStayDisjoint` | `OverlapNeedsARace`, for any scale and any number of editors |
| `Portal_proofs` | `PortalTypeCorrect` | types of every office in every scene |
| `Portal_proofs` | `OfficesKeepTheirPromises`, `OfficesStepTogether` | what was proved of `Onboarding`, `Calendar`, `Grading` and `ReportCard` alone, of `PortalSpec` |
| `Portal_proofs` | `ReadySchoolsGrade` | `ReadyMeansGraded` |
| `Portal_proofs` | `ChildrenAreBilledOnce`, `ReportsAgree` | `BilledOnce`, `SummaryMatchesDefaulters` |
| `Portal_proofs` | `WithholdingAgrees`, `PublishedCardsAreFinal` | `WithheldConsistently`, `RatingsFrozen` |
| `Portal_proofs` | `MatrixIsKept`, `AccessIsCoherent` | `MatrixHolds`, `AccessAgrees`: the whole matrix, for any accounts and relationships |
| `Portal_proofs` | `ReplacedAddressIsTold` | `ChangeIsAnnounced` |
| `Auth_proofs` | `TypeCorrect`, `TokensExchangedOnce`, `ResetsUsedOnce`, `OldSessionsEnd`, `DeactivationEndsSessions` | the properties of `auth` |

None of these properties is inductive.  Each component strengthens its own to an invariant, which TLC found to
hold before it was proved:

* **Scores.**  That a submitted row is never overwritten depends on what an open transaction holds in
  `buf` when it commits.  `LockExclusive`: a cell is buffered by one request at most (what row locks buy).
  `BufferedOnlyWhileWriting`: a request outside its transaction buffers nothing.  `BulkProgress`: an edit
  overwrites no submitted row, and each of its entries is to be written, written or was lost to another
  creation.  `SubmitProgress`: a submission buffers the committed rows of its roster, marked, and each
  score it counted is marked or still to be marked.
* **Fees.**  `DecisionsHold`: the payment an open decision claimed is still undecided, nobody else is deciding
  it, and its receipt is written exactly if it is being confirmed.  Hence a commit is one step of the ledger.  For the status,
  `VerdictsHold` adds that not only the status but the verdict of every recompute still on its way is backed by
  payments which stay confirmed: a late write can understate, as `fees_skew` shows, but never overstate.
* **Attendance.**  `LockProtects`: who scans or closes holds the lock of an open session.  `Pending`: what
  an open transaction wrote is for students with no committed line.  `ClosingComplete`: what a close has
  seen is still there, and its roster is filled in before it commits.  `Replacing`: the code a rotation read
  belongs to its student.  `VersionsCounted`: no version is above the number of codes in use, which types
  the next version.  The refinement follows from `Pending` and `LockProtects`: a commit is one step of the
  register.
* **Auth.**  `ClaimHeld`: a token with a successor, issued or on its way, is revoked, and only one request is
  issuing it.  `ResetHeld`: only the request that marked a reset token used may write with it, and has not
  yet.  `SessionsCurrent` and `InactiveQuiet` extend their properties to the sessions being issued.

* **Results.**  `Buffers`: a row in `buf` is buffered by one request, and agrees with the committed one in whatever
  is final or released, for as long as it is held.  `Recalls`: what a request remembers belongs to the statement it
  comes to.  `Records`: one request at most is about to record the release of a result, and it claimed it.
  The ranking counts a class twice, at two times.  `RankedOrSoon`: a complete class is ranked, or somebody is on the
  way to rank it.  `Ready`: who counted before the last finalization and would give up has another behind it at the
  advisory lock, and so has a ranking pass unless the places it is writing are those of the class as it is now
  (`Fresh`).  `Steady` names the steps that move no place.
* **Calendar.**  `Holding`: who is inside a switch or a foundation holds the advisory lock of its scope.  `SeenAll`: what a
  switch saw, and then cleared, is all that was current in its scope.  `Rooted`: recorded work has its assignment.
* **Onboarding.**  `Accounts`: an account belongs to one registered person.  `Sources`: an enquiry that became a
  student is marked, unless edited since.  `Mail`: what was sent is for the account linked.  `Remembers`: who is
  about to send has an account to send, who is about to issue remembers the number or is in `raced`.  `Alone`:
  one request registers a person.
* **Onboarding's tables** (`OfficeIInv`).  `Refers`: a clerk's remembered row is of the kind its next statement needs;
  contacts have no parent twice and a primary among them.
* **Grading.**  `Checked`: until two edits race, the band an editor is about to write, with the bound it leaves out as
  the row has it now, is clear of every sibling.  The setup report accepts a scale only if sweeping its bands upwards
  meets no gap; that then every mark has a band is an argument about the least mark without one.
* **Billing.**  `BillKept`: the bills of a child for a structure, and the generations about to add one, are together
  no more than the bursars, and a second bill needs a structure on record in `doubled`.  `RunKept`: a generation
  that will bill someone who was billed meanwhile is on that record.  The reports agree because the summary
  sums what the list sums child by child, split into who is late and who is not: `SumGroup` and `SumSplit`.
* **ReportCard.**  `HoldsDraft`: while a rating holds the row of a Result, it stays a draft.
* **Notices.**  `Kept`: a change of e-mail that has sent its notice has sent it to the address it is about to replace,
  unless `mixed` says that two changes met; a task with a failed delivery has no address to replace and nobody left to
  tell.
* **Access.**  The routers are constant tables, read once, router by router (`MountsAre`, `ScopedRouted`): a scoped
  operation is routed, and the blanket guards in front of it let every role pass, so that its own gate decides
  (`GateIsRoles`).  `CallsAre` then says of each operation who may call it, as a formula about links, seats
  and assignments, and `MatrixFollows` takes the matrix actor by actor.  The one invariant is `TeachersMayTeach`.
* **Portal.**  `PortalIInv` is all of these at once.  A scene's step is a step of one office and leaves the rows of
  the others, so that the office's own lemma applies; `FirstRecords` and its siblings show that the opening rows
  satisfy each.  A property that reads two offices, `ReadyMeansGraded`, follows from the conjunction.

For each component one lemma per action (`...IInv`) shows that it keeps the invariant, one (`...NextIInv`) collects
them, and `Invariance` is the temporal step.  Action properties follow from the invariant and the action's
definition (`FrozenStep`, `AcknowledgedStep`, `SubmitCommitMarks`, `FinalStep`, `CloseStep`, `KeptStep`, `WholeStep`,
`AnnouncedStep`), refinements likewise (`LedgerStep`, `RegisterStep`).

The theorems of `Records_proofs` are about each module's own specification, in which all its actions are enabled
together; those of `Portal_proofs`, but for `PublishedCardsAreFinal`, about `PortalSpec`.

`SumTheorems` proves by a least counterexample what an induction over finite sets would give: the library's induction
theorems take an operator as a parameter, which the provers at hand cannot instantiate.  From the recursion
of `SumFunctionOnSet` (`SumRecursion`) it derives that a sum is a number, grows with its set, splits and groups.

Every safety property of a passing run is a theorem.  Only model-checked: `EveryRequestAnswered` and
`EveryDeliverySettles`, which need fairness and ENABLED, and the `ASSUME RolesAreTheDocumentedOnes`, which compares
constant tables and is evaluated by TLC.  The five violations are TLC's counterexamples.

## Not modelled

* Reads that only list rows: score sheets and transcripts, searches, payment lists, collections, the audit log,
  accounts pending activation, the delivery list.
* The HTTP layer: validation schemas, OpenAPI, rate limits, error bodies, and the audit middleware, whose rows are
  only ever appended.  The `mustChangePassword` gate of `requireAuth` is left out of `Access` and `Auth`.
* `madrassah`: one insert after two existence checks.
* Seeding and wiping, which are operator scripts run on a quiet system.
* E-mail and SMS providers (external: they answer or fail), and cryptography, a perfect black box: a token is a
  model value.  PostgreSQL is taken at its documented behaviour at READ COMMITTED, never as serializable.

## Plan

The most important behaviour came first: marks, results, money, attendance, sessions; then admission, logins, the
calendar, grading, billing, report cards, notifications and access, composed in `Portal`.  What is left:

1. A larger instance of `results`, with three students and one who moves during the ranking: `CompleteClassIsRanked`
   covers it, but a reader may want to see the trace.
2. Abstract specifications for more components, as `PaymentLedger` and `Register` are for theirs: a report card that
   is drafted, published and frozen, a counter of numbers.
3. Properties for the hazards without one: waivers that overlap a recompute, a password change over another, what an
   override records as the old value.
