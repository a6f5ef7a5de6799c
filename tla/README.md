# PRISM Campus: models and proofs of the server's core

This directory holds TLA+ models of the stateful core of the PRISM server
(`server/`) and of the candidate's player, the TLC configurations that check them on
small instances, and proofs, checked by TLAPS, of the properties that matter most for
every instance.

PRISM runs AI-moderated assessments. In its Campus product an institution buys a
contract; the contract mints a sponsorship pool of seats; staff launch an
assignment to a cohort; a student acknowledges the disclosure, starts, talks to
simulated characters, edits work artifacts, finishes, and the seat is billed. The
models follow that chain (contract → pool → seat → session → conversation and work →
report), the one that leads to it (invitation, import, link → membership → cohort →
roster), what follows a report (ratings, credentials, review, correction, growth,
erasure), and practice missions beside it.

Contents: [1. The system](#1-the-system) · [2. Modules and code](#2-modules-and-the-code-they-model) ·
[3. Runs](#3-runs-and-what-they-show) · [4. Fairness](#4-fairness) · [5. Proofs](#5-what-is-proved) ·
[6. Observations](#6-observations-about-the-code) · [7. Not modelled](#7-what-is-not-modelled-and-why) · [8. Plan](#8-plan)

## 1. The system

One Node process runs the Express server. Everything between two `await`s is atomic;
requests interleave at every `await`. State lives in Postgres (the `*.pg.js`
repositories, with in-memory twins for tests and a JSON-file fallback for the older
store) and in process memory (session cache, per-session locks, job registry), which
a restart loses. The browser adds its own copies of what the server has.
`PROJECT.json` lists all components; those that keep state are:

| component | state it keeps | operations | hard behaviour | what makes it correct |
|---|---|---|---|---|
| Entitlement ledger (`domain/entitlements`) | pool rows with a held-seat counter and a status; append-only RESERVED / CONSUMED / RELEASED rows, unique by key | resolve, reserve, consume, release | concurrent starts with one key, consume racing release, a pool that stops or lapses under a reserve | the counter equals the seats held and never exceeds the quantity; a seat has one outcome; one user and item share one seat |
| Contracts (`domain/billing`) | contract row; the pool row under the same id | create, activate, livePool, close | two tables, separate compare-and-sets; activation racing a close; a request dying in between | no seat before an activation; a closed contract has no live pool; a stopped pool stays stopped |
| Sponsored start, settle and close (`domain/assessments`, `campusAdmin` closeAssignment) | assignment and roster rows, client event START, per-session lock | acknowledge, start, get/finish → settle, closeAssignment | five stores written one after the other, retries, restarts, an engine call cut off by a timer | one session per student; roster, start event, engine and seat agree; progress is never wiped |
| Session work (`sessionService` and engine routes) | cache entry, session row, report, client events, artifact versions, lock, job registry | sendMessage, saveArtifact, finish / evaluate | duplicates, read-modify-write of whole rows, cache and row written separately, background scoring | one turn per client event; answered turns and edits are kept; scoring sees what was answered |
| Conversation (`routes/assessment.js`, `engine/`) | turns, evidence ledger, anchor, challenger and pressure records, in cache and row | message, evaluate | two copies of each exchange, failed replies and row writes, restarts, scoring half way | the report names the probes that were asked; challengers and pressure stay within their limits |
| Player (`src/features/assessments`) | artifact store, query cache, pending saves | edit, autosave, retry, resolve a conflict, reload | lost requests and answers, late deliveries, another tab, a save that breaks off between its writes | nothing typed is silently dropped; what was shown as saved is in a version the server keeps, and in the row unless a message came after it; a retry is recognised |
| Invitations, cohorts and rosters (`memberships`, `campusAdmin`) | invitations, consents, memberships, cohort rows, assignments with their targets, roster rows | invite, accept, decline, resend, move, remove, launch, close | one query per write and no transaction over them: acceptances cut short and retried, joins racing launches | disclosure before membership; accepted means everything is there; members of a targeted cohort are on its rosters, and nobody else |
| Team and roles (`campusAdmin`) | staff memberships | change role, remove, accept | check-then-act on counts, remove then insert | an owner remains; a member keeps a role; a removed one stays out |
| Student import (`campusAdmin`) | import jobs, links | commit | claim, crash, rows that fail, racing commits | a job is committed once and tells the truth about its rows; replaced links are dead |
| Completion notices (`campusAdmin`) | roster statuses, notifications | settle, check thresholds | checks that overlap, a window over the newest notifications | every threshold is told, once |
| Group invite links (`lib/invites.js`) | seat count, redemptions, entitlements | redeem, revoke | an entitlement minted before the transaction and withdrawn after it; last seat; parallel visits | seats, redemptions and entitlements agree |
| Validation ratings (`domain/validation`) | items, ratings | queue, next, submit, agreement | three raters at once, double clicks | two independent ratings; the agreed pair stays |
| Practice missions (`domain/development`) | attempts with work, hints, result; practice units | start, save, reveal, submit | several tabs, an evaluator at work while saves arrive, a submit that dies half way | one open attempt; saved work is kept; the result is of the work and is never replaced; evidence follows it |
| Growth and reassessment (`domain/growth`) | form equivalences, snapshots, cycles | decide, growthFor, setCycleStatus | evidence and registry change between reads; two tables end one after the other | snapshots compare approved forms and are not edited; a cycle has ended only if its assignment has, in the same way |
| Corrections of issued reports (`routes/admin/reports.js`) | report row, version rows, approvals | approve, supersede | version number and approval picked by queries of their own | the original is version 1; an answered correction is filed; an approval carries one correction |
| Credentials and human review (`lib/credentials.js`, `admin/disputes.js`) | credentials, dispute, free reassessments | issue, reissue, revoke, dispute, decide | no lock over look, sign and insert; a decision of four writes | the chain of reissues is linked; an invalidation shows on the credential; one reassessment, and the candidate is told of it |
| Privacy requests and legal holds (`admin/privacy.js`, `lib/privacyPlanner.js`) | request status, approvals, holds, the candidate's rows | dry run, execute, reject, hold, release | session after session deleted while the live session goes on and holds come | what was listed is gone, but for what is written to it later; holds seen are heeded; executing means running |
| Idempotency middleware (`domain/http`) | keys: pending or a stored reply | reserve, get, set, release | mounted by no router | not modelled |
| Payments, team fit, studies, retention timer | rows of their own | | external gateway, single-file features | not modelled |

How they interact: the session service calls the ledger (in process), the assignment
repository, the scope and consent repositories and, through an in-process invoker with
a 120 s timer, the engine's own Express handlers. Billing writes the ledger's pool rows
directly. `closeAssignment` calls the ledger's release, and the growth service ends the
assignment of a cycle through it. An import joins members and sends invitations by the
operations of the rosters. A settlement checks the notice thresholds. Corrections and
erasures consume the same approvals; a review decision revokes the credential it finds
and mints an entitlement. Nothing sends messages between processes; the hazards are
interleaving, partial failure, restarts and timeouts, and, in the browser, a network that
loses and delays.

## 2. Modules and the code they model

| module | code | role |
|---|---|---|
| `LedgerStore` | `entitlements/repository.{pg,memory}.js` | pool and consumption rows; `AppendReserved`, `AppendConsumed`, `AppendReleased`, `CreatePool`, `SetStatus`: one operator per repository call |
| `EntitlementLedger` | `entitlements/ledger.js`, `resolver.js` | concurrent reserve requests, one step per read or write, with consume, release, pool closure and expiry |
| `SeatPool` | (abstract) | what the ledger promises: a seat is taken, then billed or returned, within the capacity |
| `ContractPool` | `billing/service.js` | extends `EntitlementLedger`: activate, livePool and close, racing with each other and with reservations |
| `SponsoredAssessment` | (abstract) | what a sponsored assessment promises a student and the payer: acknowledged, one seat and session, begun, scored, billed or returned after a close, then completed |
| `SponsoredSession` | `sessionService.js` start/settle, `assignmentService.js` acknowledge, `campusAdmin/service.js` closeAssignment | extends `LedgerStore`: one assignment, its roster, the engine session, the lock |
| `SessionWork` | `sessionService.js` sendMessage/saveArtifact/finish, `engine.js`, `routes/assessment.js`, `storePg.js` | the work done in one started session |
| `Interview` | `routes/assessment.js` message/evaluate, `engine/anchorProbes.js`, `evidenceLedger.js`, `probeSelector.js` | how one conversation is steered, and what its report says of that |
| `WorkMaterial` | `src/features/assessments` (`artifactStore.js`, `useAssessmentSession.js`, the player page), `saveArtifact` | one material in the browser over a lossy network, and the writes of its saves on the server |
| `PracticeMissions` | `development/service.js`, `evaluate.js`, repository | attempts at a mission from several tabs |
| `CampusRoster` | `memberships/inviteService.js`, `campusAdmin/service.js` cohorts and assignments, their repositories | one institution's students: invitations, cohorts, rosters; one step per write |
| `CampusTeam` | `campusAdmin/service.js` changeRole, removeMember; staff acceptance | the staff of one organisation |
| `StudentImport` | `campusAdmin/service.js` commitImport, runCommit | import jobs, links and claims |
| `CompletionNotices` | `campusAdmin/service.js` checkCompletionThresholds, settling | the notices of one assignment |
| `RatingQueue` | `validation/service.js`, `ratingQueue.js`, `agreement.js` | double ratings of one session's units |
| `GrowthSnapshots` | `growth/service.js` decide, growthFor | form equivalences and snapshots |
| `ReassessmentCycle` | `growth/service.js` setCycleStatus | a cycle and its assignment |
| `InviteRedemption` | `lib/invites.js` | one group link |
| `ReportCorrection` | `routes/admin/reports.js` supersede, `adminAuth.js` consumeApproval | corrections of one issued report under dual control |
| `ReviewDecision` | `lib/credentials.js`, `routes/credentials.js`, `routes/admin/{credentials,disputes}.js`, dispute of `routes/assessment.js` | credentials and the review of one assessment |
| `DataErasure` | `routes/admin/privacy.js`, `lib/privacyPlanner.js`, `lib/retentionEnforcement.js` holdCovering | one erasure request under holds, and what is written to the candidate's sessions meanwhile |
| `LedgerStoreProofs`, `EntitlementLedgerProofs` (ledger and contracts), `CampusRosterProofs`, `SponsoredSessionProofs`, `SessionWorkProofs`, `ConsoleProofs` (corrections, review, erasure, growth, cycles, ratings), `CandidateProofs` (practice, conversation, material, and the three side by side), `OfficeProofs` (links, team, import, notices, and the eleven side by side) | | theorems, section 5 |
| `MC*` | | instances for TLC; `MCOffice` and `MCCandidate` put components side by side |

`LedgerStore` is shared: `EntitlementLedger` runs it at the grain of single reads,
`SponsoredSession` uses the same writes inside the longer start. Three modules look at a
session's work. `SessionWork` has the server's requests at the grain of single awaits, with
engine handlers that outlive their service. `WorkMaterial` has the page in front of them: the
four writes of a save are steps (`WriteWork`, `AppendVersion` with the copy in the cache,
`StoreEvent`), a message is one step that drops the materials from the engine's copy (`base`)
as `routes/assessment.js:1028` does, and `EngineForgets` reads the copy from the row again.
`Interview` takes messages one at a time.

State to code. Each variable names its table or field where it is declared. A request is
a record `call[c]` (`team[c]`, `desk[c]`, …) with a program counter that names the await
it stands at and the local variables it has read; it moves when the await resolves. In
`LedgerStore`, `rows` is `entitlement_consumptions` (as a set keyed by the idempotency
key), `held` is `consumed_quantity`, `poolStatus` is `entitlements.status`.
`SponsoredSession.holder` is the promise-chain lock of `createSessionLocks`, `startEvent`
the START client event, `engine`/`turns` what the engine's store holds, `orphan` the
`/start` handlers whose invoker gave up. `SessionWork.cache`, `row`, `report`, `stored`,
`versions`, `registry` are `sessionCache`, `v1_sessions`, `v1_reports`,
`assessment_client_events`, `assessment_artifact_versions` and `evaluationJobs`;
`call[c].row` is the row `updateSession` has read and is about to write back.

In `CampusRoster`, a request carries what the code holds in local variables: `todo` is the
list of assignments `syncRoster` works through, `cohorts` and `people` the two loops of
`createAssignment`, `people` and `from` the loop of `moveStudents`. `Stops` is a store
call that throws or a process that stops; of what a stopped request knew only the entry it
left owing is kept, because `RosterCovers` speaks of it. `closeAssignment` appears three
times: it ends the rostering (`CampusRoster`), returns the seats (`SponsoredSession`), and
is the first half of ending a cycle (`ReassessmentCycle`).

Data is abstracted to what the properties tell apart. A turn or an edit is its client
event id; the content of a work artifact, a material or an attempt is the set of edits
applied to it, because an edit patches its own field; ids and times are left out; a lapsed
pool is one whose `validUntil` the clock has passed. Several reads in a row with no write
between them are one step where the order can only change a refusal.

Failures. `Fails`, `Breaks` or `Stops` ends a request at any await without undoing its
writes, and the `finally` of a lock lets the next one in. `Restart` / `Crash` loses memory
and keeps the tables. A handler can outlive its invoker: the caller fails and unlocks, the
handler goes on. In `SponsoredSession` that is the constant `EngineTimeouts`, because a
property holds only without it (section 6); in `SessionWork` each of the faults `crash`,
`store` and `timeout` belongs to a scenario that is chosen at the start.

In `CampusTeam` an acceptance writes the membership (`Add`) and then marks the invitation
(`Mark`), and may break off before, between and after. In `DataErasure` the candidate's
messages and events are the writes their handlers end with, possible at any time once the
session has begun: the handler loaded the session before, from its row or from the cache,
where an execution leaves it, and what it writes after a wipe is a row that no list of the
candidate's sessions finds (`stray`). A scoring reads the report's owner (`FindOwner`) and
then stores the report, which becomes such a row when the owner was gone.

History variables. Where the code leaves a race open, the property says what holds outside
it, and a history variable names exactly that race: `raced`, `mixed`, `cut` (team), `stuck`
(a claim whose process died), `crossed` (checks of notices that overlap), `collided`
(ratings), `contested` (cycles), `crowded`, `retried`, `overlaid` (attempts), `doubled` (two
deliveries of one save past the lookup), `cut` (a save that broke off before its event was
stored) and `exposed` (work in the row when a message came) in `WorkMaterial`, `failures`
(row writes of the conversation), `stray` (a redemption that ended before its undo), `shared`
(approvals), `atOnce` (decisions), `spared` (sessions written to after their wipe, or whose
sweep failed) and `blind` (erasures). `entered` (invitations whose membership was written) and
`written` (events whose version was appended) exclude nothing and only remember. Section 6 says
what each race does. Each of these races is reachable in its module, so that what is excluded
can be seen there. That is said of the races that are named, not of everything the code can
do: what a module leaves out altogether is in its header and in section 7.

## 3. Runs and what they show

| run | instance | checks | states |
|---|---|---|---|
| `ledger` | 2 one-seat pools (one of the organisation, one of a user's own), 2 users, 3 requests | counter, one outcome, one seat per item, refinement of `SeatPool` | 67 919 |
| `sponsored_start` | 1 seat, 2 students, 3 requests, failures, restarts, closing sweep | one session per student, roster matches engine and completed seats are closed (`RosterSound`), progress, refinement of `SponsoredAssessment` | 148 879 |
| `queued_start` | 1 student, 2 requests, billed on start, engine timeouts, fair | billed before recorded; queued starts end | 6 159 |
| `session_work` | 2 messages, 3 edits of 2 artifacts, 3 requests, in seven scenarios, fair | one turn per event, cache agrees with row, answered turns and edits kept, scoring sees them, queued calls end | 359 110 |
| `campus_roster` | 1 student, 2 invitations, 2 cohorts, 1 assignment, 2 requests that may be sent again | acceptance is ordered and complete, rosters cover and only cover the targets | 2 250 677 |
| `office` | eleven components (below), one per behaviour | types, one conjunction of properties per component, and what stays as it was | 618 229 |
| `candidate` | practice, conversation and material, one per behaviour | the same | 759 568 |
| `close_cut_short` | 1 contract, closes may die | `ClosedContractStopsItsPool`: violated | |
| `edit_lost` | 2 edits and a message, no faults | `EditsKept`: violated | |
| `scored_twice` | 1 message, 3 requests, no faults | `ReportIsFinal`: violated | |
| `anchor_answers` | the conversation of `candidate` | `JudgedOnTheAnswer`: violated | |
| `saved_on_screen` | the material of `candidate` | `SavedStaysOnScreen`: violated | |

(State counts are after symmetry reduction; the runs that check liveness use none.)

Parts chosen at the start. `MCOffice` and `MCCandidate` put components beside each other that
share no state in the code. Their product would multiply state spaces and show nothing, so
a behaviour chooses one `part`, runs that component's own `Init` and `Next`, and leaves the
others in their first state; the run explores the sum. Each conjunct of each property is
evaluated in every state and is about the part that runs.

`office` has: one contract of one seat with three administrators' requests and a start
(activations may die); a team of two owners and a mentor with an invitation, three requests;
two import jobs, one with a member and a new student, one with the new student again, two
commits and two keys; a roster of two and a third student, three settlements, a window of
three notifications; two units, three raters, two queuers; two sittings of two forms, two
views and four changes; a cycle and three requests to end it; a link of two seats, three
candidates and three requests; a report with three corrections and two approvals; an
assessment with three requests at its desk and three kinds of decision; an erasure of a
candidate with up to two sessions, at first or begun later, with one approval and two of:
plans, executions and a hold (`MaxAsked`). `candidate` has:
two start keys, two fields, one criterion the evaluator judges and one that needs the rule
as well, four visits; a conversation of seven exchanges over three dimensions, one of them
with an anchor, and one fault; a material with two edits, two events, one message, and any
two of: a reading of the contract, a save given up, a save that breaks off on the server, a
save of another tab (`MaxMishaps`).

Why the bounds are enough. A race in this code is between two requests; a third either
finds what they left behind or reads between their writes, so three requests show every
pairwise race together with its retry. One-seat pools put every reservation at the limit;
two pools let one key race onto two of them. `queued_start` has two requests because the
lock is a queue of at most one waiter behind one holder. Two messages order a repeated
turn against another one; three edits of two artifacts have two edits of the same artifact
and one of the other. The scenarios of `session_work` pair messages and edits with each
fault separately; with a fault, the events it can hurt are enough. `MaxTurns = 1` is enough
for `ProgressIsKept`, which is about losing a turn, not counting them. `MaxCrashes = 1`: a
restart forgets everything in memory, so a second one starts from states the first one also
reaches. In `campus_roster` a request that ended can start again, so two slots also hold
sequences of requests; one student is enough because no property relates two students, two
cohorts tell a targeted cohort from another, and two invitations are what a resend and the
race of the old link with the new one need. Three raters are one more than an item wants;
a link of two seats with three candidates has a last seat and a loser. Seven exchanges reach
the fourth (the first that may press) and the seventh (three later), and one fault at any
place meets each record once. Two edits and one message are what the loss of the base needs
(a save before the message, a save after it); one broken save meets each gap between the
writes of either, and two mishaps make every pair, such as a save of the other tab into a
save the page has given up on. Two executions of an erasure race for one approval, a plan
comes into an execution, and a hold before, at or after its look; of two sessions one is
wiped first while the other is still written to. What is proved (section 5) needs no bound.

Deadlock is not checked: requests and invitations are finite in number and every one of
them may have ended, which is where the system really rests.

Mutants. `PROJECT.json` names, for each checked property, a plausible bug in a modelled
definition (a lost re-check under the lock, an unconditional status write, a
best-effort catch) that makes the run fail. The mutated operators stand, commented
`Mutant:`, before the definitions they replace.

## 4. Fairness

Nothing obliges a user to send a request, so no `Begin` or `Asks` action is fair.

`SponsoredSession!FairSpec`: weak fairness on the steps of a request already in flight
(the event loop runs every resolved promise, Postgres calls return or throw, every engine
call is cut off after 120 s), and strong fairness on taking the lock, because the code's
lock is a promise chain that serves each waiter in turn while the model's grants them in
any order.

`SessionWork!FairSpec`: weak fairness on `Proceeds(c)`: a request goes on, fails, or has
failed. The engine's timer makes this true even of a handler that never answers.
Restarts end the requests they interrupt, so they do not defeat either property.

The other components have no liveness property: nothing in the code retries on its own
there, so whether an import, a correction or an erasure that broke is taken up again is up
to a person.

## 5. What is proved

TLAPS checks every theorem for all values of the constants that satisfy the modules'
named assumptions. They say that null values are none of the values, that bounds are
naturals, that there is a first choice where the code always has one (a rater, a job, a
key, an owner, a learner), and that each request draws its own session id, as `randomUUID`
does (`StoreAssumption`, `LedgerAssumption`, `ContractAssumption`, `RosterAssumption`,
`SessionAssumption`, `WorkAssumption`, `RedeemAssumption`, `CorrectionAssumption`,
`DecisionAssumption`, `ErasureAssumption`, `GrowthAssumption`, `RatersAssumption`,
`TeamAssumption`, `ImportAssumption`, `NoticeAssumption`, `PracticeAssumption`,
`InterviewAssumption`, `MaterialAssumption`). Where something is counted the set is
finite: sessions, learners, and, for the type of the history of a report, corrections.
Other sets need not be.

Every safety property of a passing run is stated by a theorem, and so are the action
properties and both refinements. The components are proved one by one; `PartsOfTheOffice`
and `PartsOfACandidate` carry the results to the specifications the runs `office` and
`candidate` check.

`EntitlementLedgerProofs`
- `LedgerTypeCorrect`: `Spec => []TypeOK`.
- `CounterIsExact`: `Spec => []HeldCountsSeats`. The seat counter equals the number of
  sessions that hold a reserved or consumed seat, and no pool is oversold.
- `SeatsCloseOnce`: `Spec => []OneOutcomePerSeat`.
- `StartsShareASeat`: `Spec => []OneSeatPerItem`.
- `SeatsKeepScope`: `Spec => []SeatsStayInScope`.
- `LedgerImplementsSeatPool`: `Spec => Seats!Spec`, by a step or stutter of `SeatPool`
  for each action.

None of the ledger's invariants is inductive as stated. The inductive invariant `IInv` adds
what the code relies on silently: a key names one row, a row's key is the one its event
would write, a request past the resolver still carries the user, item, scope and pool it
resolved, a request that was granted nothing has no row under its session id, and one that
was granted a seat has its reservation row. `LedgerStoreProofs` proves once, for any
component that uses the store, that each repository write keeps the store's part of it and
how it changes the set of held seats; the step of the counter is then cardinality
arithmetic on one added or removed session. `EntitlementLedgerProofs` has one case per
action over those lemmas.

Of contracts, in the same module:
- `BillingTypeCorrect`, `StoppedPoolsStayStopped`, `ContractsKeepCounter`;
- `ActivationsAreSound`: `BillingSpec => []ActivationSound`. No pool is live and no seat
  reserved before an activation, and an acknowledged activation leaves a live pool while
  the contract stays active;
- `ClosedContractsStop`: with closes that run to their end (`"close" \notin MayFail`) a
  closed contract's pool is not live once no close is in flight, whatever it raced with.

`ContractPool` keeps the ledger's invariant, because its own actions touch only pool
statuses, and adds `BInv` (how contract, activation date, pool and the step of each request
fit together) and `StopsPending` (a closed contract that was once activated, with a pool not
stopped yet, has a close standing before its second write).

`SponsoredSessionProofs`
- `SessionTypeCorrect`, `StartsLandOnOneSession`, `RosterIsSound`, `StartsAreBilled`:
  `TypeOK`, `OneSessionPerStudent`, `RosterSound` (`CompletedSeatIsClosed` and
  `RosterMatchesEngine`) and `StartBilledOnce`, with engine timeouts or without;
- `ProgressIsNeverWiped`: `ProgressIsKept` when `~EngineTimeouts`;
- `AssessmentsAreOrdered`: `Spec => Assessment!Spec`, with engine timeouts or without. Each
  step of the service is one step of `SponsoredAssessment` or leaves every life as it was.

`SessionInv` says, per step of a start, which of seat, start event, engine session and
roster row are already there and that they name the same session; the ledger's part comes
from `LedgerStoreProofs`. `LockInv` adds who is between taking and leaving the lock of a
session: the start event is looked up again under the lock, so of two starts only one
creates. It is needed only for progress, and it is what a timeout breaks: the orphaned
handler creates outside the lock. `OrderInv` is what the refinement needs besides
`SessionInv`: whoever has a seat acknowledged the disclosure, the engine (or an orphaned
start) has sessions of seats only, a settlement under way found a report, and the sweep runs
after the close and lists seats whose session was begun. The refinement mapping `LifeOf`
reads a student's life from the one reservation under the student's key, the engine's
session of that reservation and the roster row.

`CampusRosterProofs`
- `RosterTypes`: `Spec => []TypeOK`;
- `AcceptanceIsOrdered`: `Spec => []AcceptanceSound`;
- `RosterIsSound`: `Spec => []RosterFollowsTargets`.

`RowsStayStep` says that rows once written stay and an invitation keeps its student and
cohort. `AcceptInv` then says what an acceptance has written by the step it is at, which is
what the mark relies on, and `TargetInv` that whatever a request carries towards a roster
comes from a cohort its assignment targets. `RosterCovers` is inductive over types alone:
when it could become false, by a new place (`PlaceWriters`) or a new assignment
(`LaunchWriters`), the request that caused it stands at a step where it owes the entry, and
a debt is given up only for the entry (`SyncDebtKept`, `AssignDebtKept`).

`SessionWorkProofs`
- `WorkTypes`: `Spec => []TypeOK`, with `LockIsHeld`: who is between taking and leaving the
  lock is its holder, or a handler whose invoker gave up;
- `AnsweredTurnsAreKept`, `JobsScoreWhatWasAnswered`. Until the session is scored every copy of
  the history (the row, the cache, and what each request under way has loaded or read) has
  the messages answered so far (`Holding`), a message past its turn finds it where it will be
  read next, a job has what it was asked to score (`Carried`), and a row is freed only when a
  report exists (`Reported`). Without late handlers the lock keeps two requests from loading
  the same history; this is where "no timeout" is needed;
- `TurnsAreTakenOnce`, `CacheAndRowAgree`. Where nothing fails, each history has each message
  once and only messages known (`OnceInv`), and cache and row agree but between the two
  writes of one call (`Agreed`);
- `AnsweredEditsHaveVersions`, `VersionsAreNext`, under every fault, and
  `AnsweredEditsAreKept`: `Spec => [](EditsApart => AnsweredEditsKept)`. `EditsApart` names
  the scenarios in which the code keeps its edits: messages alone, edits alone with each
  handler waited for, or one edit; every scenario of the run `session_work` is one. Without
  it the property is false, which is observation 1 and the run `edit_lost`.

`ConsoleProofs`
- `CorrectionsAreSound`. `CorrectionInv` adds that version numbers have no gap (`NoGap`),
  what a request about to file carries (`Filing`), and which approval it used (`Using`): a
  pending version under the next number means that the report in force will be filed, or
  that its filer broke;
- `HistoryIsBounded`: `CorrectionTypeOK`, whose bound on version numbers is a property of its
  own: `FiledByRequests` gives each version after the first to the one answered request that
  filed it, so there are at most as many as requests;
- `DecisionsAreSound`. `DecisionInv` follows the chain of reissues (`Linked`), a console
  request between its look and its insert (`Sealing`), a decision between its mint and its
  record (`Granting`), and the credential a decision found (`Reviewed`, `Superseded`);
  `CredsMove` says that credentials are only added or retired;
- `ErasuresAreSound`. `ErasureInv` says what is wiped at each step (`Wiped`), together with
  `HoldsAreHeeded` and `ExecutingIsRunning`, which are inductive with it. What the candidate's
  handlers and scorings write can only put a session into `spared` or leave a wiped one wiped;
- `SnapshotsAreComparable`, `SnapshotsStay`: a snapshot compares an earlier with a later
  session of forms that were approved, and stays. A view that stands before its write has
  the approval it read; finding the newest earlier comparable session is a maximum over
  naturals, whose existence (`Largest`) is shown by well-founded induction;
- `CyclesEndOnceAssignmentsHave`: a cycle has ended only when its assignment has, and in the
  same way unless two requests raced. The two are ended in two steps, the assignment first, and
  a request may break off between them;
- `QueueIsSound`, `AgreementPairsStay`. `RatingInv` adds that a request past its checks is
  alone with an item that still lacks a rating, unless `collided` has it (`AloneInTheLast`).
  The agreed pair stays because ratings are only appended: the two smallest places of a set
  of places stay the smallest when greater ones come in (`LeastStays`).

`CandidateProofs`
- `AttemptsAreSound`, `ResultsAreKept`: one open attempt, saved work kept, results of the
  work, evidence of the results, and a result that is never replaced. The invariant follows
  each submit from the work it read to the result it may write; that the store writes a
  result only over an attempt in progress is what keeps the first one;
- `InterviewTypes`, `InterviewIsSound`. The row and the message being answered go with their
  records (`Noted`); until there is a report the cache is the row and what has not reached it
  yet (`CacheIsAhead`); a scoring job has a beginning of the cache and anchors that go with it
  (`ScoringIsBehind`). That pressure comes at most twice follows from its distances and is
  counted in `RecordedIsFair`;
- `MaterialTypeCorrect`, `MaterialIsSound`. `ItemOrdered` ties what is pending, on its
  way and put aside to the status the page shows; `RequestsAgree` and `AnswersStored` relate
  every request in the network, waited for or not, to the item and to what the server keeps;
  `OneSaveAtATime` is the lock; `LookedTogether` says that two deliveries of one save past the
  lookup are remembered; `AnswersAreSafe` that what was shown as saved, and every
  stored answer, is in the versions and, unless exposed to a message, in the row and the base. What
  is proved of the latest contents (`WorkSinceMessageIsStored`) is no more than the code
  keeps: a message takes the base away (observation 1), and only the versions
  (`ShownSavedIsRecorded`, `NothingSilentlyDropped`) keep all that was shown as saved;
- `PartsOfACandidate`, `PracticeTypes`, `CandidateTypesHold`: the three side by side.

`OfficeProofs`
- `RedemptionsAreSound`: the parts are `SeatsOK` (the count is the number of redemptions and
  at most `MaxUses`), `RedemptionsOK` (each redemption names a minted session of its own)
  and `RequestOK` (what each request holds at its step);
- `TeamTypes`, `TeamIsSound`. What a request read of its member still holds when nothing
  overlaps (`ReadHolds`), whoever takes owner access away leaves another owner (`OwnerLeft`),
  and each role held is the first one or of an invitation whose membership was written
  (`entered`), marked or not, with one to spare while a change is between its two writes
  (`RolesCounted`). `MarkedOnceWritten` says that an invitation is spent on a membership only,
  wherever an acceptance broke off;
- `ImportTypes`, `ImportIsSound`. A preview that is being committed is claimed with the
  commit's key and by nobody else (`ClaimInv`), links found are older than links sent
  (`LinksInv`), and an outcome noted has happened (`RowsInv`);
- `NoticeTypesHold`, `NoticesAreSound`. A threshold the roster stands at was told or a check
  owes it (`ReachedIsOwed`), and while nothing overlapped one check sends at a time, what
  nobody has told (`SentOnce`). The notices told are counted by the cardinality of their
  places, which is why learners are finite: the share of a roster is a quotient of two counts;
- `PartsOfTheOffice`, `OfficeTypesHold`, `WhatWasShownStays`, `OfficeIsSound`: the eleven
  side by side. `OfficeIsSound` is about `OfficeSound`, the conjunction of the state properties
  of `office` other than types, with `ClosedContractStopsItsPool` under the condition that
  closes do not break off (`"close" \notin MayFail`).

The history variables (`mixed`, `raced`, `crossed`, `collided`, `doubled`, ...) are what makes
these invariants inductive: each theorem says in effect that the race its variable names is
the only way to break the property, for any number of requests.

Only model-checked: the liveness properties `QueuedStartEnds` and `QueuedCallEnds`, because
liveness under fairness and `ENABLED` are outside what these provers do. The properties of
the five runs that expect a violation are false of the code; of two of them a theorem says
where they hold (`AnsweredEditsAreKept`, `ClosedContractsStop`).

## 6. Observations about the code

Each is a trace of a model or a fact of the code met while translating it. The first five
are runs of their own.

1. **An edit is lost after a message** (`edit_lost`, `routes/assessment.js:1028`). A
   message replaces the cache entry with one that has no `artifacts`; the next artifact
   save takes the scenario's originals as its base and writes them back to the row. No
   failure or race is needed. The version history still has the lost content. `WorkMaterial`
   has the loss as well (`Message`): `exposed` names the work it may hit.
2. **A session can be scored twice** (`scored_twice`, `routes/assessment.js:1171`).
   `/evaluate` looks for a running job, awaits the session, and registers its job: two
   submits that overlap in that await both score, and the second report replaces the first.
3. **A close cut short leaves a live pool** (`close_cut_short`, `billing/service.js:140`).
   The contract is closed first; if the pool's write does not happen, a repeated close is
   refused as already closed.
4. **An anchor is judged on the message before it** (`anchor_answers`,
   `engine/anchorProbes.js:95`). The opening prompt is stored as an entry of role `user`, so
   the index of the answer is one too small.
5. **A saved edit disappears from the screen** (`saved_on_screen`,
   `hooks/useAssessmentSession.js:30`). A message puts its turn into a copy of the contract
   with the materials of the last reading, and the page loads that over what was saved since.

Sessions and work:

6. A late engine start wipes progress (`engine.js:12`). The invoker's timer rejects but does
   not stop the handler; when it ends, its upsert of the session replaces the one a retry
   made. `sponsored_start` with `EngineTimeouts = TRUE` violates `ProgressIsKept`.
7. A pool that stops between `reserve`'s status check and its append still grants that
   one seat (`ledger.js:44`), although a closed contract's pool "stops granting new starts".
   In `EntitlementLedger`: `Check(c)`, `StopPool(p)`, the append of the reservation.
8. `closeAssignment` releases the seat of a session that has its report but was not
   settled yet (`campusAdmin/service.js:665`), and does not find the seat of a start that
   failed before its roster write.
9. A message that ends after the report was saved writes back the row it read before:
    the transcript returns and `completed_at` is null again (`storePg.js:127`).
10. A store failure between the turn and the stored client event makes a retry of the same
    event a second turn (`routes/assessment.js:1036`); with slow engines a late message handler
    overwrites turns answered meanwhile. `TurnOncePerEvent` and `AnsweredTurnsKept` exclude
    those scenarios by name.
11. A retry of a save that queued behind the first one and names the new version is saved
    twice: `saveArtifact` does not look for the event again under the lock. A save that breaks off
    between its version and its event (`sessionService.js:243-245`) makes its own retry a conflict
    (`cut`); one that breaks off before its version leaves the row ahead of the versions. A new
    payload after a lost answer conflicts with one's own saved work. The contract reads row and
    artifact versions separately (`sessionService.js:177-182`).
12. `buildJudgeTranscript` labels the opening prompt as the candidate's
    (`routes/assessment.js:1227-1230`), and a quote may come from it (`928-934`). A malformed
    reply or a failed row write loses a scheduled anchor for good; feature flags are read
    again at scoring time.
13. A start that is still writing its roster row takes a card that a settlement completed
    meanwhile back to IN_PROGRESS (`sessionService.js:169-171`), as an acknowledgement that read
    ASSIGNED does with ACKNOWLEDGED; the next reading of the session settles it again. It is
    the action `FallBack` of `SponsoredAssessment`.

Rosters, team and staff work:

14. An acceptance that has passed its check makes a member removed meanwhile active again
    (`inviteService.js:157`). Decline and resend write the invitation's status
    unconditionally (`inviteService.js:175`, `campusAdmin/service.js:749`), so an invitation
    accepted in between ends DECLINED or REVOKED with its membership active.
    `AcceptanceSound` is stated in the direction that holds: what is marked ACCEPTED is complete.
    A staff acceptance cut short before its mark leaves an active membership whose invitation is
    still pending, and a link that can be used again (`entered`).
15. `removeMember` leaves the student's cohort rows, so a later launch rosters and notifies a
    removed student, and a launch cut short is not completed by sending it again: that
    creates a second assignment.
16. Two owners who remove each other at once both count two, and nobody is left
    (`campusAdmin/service.js:740`; `raced`). A role change cut short leaves no role
    (`cut`). A process that dies in a commit leaves the import claimed (`stuck`).
17. Two settlements that check together tell a threshold twice (`crossed`); three raters who
    submit at once give an item a third rating (`collided`), but the pair an agreement was
    computed on stays; two tabs that start with different keys open two attempts (`crowded`).
18. `decide` reads the status it audits as `from` outside the lock (`growth/service.js:119`)
    and `createCycle` is not idempotent (`growth/service.js:207-212`).
19. A double click on the last seat of an invite link can answer one of them with "full"
    (`lib/invites.js:218-222`). `storePg.js:638` says that `/start` refuses consumed
    entitlements; `/start` only looks whether one exists (`routes/assessment.js:554`).

The console:

20. An approval is called single-use (`adminAuth.js:421-422`), but two concurrent updates by
    the id of a sub-select both return the row (`shared`).
21. The supersession of a review is said to reissue "the credential chain"
    (`disputes.js:297-300`), but superseding a report touches no credential; an invalidation
    does not set `admin_session_states.invalid`, which `lib/integrityStatus.js` reads.
22. Two racing decisions mint two free reassessments, and one that breaks after minting
    mints another when repeated (`atOnce`). A reissue retires its predecessor unconditionally
    (`credentials.js:229-234`): a revoked credential can be reissued, and a second active one
    can stand beside another.
23. A failed query of holds reads as no holds (`retentionEnforcement.js:60-64`; `blind`). An
    erasure of one session whose candidate is not named ignores holds on the candidate. The
    candidate's own erasure (`routes/assessment.js:2357-2394`) looks at no hold, although
    migration 0019 says a hold suspends it.
24. A dry run writes its status unconditionally (`privacy.js:195-199`), so a completed request
    can await approval again; a crash leaves a request executing, which only a rejection ends;
    a scoring under way writes a report of an erased session again (`spared`). An execution that
    breaks in the middle of a session has deleted the session's own row first, so that its
    repetition lists the session no more and what is left of it stays (`stray`).
25. An erased session stays live (`lib/privacyPlanner.js:177`). The office's erasure deletes a
    session's rows and leaves its entry in the cache, which the candidate's own erasure drops
    first (`routes/assessment.js:2382`). Until the entry expires a message is answered from it
    and writes item and telemetry rows (`1056-1069`), and a scoring of it stores a report
    without an owner (`1529-1533`): rows no later list of the candidate's sessions finds
    (`Writes`). `ListedIsGone` excludes by name (`spared`) what is written after the wipe.

## 7. What is not modelled, and why

- What a turn says and how a transcript is scored: model calls and floating-point
  estimates. A report is the transcript it scored, or, in `Interview`, which dimensions it
  reports and on what basis. The legacy director (executive engine off) and the micro-rater's judgement are inputs.
- Read models, dashboards, exports, directories, analytics, claims, usage and invoices: pure
  reads and formatting.
- Around `CampusRoster`: the scope union of staff invitations, the workspace row an
  acceptance opens, emails, cohort and program settings, and the practice missions that
  `onRosterSync` assigns. Expiry of an invitation only refuses. Requests the code refuses
  before their first write change nothing.
- The idempotency middleware: no router mounts it.
- Role matrix and workspace resolution: stateless; the scope a request resolves in is a
  constant relation (`Member`).
- Administrators: sign-in, content editing, holding and releasing a report, revoking an
  entitlement (`admin/payments.js:87`), access packages, the retention timer; an invite
  link whose window is not open yet only refuses.
- Two server processes on one database: the session lock, cache and job registry are per
  process, and the repository's own notes admit that. The modules without process memory
  (ledger, contracts, rosters, team, import, notices, ratings, growth, links, console) hold for
  any number of processes.
- The JSON-file stores, payment gateway, team fit, studies, the rest of the client, and the
  desktop and calibration trees: see the notes in `PROJECT.json`. Most of the repository's
  lines are these, user-interface code and read-only routes, which is why the mapped share
  of the whole is small.
- The per-session lock is granted in any order rather than first come first served, and
  the engine's own limits (minutes, token budgets) appear only as refusals.

## 8. Plan

Done: every module is checked and every safety property of the passing runs is proved.
Left, in this order:

1. Two server processes in `SessionWork`: a lock, cache and registry per process; then the
   proofs of the parts that do not need the lock.
2. `WorkMaterial` with the finish and the reasoning notes, and the retention timer and the
   candidate's own erasure beside `DataErasure`.
3. An abstract specification of a candidate's work (answered, kept, scored once) that
   `SessionWork` implements in the scenarios without late handlers.
