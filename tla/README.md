# Formal models of the Intereng API

The API keeps a university sports competition: editions, categories, matches, standings and rankings.
Officials change it through one endpoint, `POST /editions/:id/actions`; everybody else reads
snapshots of it and follows its revision over SSE.  These modules model what is stateful in that: the
write path, the operation of a match, the structure of a category, its standings and its knockout, the
catalog with its staff and rosters, the overall ranking, editions and their snapshots, sessions, and the
revision stream.  Paths below are those of `PROJECT.json` without their common prefix `src/src/`.

- [The system](#the-system) and [its hard behaviours](#hard-behaviours)
- [The modules](#the-modules): state, actions, code
- [The runs](#the-runs): what each checks, bounds, fairness
- [What the models found](#what-the-models-found)
- [What is proved](#what-is-proved)
- [What is not modelled](#what-is-not-modelled) and [the plan](#plan)

## The system

```
 official --POST /editions/:id/actions--> EditionActionsService.execute
                                            | one SERIALIZABLE transaction per attempt:
                                            |   advisory locks, receipt, authorize
                                            |   -> context | catalog | category | match | ranking handler
                                            |        match, category -> recalculation (standings, knockout)
                                            |   audit, revision + 1, receipt
                                            v commit
                                          PostgreSQL <------------------------------+ reads
                                            | after the commit, not awaited         |
                                            v                                       |
                                          Redis streams (edition, "active") --> EditionRealtimeController
                                                                                    | SSE
 anonymous --GET /public/...--> cache in Redis, SingleFlight --> PostgreSQL         v
                                                                                  client
```

| Component | Code | State | Operations | Correct when |
|---|---|---|---|---|
| Write path | `edition-actions/edition-actions.service.ts` | revisions, receipts, audit, alias `active`; locks and snapshot of each transaction | `execute`: route receipt, resolution of the edition, authorisation, handler, revision, receipt, retry, publication | a request and its resends mutate once; nobody commits over data that changed while he waited; an answer is a receipt; only the committed is announced |
| Match handler | `edition-actions/handlers/match-action.handler.ts`, `action-regulation.ts` | status, score, periods, events and their counter, operator lock, winner, tiebreak | schedule, update, delete, start, clock, events, undo, claim and release, finish, correct, record by sheet | the score is what the events earned; the result that counts is the one shown; the device that lost the lock writes nothing |
| Knockout | `edition-actions/edition-action-recalculation.service.ts`, `colocacao-do-chaveamento.ts` | matches `...-advanced`, byes, status of category and edition | after every official result: first round, next round, third place, end; dependents of a correction | winners meet winners, everybody qualified is seated once, a category ends with its final and never waits for nothing |
| Standings | the same service, `action-regulation.ts` | `phase_standings` | counted matches, criteria, mini-tables, qualifiers, positions of labels | the order is the one the regulation describes; labels and seeds read the same positions |
| Category handler | `edition-actions/handlers/category-action.handler.ts` | structure of a category: phases, groups, entries, matches | create, update, generate, reconcile, delete | a structure that was operated stays as it was |
| Ranking handler | `edition-actions/handlers/ranking-action.handler.ts` | metrics, awards, closures | define, award, revoke, close, reopen | nothing scores twice, what scores stands on what the edition has, one reopening opens, seeding respects choices |
| Context handler | `edition-actions/handlers/context-action.handler.ts`, `competitions/` (bootstrap) | competitions, editions, staff roles | create, activate, promote, assign | one active edition of one active competition; nobody appoints above himself |
| Catalog handler | `edition-actions/handlers/catalog-action.handler.ts`, `authorize` of the write path | disciplines, teams, athletes, rosters | upserts and removals | nothing in use disappears; rosters follow the athlete; a team keeps its athletes |
| Revision stream | `realtime/realtime.service.ts`, `edition-realtime.controller.ts` | Redis stream; of a connection: cursor, last revision, lookup, reconciliation | prepare, baseline, events, reconciliation, reconnection | no event is passed over, no revision goes back, everybody ends at the truth |
| Connection limiter | `realtime/sse-connection-limiter.service.ts` | counters per origin, account, process | acquire, release | every slot returns exactly once |
| Sessions | `auth/` | an account, its refresh sessions, the tokens issued | bootstrap, login, refresh, logout, change of password | one live session per login; a revocation holds for all sessions of its time; no token is ahead of its account |
| Public reads | `public/` | cache with a time to live, flights | read behind a single flight | the live answers of an edition never go back |
| Snapshots | `edition-snapshots/` | cache by edition and revision, ETags in browsers | projection of an edition | one revision has one content |
| Legacy resources, catalog reads, uploads, audit, common | see `PROJECT.json` | none, or one row | reads; mutations are answered 410 by `LegacyMutationGuard` | |

The components meet in five places.  The handlers run *inside* the transaction of the write path,
so two actions of an edition do not interleave (`ActionPipeline` shows why that holds although the
snapshot is older than the lock); that is what lets the other modules take a whole handler as one
step.  The match and category handlers call the recalculation before they return.  The write path
publishes to Redis after its commit and does not wait.  The stream reads Redis *and* the database,
and the alias `active` of both is switched by the context handler.  Snapshots and their ETags trust the
revision the write path counts, and so depend on every handler naming all the editions it affects.

### Hard behaviours

- `execute`'s first statement is the SELECT that waits for the advisory lock; PostgreSQL takes the
  snapshot of a SERIALIZABLE transaction there, so whoever waited decides on data from before the wait.
- Receipts are found by route before the edition is known, and by edition after; between a request and
  its resend through `active`, another edition may become the active one.
- Retries, conflicting row locks in different orders, timeouts, crashes between commit and publication.
- The lock of an operator expires, is taken by force, or outlives the match; an event is undone after
  sets closed, periods advanced, or the match ended.
- A result is corrected after the rounds that were built from it exist; a published key replaces the
  seeding; byes; the third place is decided before or after the final.
- An SSE client reconnects with an old `Last-Event-ID`, Redis forgot the events, publications overtake
  each other, `switchMap` drops lookups, and the alias moves.
- A snapshot is resolved in one transaction and built in another; a flight that read long ago writes to
  the cache; rows several editions show change under all of them.
- `changePassword` is four transactions; a rotation and a revocation of all sessions meet at the rows.
- Ties are split criterion by criterion by a mini-table over those still tied, under rules that change.
- Roles, rosters and awards are checked when they are used, against tables that keep what was withdrawn.

`PROJECT.json` lists each at its line under `hazards`, with the properties that watch it.

## The modules

| Module | Models | Composes | Proofs |
|---|---|---|---|
| `ActionLedger` | what the write path promises a client, abstractly | | |
| `ActionPipeline` | `EditionActionsService.execute`, PostgreSQL as far as it relies on it | implements `ActionLedger` | `ActionPipeline_proofs` |
| `MatchOperation` | the match handler on one match | | `MatchOperation_proofs` |
| `Category` | the category handler: structure, regeneration, deletion, and the matches and standings that hang on it | | `Category_proofs` |
| `Standings` | the table of a phase, its qualifiers, the regulation it follows | | `Ranking_proofs` |
| `Bracket` | the knockout of one category, with the match and category actions that touch it | | `Bracket_proofs` |
| `Ranking` | metrics, awards and closures of the overall ranking | extends `Roster` | `Ranking_proofs` |
| `Staff` | accounts, role assignments, scopes, authorisation | | |
| `Roster` | disciplines, teams, athletes and their rosters | extends `Staff` | `Ranking_proofs` |
| `EditionContext` | competitions, editions, the active pair, revisions, what a snapshot shows | | |
| `PublicReads` | public and private snapshots, their cache, single flights | extends `EditionContext` | `PublicReads_proofs` |
| `RevisionStream` | commits, Redis, one SSE client with its connections | | `RevisionStream_proofs` |
| `Sessions` | one account, its sessions and tokens, the bootstrap | | `Sessions_proofs` |
| `MC...` | the instance of each that TLC checks | | |

A definition marked *Mutant* in a comment is no part of a model: it is the definition after it as a plausible
bug would have it, and `PROJECT.json` says which property finds it out.

### ActionLedger and ActionPipeline

A *delivery* (`Request`) is one HTTP request; a resend is another delivery of the same `Job`.  `db` is the
committed database: revisions, active edition, receipts, and the mutations applied (history).
`pc[r]` walks through `execute`:

| Step | Code |
|---|---|
| `Begin` | the attempt begins; its snapshot is that of the first statement, taken before the wait |
| `EnterRoute`, `ReplayRoute` | `request:<route>` lock granted; route receipt found, or edition resolved |
| `EnterEdition`, `Refuse` | `edition:<id>` lock granted, receipt by edition; scope, authorisation and validation as one refusal |
| `UpdateRevision` | the handler's and the revision's row updates, one row at a time, in the code's order; a row that changed since the snapshot is a serialization failure |
| `Commit`, `Reply`, `Publish` | receipt and revision become visible, the envelope is answered, events settle in any order or fail |
| `SerializationFailure`, `ReceiptCollision`, `DeadlockVictim`, `TransactionTimeout`, `Crash` | P2034 with retry, P2002 as 409, a deadlock, the transaction limit, death of the process |

A handler is an opaque mutation here, named by the delivery that made it.  `ActionLedger` has no
locks, snapshots or attempts: entries, one per route and key, and answers that quote them.
`ImplementsLedger` is the refinement, with the receipts as ledger.

### MatchOperation

One variable per field the handler writes (`score`, `part`, `period`, `results` are the score of the
match, of the running period, its number and the closed ones); one action per handler.  `update` is
two: `WalkOver`, which counts, and `Update`, which does not.  A participant is its side; `sides` are the
sides whose participant is known.  Regulations are data: by sets, by periods, by declared result; and the match does
not own its own: every handler reads `rules` again, and `DisciplineUpdate` (discipline/update, which asks about no match)
replaces them at any moment, before, during and after the match.
History: `counted` is the result the last recalculation saw, `ending` how the match last ended and `tieStands` whether a tie
could stand under the rules of that moment, `late` whether an event was undone after that, `recast` whether rules that came
after the first event changed the number of sets it takes (`length`), or the way to win, sets or points, or gave a
decided match more sets (`anew`).

### Category

`seeds` are the entries with their seeds, `phases` the phases in order with their groups, `members` the group
entries, `byes` the stored config as far as it says who has one, `matches` the matches of the category with their place, sides and status,
`rows` the stored standings; `found` is who is in the edition's roster, which `RosterChanges` (athlete/update) decides
without asking what anybody is entered in.  `Accepted` is what a setup must pass: `parseSetup`, whose byes must be of
participants, the roster lookup of `reconcileEntries`, and the frozen structure.
`Create`, `Update`, `GenerateMatches` and `Delete` are the handler's actions; the first three end in
`ReconcileSetup`, which writes what the setup asks for, and `Cascade` and `RowsLeft` are what the foreign keys
do then: matches go with their phase, and keep a null where their group or entry was.
`Structure` and `Requested` are the two signatures `assertOperatedStructureUnchanged` compares, one
built from rows and one from the setup.  A client sends one of `Setups`, or `Shown`, the setup the
snapshot maps from the rows, whose field for field return the code expects of the client.
`Schedule`, `Remove`, `Start`, `RegisterEvent`, `End`, `CorrectResult` and `UpdateMatch` are the match actions as far as a
category sees them, the last with all of `canTransition`, other places and other sides: `MatchOperation` has the rest, and `touched`
remembers that a match was started or has events.
Names identify entries: two athletes of one name in an edition are not modelled.
A row says which match it counts for whom; how rows are ordered is `Standings`.
History: `stale`, since the last recount official matches were regenerated or a live match was ended by match/update.

### Bracket

Every official result recomputes the category in its own transaction, so an action is a committed edition
action and the recalculation is a function from category to category: `ProgressKnockout`,
`CreateFirstRound`, `NextRound`, `ThirdPlace`, named as in the code.  A match sits at `<<round, slot>>`,
read by the code from the identifier `<T>-advanced-r<round>-<slot>`.  The classification is abstract:
any table of `Tables`, none, some or all of its matches played.  A label of a published key is the pair
of positions it resolves to; how it resolves is `Standings`.
While the key is played `table` stays as the groups left it, until one of their results is corrected; the code draws it up
again at each result, under the rules of that moment, and rules replaced in between are not modelled here (`Standings` has them).
The status of the category is written by the progression and by setups: `CategoryUpdate` (category/update) and
`GenerateMatches` write any of the five, and `byHand` (history) says that no progression has written it since.
`Delete` is `match/delete` of a match of the key: no recount repairs what it takes away, and none of the four
properties below outlives it, so each is stated for keys without a deletion (`deleted`, history).  Drop that
condition and TLC shows the loss: a deleted semifinal leaves the other's winner alone in a finished category.

### Standings

A behaviour is one phase (`layout`): its type, groups, matches, number of qualifiers and best thirds.  `RecordResult` is an
official result or its correction with the recount it ends in; `RulesUpdate` (discipline/update) changes the regulation and recounts
nothing, so `counted` remembers the results and the rule of the last recount.  `Accumulate`, `RankBlock`,
`CollectQualifiers` and `MapaDeColocacoes` are named as in the code; points are counted in halves.  A place in a block is those in better
buckets and the place in one's own (`Behind`), and `placed[k]` of `RankBlock` is what the code's recursion returns for the criteria
from the k-th on.  `ReferenceRank` is the order as the regulation describes it: 1 and the number of entries above
(`Above`), where the first criterion that separates two entries decides, among all still tied with both (`TiedWith`).

Two assumptions on a phase.  `LayoutAssumption`: groups are finite and share no entry, a match is between two
entries (`schedule` and `update` refuse one against itself) and won by one of them or by nobody, and scores, cards and points are numbers.
`MarginAssumption` is about the one number by which the code compares a mini-table, a thousand for a point and
the balance of goals: this is "points, then balance" only while two balances are less than half a point's weight apart (half, for
chess).  So the widest margin, over the matches an entry can have, stays below that; nothing in the code enforces it, and beyond
it goals would outweigh points.

### Ranking

`metric`, `award`, `closure` are the three tables, removed, revoked and reopened rows included.  An action takes what a
client may send; `AddAwards` takes a list, whose elements are judged one by one over those before them.
`Seed` is an edition's seeding and its repetition.  The module extends `Roster`: who may send an action is read from the
staff there (`RankingBy`: a full scope of the edition), the disciplines and teams an award names are that catalog's,
and awards are among what stands in the way of a `DisciplineDelete` (`AwardsImpede`).  A step is one of the ranking or one
of the catalog and the staff, and the former leave `Roster`'s variables alone (`RosterUndisturbed`).

### Staff and Roster

`Staff` has the accounts (`exists`, `super`, `trace`: what keeps an account from deletion), the assignments (`roles`) and
what a request of an account may do: `Scopes` are those `resolveScope` gives, one per choice of headers.
`StaffGrant`, `StaffReplace` and `StaffRevoke` are the three forms of `staff/upsert`.
`Roster` adds disciplines and teams, global and linked, and the two tables of an athlete: `link`
(`edition_athletes`) and `roster` (`edition_rosters`).  `Authorize` is `authorize` for athletes under each scope,
`SyncRosters` what a create or an update does to the rows of the disciplines on offer.  A manager of a discipline passes
`authorizeManagerAthlete` and commits nothing: what runs under the scope of a discipline must name that discipline in its
result (`edition-actions.service.ts:335-342`), `athleteCreate` and `athleteUpdate` name none, and the transaction is rolled back
with a 403 (`OutOfDiscipline`).  The comment on `MANAGER_ACTIONS` (lines 76-79) says that managers enter and adjust athletes.

Read in the code and kept in the model: an account is responsible for one team at a time (the
unique index is older than the role), so a second grant is refused; `staff/upsert` with the ID of a responsible's
assignment and another team changes nothing, for the team is not compared (`context-action.handler.ts:592`);
`staff/remove` lets an edition admin delete the role of an equal, which `staff/upsert` refuses.

### EditionContext and PublicReads

`competition` and `edition` are the rows, `shared` the global rows (teams, athletes, disciplines) and `linked` which
edition shows them; content is one of a few values.  Each action writes rows and counts in the revisions of the
editions the code names.  The bootstrap of an empty system reads committed rows outside of the write path:
`BootstrapCount` and `BootstrapCreate` are two steps, and the unique indexes on active rows stand between two of them.
`View` is what the mapper shows: the public variant one edition and its competition, the full scope everything, with the
status of every edition.  `EditionAction` is a match or category action of one edition, and the recount of a match that was played
takes the edition out of planning (`Recounted`).

`PublicReads` reads that at every await: `ResolveForCache`, `ReadPublicCache`, `Generate`, `WritePublicCache` are the public
snapshot, `PrivateSnapshot` the other, `copy` what a browser holds under its ETag.  `LiveHit`, `Fly`, `DoubleCheck`, `Fetch`,
`SetLive`, `FailFlight` and `ExpireLive` are `runWithCache` behind `SingleFlightService`, for each key that is followed: the live
matches of an edition, its schedule of a day, the bracket of a tournament, each `About` one edition.  Keys share nothing, so TLC
follows one; the theorem is for any set of them.  One process serves reads, as
`docker-compose` runs it: two would each have their flights, and `LiveNeverGoesBack` would not hold.  A `Fetch` is one step; that of a bracket is several queries in the code.  The private ETag
does not name the team of a team scope; `Vary: Authorization` keeps browsers apart.

### Sessions

Every statement that reaches the database is a step: `LoginRead` and `LoginCreate`; `RefreshRead`, `TakeLock`, `RotateFind`,
`RotateReplace`, `RotateCommit`; `LogoutFind`, `RevokeRows`, `RevokeCommit`; `ChangeRead`, `ChangeUpdate`, `ChangeAudit`,
`ChangeCreate`; and `Fail` ends a request anywhere.  `lock` is the advisory lock of the account's sessions, `rows` what the
`updateMany` of a revocation goes through: the rows committed when it began.  `boot` is a replica between counting
the super administrators and inserting one.  A password is its epoch.  `late` marks a session whose login read
the old hash before the change, `torn` a change that died between the new password and the revocation: the two ways a
session of an old password may stay, for `changePassword` is four transactions.

### RevisionStream

The database (`revision`, `active`) is bumped by `Commit` and `Activate`; `pending` publications settle into
`log` or are lost; `gone` is the prefix Redis forgot.  The connection does what `prepareEditionStream` does in
its order (cursor, then revision, then the baseline), reads events, looks the active edition up, and
reconciles on a timer.  `lookup` and `recon` hold the one query that `switchMap` keeps.  `told` and
`heard` are the client's: last revision and `Last-Event-ID`.

## The runs

| Run | Checks | Shows |
|---|---|---|
| `resent` | ExactlyOnce, PublishedAfterCommit, ImplementsLedger | a request, its resend through `active`, an activation, a crash anywhere: one mutation, nothing announced before its commit, the ledger implemented |
| `rivals` | NoStaleCommit, AnswersAreReceipts, EveryRequestAnswered | one key across actors, routes and editions, rows locked in opposite orders: no stale commit, no foreign answer, everybody is answered |
| `match` | ScoreIsEarned, NoSetAfterTheEnd, ResultIsSound, NoWayBack | two devices on matches by sets, by periods with overtime, by declaration, under rules that are replaced; participants known or to come |
| `category` | EchoIsHarmless, StandingsAreCurrent, StructureFrozen, OperatedMatchesStay | setups that move groups, phases, seeds, participants and byes around matches under every match/update, result and correction, while an entry leaves the edition: what was operated stays, what is shown may be sent back, standings count what is official |
| `standings` | RankedByTheRegulation, KeyAgreesWithSeeding, BetterResultNeverLowers | all results of three phases, corrected in any order, under rules that change: the order of the regulation, the same qualifiers by label and by seed, no harm from a better result |
| `bracket` | WinnersAdvance, SeededOnce, EndsWithTheFinal, NeverStuck | three, four and five qualified, both crossings, third place, a published key, corrections in any order, setups that write any status |
| `ranking` | NothingScoresTwice, ScoresStand, OneClosureAtATime, SeedingRespectsChoices | awards in lists before and after closing, metrics removed and seeded again, disciplines deleted |
| `roster` | RostersFollowTheAthlete, NothingInUseDisappears, TeamsKeepTheirAthletes, NoEscalation | staff that comes and goes while admins and responsibles create and move an athlete of two teams and disciplines |
| `reads` | OneActivePair, CopiesAgree, RevisionTellsTheView, LiveNeverGoesBack | racing bootstraps, activations, results and shared rows under readers at every await |
| `stream` | NoEventPassedOver, RevisionNeverGoesBack, Converges | one client on an edition or on `active`, with lost, late and forgotten events |
| `sessions` | OneLivePerLogin, OldSessionsLeave, TokensNeverAhead, RevocationIsFinal | two requests at once on one account, interleaved and failing at every statement, beside a replica that boots |
| `half_key` | NoHalfKey | the [disagreement](#what-the-models-found): TLC finds the counterexample |

The type invariants (`TypeOK`) are in no run: they are proved where there are proofs, and in `Bracket` it holds in the
same instance when named as INVARIANT.

### Bounds

- `Request`: three deliveries, two editions.  Two make the overlap and the resend, the third
  switches the alias or makes the rivals outnumber `MaxAttempts = 2` (the code has 3: the
  smaller number lets exhaustion happen).  `MaxCrashes = 1`: one crash is already free in time and hits all
  that is in flight; the rivals run has none, for it is about waiting.
- `Actor`: two devices, interchangeable (symmetry; no liveness is checked there).  `MaxTime = 1` with
  `Lease = 0`: a tick stands for more than the lease, so a lock is fresh or expired and an operator may renew.
  `MaxEvents`, by the mode of the regulation, is 3 by sets (the shortest match by best of three has 2 points,
  then one is undone) and 2 elsewhere; `MaxScore = 1` bounds scores typed in, enough for ahead, behind and tied.  The small
  regulations (`BestOfThree`, `LongSet`, `Football`, `Judo`) differ in what the code branches on.  `MayBecome` says what may replace
  what: one set to win becomes two, and declarations become goals by the clock where a tie may stand.  That is once per
  behaviour; the proofs have any replacement, any number of times.
- `Entry`: three for a category, as many as it takes to have one outside of a match and one outside of a setup.
  The four setups differ in what the code branches on: one group before a knockout, two phases that repeat the name of a
  group with a bye, a league that still names a group with one participant less and one without seed, a draft of nobody.  Two matches: one
  whose identifier a generation replaces and one it does not.  One entry may leave the edition (`MayLeave`), and matches are
  made with two pairs of sides (`Pairs`), one of which is still to be decided on one side.
- Five entries for the knockout, two tables that agree nowhere.  Four is the power of two, three and five have byes in the
  first and, for the sequential crossing, in later rounds; rounds and slots need no bound, for the entries give it.
- The regulations of `standings` are three shapes of the code's table, and each phase asks one question: `Four`, where all
  meet, ties three entries or two pairs; `Two` has groups of different size, a match scheduled without its group and rules
  that change to a mini-table in the middle or a criterion nobody knows; `League` still carries the groups of its past.
- `ranking`: two default metrics and one of the operator's, two disciplines, three awards in lists of up to two
  (`MaxList`), two closures (`MaxClosures`): a list repeats itself, or an award that stands, or none.  Of `Roster` the
  instance has the first super administrator alone and no athletes, for `roster` checks those.
- `roster`: the first super administrator and two interchangeable accounts, two disciplines, one of them of another edition
  too, two teams, one of the global catalog, one athlete; at most three assignments and super administrators in all
  (`MaxGrants`).  One athlete is enough because no handler reads another's rows; proofs have any number.
- `sessions`: two interchangeable requests, one replica, `MaxSessions = 3` (a login, its replacement, and one login
  beside), `MaxChanges = 1`.
- `reads`: two editions of two interchangeable competitions, one team both may show, one browser, `MaxRevision = 3`.  Snapshots and
  flights share nothing but the database, so a behaviour has the one or the other (`OnePart`); the snapshot cache holds
  one entry at a time (`Room`: the others expired); snapshot reads go on over revisions up to 1, and where little may be said (`Simple`) the
  second edition has one revision more beside them, for its first result, which a snapshot of the other may miss; flights go on
  up to revision 2 in that simple world (`Early`), for they compare revisions and not contents.  The last revisions are for
  actions alone.  The proofs have none of these bounds.
- `MaxRevision = 2`, `MaxLog = 3` for the stream: out of order needs two events of one edition, a third one of the
  other.  What the log has no room for is lost, which may happen to any publication.

Deadlock is not checked where the system may stop: all deliveries answered, a deleted match, the bounds
used up.  A category stops when all its matches are official and two of its phases repeat the name of
a group, for then no setup is accepted (see [below](#what-the-models-found)).
Deadlock is checked in `bracket`, `ranking` and `roster`, where some action is always possible.

### Fairness

`ActionPipeline!FairSpec`: a delivery that arrived keeps being served (weak fairness of its own next
step): the event loop runs what is ready, PostgreSQL hands a lock over when it is free and kills one of
a cycle.  Arrivals, refusals, timeouts and crashes are not owed.

`RevisionStream!FairSpec`: EventSource reconnects and a request that runs is served (weak fairness of
`Connect`, `ReadRevision`, `Open`); the reconciliation timer fires (weak fairness of `Reconcile`).  The
next tick cancels the query in flight, so it is not continuously enabled: `ReadReconciliation`
and `AnswerReconciliation` have strong fairness, which says that not every query takes longer than the
interval of the heartbeat or fails.  Publication, events and lookups are not owed: `Converges` holds without Redis.

## What the models found

One statement of the repository that TLC refutes has a run of its own, `half_key`; `findings` in `PROJECT.json` quotes it.

1. `NoHalfKey`: a published match that is POSTPONED when the groups end keeps the first round undefined;
   the next result recounts it, the labels already replaced no longer resolve, and the seeding fills the
   rest: half a key from the organisation and half from the seeding, one entry in two matches.

Eight more are stated in the modules, at the end of their properties, and have no run; naming one in the `.cfg` given, as INVARIANT
or PROPERTY, produces the counterexample.

2. `EndIsCounted` (`MCMatchOperation`): `match/update` may take a live match
   to *Encerrada* without winner and without recalculation, which the comment on the disabled legacy writer forbids.
3. `SheetNeedsNoEvents` (the same): `recordResult` looks for registered events only while the match is live;
   postponed, it takes a sheet over them.
4. `PublishedKeyRules` (`MCBracket`, `Rules <- FourQualify`): correcting a result of the groups deletes the published key with
   its labels and dates; the recount seeds another.
5. `NoGhostMatch` (`MCCategory`): an update takes away a participant whose match is scheduled;
   the match stays with neither entry nor label on that side, which `schedule` refuses to create.
6. `TouchedMatchesStay` (`MCCategory`): a match that was started and then postponed no longer freezes the structure, while
   the deletion of the match itself is refused for it; an update may take its entries, or its phase and
   with it the match and its events.
7. `NoSetWonTwice` (`MCMatchOperation`, as PROPERTY): the comment in `registerEvent` (lines 708-710) says that a decided match by sets takes
   no point, which won the closed set again and wrote over its parcial.  When `discipline/update` gives a live, decided match more
   sets to win, the guard no longer holds it, the period is still that of the closed set, and the next point closes it again.
8. `EchoIsAccepted` (`MCCategory`): a comment of `parseSetup` (lines 296-299) accepts a field "para não recusar o que o próprio servidor emitiu".
   The snapshot of an individual category also shows entries whose athlete has left the edition, and byes of those no longer entered, and
   the server refuses both; and it refuses group names that repeat, as told below.
9. `RevisionTellsAll` (`MCPublicReads`, as PROPERTY): the first official result of an edition takes it out of planning, full snapshots of the
   other editions list that, and only the revision of its own moves; `edition/update`, which writes the same column, names all
   editions.  A browser that holds another edition's full snapshot gets a 304 for the old status until that edition's next revision.

What the properties leave out, because the code does:

- `ResultIsSound` names two places where an official result and its count part: an end through `match/update` and an
  `undoEvent` within the lease after the end, which the code neither refuses nor recounts.
- `ScoreIsEarned` and `NoSetAfterTheEnd` hold under rules replaced in the middle, but for `recast`: nothing in the code converts
  a score of sets into one of points, and more sets to win open a closed set again.
- `EndsWithTheFinal` and `NeverStuck` are about a status the progression wrote (`byHand`): a setup that says *Encerrado* ends
  the category before its final, and one still saying *Em andamento*, sent after the final, takes the end back until the next
  result is recounted; nothing is owed then.
- `RevisionTellsTheView` and `CopiesAgree` compare full snapshots but for whether another edition has begun (`Settled`); public
  ones are compared in everything.
- `EchoIsHarmless` says nothing refuses what is shown but an entry that left the edition (`found`) and a bye of somebody no
  longer entered, which the code refuses.  And it is for groups of different names.  Two groups of one name in different phases share their members
  with the later phase (`groupsByName`); once a match was operated, such a category refuses the very setup its
  snapshot shows.
- `StandingsAreCurrent`: regenerating official matches, and ending a live one by match/update, leave the standings as they were until
  the next result (`stale`).
- Nothing is claimed of a key from which a match was deleted (`deleted`).
- `BetterResultNeverLowers` is for regulations that compare the tied among themselves first or never (`HeadToHeadFirst`): with the
  mini-table in the middle, a better result may change who is still tied when it is drawn up, and lower the entry.  And it is
  for those that give more for a win than for a draw and more for a draw than for a defeat (`Rewarding`): standings of one's own
  are not held to it.  Where nothing is drawn only win and defeat count: `Basquete` has 2 for a defeat and 0 for a draw.
- `Standings` records results that `finish`, a sheet, a walkover or a correction decides, so a discipline that allows no draw has none;
  an end through `match/update` writes no winner, and is the first exception of this list.
- `OldSessionsLeave` excuses `late` and `torn` (above).

## What is proved

By TLAPS, for every value of the constants that the named assumptions of the modules admit.  A theorem's name is its
property's with `Holds`; every proof module starts from types, `TypeCorrect`.

**The write path** (`ActionPipeline_proofs`): `ExactlyOnce` and `NoStaleCommit`, for every set of editions, keys, bodies,
actors and deliveries, every bound on attempts and crashes.  `TypeInv` adds to `TypeOK` that an attempt is left to
whoever may begin one and that an edition is resolved from the moment its lock is asked for.
Both rest on one inductive invariant, `IInv`.  The route lock does not protect a reader by itself,
since his snapshot may be older than the wait; what does is the update of the rows.  So the invariant
says: the revisions of an open snapshot trail the database (`SnapshotsTrail`); while a row is unchanged since a
snapshot, so is the alias, and the snapshot lacks no receipt of a request that came in by that
edition, nor by the alias while it stood for it (`FreshRowsHideNothing`); a row that is locked does not change
(`RowsProtected`) and whoever may commit has locked all of his (`AllRowsTaken`), which is
`NoStaleCommit`; whoever passed the lookup by route found no receipt in his snapshot and runs in the edition
the snapshot resolves (`RouteChecked`); and a mutation applied has its receipt (`MutationsHaveReceipts`).
Whoever commits holds the fresh row of the edition his route resolves, so no receipt of his route is hidden from
his snapshot; the lookup found none with his key, so there is none, and no mutation either.  `CommitIsFresh` and
`CommitIsFirst` are these two steps; the `...Keeps` lemmas are one per kind of action.

**The ledger** (`ActionPipeline_proofs` too): `LedgerImplemented`, the refinement, and `AnswersAreReceipts`,
`PublishedAfterCommit`.  A commit is the ledger's entry, an answer is read off an entry, every other step stutters.
`LInv` adds to `IInv` that a delivery is answered once, that an edition has one receipt per key, that a receipt and a snapshot
never run ahead of the database, and that whoever is about to answer has a receipt he may quote.

**A match** (`MatchOperation_proofs`): `ResultIsSound`, `NoSetAfterTheEnd`, `NoWayBack` and `ScoreIsEarned`, for any regulation,
operators, lease and number of events.  `ResultIsSound` is inductive over the types alone: each way to end a match writes score, winner, tiebreak and
recount in one step, and what writes one of them later leaves its mark in `ending` or `late`.
`NoSetAfterTheEnd` rests on `SetsInv`, which bounds the sets of every standing an undo may put back too; sets that are
typed in end the match for good.  `ScoreIsEarned` is a statement about all events at once, so `EarnedInv` says how they hang
together: the standing before an event is the one after the last active event before it (`ChainInv`), and the sets of a score are the
parcials won (`SetsCount`).  An undo takes the last event back, so the chain loses its end only; a sum over the
chain, begun anew at a declaration, is then the recursion of `SumTo`, step by step (`PointsEarned`).  Rules replaced at any moment
leave all this as it is or leave their mark in `recast` (`SetsRules`, `ChainRules`, `SetsCountRules`), and before the first event
there is nothing to disagree with them (`Unbegun`).

**A category** (`Category_proofs`): `StructureFrozen`, `OperatedMatchesStay`, `EchoIsHarmless`, `StandingsAreCurrent`, for any
setups, and that `TypeOK` is inductive.  All rest on `FrozenReconcile`: a setup with the signature of what is stored is
written back as it was, though the signature lists the members of a group by phase and name and the writing finds the
phase by name alone, the last one that has it; that a member is in one group closes the gap.  Sending back what was
shown is this lemma for `Shown` (`ShownIsSetup`).  The standings depend on official matches alone (`StandingsDepend`),
which exist only in an operated category, and there the structure stays; what the operations on a match write are matches in the
structure, the operated ones where they were (`Operations`), and each recounts, leaves what is official as it was, or leaves `stale` (`WhatIsCounted`).

**A key** (`Bracket_proofs`): `WinnersAdvance`, `SeededOnce`, `EndsWithTheFinal`, `NeverStuck`, for any number of entries, any tables,
rules and published keys, and any order of results, corrections, updates and regenerations.  The first is not inductive: whether
a correction may cut the later rounds away and build them again depends on all that was built below them.
`BracketInv` is what every recount keeps of a key from which nothing was deleted (`KeyInv`):

- `KSound`: who won a match took part in it, and a match without both sides was not played.  Else a `Loser` is nobody's.
- `KTree`: a match of a later round has its two slots in the round before, so rounds follow one another and the last
  one whose participants are known (`Defined`) ends a chain that starts at round 1.
- `KOpening`: the slots of the first round are a row, no longer than the seeding makes it; a published round still
  labelled is of matches alone.  This is what lets the first round be recounted over an agenda.
- `KBuilt`: a round that has somebody in it is the draw of the winners of the round before, which is settled.  So a round
  is untouchable by result while a later one stands on it, and `Dependents` are exactly what stands on a match.
- `KThird`: a third place with participants is between the losers of two settled semifinals, the final being the last round.

`SeededInv` adds what is true of seeded keys alone: everybody in them is known, the first round is `SeedPairs` of the present
table, a category the progression ended (`Closed`) is `Over`, and one it did not end waits for something (`NotStuck`).  An ended one stays
ended because a correction leaves nothing to play (`CorrectedDecided`): no progression takes `FINISHED` back; a setup does, hence `byHand`.
`SeededOnce` is then about the seeding: either crossing puts each position up to n in one slot, on one side
(`Positions`), which for the mirrored one needs that `PowerAbove` is less than twice n; the recursion of `Power` is
resolved by `DoubledExist` and `DoubledAgree`.  `EndsWithTheFinal` follows an entry through the rounds: who sits in a round passed
from the one before (`GoesIn`), nobody has two seats (`OneSeat`), and who does not pass lost there
(`StaysBeaten`); so all but the last winner were beaten, and he was not (`LastStanding`).  TLC finds `KeyInv` and `SeededInv`
invariant on the instance of `bracket` too, with their rounds bounded.

**The stream** (`RevisionStream_proofs`): `NoEventPassedOver` and `RevisionNeverGoesBack`.  The invariant says that queries
live only on open connections (`LinkInv`), that no publication is ahead of the database (`Published`) and, on the route of an
edition, that what a connection holds is behind the database and what it told is what it holds (`Held`), and that a revision
emitted covers all events up to the cursor (`Covered`).

**Sessions** (`Sessions_proofs`): `OneLivePerLogin`, `RevocationIsFinal`, `OldSessionsLeave`, `TokensNeverAhead`, for any number of
requests, replicas, sessions and changes.  Everything about rows rests on `Exclusive`: between its first statement and
its commit a rotation or a revocation holds the advisory lock, so what it read stays, save for sessions that logins
add (`OnlyLoginsMissed`); the row a rotation replaces is live until it commits (`ReplacingLive`).

**Staff and rosters** (`Ranking_proofs`): `NothingInUseDisappears`, `RostersFollowTheAthlete`, `NoEscalation`,
`TeamsKeepTheirAthletes`, of `RosterSpec`.  The first is needed for the second: `syncRosters` goes through the disciplines on offer, and a row of a deleted
one would stay behind.  The last two are about one step and need types alone.  `RosterUndisturbed`: every behaviour of `Ranking`
is one of `RosterSpec`, so all four hold with the ranking beside them.

**The ranking** (`Ranking_proofs`): `NothingScoresTwice`, `ScoresStand`, `OneClosureAtATime`, `SeedingRespectsChoices`, for lists of
any length.  The first two are inductive together with the types.

**The tables of the phases** (`Ranking_proofs`): `RankedByTheRegulation`, `KeyAgreesWithSeeding` and `BetterResultNeverLowers`, of `StandingsSpec`, for any groups,
matches, results and rules.  `StandingsInv` says that the stored table is that of the last recount, of results the phase may have, under
a rule that counts in numbers.  The rest is about one table.  Sums are numbers, and a balance is bounded by the margin
(`SumsTyped`, `AccumulateTyped`), so that the value by which a mini-table is sorted orders as points and then balance do
(`PointsOutweigh`, `ValueIsMerit`).  `PlaceCounts` is the induction, from the last criterion to the first: the place `placed` gives
an entry among those it is tied with is 1 and the number of those above it by the remaining criteria; one step up, those in better
buckets are those above by this criterion, and the bucket of the entry is the next `TiedWith` (`AboveSplits`).  For the key,
`InOrder` lists a finite set in a strict total order and is the only list that does (`InOrderLists`, `ListedOnce`), points, balance, goals and
identifier are such an order (`BetterThirdOrders`), and a list whose gaps are left out may be taken apart where the labels of
groups end (`PresentExtended`): too few best next ones leave gaps by label and a shorter list by seed.

`BetterResultNeverLowers` compares two tables, of the results before and after (`Ranking_proofs`, "A better result").  A change in
favour of an entry leaves its row as good and everybody else's no better, in the table and in every mini-table (`NobodyElse`,
`CountsGrow`, `RowsFavoured`); points rise unless no winner changed (`PointsGrow`).  Then who is above the entry afterwards was so
before (`AboveShrinks`), in two cases.  Did its points rise, nobody who was not above it can even reach it.  Are they the same, then
everybody's are, in every mini-table as well (`WinnersTell`): the same entries are tied after the points, all later criteria but the
mini-table do not depend on who is tied (`MeritAlone`; here `HeadToHeadFirst` is needed), each is at least as good for the entry
and at most as good for the other, and the first that separates the two afterwards finds them tied or in that order before
(`AboveBefore`).  `StandingsInv` contributes that the last recount counted all results and that a decisive discipline has no draw.

**Editions and reads** (`PublicReads_proofs`): `OneActivePair`, `RevisionTellsTheView`, `CopiesAgree`, `LiveNeverGoesBack`, which build on
each other.  `Pair` gives the one active edition; with it a bootstrap that creates finds no edition, so that every step
counts what it changes (`Tells`, of snapshots but for what `Settled` leaves out); hence what is known of the current revision is what the database has, and what is known of an
old one never changes (`CopiesInv`); and the one flight of an edition brings nothing older than what was shown (`LiveInv`).

Only model-checked: liveness (`EveryRequestAnswered`, `Converges`); every other property of the passing runs is proved.  Out of this prover's reach are liveness under fairness and everything about ENABLED, and modules with
RECURSIVE operators; no module here declares one, for recursions are functions (`placed`, `Power`, `SumTo`).  The theorems of induction take an operator, which
no installed prover instantiates; where an induction over numbers is needed (`Power`, `SumTo`, criteria, the rounds of a key), `NatSet` and `CountUp` state it
over a set, and is proved from the well-foundedness of the numbers.

## What is not modelled

Of modelled components: parsing, formatting and audit texts; `attributeEvent` (authors of goals); venue and date of a match; in
`Bracket`, participants named by hand (`participanteDefinido`) and matches put into the key later; in the snapshots, the formatting of the mapper and the
variants of discipline and team scopes; expiry of tokens (a token that expired is one nobody presents); the operator
lock is a guard of every handler at the table (`Holds`), without a property of its own.

Components without a module: the connection limiter (counters of one process, taken and released in synchronous functions);
the listener that invalidates the public cache (`public-cache.listener`: no edition action emits its events any more); the
private stream of a match (it has no publisher among the edition actions); `standings/` (a read endpoint and a second calculator that
writes nothing); catalog reads and legacy resources (reads; mutations are answered 410 by `LegacyMutationGuard`); uploads (one
request against an external store); guards, filters and configuration (`common/`).  `PROJECT.json` says for each why.

## Plan

What is left, by weight:

1. `Bracket` with participants named by hand and matches put into the key later, which needs properties that say what a key is
   worth after such an intervention, and after a deletion.
2. Several processes: flights and limiters per process over one Redis.
