# Formal models of CYO Adventure

TLA+ specifications of the parts of this repository whose correctness depends on the order in
which things happen: several devices, promises that interleave, a network that loses and delays,
workers that are killed, transactions that hold locks, and people who act between two steps of a
program; and of the rules that judge a story, with the engine that judges and the engine a child
reads with. TLC checks each module on a small instance; TLAPS proves theorems about all of them for
every instance: the validator and its readers, the approval gate, generation jobs, the writing of a story,
the requests of a family, consent, reading time, offline copies and the sync of the reading position.

Paths below are relative to the repository's root (`src/…` is the Python package's directory,
`frontend/src/…` the web client).

## 1. The system

CYO Adventure is a web application for branching children's stories. A guardian asks for a story;
a worker generates it with language models; it is moderated; an admin approves it; children read
it in a browser that works offline and syncs what they did.

| Part | State it keeps | Operations | Talks to |
|---|---|---|---|
| Reader and sync (`frontend/src/reader`, `offline/sync.ts`, `offline/db.ts`, `hooks/useReplayOnReconnect.ts`) | position, revision, save chain (memory); cache and queue of writes (IndexedDB) | open, choose, save, queue, replay, adopt a conflict | reading API (HTTP, 10 s timeout) |
| Reading API (`api/reading.py`) | one `reading_state` row per child and story: revision, last event | put with revision check and event de-duplication | database |
| Reading time (`offline/readingTimeSync.ts`, `reader/useReadingTimeAccumulator.ts`, `api/reading_time.py`) | day buckets (IndexedDB); `reading_activity_day` rows | accrue, flush, retry; check, clamp, upsert | HTTP, database |
| Publication (`publishing/`) | `storybook.status`, served version, approver | submit, approve, send back, recall, archive | moderation report |
| Moderation (`moderation/`, `api/remoderate.py`, `api/node_edit.py`) | the report and the text of a version | screen, repair, screen again, edit a passage | classifiers and reviewer models |
| Generation jobs (`generation/queue.py`, `worker.py`, `worker_main.py`, `api/generation.py`) | `generation_job` rows; the RQ queue in Redis | enqueue, claim, run, record failure, sweep, force-fail | Redis, database, providers |
| Story generation (`generation/orchestrator.py`, `chunking.py`, `reading_level_loop.py`) | the document at hand, the gate's result of it, budgets | draft, fill, repair, Stage 1, Stage D, build the outcome | language models, validator |
| Story requests (`story_requests/`, `api/story_requests.py`) | requests; what a month cost is counted from them | ask, pre-authorize, approve, decline, plan | generation jobs, classifiers |
| Offline copies (`offline/revocation.ts`, `downloadBudget.ts`, `library/LibraryPage.tsx`, `reader/ReaderRoute.tsx`) | cached books, remembered hashes, shelves, places, names the books are read under | download, evict, reconcile | library API, personalization values |
| Story model (`storybook/`), player engines (`frontend/src/player`, `player/`) | the state of a reading | evaluate conditions, apply effects, choose, go back, continue a series, bookmark | none |
| Validator (`validator/`) | none | walk the states of a book, judge it and its place in a series | story model |
| Consent (`consent/`, `api/consent.py`, `api/kws_webhook.py`, `api/onboarding.py`, profile gates) | attempts, consent records, profiles | start, send, be answered, sign, create a profile | KWS (HTTP, webhook) |
| Skeleton mutation, diversity, flywheel | none or files | rewrite and score story skeletons | none |
| Notifications, covers, erasure, auth | rows; third parties | deliveries, uploads, deletes | external services |
| Core, middleware, db | sessions; one transaction per request | commit, roll back | PostgreSQL |

What is hard in it, and what makes each part correct:

* **Reading sync.** Live saves, replays, conflict adoption, timeouts with late arrivals, offline
  spells and tab deaths interleave at every `await`. Correct means: a save is applied at most
  once and in the child's order; a revision is only named together with a place that continues
  it, so no save erases progress it did not start from; a queued write is never dropped unsettled;
  a queue on an online device empties.
* **Publication and moderation.** Text and report change by repair, by edit and by a second
  moderation while status moves independently. Correct means: readers see what an admin approved,
  unchanged since; the report the gate reads is about the present text; an approval rests on a
  complete review.
* **Generation jobs.** A delivery may come twice, a run may be interrupted anywhere or killed, and
  reads see what is committed while writes wait for row locks. Correct means: a passed job has its
  screened story, outcomes are not rewritten, delivered jobs finish.
* **Reading time.** Accrual and overlapping flushes write back copies of one bucket. Correct
  means: buckets stay coherent, a racing retry is banked once, what a bucket has unsynced is settled.

* **Offline copies.** A download, its eviction of other books, two reconciliations with several awaits
  each and the server's changes interleave, and loads of the library overlap. Correct means: what may not be
  read any more leaves the device with the traces of its reading, and a changed text is replaced.
* **Stories.** The validator walks a story with one engine, a child reads it with another, going
  back, restarting, saving and continuing with what the last book left. Correct means: the engines
  agree, every reading was walked, and no published book can leave a child stuck.
* **Story generation.** Documents are replaced by repairs, revisions and rewriting after the gate spoke
  of an earlier one. Correct means: what is kept is what the gate cleared, a pass is earned, nothing
  clean is thrown away, and the model is asked a bounded number of times.
* **Story requests.** Adults decide at once and limits are counted, not kept. Correct means: nothing is
  built or enqueued twice, decisions stand, the limits hold as far as the counting allows.
* **Consent.** A lock is held over a mail's sending while other sessions commit; answers come late,
  twice and contrary. Correct means: mails are limited, no answer is lost or rewritten, and a profile
  rests on one adult who both signed and was verified.

## 2. Modules

| Module | Models | Checked by |
|---|---|---|
| `ReadingStateServer` | `put_reading_state` on its locked row, as operators on one record | `ReadingSync*` |
| `ReadingProgress` | abstract: the canonical place moves on along the choices, each save counts once | as `ProgressIsKept` |
| `ReadingSync` | devices, queue, replay, network, composed with `ReadingStateServer` | `ReadingSyncOne`, `ReadingSyncRestart`, `ReadingSyncTwo` |
| `ReadingSyncProofs` | theorems about `ReadingSync` | TLAPS |
| `StoryShelf` | abstract: what is on the shelf was put there by an admin and does not change there | as `ShelfIsKept` |
| `StoryLifecycle` | status, text, report and approval of one story | `StoryLifecycle`, `SkippedReview` |
| `GenerationJobs` | rows, RQ queue, workers, sweep and force-fail | `GenerationJobs` |
| `GenerationJobsProofs` | theorems about `GenerationJobs` | TLAPS |
| `Orchestrator` | the writing of one story: drafts, repairs, Stage 1, Stage D, the outcome | `Orchestrator` |
| `OrchestratorProofs` | theorems about `Orchestrator` | TLAPS |
| `StoryRequests` | requests of one family, the calls that decide about them, quota and envelope | `StoryRequests` |
| `StoryRequestsProofs` | theorems about `StoryRequests` | TLAPS |
| `StoryModel` | nodes, choices, conditions, effects, variables: the data and the evaluator of conditions | through `StoryReading` |
| `StoryEngine` | the Python engine (`player/engine.py`) and the check of a saved state (`player/replay.py`) | through `StoryReading` |
| `PlayerEngine` | the TypeScript engine (`player/engine.ts`), going back by replay included | through `StoryReading` |
| `StoryGate` | the walk of a book's states and the rules of layers 1 and 2 about finishing it | through `StoryReading` |
| `SeriesGate` | the rules of a chain of books, the hand-over of state among them | through `StoryReading` |
| `StoryReading` | publication through the gate, then a child at the player | `StoryReading` |
| `StoryProofs` | theorems about `StoryReading`, with the gate and the engines, and about `StoryLifecycle` | TLAPS |
| `LibraryShelves` | assignments, the page shown and the shelves a tablet knows: what the next two share | `OfflineCopies` |
| `OfflineCopies` | downloads, budget, library pages and their reconciliations on one tablet | `OfflineCopies` |
| `OfflineTraces` | places, queued writes and personalization values on one tablet, and their purge | `OfflineCopies` |
| `OfflineCopiesProofs` | theorems about `OfflineCopies` | TLAPS |
| `Consent` | starts, sends, answers, consent records and profile gates of one family | `Consent` |
| `ConsentProofs` | theorems about `Consent` | TLAPS |
| `ReadingTime` | buckets, overlapping flushes and the server's upsert | `ReadingTime` |
| `ReadingTimeProofs` | theorems about `ReadingTime` | TLAPS |
| `MC*` | model values, small sets and small stories for TLC | |

`ReadingSync` composes the device with `ReadingStateServer`; `StoryReading` composes the gate
(`SeriesGate`, which extends `StoryGate`, `StoryEngine` and `StoryModel`) with `PlayerEngine`; `OfflineCopies` and
`OfflineTraces` are two halves of one reconciliation over `LibraryShelves`. The other modules meet at rows of the database: a story that `Orchestrator` keeps is what
`GenerationJobs` inserts, moderation and approval of it are `StoryLifecycle`, and what is on the shelf
there is what `OfflineCopies` downloads and `StoryReading` reads.

An operator whose comment begins with *Fault:* is a plausible bug, defined next to what it would
replace and used by no specification. `PROJECT.json` lists, for every property of a passing run, the
fault that breaks it, and for every definition the source lines it stands for.

### ReadingSync

A reading position is the sequence of choices that led to it, each choice ever made having an
identifier of its own; this is all that tells one saved content from another. Every action is the
code between two awaits:

* `OpenFromCache/Server/Afresh` are `ReaderPage`'s `load`, with the mount's first save and flush.
* `Choose` is `handleProgress`; `Emitted` is `persist` up to its first await (signature check and
  place in the save chain).
* `BeginSave`, `InspectQueue`, `SaveFails`, `Enqueue`, `SaveAnswered` are the rest of `persist` and
  `saveProgress`.
* `ListPass`, `DropHeldBack`, `SendItem`, `DrainFails`, `ReplayAnswered`, `EndDrain` are
  `replayQueue` and the hook that runs it; `rerun` is the hook's note that a trigger came in.
* `Handle` is the whole PUT under its row lock; `Refuse` is any HTTP error of it. `GiveUp` loses
  the answer and leaves the request lost or still on its way.
* `Kill` closes the tab: IndexedDB stays.

The mirroring of an answered write into the cache and its removal from the queue, two awaits of `replayQueue`, are one
step (`ReplayAnswered`): killed between them, the write would be sent again like one whose answer was lost.
Left out: version pinning, save slots, several tabs of one browser (and so the Web Lock), wall
clocks in the order of the queue, the conversion of a unique violation into a conflict. React's
re-mount after an adopted conflict is one step with the adoption.

### StoryLifecycle

Each handler locks the storybook row from its first read to its commit, so it is one action. A text
is how often each passage was rewritten. `AllStages` is every report the pipeline can make:
`ClassifierBlocks` (a bright line crossed, the reviewer sees nothing) or `Reviews` (any verdict on any
passage, passages without a usable answer, whole-story findings). `Pipeline` adds the one bounded
repair (`AdoptRepair`); `Moderate`, `Remoderate`, `Edit`, `Submit`, `Approve`, `SendBack`, `Recall` and
`Archive` are the handlers. `Permits` is what approval asks of the report, `ScreenPassage` what an edit does
to it. `basis`, `judged` and `approvedText` are history variables.

Left out: visibility and the series gate (they only narrow `Approve`), a reviewer that is not
independent of the generator or a mock (its reports are unusable at the gate, which also narrows it), legacy report shapes, coherence findings (an edit does not re-run that stage; the
whole-story findings simply stay), and the admin's view of the review surface.

### GenerationJobs

A run is one transaction: `Flush` takes the row's lock with an UPDATE that nobody else sees, and
`Commit`, `Screen`'s failure, `Interrupt`, `PipelineFails` and `Kill` release it. Every way out but `Commit` and a
delivery that owns nothing leads through the finally guard (`Rescue`, `RecordFailure`), in which an error or the job's
timeout may strike as well (`GuardFails`): it then writes nothing. A guard
`lock[j] = Nobody` is an UPDATE that waits; a read looks at `status`, which is what is committed (READ
COMMITTED, no version column). `PostConcept` and
`PostPlan` are the two endpoints; `EnqueueShared` is RQ with the row's id and `unique=True`,
`EnqueueFresh` without either. `ForceFail`/`ForceFailed` are the read and the write of one request.
`held`, `Forget` and `RedisLoses` stand for RQ and Redis, of which the models assume that an id is
known at least while its job is queued or runs.

Left out: what a run generates (an outcome is chosen), the family cap and quota in front of the
enqueue, manual fulfilment, retries an operator starts.

### ReadingTime

`Open`, `SettingsRead` and `Leave` are what happens to the reader that mounts the hook: only one that is shown and knows
of no pause has a timer that credits time and flushes; leaving it makes one more flush, which goes on without it. A
reader whose page is hidden does what one does that is left, so the two are one, and it is opened when it is shown again. `Tick` and `Accrue` are the read and the write of `accrueReadingTime`; `List`,
`Attempt`, `Answered`, `Rejected` and `FlushFails` are `flushReadingTimeBucket` between its awaits, each on the
copy it listed; `Check` and `Bank` are the server's precheck and upsert. Time is counted in stretches no longer than the
clamp's grace, so a clamped flush still settles one. `UnsyncedIsFlushed` speaks of what a bucket says it has unsynced:
a stretch that a stale copy has overwritten is in no bucket and is lost, as section 3 says of `offline/db.ts:133`. Left
out: idle detection, the date window, the later days of one flush (buckets are independent).

### Orchestrator

`stage` is the program counter of `generate_story`, `fill_skeleton` or `fill_skeleton_batched`; a document is one of a
set of which the constants say whether the gate blocks it, flags it or finds it too short. `Structure`,
`Prose`, `Fill`, `BatchMerged`, `Filled`, `BatchRejected` and `NoRoom` are the first drafts of the three paths; `Enter`, the
`Decide*` actions and `Repair` are `_run_repair_loop` (`previous` is its signature of the last findings and
document, which ends a loop that makes no progress); `LevelPass`, `LevelDone` and `Splice` are Stage D;
`Build` is the outcome with its downgrades, `Reinsert` the worker's sentinels and second gate, `Raise` every
exception. `judged` and `context` say of which document, and as what, the present gate result is;
`calls` and `checked` are history. Left out: prompts, providers, the wording of findings (an ERROR, a
retained directive and SAFE-14 are told apart), and sentinels as text: `Reinsert` may give any document that has
directives if and only if the one before had, the skeleton included when that was an echo of it.

### StoryRequests

Every endpoint is a transaction that locks the request row with its first read (`LoadScoped`) and looks
at the family's other rows without a lock: `call` is where it stands, and each read is a step of its
own. `Create` to `CheckFamily` are a child's request with its pre-authorization, `CreateAuthored` an adult's,
`Approve`, `Decline` and `Plan` the decisions, `EnforceFamilyQuota` and `BuildConcept` what an approval
passes through, `Commit`, `CommitPlan` and `Fail` the ends; `FindJob` is the plan's look for a job there is.
`GenerateConcept` is a guardian's direct generation of a concept, which looks for none: `jobs` has the jobs of each
concept in order, and by which of the two ways they came. `raced` is history: the limits are counted from committed rows, so calls that overlap may each
add to a bound once, and the properties say so. Left out: the text and its screening verdicts, anchors,
series, restriction and the choice of a skeleton, which only narrow these.

### StoryModel, StoryEngine, PlayerEngine, StoryGate, SeriesGate, StoryReading

`StoryModel` has a story's nodes, choices, effects, variables, envelope and series block, and `Evaluate`
for conditions. A condition is the sequence of its terms, each after the terms it is built from, so that its value
is a recursive function of the place and no operator has to be recursive. `StoryEngine` and `PlayerEngine` translate
the two engines separately, clamp, once-only effects, visible choices and replay, so that `EnginesAgree` compares
two translations and not one with itself. The conditions are not part of that comparison: both engines use the one `Evaluate`. `StoryGate` has the breadth-first walk (`Walk`, which expands the last
round's discoveries until the cap is passed or nothing is new), reachability, dead ends, ending kinds and loop
escape; `SeriesGate` the character rules, the order of the books and what a book hands over to the next
(`TriedExits`, `CheckHandover`). In `StoryReading` a book is published only if the gate lets it through, and
`applyChoice`, `applyBack`, `reset`, `applySaveBookmark`, `applyLoadBookmark`, `applyDeleteBookmark`, `OpenAs` (a
character) and `ContinueSeries` are the events of `machine.ts` and the reader. `Tried` says of a continuation that the gate has
tried it: SR-9 enters a book with the exits of the one before it, walked as a fresh read, of which it takes at most
`MaxEntryStates`. Numbers are integers; where Python and the browser's doubles part, at 2^53 - 1, the server refuses the
save (`IsSafe`; literals are capped at 10^9, `storybook/condition.py`). Left out: rules over prose, reading
level, bands, shape and budgets (tables over text), and what the schema asks beyond `SchemaOk`.

### OfflineCopies

`FetchStory`, `checkDownloadBudget` and `WriteStorybook`/`WriteFails` are `cacheStorybook` between its awaits;
`RequestShelf` and `ReceiveShelf` a load of `LibraryPage`; `putProfileShelf`, `UniteShelves`, `ListUnneeded` and `PurgeBook`
are `reconcileOfflineCache`, `CompareCached` and `EvictStale` are `evictStaleOfflineBooks`, and the two run side by
side. A load is begun as the library opens and whenever the device is online again, also while earlier ones still
run: each has a slot. A text is a number; `late` is history: a book whose text changed between fetch and
write, of which the code cannot tell that it is old. `EvictStale` has the deletes of the stale copies and the write of the
remembered hashes in one step.

`reconcileOfflineCache` takes away more than copies, and `OfflineTraces` is the rest of it: the reading states and queued
writes of the profile (`PurgePlaces`, with the list and the deletes in one step) before the shelf is put down, and the personalization values, a child's
name kept for a book, at the end (`ListNames`, `PurgeName`). `Persist` leaves a place; `Read` asks the server for values as a
reader opens and `NamesArrive` is `reconcilePersonalizationValues`, whenever the answer comes. What the server tells
(`Told`) is what held as it was asked. Copies on the one side and places and names on the other are read and written by
different steps of the function, which have only the shelves and the pages in common; both modules have those
(`LibraryShelves`), and run side by side: a behaviour of `MCOfflineCopies` is one of the one or one of the other (`part`), in one
of the scopes its configuration lists.

Left out: covers, audio, several tabs, more than one download at a time, the downloads of the next book of a series,
deletes that IndexedDB refuses, what a sign-out or a switched-off feature clears, and the values an older version kept
without a reader, which are always deleted.

### Consent

A start runs `BeginStart` (the row of user locked), `CheckLimits`, `RecordAttempt` (a session of its own,
whose foreign key must share the locked row), `Send` and `ResolveAsSendFailed`; `Receive` is the webhook,
`BeginConsent`/`RecordConsent` the onboarding's read of the evidence and its write, `CreateProfile` and
`CreateAdminProfile` the two gates. Lock modes are PostgreSQL's (`Grants`). `Restart` ends all requests where they
stand and may bring the production environment. Left out: accounts and sessions, delivery-health reports,
and the setting under which no verification is asked for.

## 3. Runs

All passing runs finish within four minutes on two cores. Deadlock is checked in `OfflineCopies`, where
some page can always be opened, and in no other: a child may stop choosing, a story may stay
archived, a generation ends, and all bounds may be spent.

Some invariants of a run are checked as one named conjunction of a type invariant with a relation the
other properties lean on: `SyncInv` (`TypeOK`, `BasesAreAncestors`), `DeliveryInv` (`TypeOK`, `DeliveredOnce`),
`BucketInv` (`TypeOK`, `BucketIsCoherent`), `ReadingInv` (`TypeOK`, `ReadingIsWalked`), `RequestInv` (`TypeOK`,
`BuiltOnce`, `PlannedOnce`), `ConsentInv` (`TypeOK`, `EvidenceHolds`).

| Run | Instance | Shows |
|---|---|---|
| `ReadingSyncOne` | 1 device, 3 choices, 5 saves, 2 timeouts, 1 HTTP error, 1 offline spell | `SyncInv`, refinement of `ReadingProgress` |
| `ReadingSyncRestart` | 1 device, 2 choices, 3 saves, 1 of each fault and 1 kill, fair | `SavesLandInOrder`, `QueuedWritesAreSettled`, `QueueDrains` |
| `ReadingSyncTwo` | 2 devices, 2 choices, 4 saves, 1 offline spell, symmetric | refinement of `ReadingProgress` across devices, with conflicts |
| `StoryLifecycle` | 2 passages, 2 admins, each passage rewritten twice | `PublishedAsApproved`, `ReportSpeaksOfText`, refinement of `StoryShelf` |
| `GenerationJobs` | 1 job of either endpoint, 2 workers, 3 faults (kills, Redis losses, failures inside the finally guard), fair | `DeliveryInv`, `PassedHasScreenedStory`, `OutcomesStand`, `DeliveredJobsFinish` |
| `Orchestrator` | 7 documents, 3 repairs, 2 passes, 3 batches, 1 retry | `KeptIsCleared`, `PassedIsEarned`, `SkeletonIsNoBook`, `CleanIsKept`, `SpendIsBounded` |
| `StoryRequests` | 3 requests, 1 pre-authorized child, 2 calls, quota 1 with 2 months or quota 2 with 1, envelope 1, pending cap 1, direct generations up to 2 jobs | `RequestInv`, `LimitsHold`, `DecisionsStand` |
| `StoryReading` | about 2,500 small stories, with and without variables, and chains of two, 4 nodes of path, 1 bookmark, cap of 16 configurations | `ReadingInv`, `ReaderCanFinish`, `ContinuationIsWinnable`, `SavesAreAccepted`, `EnginesAgree` |
| `OfflineCopies` | 2 profiles, 2 books of which 1 is opened and changes; of the copies: 2 children, 1 load at a time and either 2 assignments or 1 change of any kind, or 1 child with 2 changes of any kind and 1 load or 1 change and 2 loads; of the traces: 2 children, 1 change, 1 answer and 1 load, or 1 child, 2 changes, 2 answers and 2 loads, or 2 children, 1 change and 2 loads without answers; fair | `TypeOK`, `WithdrawalCompletes`, `StaleCopyLeaves` |
| `Consent` | 2 adults, 2 requests at once, 2 attempts, window of 1, cap of 1, 2 ticks, 1 profile | `ConsentInv`, `MailIsLimited`, `AnswersAreKept`, `RecordsStand`, `ProfilesNeedAParent`, `StartsGoThrough` |
| `ReadingTime` | 1 device, 2 overlapping flushes, a reader that is opened, paused, hidden or left, 2 stretches, 2 flush ids, 1 fault, fair | `BucketInv`, `RetryIsBankedOnce`, `UnsyncedIsFlushed` |

Why the bounds are enough. In the sync model three choices let a write be in the queue, one on its
way and one in the save chain at once, and five saves cover the mount's save and an adoption's. A
position matters only by prefix, so more choices repeat the same comparisons; two devices are enough
for a revision to be somebody else's. Two passages are enough for one to be edited while the other
is not reviewed, and two rewrites for repair and edit to follow each other. Jobs share nothing but workers and Redis, so
one job with two workers shows two deliveries of a row; three faults let a job be lost, swept up and
its next run killed. Two flushes are what one reader has at most under way for long: the timer's and
that of leaving; two stretches let one be accrued while the other is being flushed.

The seven documents of `Orchestrator` are one of each kind the gate and the fill rate tell apart, and two clean ones so
that a revision can replace one by another; the budgets are the code's own, but for the batches.
`Flagged` is empty as in the code, where `validator/safety.py` is a stub. Three requests let two calls
overlap while a third was decided before; a quota of two leaves room for one overlap to be counted.
The stories of `StoryReading` are all combinations of a shape of four nodes with at most one effect and
condition per place, over gems and a key, over a character's might, and without variables (tier 1), so that a clamp, a once-only effect, a hidden choice, a loop that spends its
own way out and a state handed to the next book all occur; four nodes of path pass the loop once.
In `OfflineCopies` the second book is there to be evicted and found stale, two changes are a withdrawal and
a rewrite in either order, a withdrawal and a return, or the withdrawals from two children; two loads are an older and a newer shelf, or two siblings'; two answers are one with
a name and a later one without. In `Consent` window and cap are set so that with two attempts each of the two
limits is once the only one that refuses; two adults let evidence and signature be different people's.

The run that must find a violation, of a sentence in the repository (quoted in `PROJECT.json`,
`findings`):

| Run | Claim | What happens instead |
|---|---|---|
| `SkippedReview` | no approval rests on a review that skipped part of the story (ADR-005) | classifier block, edit of that passage, approval without override |

Other sentences the models disagree with were met while modelling. They have no run of their own; the
properties above are stated so as to except them, each exception named in the module or in a hazard's note:

* "A 409 means another device advanced the revision" (`offline/sync.ts:225`): a device's own replayed
  write makes its next save conflict.
* Queued progress "lands as a chain" (`offline/sync.ts:405`): after a kill in mid-replay an older place
  is rebased over a newer one.
* An edit can withdraw a coverage gap (`api/node_edit.py:481`): the gap is filed under the pipeline and
  stays.
* Force-fail "never rewrites a real outcome" (`api/generation.py:580`): it reads the row as queued, waits
  for the run's commit and overwrites it.
* A bucket's seconds never decrease (`offline/db.ts:133`): a flush writes back the copy it read.
* A reading with a bookmark is saved like any other: `player/engine.ts:436` puts the bookmark into
  `save_slots`, which `player/replay.py:126` refuses unless it is empty.
* "Layer 2 has no meaning for Tier-1 stories" (`validator/layer2.py:128`): a condition of literals alone, which the
  condition language allows, may hide the only way on in such a story, and nothing walks it. `ReaderCanFinish` is
  stated for stories whose choices the gate can judge (`Judged`).
* Going back in a continued book replays it from its start node without what was carried into it
  (`player/engine.ts`), so the reading may leave the walk it was judged by for that of a fresh read;
  `ReadingIsWalked` allows both.
* A start's lock delays no other request (`api/consent.py:275`): an onboarding's UPDATE of the row waits for
  as long as the sending takes.
* "A total failure should not depend on a rule" of the gate (`generation/orchestrator.py:673`): an echo of the skeleton
  without its sentinels is not equal to it, and once the worker has put them back (`generation/worker.py:1181`) only the
  gate's rule on directives keeps it from being a book.
* The lock on a request prevents "a double paid generation" (`api/story_requests.py:970`): of plans and approvals. A direct
  generation (`api/generation.py:313`) takes no lock and looks for no job, so a concept may be paid for again after a plan,
  or between the plan's look and its insert.
* A clean fill is "never discarded" (`generation/orchestrator.py:1872`): if the last repair Stage 1
  asked for does not parse, its synthetic result replaces the clean one.

## 4. Fairness

* `ReadingSync`: weak fairness of a device's save steps and drain steps (promises and IndexedDB
  operations settle; a request fails by its timeout) and of the server's handling. Nothing makes
  the child choose, reopen the reader or come online. `QueueDrains` excepts runs in which a request of an
  online device timed out: the code then has no further trigger of its own.
* `GenerationJobs`: weak fairness of each worker's steps and of its start (`restart_policy` in
  `docker-compose.prod.yml`; `job_timeout` bounds a run). Nothing makes a client post, an enqueue succeed or
  RQ forget an id. `DeliveredJobsFinish` excepts faults that come after the delivery it speaks of (kills, losses of Redis, failures
  inside the finally guard): a claim is not committed, so the row of such a run is `queued` again and only a later
  worker's sweep picks it up. Faults before the delivery excuse nothing.
* `ReadingTime`: weak fairness of accrual's write, of the timer's flush while the reader is shown and not paused, of the
  steps of a flush that has begun, and of the server. Nothing makes a child open a reader, hide or leave it: that one is shown
  again and again is the condition of `UnsyncedIsFlushed`. Faults are bounded and need no exception.
* `OfflineCopies`, `OfflineTraces`: weak fairness of a download's steps and of each reconciliation's steps (fetches and
  IndexedDB operations settle). Nothing makes an answer with a name arrive, a child open a library or the server change anything: that
  the family keeps looking at its libraries is a condition in the properties.
* `StoryLifecycle`, `StoryRequests` and `Consent` have no liveness: every step is a person's or a third
  party's decision. `StoryReading` states that an ending can be reached, not that a child reaches it.
  `Orchestrator` ends because its calls are bounded.

## 5. Proofs

TLAPS proves, of each module named here, for every value of its constants:

| Module | Theorem | States | Assuming |
|---|---|---|---|
| `StoryProofs` | `ReadingTypeCorrect`, `ReadingWalked` | `ReadingTypeOK`, `ReadingInv`: every reading there can be is one the gate has walked | `ReadingAssumption`, `GateAssumption` |
| | `NoReaderIsStuck` | `ReaderCanFinish`: from every reading of a published book an ending can be reached | `ReadingAssumption`, `GateAssumption` |
| | `ContinuationsCanBeWon` | `ContinuationIsWinnable` | `ReadingAssumption`, `GateAssumption` |
| | `SavesAccepted` | `SavesAreAccepted`: the server takes every state the reader saves | `ReadingAssumption`, `GateAssumption` |
| | `SameEngines` | `EnginesAgree`: the two engines are one | `ReadingAssumption`, `GateAssumption` |
| | `ReaderInvariant` | `ReadingSpec => []ReaderInv`, the inductive invariant of these | `ReadingAssumption`, `GateAssumption` |
| | `TypeCorrect`, `PublishedAsApprovedAlways`, `ReportSpeaksOfTextAlways` | the invariants of their names | `ConstantsAssumption` |
| | `ShelfKept` | `Spec => Shelf!Spec`: the refinement of `StoryShelf` | `ConstantsAssumption` |
| `OrchestratorProofs` | `TypeCorrect`, `SpendBounded`, `KeptIsClearedAlways`, `SkeletonIsNoBookAlways`, `CleanIsKeptAlways` | the invariants of their names | `OrchestratorAssumption` |
| | `LevelNeverBlocksAlways` | Stage D never turns a story into one the gate blocks | `OrchestratorAssumption` |
| | `PassedIsEarnedUnflagged` | `PassedIsEarned` | `OrchestratorAssumption`, `Flagged = {}` |
| `StoryRequestsProofs` | `TypeCorrect`, `BuiltOnceAlways`, `PlannedOnceAlways`, `RequestInvAlways` | `TypeOK`, `BuiltOnce`, `PlannedOnce`, all three | `RequestsAssumption` |
| | `LimitsHoldAlways` | `LimitsHold` | `RequestsAssumption` |
| | `DecisionsStandAlways` | `DecisionsStand` | `RequestsAssumption` |
| `GenerationJobsProofs` | `TypeCorrect`, `PassedHasScreenedStoryAlways`, `DeliveredOnceAlways`, `DeliveryInvAlways` | the invariants of their names | `ConstantsAssumption` |
| | `OutcomesStandAlways` | `OutcomesStand` | `ConstantsAssumption` |
| `ReadingTimeProofs` | `TypeCorrect`, `BucketIsCoherentAlways`, `BucketInvAlways`, `RetryIsBankedOnceAlways` | the invariants of their names | `BoundsAssumption` |
| `ReadingSyncProofs` | `TypeCorrect`, `SavesLandInOrderAlways` | the invariants of their names, kills included | `BoundsAssumption` |
| | `QueuedWritesAreSettledAlways` | `QueuedWritesAreSettled`, kills included | `BoundsAssumption` |
| | `BasesAreAncestorsWhileOpen` | `Spec => [](used.kills = 0 => SyncInv)` | `BoundsAssumption` |
| | `ProgressIsKeptWhileOpen` | `Spec /\ [](used.kills = 0) => ProgressIsKept`: the refinement of `ReadingProgress` | `BoundsAssumption` |
| `ConsentProofs` | `ConsentInvAlways`, `AnswersAreKeptAlways`, `MailIsLimitedAlways` | the invariants of their names | `ConsentAssumption` |
| | `RecordsStandAlways`, `ProfilesNeedAParentAlways` | the action properties of their names | `ConsentAssumption` |
| `OfflineCopiesProofs` | `TypeCorrect` | `TypeOK`: what is downloaded, kept and remembered | `ShelvesAssumption` |

**StoryProofs, the reader.** The assumptions are that the library holds documents (`IsDocument`, what parsing gives) and
that the caps are positive; the stories themselves are arbitrary, sound or not. What makes them sound is that they were published:
`ReaderInv` says that every book on the shelf is `Publishable`, that a reading began in one of the three ways
(`OriginOk`), and that the reading and each bookmark are in `Reached`, states whose path ends where the reader is and
whose configuration is in the walk the start was judged by or in that of a fresh read. The steps to it:

* *Recursion.* Conditions, effects, walks, replay and searches are recursive functions over an interval, of which the prover knows
  only `CHOOSE`. `LeastNatural` gets least elements from the library's well-founded order of the naturals, `Induction` is
  stated over a *set* of naturals, and `Recursion` builds the function step by step, so that it exists and its equation may
  be used. `ApplyAllSteps`, `WalkInSteps`, `ReachingInSteps`, `ClosureInSteps` and `AheadInSteps` are its uses.
* *Engines.* `EffectApplied`, `NodeEntered`, `ChoiceTaken` and `ReadingStarted` show of each operation that the TypeScript one
  equals the Python one and that the variables stay of their type and within their bounds, for every story the
  gate lets through (`Sound`, from layer 1). `EnginesAgree` and `SavesAreAccepted` come from these.
* *The walk.* A walk in as many rounds as its cap has passed the cap or has nothing left to expand (`WalkDone`: each
  round that is not the last adds a configuration). A configuration stands for all readings with its key (`KeyFollows`),
  so a walk that is whole is closed under choices (`ReachedClosed`). Going back replays into the fresh walk
  (`RunsReplayed`, `WentBack`).
* *The series.* The chain the series rules judged is the one the child reads (`IndexesInOrder`), so what a
  book is finished with has been tried on the next one (`HandedOver`).
* *The way on.* In a whole walk without dead ends and without loops that have no escape there is an ending ahead of every
  configuration (`EscapeLiesAhead`); a character's walk is that of the envelope state it is clamped to
  (`CharacterWalkEscapes`), where CH-3b found no regression; a story of tier 1 has the graph (`GraphLiesAhead`). The
  child's engine follows: what the walk finds lies ahead of the reading (`WalkLiesAhead`), within the horizon.

The child's path is bounded by `MaxPath` in the actions, for TLC; the theorems hold for every bound.

**StoryProofs, the approval.** `ConstantsAssumption` says only that the values for "no approver", "no
report" and "no text" are not approvers, reports and texts. The invariant is `IInv == TypeOK /\
PublishedAsApproved /\ ReportSpeaksOfText`. Neither safety property is inductive alone: that an edit
keeps the report about the text needs that a story that can be edited has a report, which is the
conjunct of `TypeOK` tying `report` to `status`; that a published story stays as approved needs that
a remoderation of it may not repair, which is lemma `PipelineEffect`. `StepIInv` has one step per
action; the four temporal theorems follow from it by PTL.

**OrchestratorProofs.** Here each property has an invariant of its own, and each builds on the one
before it:

* `TypeInv` is `TypeOK` with `PhaseInv`, what the budgets have left while a draft is written and when a repair
  is about to be asked for. Types are proved by groups of variables (`WorkType`, `LoopType`, ...) with frame
  lemmas, since few actions touch each group.
* `SpendInv` bounds the calls so far by the part of each budget that is used; it is exact while drafting,
  where the retries are shared.
* `GateInv` is `JudgedAsFill` (once the draft is there, a result that does not block was reached as a
  fill's) and `OutcomeInv` (what is kept is clean, and so is the gate's last word).
* `CleanInv` says that an outcome built of a clean result is kept.
* `EarnedInv` has `RepairInv` (the signature kept for the stop test is that of the document at hand, and an
  unblocked document is repaired only because Stage 1 missed something), `RevisedInv` (only unblocked
  documents are revised and spliced) and `FaithfulInv` (what leaves the loop is blocked, has missed, or
  was found faithful) beside `PassedIsEarned`, which speaks of the end only. It is proved for
  `Flagged = {}`, the code as it stands: `validator/safety.py` is a stub that flags nothing. With a flag
  Stage 1 is not asked, and a revision might lose the flag afterwards.

**StoryRequestsProofs.** `IInv` is `RowsInv /\ CallsInv`. No property holds by itself because a call
writes what it read some steps before; the invariant says what makes that safe: two calls
never hold the same row (`Exclusive`), and the row a call holds is in one of the states that
`Held(stage)` allows at its stage, so that what it goes on to write is a first decision. For `PlannedOnce` the
same is said of jobs (`PlanningInv`): a call that has found none holds the row, and no plan's job comes meanwhile.

`LimitsHold` counts rows, and a count alone is not inductive: a call that has been let through adds to it
later. `LoadsInv` therefore bounds a *load*, the rows that count against a limit together with the calls that
are on their way to become such rows (`SpendingIn`, `AutoingIn`, `AskingOf`). A call's look at a limit is the only
step that adds to a load, and what it saw is less than the limit by the other calls at most; a call that lands
moves from the one set to the other. `RacedInv` (calls are alone until two of them overlapped) turns "the other
calls" into `Overlap`, so that without a race the limits are exact, and `GrantsInv` says what a call must have passed at
its stage, for the limits that are zero. The counting is done once, in `LoadShrinks`, `LoadLands` and `LoadChecked`.

**GenerationJobsProofs.** `TInv` is `RowsInv /\ WorkersInv`: types, a row is locked exactly by the run that
has claimed it and not ended, and a run that is being moderated, or will commit "passed", has inserted
its story (`PromiseOK`). Every step of a worker is shown to be one relation, `Becomes`, so that
preservation is proved once and not once per action. `PassedInv` needs no more than that. `DInv` is about
a concept's job: while Redis has lost nothing the job is in `held` as long as a delivery of it is queued or
with a worker, there is at most one such delivery (`OneDelivery`), and a run that may still write the row has
not seen an outcome in it (`Standing`). Uniqueness is RQ's only through `held`, which is why both are excepted once
Redis has lost something.

**ReadingTimeProofs.** Flushes and accruals write back copies of a bucket read earlier, so the invariant
has to speak of copies: `CopiesInv` says that every stored bucket and every copy in somebody's hands is `Sound`
(synced and pending fit into what was read), whichever is written last. `MessagesInv` says that a flush that
waits is waited for by one message at most, about no more than its attempt; so the answer's settling of the
listed copy is sound again. `ServerInv` says that the row's slot holds the flush banked last,
which is all that the server knows of a retry.

**ReadingSyncProofs.** Why saves land in order is spread over every party, and so is the invariant. A *ticket*
is a write that may still be applied: queued, being saved, or on its way, even with nobody waiting for it.
`TicketsInv` says that a ticket's base is older than any logged save of its device that is not older than it
(`Stale`), so that the server, which only takes a save from its current revision, can take no save after a later
one. A new save is such a ticket because its event is new. A write that a replay re-bases onto `latest` is one because of
`LatestInv`: that revision was spent on an earlier write of the same device. That in turn needs `MessagesInv` (a replay
waits for one request or answer at most, about the head of its pass), `PassInv` (the pass is the front of the queue) and
`OrderInv` (the queue is in the order of the events, and a live save is later than it). `OwnersInv`, that
an event belongs to one device, is for the server's repeated-event rule, which compares events only. No kill, lost
answer or late request is excluded. `QueuedWritesAreSettled` follows from the same invariant: the queue changes at its
ends only (`QueueStep`), and the replay that takes the head off has either dropped it while latched (`DropSettles`) or holds
an answer that `MessagesInv` says is about this very write (`AnswerSettles`).

The last two theorems are about the time until a tab is first closed. After that the properties are false, as section 3 says
of `offline/sync.ts:405`: a reopened tab may show the cached place, behind the writes that an earlier session left
in the queue, and the replay then re-bases what this tab saves over them. The runs with kills check
`SavesLandInOrder`, `QueuedWritesAreSettled` and `QueueDrains` instead. The bounds are arbitrary otherwise: requests time out,
are lost or land late, and two devices run into conflicts. The invariant, `AInv`, adds four parts to `IInv`:

* `LinesInv`: all that a device is yet to save lies on one line of choices. Each queued write comes before the later ones,
  those before the save under way, and that before what waits in memory and the page on screen
  (`ReaderLine`, `SaveLine`, `QueueLine`). Revision `latest`, to which a replay re-bases a write, holds a place before all of
  them (`ReplayLine`). That is why the re-basing is no lie: the write it rewrites goes on from what was saved before it.
  A conflict begins a new line, and only a live save meets one that moves the page: it was sent with an empty queue.
* `LogInv`: the places in the log lie on one line, and row, requests, answers and caches agree with it.
* `PlacesInv`: an event stands for one place, whoever carries it, so that an answer to a repeated event is about
  the place that was logged.
* `LiveMessagesInv`: a live save waits for one request or answer at most, about itself, and no replay has gone further
  than the answer (else an old answer would put the page back to an earlier base).

`StepAInv` takes one part at a time, from what each step does to a reader (`ReaderGoesOn`, `Adopts`, `Mounts`), a save, a queue and
the log. `LinesAreAncestors` draws `BasesAreAncestors` from it. The refinement maps the place to the row, and the saves
applied to the log's events: `AppliedOnce` shows, from the tickets, that the event of a save the server applies is
new, and `HandledPlace` that its place goes on from the row's.

**ConsentProofs.** Every step is shown to be `Kept` on the table of attempts: rows stay, with adult and
environment, and a row with an answer does not change at all. From that, evidence read before the consent record is
written is still good when it is (`PassedStays`). `AnswersAreKept` needs `RowsInv` besides: an attempt is never of
production while the processes are of test, so an answer refused for its environment is not one
that a later deployment would have taken. `MailIsLimited` looks at the limits in one step and spends in another:
`AllowedInv` says that what was found free when the start was let through is `Free` still. That holds because
`LocksInv` has one start at most hold an adult's row, so that nobody else's attempt can be written in between
(`OthersRecord`), and because time, answers and failed sends only make the limits looser (`FreeStays`).

**OfflineCopiesProofs.** `CInv` follows a text from the server to where it is kept: into the download under way, into the
answer a load of the library waits with, and into what that load is going to remember. Texts only grow
(`Grown`), so one that was the server's when it was read is `Known` whenever it is written. That a book being downloaded is
not cached needs that copies only disappear while a download is under way (`StepCopies`). The scopes, with their bounds, are arbitrary.

The prover's translation of `Len` for its SMT backend takes any value with the right length to be the
argument's length, also where the argument is no sequence. All obligations were proved a second time with that axiom
restricted to sequences; none rests on it.

### Only model-checked

* All liveness, and with it fairness: out of the prover's reach, as is `ENABLED`. So are `QueueDrains`,
  `UnsyncedIsFlushed`, `DeliveredJobsFinish`, `WithdrawalCompletes` and `StaleCopyLeaves`.
* `StartsGoThrough`, an invariant about `ENABLED`: a start that has been let through can always write its attempt down.

`PassedIsEarned` with a flag, and `ProgressIsKept` and `BasesAreAncestors` after a kill, are neither checked nor proved: see above.


## 6. Not modelled

`components` in `PROJECT.json` lists every part with its reason. In short:

* Offline tools (`mutation/`, `diversity/`, `flywheel/`, `scripts/`): sequential functions over whole documents that
  nothing runs beside; tests reach them as well as a model would.
* The rules of the validator about prose, reading level, age bands and shape: tables over text.
* Prompts, providers, covers, mail, rendering, settings, logging: I/O and layout without a protocol. What they may
  answer is a choice in the models that use them.
* Erasure: a sequence of deletes in one transaction, which PostgreSQL makes one step; the deletion of
  external objects after it is a question for a later model.
* Reports that only read (progress, events, analysis): they change nothing.

The hazards without a property are in `PROJECT.json` too, each with the reason.

## 7. Plan

1. Erasure with its external deletions, notifications with their retries.
