# A TLA+ model of jubu_datastore

`jubu_datastore` is the persistence layer of a conversational application for
children: one datastore class per kind of data over SQLAlchemy (PostgreSQL in
production, SQLite in the unit tests), a factory that caches datastores, a daily
retention job, and the definitions (capabilities, knowledge graph, stories) that
the application reads. Beside it the repository holds a web page, the story explorer, in
which the stories are looked up on a map of their topics and played. This directory models the parts of it in which the order of
things matters, checks the models with TLC on small instances and proves the most
important properties with TLAPS for every value of the constants.

Paths below are relative to the root of the repository.

## 1. Inventory

| Component | State | Operations | What is hard | What makes it correct |
|---|---|---|---|---|
| Retention job, `retention_enforcement.py` | none of its own: ids read from one transaction are used in later ones | `run`: expire and delete facts, delete telemetry, sweep orphans store by store, sweep parent-chat pairs | many transactions, a crash between any two, requests and deletions meanwhile, foreign keys | deletes only what has no profile; finishes what a deletion left |
| Factory, `datastore_factory.py` | `_instances` under `_instances_lock` | `create_datastore`, `get_datastore`, `close_all` | a lock-free fast path, `close_all` against constructors | one instance per key, never a half-built one |
| Base datastore, `base_datastore.py` | `_engines`, `_schema_initialized`, each under a lock; a session per operation | engine and schema creation, `session_scope`, `with_retry`, encryption, `dispose_engines` | three locks, failures while they are held | one engine per connection, tables exist before use, no lock is left |
| Capability store, `capability_datastore.py` | observations; one aggregated row per child and item | insert an observation, recalculate, delete all | read–compute–write without a row lock | the aggregate is backed by observations and never regresses |
| Capability seeding, `capability_seed.py` | the same rows | delete, then insert zeros | two transactions | a seeded row claims nothing |
| Consent, `consent_datastore.py` | append-only events; subscriptions | log, purchase, webhook status, cancel, the gate `has_active_consent` | three queries see three moments; late and reordered notifications | the gate opens only on what was true |
| Conversations, `conversation_datastore.py` | conversations and turns | save, change state, summaries, turns, redaction, archive, soft and hard deletion, statistics | sessions that read a row another one archives or deletes | nothing archived or deleted comes back; no turn without a conversation |
| Facts, `facts_datastore.py` | facts with an expiry and an `active` flag | save, extend, verify, expire, delete | expiry job against extensions | active means not expired |
| Observed interests, `observed_interests_datastore.py` | one row per child and topic | upsert with counters and maxima, delete | read–compute–write, two first inserts | a row sums up the visits to its topic, claims none that were not, forgets nothing |
| Inferred traits, `inferred_traits_datastore.py` | one row per child | partial upsert with an evidence count, delete | two partial upserts at a time | an upsert changes only what it was given |
| Parent chat, `parent_chat_datastore.py` | sessions, messages, rolling summary | create, close, save message, upsert summary, delete | an old summary written over a newer one; chats against their messages | a row holds the last summary and the count given with it |
| Stories, `story_datastore.py` | stories of a conversation | save, view, favourite, delete | reference to conversations | – |
| Profiles, users | accounts, soft-deleted by `is_active` | create, update, preferences, delete | check then insert, merge of a JSON column | one account per e-mail, no preference lost |
| Telemetry, `telemetry_datastore.py` | events | best-effort insert, delete by age, scrub | errors that are swallowed | scrubbed rows name no child |
| Child aggregate, `child_aggregate.py` | none | four best-effort reads | reads of four moments | an absent slice blocks nothing |
| Knowledge graph, `knowledge_graph/` | none | load, validate, views, coverage | cycle search, orphans, review gating | a graph that is accepted is acyclic and connected as required |
| Capability loader, `loaders/`, `models/` | a registry | register packs | duplicates and versions | every item once |
| Migrations, `alembic/`, `migrations/` | the schema | bridge, renames, moves | any earlier schema, run again, half run | one final schema, no data lost |
| Story explorer, the map: `explorer.js` lines 1–282 | camera, hovered and selected topic, the gesture in progress, the picture on the screen | mouse, wheel and touch handlers, click, reset, `frame` | a click against a drag, a timer against the next press, a touch the browser takes away | a steady press selects, a drag does not, and what changes is drawn |
| Story explorer, the panel and player: `explorer.js` lines 283–591 | the topic's page; the playthrough, the tab, what the panel was last filled with | topic and shelf, play, name, pick, hear, tabs, replay, leave | buttons drawn earlier act on a playthrough that has gone on; a handler that throws | the child's path is one walk through one story, with the names it gave |
| Story craft gate, scripts, DTOs, logging | none that persists | text checks, offline media tools | – | – |

How they interact: a request obtains datastores from the factory and calls them;
each call is one session and one transaction (the seeding is two). Except for the story explorer, which runs in a browser and reads only the data built into
its page, everything is called by the application or by the job. Nothing holds a
lock across calls, and nothing reads a row `FOR UPDATE`, so at PostgreSQL's default
level (READ COMMITTED) what a session has read may be out of date when it commits.
The retention job is a process of its own, which calls the same datastores. Data
tables have no foreign key to `child_profiles`; those that exist
(turns and stories to conversations, chat messages to chat sessions) have no
`ON DELETE CASCADE`, and only the ORM's cascade of a conversation's turns removes
dependents. Everything that can go wrong between these actors is listed with its
line under `hazards` in `PROJECT.json`.

## 2. Modules

| Module | Models | Proofs |
|---|---|---|
| `Retention` | the retention job, requests and the deletion cascade | `RetentionProofs` |
| `Registry` | abstract: what the factory promises its callers | – |
| `DatastoreFactory` | the factory over engines and schema creation; refines `Registry` | `DatastoreFactoryProofs` |
| `Capability` | observations, aggregate, seeding | `CapabilityProofs` |
| `Consent` | events, subscriptions, the gate | `ConsentProofs` |
| `UnitOfWork` | what an ORM session writes when it flushes | – |
| `Conversation` | conversations and turns | `ConversationProofs` |
| `Ledgers` | the upserts of observed interests, traits and rolling summaries, over `UnitOfWork` | `LedgersProofs` |
| `Topics` | the topics of the explorer page (constants) | – |
| `TopicMap` | the explorer's map | `TopicMapProofs` |
| `Braid` | the stories of the explorer page (constants and their assumptions) | – |
| `StoryWalk` | abstract: what playing a story promises | – |
| `StoryPlayer` | the explorer's panel and player; refines `StoryWalk` | `ExplorerProofs` |
| `Explorer` | the page: `TopicMap` and `StoryPlayer` composed | `ExplorerProofs` |
| `MC…` | the values of the constants for TLC | – |

The `map` of `PROJECT.json` gives the lines each definition stands for. Definitions
whose comment begins with `Mutant of` are plausible bugs: putting one in the place of
the definition it belongs to breaks the property `PROJECT.json` pairs it with.

### Retention

A table is the set of children that have a row in it. That is what the job itself
reads (`SELECT DISTINCT child_id`), and it is enough to say whose data is left. `profile`
gives each child's row in `child_profiles`; `inflight` are the children a request is
serving that has loaded their profile and will not look at it again; `closing` those
whose deletion cascade has begun. The job's variables are its program counter `pc`, the
table or store it is at (`next`), and its local sets `existing` and `orphaned`.

Each `session_scope` block is one action. `ReadExisting` is `_existing_child_ids`
(active or not), `ScanTable` one pass of the loop over `ORPHAN_SCAN_TABLES`,
`SweepStore` one `…_ds.delete_all_for_child`, `ReadPairsExisting`, `ScanPairs` and
`SweepPair` the parent-chat half, `FinishRun` the audit line. `Refused` is the
foreign key: a row of another table that refers to one being deleted. An exception ends
the run (`StoreRaises`, `PairRaises`, `RunFails`); only `scrub_child_data`
swallows it (`ScrubFails`). A cascade is a sequence of per-store deletes of which
any may be skipped before the profile goes, as the module's docstring says of it; its
own code belongs to the account service and is marked external.

- `AuditedRunLeavesNoOrphans`: a run that gets to its audit line has left nothing of a
  child that was deleted and idle when the run began.
- `SweepSparesStandingProfiles`: the sweep never deletes a row of a child whose
  profile existed when the run began and still does.
- `DeletedChildIsErasedUnlessObstructed`: a deleted child's rows all go in the end,
  unless some deleted child has a story or a chat message left.
- `SweepDeletesOnlyOrphans` (violated) and `PartialDeletionIsFinished` (violated):
  what the docstrings say without those conditions. See Findings.

### DatastoreFactory

One step is what a thread does between two points at which another may be
scheduled: one dictionary operation, one lock operation, `create_all`. An instance is
its identity and the engine it holds. `GetCheck`/`GetRead` are `get_datastore`,
`FastCheck` … `Publish` are `create_datastore` with the constructor inlined
(`_get_or_create_engine`, `_ensure_schema`), `CloseLock` … `Reset` are `close_all`
and `dispose_engines`. `Construct` is the seeding, which constructs a datastore
without the factory. `EngineFails` and `CreateAllFails` are exceptions under locks.
`created` records on which connections `create_all` has completed, `behind` the threads
that have begun no call since `close_all` last emptied the cache.

- `OneInstancePerKey`, `OneEngineUntilClosed`, `NoKeyError`: while nobody has called
  `close_all`, equal keys give equal instances, cached datastores hold the registered
  engine, and `get_datastore` finds what it created.
- `ActsAsRegistry`: the refinement. `Registry` is a table of at most one instance per key
  in which each call takes effect in one step: it finds the instance that is there at that
  moment, makes one where there is none, or empties the table. A call fails only if
  it finds nothing, and with `KeyError` only if the table was emptied since it began. The
  mapping gives it the cache, the keys and the results as they are; what a thread is
  doing is its call, and `closed` once `close_all` has cleared the cache. Locks,
  engines and schema marks are stutters. Besides `NoKeyError`, whose condition it makes
  sharp, it says that a cached instance is never replaced by another.
- `SchemaReadyBeforeUse`: what is cached can be used.
- `CallsReturn`: every call returns, failing ones included.
- `OneEnginePerConnection` (violated): the same without "while nobody has called
  `close_all`".

### Capability

One child. A transaction is `Begin` (the observation is flushed and the state row
read) and `UpdateRow` or `InsertRow` (the flush and commit), or `RollBack`. The ORM
writes the columns that changed, into the row with the primary key that it read, which
`Written` and the keys (`id`) model: a row that was deleted and made again has another
key, so the update matches nothing and the transaction is rolled back. A recalculation
(`update_capability_state`) replays an observation that is in the table.
`EraseObservations`/`EraseState` are the two statements of `delete_all_for_child`,
`SeedDelete`/`SeedInsert`/`SeedConflicts`/`SeedStops` the two transactions of the
seeding. Scores are integers in hundredths (33, 10, at most 100). `counted` and `past`
are history variables: what each row has aggregated; whether any call has been a
recalculation and whether two have overlapped.

- `StateIsBacked`: until something is recalculated, a row claims no better status, no
  more evidence and no higher score than the observations in the table support.
- `StateIsAggregate`: while calls do not overlap, a row is the aggregation rule of
  `docs/CAPABILITY_FRAMEWORK.md` applied to the whole history, written independently
  of the incremental code.
- `SerialStatusNeverRegresses`, and `StatusNeverRegresses` (violated): the same with
  and without the condition that calls do not overlap.

### Consent

One parent. An event carries the time at which its row was built and appears when its
transaction commits (`LogEvent`, `CommitEvent`), so events appear out of order. A
notification (`Webhook`, `CommitWebhook`) writes the status if it differs from the one
read. The gate's three queries are `AskObtained`, `AskRevoked` and `AskSubscription`; the
clock that the third compares with is read before it, in a step of its own (`ReadClock`,
line 252). `seen` and `began` are history variables: what has been true at some moment
between a gate's first question and now, and what time it was at that question.

- `GateNeedsConsent`: a yes rests on a consent that stood at some moment of the check.
- `GateNeedsSubscription`: a yes rests on a subscription that was active at some moment of
  the check and that had not expired when the check began. It need not have been both at
  one moment: it may expire after the clock was read and be reported active only then,
  before the query that compares it with the old clock.
- `GateOpensWhenActive`: a no is right at some moment of the check, unless an event
  was committed during it.

The parts of a yes may be of different moments. That is what three READ COMMITTED
queries give, and no statement of the code or the docs excludes it.

### UnitOfWork and Conversation

`UnitOfWork!Flushed` is the rule that decides what overlapping sessions do to each
other: of a changed object the ORM writes the columns that were set to another value
than the one read. `Conversation` models one child's conversations and turns. A session
(`tx[w]`) holds the rows it read, what it made of them, and the turn it adds, changes
or deletes; the query with the assignments is one step, the commit another. `Opens`
is shared by the state change, the summaries, `archive_conversation` and
`archive_old_conversations`; `Save` and `SoftDelete` are single statements. A commit
checks what the database checks: an `UPDATE` of a row that is gone raises
(`NotStale`; of several rows it may go unnoticed), a turn needs its conversation, and a
conversation with a turn the session does not know cannot be deleted. Ids are UUIDs
and not used again.

- `NoTurnOutlivesConversation`, `ArchivedForGood`, `GoneForGood`: what is deleted or
  archived stays so under every overlap.
- `EndTimeIsSet`: a conversation that becomes ended or flagged has an end time,
  although state and end time are columns that overlapping sessions write separately.
  It holds because no session ever writes an end time of NULL over one that is set.
  The generic `update()` could set the state without the end time; the package calls
  it only to archive, and that is what is modelled.

### Ledgers

One child. A ledger is a topic (its row of observed interests), the row of `"traits"`,
or the rolling `"summary"` of one parent's chats. A session reads the row and works out
the row it wants (`Upsert`; `Visited`, `Taught` and `Retold` are the three update rules);
the commit is a second step. `CommitInsert` is refused by the unique key if there is a
row by then. `CommitUpdate` writes the columns that changed (`Written`, by
`UnitOfWork!Flushed`) to the row with the id that was read; if there is none it cannot
happen, which is SQLAlchemy's `StaleDataError`, and `RollBack` follows. The id of a topic
or a summary is a new uuid; that of the traits is the child's, so that a traits row that
was deleted and made again is written to by a session that read the old one. Depth and
curiosity are counted in steps, and a curiosity may also be NULL, which is not 0: a session
that read NULL and is given 0 writes the 0 (`Curiosity`). `log` is a history variable: the arguments of the upserts
the row was made by; `torn` says that some session wrote to the row without having seen
the last call.

- `SumsUpLog`: until it is torn, a row is what the docstring says of the whole list of
  calls: the number of visits, the sum of mentions, the greatest depth, the greatest
  curiosity of those given (NULL if none was),
  the last sentiment given, the first link and kind; the last value given for
  each trait; the last summary with its own count. Written without the incremental code.
- `RowsAreBacked`: torn or not, a row claims nothing that was not reported of it. The
  count is at most the number of calls, and at most that of mentions, and each value
  is that of some call since the row was inserted.
- `NothingForgotten`: no overlap takes back a kind, a link or a sentiment that is known,
  makes a known curiosity unknown (NULL), or changes the origin; and a trait changes only
  to what a session was given for it. How great a curiosity is may be taken back.

What overlapping calls may do, and the conditions above leave out: of two visits one is
not counted, `last_depth`, `curiosity_signal` (down to 0, by a session that read NULL and
was given 0) and even `times_visited` may fall, a kind
or link may be replaced by another (never by none), and the summary of one call may stand
beside the `session_count` of the other. `evidence_count`, "How many sessions have
contributed" (`src/inferred_traits_datastore.py:58`), is not counted among the backed
columns: after a deletion an open session can bring the old count back.

### The story explorer

JavaScript runs one handler at a time, so a handler is one action, and what can
interleave is the order in which the browser calls them: mouse and touch events, the
timeout of `endDrag`, and the frames of `requestAnimationFrame`.

`TopicMap` has the camera (`cam`: yaw, pitch and zoom in steps), `hovered` and `selected`,
`dragFrom` and `pinchFrom` (whether they are set), `movedBy` up to one above the slop,
`needsDraw`, and the picture that is shown (`drawn`), which is what it was drawn from.
The browser's side is in `press`, `fingers`, `tap` and `timers`. A click is delivered
with the release it follows, since no timer can run between the two. `travel`, `raced` and
`cancelled` are history variables.

- `IdleIsCurrent`: a map that waits for no frame shows what it should; `ShownInTheEnd`:
  whatever is asked for is shown in the end.
- `SteadyClickCounts`: a press and release on one disc that moved no more than the slop
  select it; `DragIsNotClick`: a longer one does not, unless a timer was outstanding
  at the press. The timeout of line 211 resets what the next drag has moved if it
  runs during that drag; no browser has to run it before.
- `TurnsOnlyWhenHeld`: the map turns under a button or a finger or goes back to where it
  started, unless a touch was cancelled, which no handler listens to (line 218).

`Braid` is the form of the story data, `StoryPlayer` the panel. `play` is the
playthrough; `trail` and `names` are the segments told and the slot values filled in
as they were told. `screen` is what the panel was last filled with, and this and not `play`
is what can be clicked: a handler that throws leaves the old buttons. `renderSegment` calls
itself until there is something to choose, which is the constant function `run`
(`BraidAssumption`: no story goes round by itself). `given` is a history variable: the
names the child gave.

- `ScreenIsCurrent`: what is on the screen to be named or answered is what the playthrough
  stands at. `TabIsShown`: the marked tab, the tab asked for and what is drawn agree,
  unless the story's record lacks what `renderWhy` needs.
- `SlotLifetimes`: the two kinds of slots of `src/story_definitions/STORY_GENERATION_WORKFLOW.md:347`
  live as long as they should, as far as the page does so. A playthrough slot (one the child
  is not asked about) holds what the last choice of this playthrough that sets it says, or
  the author's value, and then every page told has the same; nothing is left of an earlier
  playthrough. A naming slot is the same on every page told, and holds the name if one was
  given, until a choice sets it. The condition "until a choice sets it", and that nothing is
  said of a naming slot for which no name is given, leave out what the page does otherwise
  than the document: findings 5 and 6.
- `BraidIsHonest`: a blue link of the braid joins two segments told one after the other.
  `renderBraid` draws the same picture for every story (lines 528–531): it has places and
  links for `s1`, `s2a`, `s2b` and so on, and a link is blue if both its ends were told.
  `row` is how far down a segment is drawn, and `RowsAssumption` is the form of the data
  (`src/story_definitions/STORY_SCHEMA.md:30`, which all 144 shipped stories have): links and stories go one row down at a time. Without
  that a story that tells a segment between two linked ones would have a blue link
  nobody walked.
- `SayWordAnswers`: an option's own say-word answers with it unless a later option shares
  one of its words.
- `PlayingIsWalking`: the refinement. `StoryWalk` has two variables, the story that is open
  and the segments told; `StoryPlayer` implements it with `play.story` and `play.trail` in
  their places (`INSTANCE StoryWalk WITH ...`). Names, tabs and what is drawn are stutters.

`Explorer` composes the two: they meet in `showTopic`, which is called from the map
(`ChooseDisc`, which also leaves a story that is playing) and from the panel
(`ChoosePill`, which also moves the selection). `OneTopic` says that the panel's page is the
topic selected on the map.

## 3. Runs

| Run | Question | States | Result |
|---|---|---|---|
| `retention_sweep` | safety of the sweep, and that it finishes | 688 thousand | holds |
| `retention_fresh_profile` | "Delete data rows whose child profile no longer exists" | – | violated |
| `retention_story_blocks` | "finish any partially-failed deletion" | – | violated |
| `factory_threads` | safety and liveness of the cache; the refinement | 437 thousand | holds |
| `factory_two_engines` | "one engine per connection string" | – | violated |
| `capability_callers` | the aggregate under concurrency, deletion and seeding | 2.5 million | holds |
| `capability_lost_update` | "Best status seen (never regresses)" | – | violated |
| `consent_gate` | what an answer of the gate means | 4.7 million | holds |
| `conversation_sessions` | sessions that overlap | 2.7 million | holds |
| `ledgers_overlap` | upserts that overlap, beside deletions | 175 thousand | holds |
| `explorer_map` | clicks, drags, touches, timers and frames | 584 thousand | holds |
| `explorer_stories` | playing, naming, tabs, replay; the refinement | 440 thousand | holds |

### Bounds

- Retention: two children, because the sweep visits orphans in order and one child's
  failure must be seen to stop another's sweep; one transient failure; per child the
  tables `WriterTables` names, chosen to have one of each kind the job treats differently
  (with a dependent table, scrubbed with swallowed errors, parent chat). A child's
  life has no cycle except writing and deleting rows, so no counter is needed.
- Factory: three threads (two that race, one that may close or construct), two
  keys on one connection, three calls. A violation of any of the properties needs two
  constructors or a constructor and a `close_all`; `factory_two_engines` needs four.
- Capability: two items, four observations in an order that is not that of their times,
  two workers, four calls, five rows ever made. That is room for two overlapping first
  inserts, a lost update, and a deletion or seeding under an open transaction.
- Consent: clock 0..2, two writers, one gate (gates do not affect each other), two
  subscriptions, four transactions. Two events of each kind in both orders of time and
  commit fit in, and so does a subscription that expires after the gate has read the clock
  and becomes active before the gate's query.
- Conversation: two conversations, two turns, two sessions at a time, five sessions, a
  clock of three with an archive threshold of one. Conversations, turns and workers are
  interchangeable (symmetry; the run checks safety only).

- Ledgers: one topic, the traits and the summary, three sessions at a time, four upserts:
  an insertion and three updates that overlap, or two insertions at once and what
  follows. Three visits, one of which says nothing but its key and one of which gives a
  curiosity of 0; three partial sets of
  traits, one of NULLs; three summaries. Workers are interchangeable (symmetry; the run
  checks safety only).
- Explorer: the same composed specification with two settings of the constants, because
  the product of both halves in full is beyond TLC, and they share only the topic. In
  `explorer_map` there are no stories, and the map has two topics with an edge, a slop
  of one step, three pitches, two yaws, two zooms and two outstanding timers, which is what
  a timer that runs in the next press needs. In `explorer_stories` the map cannot turn,
  and there are two stories of the shape all shipped stories have (two choice points of
  two options, drawn in four rows), one with two names to give that options also set, one that `renderWhy`
  cannot draw; say-words that are shared and that are not.

`MaxTimers`, `MaxCalls`, `MaxTime`, `MaxRows` and `MaxFailures` bound the models and nothing else: the
proofs hold for every value of them. Deadlock is not checked where the bounds make the
system stop (`CHECK_DEADLOCK FALSE`); the retention model never stops, and its
runs check it.

### Fairness

- `Retention!FairSpec`: `WF(JobStep)`, because the job runs from a daily timer and each
  of its statements returns, and `WF(EndRequest)`, because a request ends. Nothing is
  assumed of cascades: one may stop half way for ever. Transient failures are finitely
  many.
- `DatastoreFactory!FairSpec`: weak fairness of each thread's next step, which is the
  operating system's scheduler. No fairness of lock hand-over is assumed beyond that;
  the bounded number of calls makes it enough for `CallsReturn`, so starvation under
  an unbounded stream of callers is not excluded.

- `Explorer!FairSpec`: weak fairness of `frame`, because `requestAnimationFrame` calls it
  again and again as long as the page is shown. Nothing is assumed of the user or of
  the timers.

`Capability`, `Consent`, `Conversation`, `Ledgers` and the player state safety only.

## 4. Findings

1. `retention_fresh_profile`: the ids of profiles are read before the tables
   (`retention_enforcement.py:114`), so the rows of a child that is created between the
   two reads are swept with the orphans'. Reading the tables first closes the window.
2. `retention_story_blocks`: for one orphan, conversations are deleted before stories,
   which refer to them; PostgreSQL refuses, the exception ends the run, and every
   later run ends at the same child. SQLite does not enforce the key, so unit tests pass.
3. `factory_two_engines`: `close_all` disposes the engines after it has released the
   lock of the cache, so a datastore made in between keeps a disposed engine while the
   next one makes another.
4. `capability_lost_update`: two overlapping insertions read one row; the second to
   commit can write `emerging` over `demonstrated`.

What follows was met while modelling and has no run of its own, because the properties
above carry it as a condition. All is in `explorer.js` and the 144 stories it ships with
(119 topics, 576 options).

5. `pick` assigns an option's `sets_slots` over whatever a slot holds (line 417). 22
   shipped options set a slot that the child was asked to name, which then changes in
   the middle of the story while the pages already told keep the old name.
   `src/story_definitions/STORY_GENERATION_WORKFLOW.md:353` says of such values that they are
   "never silently regenerated or overwritten".
6. The naming page says that a name is "stored per topic family, so it carries into every
   later story" (lines 364–365, as lines 347–354 of that document), but `setName` keeps it
   in the playthrough and `playStory` (lines 320–327) begins every story, and every replay,
   with the author's default. `SlotLifetimes` claims nothing here: a page that did carry
   names over would satisfy it as well.
7. `hear` answers with the last option of which a word is heard (lines 421–432). 26 shipped
   options are not reached by their own say-word, since the other option's label has it.
8. `renderWhy` throws for `story.the_moon.age5to6.d1.authored.ba4d52`, whose record
   lacks `final_weight`: the old screen stays, with "why" as the tab, until another tab
   is asked for.
9. `touchcancel` has no handler, so `dragFrom` stays set and the map turns under a mouse that
   is not pressed, until the next release.

## 5. Proofs

Each theorem holds for every value of the constants that satisfies the named
assumptions of its module (finite item set, bounds are naturals, and the like).

**Retention.** `TypeCorrect`, `AuditedRunsAreComplete` and `SweepSparesStanding`. A property
of the audit line says nothing of the steps before it, so the invariant follows the job:
`RefIntegrity` (a dependent row's child has the row it refers to), `SettledInv` (a child
that was deleted and idle at the start stays so: no one writes for it), and for each phase
what has been found or removed: while scanning, a settled child with rows in a table already
scanned is in `orphaned` (`ScanInv`); while sweeping, one with rows is still in `orphaned`,
and if it is the first, has none in the stores already done (`SweepInv`); and likewise the
pairs (`PairsInv`). `StandingInv` says that a child whose profile stood at the start and is
not deleted is in `existing` and not in `orphaned`. That the stores together cover the
scanned tables is a lemma on its own.

**DatastoreFactory.** `TypeCorrect`, `OneThreadPerBlock` (each lock protects its block),
`CachedIsUsable`, `CacheIsStable`, `SharedEngine`, `Singletons`, `GetFindsItsInstance`,
`NoDeadlock` and the refinement `FactoryRefinesRegistry`. The invariant ties locks to
program counters (`OpInv`, `LockInv`), says that a thread past the engine table has an
engine (`EngineInv`), that one about to publish found no instance and holds the lock, so
that there still is none (`AbsentInv`), and that a marked connection, or a thread past the
mark, has its tables (`SchemaInv`). `SharedEngine`, `Singletons` and `GetFindsItsInstance`
need besides that without a `close_all` engines and results only accumulate (`QuietInv`):
`ClosedInv` says that a thread inside `close_all` has been counted, which makes "nobody has
closed" stable backwards. `NoDeadlock` is what safety can say of `CallsReturn`: while a call
is under way some thread waits for no lock, since the holder of an inner lock asks for none
(`LockInv`). The refinement holds with `close_all` too. A call takes effect at its last read
of the cache, at `Publish` or, if it fails, where the exception is raised; that the table
can answer so is `AbsentInv` for what is made or fails, `IdsInv` (what is made is nobody's
yet), and for `KeyError` `BehindInv`: a key that was seen in the cache is there when it is
read, or the cache was emptied since the call began.

**Capability.** `TypeCorrect`, `StateNeverExaggerates`, `SerialNeverRegresses`,
`AggregateIsExact`. A row that is backed at the read need not be at the write: the invariant
says that a row that was read is backed as long as its key is still the one in the table
(`KeysInv`, `BackedInv`), and that an observation being inserted is in the table only once
(`InsertsInv`). `SerialNeverRegresses` needs that, until two calls overlap, at most one
worker is writing (`AloneInv`) and what it has read is what is there (`FreshReadInv`).
`AggregateIsExact` needs besides `HistoryInv`, that a row sums up what it has counted and
none has counted nothing: lemmas say what one more observation does to the best status, to
the counts and to the score, whose cap at 1 commutes with adding.

**Consent.** `TypeCorrect`, `OpensOnlyOnConsent`, `OpensOnlyOnSubscription`,
`OpensToTheEntitled`. `WatchInv` says that a gate's history holds what is true now, `AskInv`
what a gate half way has learnt: events are never removed, so the consent it found is there
still, and if a later one was committed it knows that something changed. `ClockInv` orders
the three times: the check began before its clock was read, and that is not ahead of now; so
what has not expired at the clock that was read had not when the check began
(`UnexpiredBefore`).

**Conversation.** `TypeCorrect`, `NoneOutlives`, `FinishedHasEndTime`, `StaysArchived`,
`StaysGone`. The invariant is about sessions in flight. `ColumnsInv`: a session takes back
no archiving and no end time that it read, sets an end time with each finished state, and
where it read an end time the row still has one. `TurnsInv`: a turn being added is in no
other session. Then one lemma (`ConvsStep`) says what any step does to one conversation,
another (`TurnStep`) to one turn, and the theorems follow from those.

**Ledgers.** `TypeCorrect`, `NothingInvented`, `KnowledgeIsKept`, `LedgersSumUp`, for any
number of topics, sessions and calls. That a row is backed says nothing of the session that
is about to write it, so the invariant adds: `SessionsMake`, the row a session will write is
what the update rule makes of the row it read; `ReadsAreBacked`, while the id that it read
is still in the table, the row it read is backed by the log as it is now (logs only grow
while a row stands); and `IdsAreNew`, the id of a topic's or a summary's row that is being
made is no other row's or session's, so that a row made again is not taken for the old one.
A known curiosity stays known because a session writes NULL only if it read NULL, and then
it has nothing to write.
The count is backed because a session that writes it read a count that was at most the
length of the log. `LedgersSumUp` is a statement about lists: a first and a last value, a
greatest of those given and a total (prefix sums, a recursive function) of the columns of the log. One
lemma for each says how it grows by one entry, three more that a new, a visited and a taught
or retold row follow, and `FlushedWhole` that a session which has seen the last call writes
the whole row it worked out, though it names only the columns that changed.

**TopicMap.** `MapTypeCorrect`, `NothingUnseen`, `SteadyClicks`, `DragsSelectNothing`,
`TurnsUnderAHand`, for maps of every size. The invariant says what a press has learnt
(`Pressed`: `movedBy` is at most the travel since the press, and equal to it unless a timer
raced), and who holds the map (`Held`: `dragFrom` is set only under a button, a finger, or
after a cancelled touch).

**Explorer.** `PageIsMapAndPlayer` shows that a behaviour of the page is one of the map and
one of the panel, which lifts everything proved of either; `MapAndPanelAgree` is about both.
`TypeCorrect`, `ClicksActOnNow`, `TabsAreShown`, `SlotsLiveAsLongAsTheyShould`,
`BlueIsWalked`, `SayWordsAnswer` and the refinement `ExplorerRefinesWalk` hold for every library that
satisfies the assumptions of `Braid` and `StoryPlayer`. The invariant is about the
playthrough: `ScreenIsCurrent` and `TabIsShown` together, `Beginning` (while names are asked
nothing is told and nothing is chosen) and `SlotsAccountedFor` (every slot, of either kind,
holds what the last choice that sets it says, or the name given, or the author's), from
which `SlotLifetimes` follows with `AskedInv`: names are given of naming slots alone.
`BlueIsWalked` adds
`PathInv`: `walked` is what was told, and what was told goes down one row at a time, along a
run by `RunGoesDown` and past a choice by `PickGoesDown`; so two ends of a link that were
both told were told one after the other. The refinement maps initial states to initial
states and each action to an `Open`, `Begin`, `Choose` or `Leave` or to a stutter; that the
choice taken is one of the question the walk stands at is what it needs `ScreenIsCurrent`
for.

Every invariant and action property of the passing runs, and both refinements, are theorems.
Three properties are model-checked only, `DeletedChildIsErasedUnlessObstructed`,
`CallsReturn` and `ShownInTheEnd`: they are temporal under fairness, which needs `ENABLED`,
and the prover has none of it. Induction over the length of a list or a run is done without
an induction theorem: a least counterexample exists (`LeastNumber`, from the
well-foundedness of the naturals) and is refuted, and the function `Running` is shown to
exist by the same argument before what it computes is used.

## 6. Not modelled, and why

- The columns that nothing modelled reads: texts, summaries, confidence, IP addresses.
  `null_pii_for_parent` changes only such columns.
- SQLite. Where it differs (foreign keys are not enforced in the unit tests) the models
  follow PostgreSQL, the production database.
- `story_generation/craft_gate.py` (patterns over English text), `scripts/` (offline
  tools around external services), DTOs, logging, and content.
- Of the explorer: the building of the SVG, the projection, formatting and wording. The
  discs are re-appended in order of depth with each frame, which a browser may answer with
  mouse events of its own; such events are among those the model allows at any time.
  Nor modelled are three fingers or more, a second mouse button, a release of the button
  that the page never hears of, and a slot's value that itself contains `{another_slot}`.
- Recalculation of capabilities (`update_capability_state`) is modelled for the observations
  in the table; its caller could pass any. Deltas and counts passed in are natural numbers:
  negative ones, which nothing in the package passes, are excluded by the types.
- What the conditions of the properties exempt: telemetry whose scrubbing failed
  (`AuditedRunLeavesNoOrphans` excludes it, since `scrub_child_data` swallows the error and
  the run is audited all the same), and a summary that stands beside the count of another
  call (`SumsUpLog` excludes torn rows, `RowsAreBacked` says only that each was reported).
- The generic `update()` of observed interests, which nothing in the package calls, and
  the opening, closing and messages of parent-chat sessions (single statements).
- The rest of the components are planned, see below; `PROJECT.json` gives the reason for
  each.

## 7. Plan

Order of work, the most important behaviour first. Steps 1–7 are done.

1. `Retention` – the deletion promise, across all stores.
2. `DatastoreFactory` – threads, refining `Registry`.
3. `Capability` – read–compute–write with deletion and seeding.
4. `Consent` – the gate.
5. `UnitOfWork`, `Conversation` – overlapping sessions.
6. `TopicMap`, `StoryPlayer`, `Explorer` – the story explorer, refining `StoryWalk`.
7. `Ledgers` – the upserts of observed interests, inferred traits and rolling summaries
   over `UnitOfWork`.
8. `Facts` – the life of a fact: expiry against extension, the two-stage deletion with
   its grace window, what `get_active_facts_for_child` may return. Abstract
   specification: a fact is usable, expired or deleted and only an extension goes back;
   `Facts` implements it except for the window the hazard list names.
9. `Accounts` – users and profiles: check then insert, soft and hard deletion, merging
   preferences; stories with them.
10. `GraphValidator` – the cycle search of `graph_validator.py`, orphans, subtopics,
    edges and review gating as operators, checked against reference definitions over all
    small graphs; theorems on what a step of the search preserves.
11. `CapabilityRegistry` – registration of packs, duplicates and versions.
12. `Migrations` – the Alembic bridge and the stand-alone scripts as transformations of
    a schema: from every earlier schema to one result, again without effect, stopped
    half way and run again.
13. `Retry` – `with_retry`, and the statistics of conversations, as small algorithms.
14. Composition: `Retention` shown to implement an abstract "a deleted child's data
    disappears and no other child's does" by a refinement mapping; `Facts` and
    `Conversation` refining the table abstraction of `Retention`.

Runs are kept few: one per component for what holds, and one for each statement of the
docs the code does not keep. Bounds stay at two of everything unless a property needs
three. Every module keeps to one action per operation, invariants as conjunctions of
named parts, and no recursive operators where there are proofs.
