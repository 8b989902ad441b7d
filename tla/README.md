# A TLA+ model of the database intelligence server and its clients

The repository is a server that answers questions about a business database
(NestJS, `apps/server`), a mobile app that chats with it (`apps/mobile`), and a
web bench that measures language models on it (`apps/web`). This directory
holds TLA+ modules for the parts of it that run concurrently, keep state and can
fail in the middle, and for the algorithms whose results others rely on, the TLC
configurations that check them, and proofs.

`PROJECT.json` lists the components, the runs, the mutants (one plausible bug
for every property, which TLC finds), the map from definitions to source lines,
the findings, the hazards and the theorems.

## 1. Inventory

Paths are under `apps/server/src` unless they say otherwise.

| component | state it keeps | operations | what is hard |
|---|---|---|---|
| JSON store (`common/json-store.ts`) | document in memory, shared load, promise chain, file and temporary file | `read`, `update(fn)` | concurrent updates, failed writes, process end between any two awaits |
| Scheduler (`reports/scheduler.service.ts`) | schedules (a JSON store), chain of ticks, set of running ids | `tick`, `execute`, `create`, `update`, `remove` | overlapping ticks, run-now, edits during a run, restart with a run half done |
| Inbox, push, templates (`reports/*`) | a JSON store each | `add`, `list(since)`, `markRead`; `register`, `send`; template CRUD and `run` | dead-token removal after a send, a push the phone counts on |
| LLM service (`llm/*`) | mode and order, a breaker per provider, learned parameters | `chat`, `agentModel`, `setMode` | concurrent calls sharing breakers and lessons, streams that break off |
| Ask pipeline (`query/ask.service.ts` and caches) | two LRU tiers, translations, verified examples | `ask`, `clear`, `add` | answers computed across a clear or a schema change; repair rounds |
| Chat analyst (`query/analyst/*`) | per run: results, tool budget; event stream | `chat`, `chatStream` | tool calls in parallel, client gone, stream order |
| Database, schema catalog (`database/*`) | cached engine, shared introspection, cache file | `reload`, `refresh`, `readOnlyQuery` | reload under queries, callers that join a failing reload, a refresh joining an older introspection |
| WhatsApp bot (`whatsapp/*`) | seen ids, conversations, pending set | `accept`, `handle`, `sendReport` | redelivered webhooks, concurrent messages of a number |
| Bench (`bench/*`, `eval/*`) | active run, ended runs, reports on disk, pipelines | `start`, `cancel`, `remove`, `run`, `compare` | worker pool, cancel, retries, polling while results re-order |
| Run page (`apps/web/src/components/RunPage.tsx`) | results so far | poll, reload | a count as the cursor into a list that is re-ordered |
| Mobile chats (`apps/mobile/src/state/*`) | chats, in-flight requests, stored chats | send, retry, stop, remove; load, save, migrate | late events, debounced persistence, partial migration |
| Mobile inbox (`apps/mobile/src/lib/notifications.ts`) | time of the newest report seen | `checkInbox` | background task beside the open app |
| Mobile settings, voice, forms (`apps/mobile/src`) | server and key, the recorder, drafts | `save`, `start`, `finish`, `canSave` | answers about a server that is no longer set; a take ended twice |
| Web bench (`apps/web/src`) | the form's dataset, list requests | choose, start, compare | answers for a choice that has changed |
| MDF reader (`mdf/*`) | none between calls; a temporary and an output file | export, verify | allocation maps and page chains of a file written by another program, an import killed half-way, two imports under one temporary name |
| Prices (`llm/model-pricing.service.ts`) | the day's list, a load under way | `estimate`, `models` | calls that end during a load, a list that lacks the model |

How they interact: the scheduler calls templates or the ask pipeline for the
report, then WhatsApp, the inbox and push; all four of its collaborators' and
its own documents are JSON stores. The ask pipeline and the analyst call the
LLM service and the database, with the schema catalog for context. The bench
builds whole pipelines of its own for every variant. The clients only poll or
stream over HTTP. Everything in the server runs on one Node event loop, so what
happens between two awaits is atomic; that is the grain of every action here.

What makes each part correct:

- *store*: one writer, a whole file at all times, answered updates survive;
- *scheduler*: one run per schedule, each time delivered once, nothing due is
  forgotten, a deletion is final, edits win over runs that began before them;
- *LLM*: output of two providers never mixes, a refusal that can be cured is,
  every call ends, a dead provider is not asked again and again;
- *bench*: one run at a time, a complete report in dataset order, a cancelled
  run spends no more, the page shows what was saved;
- *ask and caches*: no answer from before a clear or a schema change;
- *database and catalog*: previous data is served until new data is ready, and
  a refresh returns the schema as of the refresh;
- *WhatsApp*: each message is answered once, follow-ups keep every turn;
- *mobile*: no conversation is lost or resurrected, each report announced once.

## 2. Modules

| module | models | checked by | proved in |
|---|---|---|---|
| `DurableDocument` | what callers of a JSON store may rely on (abstract) | property of `json_store` | – |
| `JsonStore` | `common/json-store.ts` | `JsonStore.cfg` | `JsonStoreProofs` |
| `Scheduler` | `reports/scheduler.service.ts`, `nextRun` | `Scheduler.cfg`, `SchedulerTimes.cfg` | `SchedulerProofs` |
| `LlmFailover` | `chat`, `agentModel`, `FailoverAgentModel`, `CircuitBreaker` | `MCLlmFailover` | `LlmFailoverProofs` |
| `BenchRuns` | `BenchService` runs, `runEval`, `mapLimit`, the run page | `MCBenchRuns` | `BenchRunsProofs` |
| `SchemaReload` | `DatabaseService`, `DuckDbEngine`, the conversion, `SchemaCatalogService` | with `AskPipeline` | `AskPipelineProofs` |
| `AskPipeline` | `AskService`, `QueryCacheService`, extends `SchemaReload` | `MCAskPipeline` | `AskPipelineProofs` |
| `BenchPipelines` | `BenchService.compare` and its cache of pipelines | `MCFrontEnds` | `FrontEndProofs` |
| `RunList` | `BenchService.runs`, `saveReport`, datasets | `MCFrontEnds` | `FrontEndProofs` |
| `ModelPrices` | `ModelPricingService`, `ModelsService`, usage summaries | `MCFrontEnds` | `FrontEndProofs` |
| `WebBench` | the form, the picker, the playground, `useAsync` | `MCFrontEnds` | `FrontEndProofs` |
| `AnalystChat` | `AnalystService`, its tools, the client's view of the turns | `MCFrontEnds` | `FrontEndProofs` |
| `EventStream` | `sse.ts`, the phone's stream client | `MCFrontEnds`, `stream_idle` | – |
| `WhatsAppChat` | `whatsapp.service.ts`: messages and conversations | `MCFrontEnds` | `WhatsAppChatProofs` |
| `WhatsAppMessages` | the rest of `whatsapp/*` | `MCFrontEnds` | – |
| `ReportInbox` | `inbox.service.ts`, `checkInbox` | `MCFrontEnds` | `FrontEndProofs` |
| `PushDevices` | `push.service.ts`, `registerPush` | `MCFrontEnds` | `FrontEndProofs` |
| `MobileChats` | `chat-store.ts`, `chats.tsx` | `MCFrontEnds` | `MobileChatsProofs` |
| `ChatList` | `chat-reducer.ts` | `MCFrontEnds` | `FrontEndProofs` |
| `VoiceComposer` | `useVoice.ts`, `Composer.tsx` | `MCFrontEnds` | `FrontEndProofs` |
| `PhoneSettings` | `settings.tsx`, `reports.tsx`, the server form | `MCFrontEnds` | `FrontEndProofs` |
| `MdfTable` | allocation maps, pages and rows against SQL Server's changes | `MCFrontEnds` | – |
| `MdfExport` | `export-duckdb.ts`, `verify.ts` | `MCFrontEnds` | `FrontEndProofs` |
| `MdfDecoding`, `ResultComparison`, `EvalScoring`, `ChartChoice`, `AnswerText`, `ReportTemplates`, `ScheduleForm`, `MediaQuestion`, `SchemaContext`, `ServerSetup`, `ProviderRequest` | algorithms without state | inputs of `MCFrontEnds` | – |

Definitions whose comment begins with "Mutant:" are no part of the models: they
are the wrong versions of the definition that follows them.

**JsonStore.** A document is the set of updates applied to it; each call of
`update` has an identity. `pc` is where a call is among the awaits of `update`,
`place` its position in the chain `this.queue`, `loading` and `reads` the
shared load. `Begin` is the `then` of the chain, `Apply` the call of `fn`,
`StartWrite`/`EndWrite`/`Rename`/`Return` the file operations. `ReadFails` and
`WriteFails` are failing file operations, `Crash` the end of the process, after
which another starts on the files. The callbacks the server passes do not
throw, so a throwing `fn` is left out; so is power loss (the code does not
fsync; a process end leaves the file system's view intact).

**Scheduler.** The store appears at the level `JsonStore` justifies: `sched` in
memory, `saved` on disk, `ops` the chain of updates; an update is applied and
saved in one step, or applied and not saved (`StoreFails`). `ticks` are the
calls of `tick()` chained behind the one under way, `body` and `due` the loop
over the due schedules, `run` what the timer and a run-now caller execute. A
frequency is a period in units of the clock, so that "a time of the frequency"
is divisibility; cron patterns and time zones are the library's. `Moved` is the
`nextRunAt` of a finished run; `MissedFails` is the one rejection nobody
catches, which ends the process. A report is one action that yields rows, none,
or an error; a WhatsApp send is counted for scheduled runs in the history
variable `sent`. With one schedule the code begins the first run of a tick in
the turn that found it due; the model lets other events come between, as they
do for every schedule after the first.

**LlmFailover.** `req` holds each request's routes, route and attempt.
`Start` reads the breakers once, as both entry points do; `NextTurn` is a later
model call of an agent run. What a provider does with a call is nondeterministic
among the answers the code tells apart: `Answer`, `Down` (an error worth failing
over for), `Refuse`, `RefuseParam`, `BreaksOff` after a first `Chunk`, `Abort`.
`MayRetry` carries the cap of each caller: eight retries in `chat`, eight
attempts in the agent model; the runs use two parameters and two attempts, in
the same relation. `spoke` is history.

**BenchRuns.** `run` is the `RunState` with the position of its `runEval`: a
pass (variant and repeat), the index the workers share, the cases they hold.
`CaseDone` is a worker's turn from its result to its next `await`; a cancelled
run breaks off (`Breaks`) while other workers still finish, as `Promise.all`
does. `Activate` is the second half of `start`, after its await. `page` is
`useRun`: a poll since the results it has, and a whole reload once the run is
over.

**SchemaReload and AskPipeline.** Promises are numbered: `open` and `load` are
the records of the engine's and the catalog's promises, `duck` and `loading` the
fields that hold one. `inode` is what the files hold, so that an engine keeps
reading the file it opened after another was renamed over it; conversions of
the server's process share `tmp`, the temporary name with its process id. Every
call of `duckdb()` leaves a handler on the promise it gets (`Engine`), so
`Rejects` depends on whether a caller other than the `reload()` that began the
open has joined it. Opens, loads, refreshes and replacements of the `.mdf`
overlap freely; four fields record how they did, for the properties to tell the
cases apart: `beside` and `joined` of an open, `alone` of a file, `undisturbed`
of a load. A refresh takes its steps in the order of `refresh()`: reload, then
the introspection, joining one that is under way. `ask` is a question with the
round it is in; `sqlTier` and `answers` are the two cache tiers under keys that
hold the schema. The model's reply is any of SQL that is right, SQL of each
wrong kind, and a refusal. `MCAskPipeline` bounds the composition by its
variable `scope`: behaviours of "requests" have the questions and exchange the
data only while nothing is being opened or introspected, behaviours of "reloads"
have the data's side alone, without that restriction.

**BenchPipelines, RunList, ModelPrices, WebBench.** `entries` are all pipelines
ever built and `cached` the map's order, which eviction follows. A saved run's
`file` has a modification time, a version and whether it is whole; `list` is a
listing under way and `cache` what is remembered by time. `prices` is the day of
the list that is kept, `lacking` the days whose list has no price for the model,
`inflight` a load under way; a call records the list it was priced by. `form`, `picker`, `play`
and `list` of `WebBench` count their requests, as the code's `live` flags and
sequence numbers do.

**AnalystChat and EventStream.** A run of the agent is a sequence of turns, each
with calls of tools that may be made at once; `said` is the text of each turn,
`streamed` what went out, `client` what the phone put together of deltas,
resets and the final answer. In `EventStream` events are written as characters
onto `wire`, which is read in pieces of any length; `buffer` is the parser's,
`idle` the timer in ticks, `silent` the ticks since anything came.

**WhatsAppChat.** A message is a job; `conv` is the conversation it read before
its await and `conversations` what the map holds, so that two jobs may hold two
objects. A restart empties everything but what Meta may deliver again.

**ReportInbox and PushDevices.** `createdAt` is taken before a report's turn in
the queue. A check reads the list, saves the newest time, notifies; two run side
by side. In `PushDevices` a report carries the devices its send read, how many
are posted and which Expo called dead; `known` are the phones with a `PUSH_KEY`,
which may be another server's, `leftOut` the reports a phone's checks did not
notify of because they have one, and `enrolled` the registrations the server was
not told to forget.

**MobileChats, ChatList, VoiceComposer, PhoneSettings.** `stored` and `legacy`
are what the phone keeps, with values that cannot be read and entries of the old
format that are damaged; `saved` is what the store believes it wrote, `timer`
the debounce, `deleted` how far a deletion got. A request may stall with its body
half come (`Stall`), when its timer and its abort are gone. `ChatList` has the
reducer's messages with their requests. In `VoiceComposer` a preparation makes
the recorder's file, `take`, whatever is still ending the one before; the calls
of `start()` (`starts`) and of `finish()` and `cancel()` (`ends`) are at an await
each, and `finish()` reads the recorder's file after its last one.

**The data file.** `MdfTable` has an environment, SQL Server, that inserts,
grows, shrinks and deletes rows, adds and drops columns, moves rows behind
stubs, leaves ghosts and allocates single pages and extents; `table` is what the
reader makes of the pages. `MdfExport` has overlapping imports, of
processes that each have one temporary name and may be killed, and the
verification of what was read when.

**Algorithms.** Each is translated as operators, with a property that is not its
definition: a reference of its own, an inverse, or a claim of the code about
it. Their inputs are enumerated at the head of `MCFrontEnds`.

**MCFrontEnds.** The components above share no state with one another, so one
specification holds them all: the variable `machine` says which one a behaviour
is of, `v1` to `v14` are its variables, and the others are off. An input of an
algorithm is a behaviour of its own that takes no step. Each property is the
conjunction of what the machines owe about one hazard, so the claim of each
machine is the operator named in it, stated in the machine's module.

## 3. Runs

| run | bounds | result |
|---|---|---|
| `json_store` | 3 updates, 1 process end, 2 failing file operations | pass |
| `scheduler` | 1 schedule, periods 1 and 2, 4 instants, 2 ticks, 3 requests, 1 failure or process end, catch-up 1 | pass |
| `scheduler_times` | the same, 2 requests, no failure | violation: a run at a time of the old frequency |
| `llm_failover` | 2 providers, 1 chat, 1 agent run of 2 turns, 2 parameters, threshold 2, 1 mode switch, 2 instants | pass |
| `llm_half_open` | 3 chats, threshold 1, no mode switch | violation: two probes |
| `llm_open_skipped` | 1 chat, 1 agent run, no mode switch | violation: an open provider asked first |
| `bench_runs` | 2 runs (2 passes of 3 cases; 1 of 1), 2 workers, 1 retry, the page on the first | pass |
| `bench_one_run` | the same | violation: two runs under way |
| `ask_reload` | one refresh, one replacement by data of another schema, 7 opens and loads; with one client asking again (2 votes, 1 repair, 1 fault), and without in every interleaving (2 faults) | pass |
| `reload_joined` | one refresh, 1 fault, 5 opens and loads | violation: a caller that joined the failing reload drops the previous engine |
| `front_ends` | those of `MCFrontEnds.tla`, below | pass |
| `stream_idle` | 2 events, pieces of 3, a timeout of 3 ticks | violation: keepalives do not keep alive |

Why these bounds are enough. *json_store*: the actors are update calls, and a
hazard takes one that fails, one that publishes its change and one that waits.
*scheduler*: every race here is over one schedule (schedules meet only in the
loop's order and in the store's queue); period 2 in four instants has a missed
run, a due run and one in the future; three requests are a create and two
things done to it. *llm_failover*: two providers are all the code has; two
requests can learn the same thing at once; one model refuses every parameter
and the other complains whatever it is sent. *bench_runs*: with three cases on
two workers one finishes out of order while another is still to be taken, and
the second run can come beside, after or over the first. *ask_reload*: one
refresh has an old and a new version of data and schema; each way to fail is
reached by one fault, and a reload and the open after it may both fail with two.
Opens overlap as the boot's, a ping's and the refresh's do: a second refresh
would add what a ping's open already is, one more beside the others. *front_ends*: two of whatever competes (checks, devices,
messages of a number, pipelines beyond the limit of one, imports, listings), one
restart or kill, one fault; two reports at up to three times, with lists and notifications of two; two phones,
pushed to one by one; two imports, of the server's process and the command
line's; events longer than a piece; three WhatsApp messages, the last of which
gives way to a restart.
Some bounds are shared to keep the product small: in `PhoneSettings` kills count
with attempts and with saves, and the fields are edited while a save is to come; in
`VoiceComposer` drafts count with starts; in `PushDevices` faults come while a
report is to come. The algorithms' inputs are all tables, texts,
forms and records up to a size at which each branch is taken.

Deadlock is not checked: each bound lets the model stop where the system idles.

The six violations are findings, quoted in `PROJECT.json`:

1. `RunsAtTheirTime`: a run that ends after an edit writes back the next time of
   the frequency it started with (`scheduler.service.ts:195`).
2. `OneProbe`: half-open lets everybody through (`circuit-breaker.ts:18`).
3. `OpenIsSkipped`: an agent run does not look at breakers again
   (`llm.service.ts:227`).
4. `OneRunAtATime`: the check and the setting of the active run are apart
   (`bench.service.ts:164`).
5. `PreviousKept`: every caller of `duckdb()` clears the field when the promise it
   got rejects, so one that joined a failing reload undoes the reload's "keep
   serving the previous data" (`database.service.ts:107`, `:123`).
6. `QuietMeansGone`: the server's pings do not arm the phone's idle timer
   (`api.ts:322`). Arming it by pings alone would be no repair: `EverythingEnds`
   then fails where the server has lost the run but still pings.

### What `front_ends` shows

| property | claim |
|---|---|
| `ConversationsKept` | a stored conversation goes only when the user deletes it and is written over only by its continuation, or, if it could not be read, by the old format's of the same id; the old format's goes when what it had whole is stored; a settled answer is changed by nothing late |
| `PhoneInStep` | pending answers have requests, a quiet store holds what is shown, a deletion that was saved stays, follow-ups carry the turns before them, a take whose start overlapped nothing is sent once, background and gallery are of the server that is set |
| `NonePassedOver` | every report is announced or within reach of a check; one a phone left out, counting on the push, was posted to it if it was registered in time and no post failed |
| `ClientSeesAnswer` | the client ends with the answer the analyst gave, and with all events in order however they were cut |
| `StopgapNotCached` | an answer for want of steps, queries or database is not replayed |
| `FollowUpSeesHistory` | a WhatsApp question carries its own number's turns, and none from before a reset or expiry at which no answer was under way |
| `PipelinesAccounted` | pipelines in use are open and counted, the list of runs says what the files said, a call is priced by a list of its day, a started run is the one shown |
| `MdfReadsRows` | the reader's table is SQL Server's, and no half-written export is opened or verified, but for one two imports of a process wrote at once |
| `AlgorithmsAgree` | the algorithms do what they are for |
| `EverythingEnds` | answers settle unless a response stops half-way, saves end, streams end, WhatsApp messages are answered or given up |

### Fairness

Weak fairness on what the event loop owes: a ready continuation runs, and an
operation with a timeout (model calls, queries, sends) or of the file system
ends one way or the other. In `Scheduler` the interval timer keeps firing. Users,
edits, cancels, mode switches, process ends and failures are owed by nobody.
Failing is never required: fairness is on the disjunction of the ways an
operation can end. The web page is not assumed to poll.

In `front_ends` the phone owes its loads, its debounced save and the end of a
request, unless its body has stopped coming: the timeout is off once the headers
are there (`api.ts:192-197`), and `Comes` is not owed of a stalled one. A stream
owes its timer and the end of a closed connection, but neither server nor network
owe it an event; the analyst's run and WhatsApp's jobs owe their steps, which are
bounded by the limits the code gives them.

Liveness checked under it: `Settles` (store and LLM), `DueIsHandled`, `RunsEnd`,
`QuestionsEnd`, `EverythingEnds`.

## 4. Proofs

TLAPS checks the theorems for every value of the constants, under the
assumptions named in the modules (bounds are natural numbers, frequencies are
positive, there is a schedule).

**JsonStoreProofs.** `Inv` is `TypeOK` and

- `Chain`: places of calls that are queued or running differ, and one that is
  running has the least. That is what the promise chain buys; `OneWriter`
  follows from it.
- `Loading`: what a load will return is what the file holds, and memory is not
  used before; it is needed because a load and an update overlap.
- `Writing`: the temporary file holds what memory holds once it is being
  written, whole when it is about to be renamed.
- `Published`: updates that were renamed or answered are in the file.
- `NeverTorn` and `MemoryAccounted`, which are inductive only together with the
  others (a rename publishes memory, so the file stays below memory).

`Implements` shows that the store implements `DurableDocument` with the
document of the file for `committed` and the state of each call for `outcome`:
a rename is `DocCommit`, an answer `DocReturn` or `DocReject`, a process end
`DocCrash`, and everything else a stutter.

**SchedulerProofs.** `Inv` is `TypeOK` and

- `Marked`: whatever is executing is in `running`, and two executions are of
  different schedules (`OneRunPerSchedule` needs the first to be inductive);
- `Awaited`: who waits for an update at the store and what is queued for them
  agree, so that the one who is resumed is the one who asked (needed for
  `RunNowLeavesScheduleAlone`, where the head of the queue is the run's);
- `Born`: only schedules that are new are created, and memory is never behind
  the file about a deletion, which makes `RemovedForGood` inductive.

`ServedOnce` (a run time is delivered again only after a failure or an end of
the process) needs more, `OnceInv`. What can go wrong is that a `nextRunAt`
from before a delivery is written back, by an edit or by a missed run queued
behind it. So

- `Times`: ticks wait in the order of their calls, and what a tick found due is
  not after its `now`; `Past`: what was delivered is not after any tick to come;
- `Single`: a schedule is due once in a tick, not again while the tick runs it;
- `Claims`: each run time in memory, in the file, in a queued update or in the
  list of due schedules may be delivered once more without exceeding the
  failures so far (`Spare`), unless the timer has delivered it and the patch
  that will move the schedule on is still to come (`Superseded`). With `Moving`,
  that such a patch does move it, this is inductive.

**LlmFailoverProofs.** `Inv` is `TypeOK` and, for each request,

- `Routed`: a request that has begun stands on one of its routes, so a failover
  never runs off their end;
- `Fresh` and `Counted`: attempts start at zero on every route, and each one
  after the first has added a parameter to what is left out. With `Learned` (a
  provider is only learned to refuse what it refuses) the attempts are at most
  the parameters a model refuses, which is why the cap is never what loses a
  request (`NotFatal`, that is `DroppableIsNeverFatal`);
- `Spoken`: nothing of a turn has gone out until an answer streams, and then
  only the route's provider has spoken (`OneVoice`).

`Others` carries these over the steps of other requests: what they read of the
shared state, `unsupported`, only grows. The proof assumes that the providers are
different from `"auto"` and that the droppable parameters are finitely many;
it holds for any breaker, order, number of requests and mode switches.

**BenchRunsProofs.** `RunInv` is the types and, for each run (`Sound`),

- `Staged`: what each stage tells of workers and results, and that a run whose
  worker broke off was cancelled;
- `Counted`: the results are those of the passes before and, of this pass, of
  the cases that were taken and are no longer worked at (`Expected`), each once:
  what the workers' shared index buys;
- `Worked`: while a case is left, a worker is at one, so a pass ends only
  after the last;
- `Kept`: who is in `active`, in `recent` and on disk, and that a whole file
  has the report.

`ReportComplete` follows where the last pass is over and the results are sorted:
`Rank` numbers the pairs of pass and case in the order of the sort, and
`SortsToWhole` shows by the distances between ranks that a list that has each
pair once and is in order is the report. The sort is specified by what the
library promises (`Sorted`, `Place`: the k-th is the one with k-1 smaller), as
`SortSeq` of the `TLC` module is a recursion. `PageInv` adds the page: it
has nothing until it has seen the run live, and reloads only then, so a page
that stops has either reloaded or been served the report in one piece. The proof assumes that `Nobody` is not a run
and that each run has a pass and a case.

**MobileChatsProofs.** `Inv` is the types and

- `Ordered`: the file, the saves in the queue and the screen are snapshots of
  the conversations in the order they were taken; a later one lacks a chat of an
  earlier one only if the user deleted it, and no later one has it again. A save
  that is late or repeated therefore cannot bring back or lose a conversation;
- `Owned`: what was read or written is what is stored, and what is stored and was
  not read is not shown or saved, unless the old value has one of that id. So a
  save writes over a conversation only its own continuation, except in that case
  (`NothingDestroyed`), and what was erased stays away (`ErasedForGood`), through
  kills, unreadable values, damaged entries and failing storage;
- `Loading`: until all is loaded nothing is saved or asked, and a conversation
  of the old format that need not be moved again has a value of its own;
- `PendingHasRequest` itself (`NoneLeftPending`).

`QuietIsStored` needs `Faultless` as well: if nothing failed, what the store
believes it wrote is what storage holds, and what is shown is the last save
that was queued unless another is due.

**WhatsAppChatProofs.** `Inv` is the types and

- `Belongs`, `Known`: a conversation is of the number of the message it was made
  for, and what is remembered or referred to was accepted since the last restart,
  so an identity that comes again after a restart is new (`Unreferred`);
- `TurnsOnce`: turns are answered messages of the conversation's number;
- `Crowds`: of two messages of a number under way, both are crowded;
- `Kept`: the stored conversation has all that is remembered of its number except
  what is crowded, unless it is full, and so has each conversation that a message
  under way holds. The second half is the strengthening: a job writes back the
  conversation it read before its await, whatever is stored by then, and that
  loses nothing only because everything answered in between is crowded;
- `Sees`: the same of the context that went along with a question;
- `Fresh`: what was `left` behind at a reset, with nothing of its number being
  answered then, is in no conversation that is stored, held or sent along. An
  answer under way at a reset does store the old conversation again, which is why
  `left` is said of the other resets only.

**FrontEndProofs.** Eleven more machines of `MCFrontEnds`, each as an instance of
its own (`Analyst`, `Inbox`, `Voice`, `Settings`, `Saved`, `Prices`, `Web`,
`Export`, `Push`, `Chats`, `Bench`) in a section of its own. They have nothing to do with each
other; where two declare the same name, as `calls`, `sent` or `Tokens`, it stands in
each section for the one of that section's machine.

*The analyst.* `AnalystInv` is the types and

- `InStep`: while the agent runs, the client shows exactly what was streamed and
  not withdrawn, which is what reconciling with the final answer relies on
  (`AnswersStep`, for streamed texts that are equal to the answer, different or
  withdrawn, and for an answer that is empty);
- `Honest`: a run that knows of no stopgap lacks at most the schema, so that what
  it caches does (`StopgapsPass`); `CachedText`: what is cached has a text, so
  that a replay shows one too (`ClientInStep`).

In its `TypeCorrect`, the tools' budget is the part that could be wrong: the
queries at the database are within what was counted, and that within
`MaxQueries`. `BudgetKept` shows it for the calls a turn starts together, each of
which is granted a query only while the ones before it and itself are within what
is left: the greatest call that was granted bounds the others (`Greatest`).

*The inbox.* That no report is passed over (`NoReportPassedOver`) says something of
`lastSeen`, which two checks write, each a time it read before. It is inductive only
if said of every time that is remembered, also of those the checks under way read
(`AllCovered`), and

- `FiledInOrder`: reports are numbered in the order of their times, so that a list
  cut to its first few loses the oldest (`FirstOfSize`, `NotFirst`);
- `TimesKnown`: a time that is remembered is a report's, or of the first check;
- `ListsWhole`: a list under way has everything newer than it asked for, except
  what the property leaves out (`Exempt`), which stays so as reports come;
- `NothingLeft`: only a check that notifies has notifications to go, so that a
  check that ends takes none with it.

*The composer.* The file that `finish()` sends is the one the recorder has after
its last await, so the argument is about who may exchange it. A take is `Own` if
no other start overlapped its own and no `finish()` was under way when it was
prepared. `TakesMade`: a take is known only once it is prepared. `Alone`: while
such a start is under way nothing is recorded and no other start is. `Current`:
while its take is the recorder's, no other start may begin the recording, and the
calls of `finish()` under way are of it. With these it is finished by one call,
not after it was dropped (`FinishedOnce`), and what was sent is that take and of a
call that is over (`SentOnce`). Of takes that are not own nothing is claimed: the
code does send one start's file for another's.

*The settings.* `StoredInTheEnd`: the last of what waits to be written, or else what
is stored, is what the screens show, separately for address and key, as they are
separate writes. `AskedForNow`: a request that still counts is of the server and
attempt that are set, and there is one while the gallery waits.

*The list of runs.* `FilesDated`: times of change only grow, so that what is
remembered under a file's time is what the file says, and a file that is being
written has a time nothing is remembered under. `ListingSound`: what a listing has so
far was true since it began, and a report that was whole all along is listed or
still to be looked at.

*The prices.* `Dated`: the list that is kept is the one of the last load, unless
that failed, and a load under way was begun today. `CallsDated`: a call that may
look up its price finds a list of its day or later, unless that day's could not be
read or it did not wait for it, which is what the property says once it has
looked; one left without a price found no list, or one that lacks its model.

*The web page.* `FormAsksForFile`: what still counts was asked for the dataset
that is chosen. `NewestShown`: what the lists show was asked for before every
request that is open, and the history waits exactly while its latest request is.

*The import.* A file is `alone` if no other import of its process wrote while it
was written; the temporary name is the process's, so one that is not alone may be
renamed half written by the other. `Progress`: a file alone has as many tables as
its import's step says, and before it is renamed all of them, with keys, flushed.
`NamedAlone`: while it is at the temporary name nobody else of its process writes.
`LeftWhole`: an import that failed left none there, or a whole one. With these the
output is whole (`OutputSound`), and so is what a verification compared
(`VerdictsSound`), wherever they are of a file alone.
`FormsShared` goes through all types of SQL Server: the two sides write each alike
but `sql_variant`.

*Lists.* The three machines below filter and sort lists. Filtering is by the positions
that are kept, and the n-th of them is the one with n kept up to it; sorting alike.
`Placed` shows that these places are 1 to the size of the set, each once, as an
injection of a finite set into one of its size is onto; `KeptIs` and `SortedOnce`
follow without an induction.

*The devices.* `PushInv` is the types and `Listed`: the stored list has each device
once and is exactly `enrolled`, whatever a send removes long after it read. The
types say of a report that its `to` are the devices enrolled when its send read,
each once, and that it counts as sent only when all were posted. A report that a
phone left out for the push is one of `leftOut`, and the property follows for those
whose registration was stored before the read and not taken back.

*The conversations.* `ChatsInv`: `NewestFirst`, that no conversation is newer than the
clock and the order is the one of their times (asking moves the newest to the front);
`AskedInTurn`, that messages of a conversation stay in the order of their questions,
which makes a context's answers older than the question (`ContextBefore`); and
`NothingRead`, that nothing is shown before the store was read.

*The playground.* `BenchInv`: `Counted`, that an entry's `busy` is the number of calls
that still need it; `Pooled`, that what is in use is in the map, a setting once, and
the map no longer than the limit or than all questions can use at once; `KeptOpen`,
that what is in the map, and nothing else, is open. A question's models enter one
after the other within a step, and the invariant holds between any two of them
(`Steady`). That is an induction over the models (`EnteredSteady`), which here can be
done with a plain set: if some number of models broke the invariant there would be
a least such number, and one model less did not (`Least`). The length of the map is
where the bound comes from: while a question has a model to come, what is in use
is fewer than all questions' models (`BusyFew`), and eviction leaves no more than the
limit allows unless all it leaves is in use (`EvictedFew`).

Each of these theorems assumes what its machine states of its constants
(`BoundsAssumption`, `SettingsAssumption`, `ListAssumption`, `PriceAssumption`,
`WebAssumption`, `ExportAssumption`, `PushAssumption`): that bounds are natural numbers, that the
limits of lists are not zero, that the datasets of the form exist and their cases are
finitely many, that the tables to import are known, that installations and
conversations are finitely many, and so are the questions asked at a time.
`MCFrontEnds` states all of them of its instances, so that TLC evaluates them.

The run's properties are those of all machines together, of which the theorems
of `MobileChatsProofs`, `WhatsAppChatProofs` and `FrontEndProofs` prove the part of
one:

| property | proved | only checked |
|---|---|---|
| `ConversationsKept` | all: `NothingDestroyed`, `SettledKept` | – |
| `PhoneInStep` | all: `NoneLeftPending`, `QuietIsStored`, `ErasedForGood`, `ListShownInOrder`, `RecordingSentOnce`, `BackgroundUsesServer`, `GalleryShowsServer` | – |
| `NonePassedOver` | all: `NoReportPassedOver`, `PushedOnce` | – |
| `ClientSeesAnswer` | `ClientInStep` | the stream's events |
| `StopgapNotCached` | all: `StopgapsPass` | – |
| `FollowUpSeesHistory` | all: `ContextKept` | – |
| `PipelinesAccounted` | all: `PipelinesCounted`, `ListOfNow`, `OnceRead`, `RunsShown` | – |
| `MdfReadsRows` | `ExportWhole`, `ExportVerified` | the reader of pages |

What is only checked there is the reading of a stream's characters and of a file's
pages: filters and folds over them (`SelectSeq`, `FoldLeft`), of which a proof would
be an induction over the data for each, and the bytes would have to be kept apart
at every step. Where a fold was short, as the playground's over its models, it was
made a function and proved.

**AskPipelineProofs.** `Inv` is `SourceTypeOK`, the caches' types and, for each
request,

- `RoundsCounted`: a request has at most the rounds it is allowed, one more if
  it rechecks. A refused round may add one to them, but only of the cheap tier,
  which takes the last round only when there is no other: that is why `most`
  does not grow without end, and the hard part of `TypeCorrect`;
- `KeyKnown`: the schema a cache key needs was read before the caches are;
- `ChosenRan`: what is looked at again, phrased or kept ran and goes with its
  result (`Ran`), and what a request took from the cache is SQL;
- `Earned` for its answer.

`CachesSound` says the same of what the caches hold: cached SQL is read back
into requests and cached answers are replayed, so neither half is inductive
alone. The data's side enters by its types only (an open engine reads a file
that holds some version), whatever overlaps there. The proof assumes that the
refreshes are finitely many, as the numbering of promises does.

The same module has what holds of the data's side, `SchemaReload`, where opens,
loads, refreshes and replacements of the `.mdf` overlap as they like. Its types
hold in any case (`SourceStepType`), and so does `FilesInv`: a file that no other
conversion wrote beside is whole wherever it is named, since its writer was the
only one at the temporary name until it renamed it. Files that were written by two
at a time are what `ServedWhole` leaves out (section 6).

The rest holds under the conditions that the properties state: `OneAtATime`, that
no open began beside another so far, and `NotReplaced`, that no conversion saw
its `.mdf` replaced. Both speak of the past and are never undone (`Back`:
`OneAtATime' => OneAtATime`), so where one holds it held at every step before, and
the invariants under it are inductive: `DataInv` is `FilesInv`, `EngineInv` if
`OneAtATime`, and `ServeInv` if both. They are invariants of both sides together,
since requests, too, begin opens and loads. Their parts are

- `OneOpen`: one open is under way at a time and `this.duck` holds it;
- `Fallback`: the engine a reload goes back to (`Current`) is open, and the
  late close never reaches it;
- `Ordered`: whatever was opened is no newer than what serves, that no newer than
  the file, and a conversion under way writes nothing older. That there is an
  engine at all is claimed only while none was `Dropped`, by a handler of another
  caller that ran after the reload had restored it;
- `OneLoad`: a load under way is `this.loading`, and one that no reload disturbed
  read all it read from one engine;
- `Awaited`: for each refresh, the data it was asked for is being opened
  (`Due`), will be served next (`Coming`) or is.

Each step of the engine is shown to go forward only (`Forward`: what was due,
coming or served stays so) and to leave those who hold `this.duck` their engine
(`Steady`); from these two follow what loads and refreshes rely on
(`LoadsWait`), without looking at the step again. `Kept` and `Shown` derive the
properties from `EngineInv` and `ServeInv`.

Only model-checked: the liveness properties (`Settles`, `DueIsHandled`,
`RunsEnd`, `QuestionsEnd`, `EverythingEnds`, out of the prover's reach, with
`ENABLED`), the machines `EventStream` and `MdfTable`, and the
algorithms, of which those over lists and bytes are inductions over data. The
invariants of the proofs were checked by TLC, on the runs' instances or larger
ones, before they were proved.

## 5. Not modelled, and the plan

Not modelled: the SQL guard and everything else that is decided character by
character in SQL text; the words of prompts, reports and translations; layout,
colours and the charts' drawing beyond their marks; the Wilson interval and
other real numbers; signature checks and the HTTP framework; dependency wiring.
The file of the verified examples is not modelled, although two changes at a time
may tear it (`examples.service.ts:101`).

What comes next, most important first:

1. A theorem: that the stream's client is given every event (`EventStream`).
2. The examples' file, with a composition of the scheduler and two stores
   (schedules and inbox).
3. The abstract cache that `AskPipeline` implements: what is served was true of
   some version of the data since it was cached.

## 6. Where code and documents differ, beside the findings

These were met while modelling. The models follow the code, and properties
leave the cases out by a condition they state.

Server:

- `schema-catalog.service.ts:145` "fills `column.values` in place", but a column
  with a schema note is a copy (`schema-notes.ts:43`), whose hints are lost.
- `docs/WHATSAPP.md:13` keeps the last 4 turns; the code slices 6. A menu page
  that no longer exists is sent as an empty list, which WhatsApp refuses. Against
  the reset of the same line, an answer under way at a reset stores the old
  conversation again (`whatsapp.service.ts:203`). Of two first messages at the
  same time one is forgotten. "A question is never answered twice"
  (`docs/WHATSAPP.md:21`) holds within a process: a message delivered again after a
  restart is answered again.
- Two reloads beside each other that both fail leave a rejected promise as the
  engine: the next `duckdb()` call gets it and fails, and its handler clears it
  for the one after (`database.service.ts:106-107,123`).
- `export-duckdb.ts:113-117` lets nobody see a half-built file, but the temporary
  name is the process's (`:139`): a refresh during the boot conversion has two
  conversions write there, and the first to end renames what the other has
  written so far.
- An `.mdf` that is replaced while it is converted is not noticed: the converted
  file is newer than it (`database.service.ts:92-93`). A refresh that joins an
  introspection already under way returns what that one read
  (`schema-catalog.service.ts:122`).
- Calls that end while the price list is being read are priced by the list before
  it, or by none (`model-pricing.service.ts:59`).
- `flips()` counts a provider's error as an incorrect answer
  (`metrics.ts:149-172`), which `metrics.ts:14` leaves out of accuracy.
- Ablation variants do not set `ASK_SQL_CANDIDATES`, so a feature is "measured
  alone" (`cli.ts:28`) only under settings that vote over one candidate; and
  `--preset pipelines --pipeline chat` makes both variants chat.
- Variant names need not be unique: labels `a`, `a`, `a #2` (`bench.dto.ts:74`).
- A pipeline of the playground whose start failed stays cached until evicted; a
  run that failed or was cancelled and is still active is listed twice
  (`bench.service.ts:324`).
- `AGENT_HISTORY_TURNS=0` gives `slice(-0)`, the whole context
  (`analyst.service.ts:104`).
- Effort `xhigh` or `max` gets the room of `medium` (`llm.service.ts:84-89`);
  retries are fixed at the start although the mode may change (`:112-119`); a
  provider named twice in `LLM_FALLBACK_ORDER` is tried twice; a mode that names a
  provider without a key fails with "No LLM provider configured" while `/health`
  says that one is.
- A report is neither pushed to a phone nor notified of by it
  (`notifications.ts:81-82`) if a post before its chunk failed, which ends the
  send (`push.service.ts:64`), if the phone registered between the send's read and
  its own check, or if its `PUSH_KEY` is of another server. The dead tokens found
  before a failed post are kept; one that registered again during the send is
  removed (`:72`).
- A blank number parameter of a template is 0; `_meta.primary_keys` may name
  columns that are withheld (`export-duckdb.ts:226`); a `sql_variant` column never
  verifies as equal; what a failed, unpinned transcription cost is not reported.
- A first read of a JSON document that fails with anything but ENOENT is kept:
  the document cannot be read until the next start (`json-store.ts:22`).
- A schedule deleted between the check of `running` and `get()` stays in `running`
  (`scheduler.service.ts:147`), which harms nobody as ids are not used again; an
  edit writes back the outcome fields of before a run that ended meanwhile
  (`:106`); eight attempts learn only seven of eight parameters
  (`agent-model.ts:38`).

Phone and web:

- A value of the new format that could not be read is written over by the old
  one of the same id, although the comment at `chat-store.ts:51-53` keeps what
  cannot be read (`:72-74,124-128`). Entries of the old value that do not
  normalise are dropped and deleted with it (`:124,131`). An old value that could
  not be removed brings a deleted conversation back at the next start.
- The two-minute limit of a recording keeps a draft that was sent, so that it may
  be sent again; a take that is too short clears the draft unsent; a cancel during
  the start does not keep the recording from beginning (`useVoice.ts:46-75`); a
  failed preparation stays "starting". A second start while another or a
  `finish()` is under way makes a file of its own, and `finish()` sends the file
  the recorder has by then (`:82-87`).
- `request()` clears its timeout and its abort listener before the body is read
  (`api.ts:192-197`), so a body that stalls leaves its answer pending for as long
  as it does; and a signal that was aborted before does not abort the fetch.
- A transcript of more than 2000 characters becomes a question that the server
  refuses as context of the next ones (`chat-reducer.ts:204`, `query.dto.ts:31`).
- Editing a schedule with a cron pattern opens as daily at 9:00 and replaces the
  pattern (`edit.tsx:84-90`); the form does not know the server's limits; the
  list's switch writes back the whole schedule.
- An app killed in the middle of a save may keep the address of one server with
  the key of another (`settings.tsx:86`); the push registration is not repeated
  for another server with the same token.
- A retry takes the cost of the answer it replaces out of the totals; the long
  table's months of different years are summed; the axis of a constant series
  is empty (`lineDomain`).
- While an answer streams, a code fence or an escaped backtick that is not closed
  shows a stray backtick, and a lone asterisk before a backtick is seen
  (`markdown.ts:181-187`).
- The playground's Ctrl+Enter is not held back while it is busy; the run page
  looks at `stopped` after its first await only.
