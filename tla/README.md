# A model of the Kaltura Live plugin for OBS

TLA+ specifications of `kaltura-obs-plugin`, an OBS Studio plugin that streams
to Kaltura through a Primary and a Backup output, transcribes the program audio
with Whisper, inserts the text as CEA-608 captions, and keeps its settings in
the scene collection and a credential store. The modules are translated from the
code under `src/src` and `src/include`; `PROJECT.json` maps each definition to
its lines. TLC checks the modules on small instances, TLAPS proves the theorems
for every value of the constants.

## 1. Inventory

| Part | State it keeps | Operations | Works with |
|---|---|---|---|
| **StreamingManager** (`streaming_manager.cpp`) | a slot each for Primary and Backup (config, health state, requested, reconnects), who owns the OBS stream, whether Backup waits for it, the auxiliary output with its service and encoders | `configure*`, `clearConfiguration`, `setProgramDelay`, `start*`/`stop*`, four frontend events, `shutdown`, `health`, `sendCaption` | Plugin calls it; OBS outputs and signals |
| **CEA-608 inserter** (`captions/cea608_caption_inserter.cpp`) | queue of caption screens with due times, recent captions, counters, health text, session | `configure`, `start`, `stop`, `submit`, `setProviderStatus`, the timer's `processQueue` | fed by the provider, writes to the manager's outputs |
| **CaptionManager, WhisperProvider** (`captions/`) | audio ring, phrase queue, two worker threads, mutexes and condition variables, atomic flags | `start`, `stop`, `onAudio`; workers `runAnalysis`, `runInference` | OBS audio thread, Qt UI thread |
| **KalturaApiClient** (`api/`) | a request with its attempt, its reply and its timer, per call | one method per Kaltura operation, all through one retry loop | Plugin and dialog, network |
| **SettingsManager** (`settings_manager.cpp`) | settings in memory, credential ids, cache of what was stored | `load`, `save`, `update` | scene collection JSON, credential store |
| **Plugin** (`plugin.cpp`) | the components, caption flag, restore request id, previous OBS service | frontend save and event callbacks, dock and dialog commands, health timer | everything |
| **Output configuration** (`stream_output_config.cpp`) | none | validation, SRT URIs, mapping of Kaltura entries | manager, dialog, dock |
| **SettingsDialog** (`settings_dialog.cpp`) | a draft of the settings, the validated session, list, page and search, a request id per kind of call | validate, list, page, search, select an entry, ask for its configuration, apply, revert, OK | API client, Plugin |
| **KalturaDock** (`kaltura_dock.cpp`) | what its widgets show | displays health, forwards clicks | Plugin |
| Player preview, Logger, platform stores, module entry | - | thin | - |

Almost everything runs on the Qt UI thread, one handler at a time. The hard
behaviour comes from what does not:

* **OBS moves on its own threads and tells the plugin later.** A stream is up
  before `STREAMING_STARTED` is delivered; in between, handlers run with what the
  manager read before. Users also have OBS's own buttons.
* **The Whisper provider is a real multi-threaded program**: a lock-free ring
  between the audio thread and a worker, a condition variable between two
  workers, and a UI thread that joins both.
* **Requests time out, are retried and answer late.**
* **Two stores that fail separately** hold the settings: the JSON of the scene
  collection and the platform's credential store; OBS may crash between writes.
* **The settings dialog runs a nested event loop**, so everything above goes on
  while it holds a copy of the settings. Its own calls come back in any order and
  are told apart by request ids.
* **Three hands are on OBS's streaming service**: the plugin's, for whichever slot
  was chosen last, the user's, and the next project's.

What makes the parts correct, in short: one path to a destination per slot, a
waiting Backup is always woken and always wanted, the auxiliary output is the one
the slot shows; captions are counted, in order, of this session only; no audio
chunk is overwritten, no phrase and no stop forgotten by a sleeping thread; a call
completes once, with its last attempt's result; credentials are never shared and
stored sessions never lost; captions and audio capture follow the outputs and the
settings; a late answer does not undo what was applied after it, a running output is
not routed elsewhere, and OBS's own service comes back; the dialog shows what
its fields say. Where the code falls short of one, the property names the exception
and section 3 says so.
`PROJECT.json` lists the hazards one by one, at their lines.

## 2. Modules

`OutputSlots` is the abstract specification in the middle: `StreamingManager`
implements it, `PluginCaptions` is built on it.

    StreamingManager --implements--> OutputSlots <--EXTENDS-- PluginCaptions
    ApiClient        --implements--> AsyncCalls
    CaptionInserter, WhisperProvider, SettingsStore, SettingsDialog, PluginRouting:
    on their own

Each `X` has an instance `MCX` for TLC, and its proofs in `XProofs`.
`plugin.cpp` is modelled in two views, since its two jobs hardly meet:
`PluginCaptions` sees of an output whether it is requested, `PluginRouting` where it
goes. Both have the same handlers where those matter to both.

**StreamingManager.** One action per public method. `config`, `state`,
`requested`, `reconnects` are the two `Slot` structs; `frontendRole` joins
`frontendRole` and `hasFrontendRole`; `pendingBackup`, `tracked` and
`delaySeconds` are members; `aux` is the auxiliary output with the configuration,
encoders and delay it was created with and the phase OBS has it in; `frontend`
is the OBS stream; `events` the `STARTED`, `STOPPING` and `STOPPED` events OBS has
queued for the UI thread. `Shown` is what `health` reports: Live while an output is
active, whatever the slot's own state. `Next` is `PluginCall` (the methods), `EventDelivery` (the `onStreaming*`
handlers, taking the oldest event) and `ObsStep` (outputs connect, go live,
reconnect, end). A stream that nobody
owns when `onStreamingStarting` runs becomes Primary's. The outcome of every OBS
call that can fail is a choice. Samples, start times and texts are left
out. `Configure` keeps the code's order: Primary is configured also when Backup
is then refused.

**OutputSlots** hides slot states, encoders, delays and the event queue, and lets
events come at any time. What remains is what the plugin relies on: which slot
owns the stream, who is requested, who waits, and that a slot takes a
configuration only while it is inactive.

**CaptionInserter.** The queue, `recent`, the counters, `rejected` (a history variable:
phrases with no text to show) and the health of `processQueue`. Time is a tick;
a due time is a distance from now, kept up to the distance from which nothing in
the code can differ, so that the timer's lateness, the minimum gap and the
maximum lateness are all in the model without an unbounded clock. A phrase is the
number of screens it is wrapped into.

**WhisperProvider.** Program counters for the four threads, with a step between
any two accesses to shared state: the `running` flag, the ring's `write` and `read`, the phrase queue under its mutex, predicate test and sleep of
the inference worker as two steps, notifications as steps of their own. Analysis
may find speech, its end or nothing; a model may fail to load.

**ApiClient.** Per request its operation, phase, attempt, last answer and result.
Answers are the classes the code tells apart (status, transport error, size, JSON,
API error) and, for an object, which of the fields it has that the operation reads. `Retry` waits for its timer; a call on invalid arguments
is refused at once. **AsyncCalls** is what a caller sees: pending, then once a
model or an error.

**SettingsStore.** `file` (the JSON of each collection), `store` (the credential
store by id), and in memory `loaded`, `id`, `value`, `persisted`, `unsaved`. Each
write or read of the store may fail; a restart may come between a write of the
store and the save. `Restart` includes the `load` that follows it, with
everything `load` writes back.

**PluginCaptions** (EXTENDS OutputSlots). The handlers of `plugin.cpp` that touch
the outputs or the captions: `onFrontendEvent`, `onFrontendSave`, the dock's
commands, opening, applying, reverting and accepting the dialog, the reply of
`restoreStreamingConfiguration`, the health timer. `captions` has the plugin's
flag `captionInsertionActive_`, the inserter's own flag and whether a
CaptionManager runs. Every handler ends in `FollowOutputs`
(`updateCaptionStreamingState`) exactly where the code's does; the dock cannot be
used while the dialog is open, everything else can happen. A model that is
installed is taken to load (WhisperProvider has the case that it does not), and the
lock that the dock displays is left out.

**PluginRouting.** The same handlers as to destinations. `config` and `active` are
the two slots as the manager shows them, `settings` the endpoint choice, entry and
outputs, `service` what OBS streams to, `previous` is `previousServiceSettings_`,
`asked` the `getStreamConfiguration` calls whose request id is still the latest,
`dialog` whether it is open and with which endpoint it opened; `latest` is a
history variable: the last call, until it is answered or a dialog applies. `RestoreStreamingConfiguration` is
the helper behind loading a collection and OK; `Answered` is its reply;
`ApplyObsStreamSettings` and `RevertObsStreamSettings` are the dialog's buttons;
`UpdateOutputConfiguration` and `StartOutput` the dock's. Every call of
`updateFrontendStreamSettings` is `UpdateFrontend`, with OBS's refusal. When outputs
run is the environment's (`OutputsMove`), as is the user's hand in OBS's own
settings (`UserSetsService`, with any of several services of his own). An entry stands for all its URLs and keys.

**SettingsDialog.** One dialog from its opening to its end. `text`, `validated` and
`validating` are the session; `page`, `filter`, `shown`, `debounce` and the
buttons the list; `selected`, `calls` and `question` the selected entry, the
calls for its configuration and the confirmation box. A request id is compared with
the latest one only, so a request carries `current`, which a later request or an
edit withdraws: then its answer is ignored, whenever it comes. Validation needs no id
since the field is disabled meanwhile. The box is modal: while it is open, timers
and answers go on, clicks do not.

## 3. Runs

| Run | Shows |
|---|---|
| `sm_safety` | the manager's safety: a waiting Backup is wanted and its wakeup is queued, one path per slot, the auxiliary output follows its slot and the delay, what is shown live streams, reconnects are counted for the owner, the active stream keeps its owner; two properties name the steps of `startPrimary` that break them |
| `sm_liveness` | a Backup that waits is resolved, stops of either output complete, and the manager implements `OutputSlots` |
| `caption_inserter` | screens are accounted for, shown in order and in their session, and every screen settles |
| `whisper_provider` | chunks are not overwritten, sleepers are woken, sessions are whole, stop gets past the analysis worker |
| `api_client` | each request is one asynchronous call that ends once, with its last attempt's result, and failures that may pass use all attempts, but for a connection cut off after its status line |
| `settings_store` | no credential is shared, what was saved comes back and the write cache tells the truth; stored sessions survive, and one still in the JSON does except where its migration fails |
| `plugin_captions` | flag and inserter agree and insert for requested outputs only; audio is recorded only while enabled, and the inserter is fed; captions come and go with the outputs |
| `plugin_routing` | a late answer undoes neither what was applied nor what was asked after it, a revert brings back the service that was replaced first, running outputs keep their configuration, and OBS's service under them but for two steps that concern the other slot |
| `settings_dialog` | the list is that of session, page and search, the selection of the session in the field, the question about the entry selected last; no button leads on from a list while another is on its way, and the list can always be loaded again |

Three more runs check one sentence of the documentation each, and TLC finds the
code does otherwise (details under "findings" in `PROJECT.json`):

| Run | The behaviour |
|---|---|
| `doc_stop_returns` | `stop()` notifies without the mutex, so the worker may sleep through it and the UI thread joins for ever |
| `doc_never_aborts` | after a model that failed to load, the next start assigns over joinable threads |
| `doc_secrets_survive` | a start while the credential store cannot be read overwrites stored output secrets with blanks |

### Seen while modelling

Behaviours of the code that the models have and that no run calls wrong, since
the repository either says nothing of them or can be read either way.

The manager:

* once Primary has owned the stream, a Backup started alone waits for a Primary
  that nobody asked for (`streaming_manager.cpp:230`);
* a protocol change is accepted while the slot is Starting ("applied only to the
  stopped slot"), and `setProgramDelay` does not reach an output that does not exist
  yet or is active;
* `startPrimary` takes the role from a Backup that is still connecting, and the
  service with it. It leaves Backup's reconnect handler on the stream
  (`streaming_manager.cpp:204-209` has no `releaseFrontendTracking`), which then
  counts Primary's reconnects until the stream stops or starts again.
  `TrackingFollowsOwner` names this step as its exception;
* `startPrimary` also takes the role from a Backup whose stream has just ended and
  whose `STOPPED` is not delivered yet. The event then resets Primary
  (`streaming_manager.cpp:178-181`), and Backup shows Live without a stream until it
  is started, stopped or configured. `LiveMeansStreaming` names this step, and
  `shutdown`, after which nothing is shown.

The routing:

* a revert does not last. The outputs stay in the settings and a call under way
  stays valid, so the next load, start of OBS or late answer takes the service over
  again. `docs/USER_GUIDE.md:54-55` promises the restoration, not how long it holds;
* `previousServiceSettings_` is in memory only: after a restart of OBS the plugin's
  own service is taken for the user's. `FirstServiceIsKept` is about one run of OBS;
* only the first service is remembered. One that the user sets in OBS over the
  plugin's is lost when the plugin next replaces it: `plugin.cpp:665` remembers
  nothing while something is remembered, and a revert brings back the older one;
* a load that asks nothing, a revert and an edit in the dock do not outdate an
  answer under way; `AnswersFollowApply` names what does;
* a failed answer to a restore clears the configuration, which stops a stream that
  runs (`plugin.cpp:799`);
* OK compares the endpoint with the one the dialog opened with, not with what the
  settings have by then;
* a project loaded while one slot streams and made for the other slot replaces OBS's
  service (`plugin.cpp:764`), and so does an edit in the dock of an idle Primary under
  endpoint `Both` while Backup runs on OBS's stream (`:633-635`): OBS's service is then
  no longer that of the running stream. `StreamsKeepRoute` names these two steps;
* a scene collection loaded while streaming changes the caption settings that
  dialog and dock have locked (`plugin.cpp:276`).

The dialog and the client:

* an edit of the session drops the selection but not the call for its configuration:
  a question about the dropped entry may still come;
* the selected entry is written to the draft before its outputs are configured, and
  stays when that fails or is refused;
* a connection lost after a status line below 500 is reported at once, although
  `docs/api-client.md:30-31` promises that network failures are retried: `isRetryable`
  looks at the status alone (`kaltura_api_client.cpp:83-87`). `ResultIsOfLastAttempt`
  asks all attempts of every failure the document lists and names this one
  (`CutOff`) as its exception.

The settings:

* a session that an old version left in the JSON is migrated to the credential store on
  load. When that write fails, the next save drops it from the JSON all the same, as
  the code means to (`settings_manager.cpp:329-330`), and with a restart it is gone.
  `SessionSurvives` names the case.

### Bounds

* Manager: both roles are fixed. Safety runs with three configurations (RTMP, SRT
  and disabled: the protocols differ in encoders, validation has one other
  outcome), delays 0 and 1 (equal or changed), `MaxBacklog` 1: one event may be
  undelivered when OBS accepts a start, which lets an end of the old stream
  overtake the new start. A further event is always appended behind, so the queue
  holds the events of two streams. `MaxReconnects` is 0 there, since the counter
  guards nothing; the liveness run has 1 and one delay and protocol.
* Inserter: a queue of 2 with phrases of up to 3 screens overflows from one
  phrase and from two; `MaxReceived` 3 and `MaxSequence` 5 per session, sessions
  unbounded; delays 0 and 2, gap 2, lateness 1 meet every comparison of due times
  in both directions.
* Whisper: a ring of 2 slots and 6 chunks wraps three times; a backlog of 2
  phrases overflows. The two violations need only 2 chunks and 1 phrase.
* API: two requests of any two operations, two retries (first, middle and last
  attempt).
* Settings: two collections with a session and one output each, two sessions,
  four ids, which are symmetric as the code compares ids for equality only. An
  action that needs a fifth id is not enabled; that bounds how many times a
  credential can be created anew, not how often the stores are used. The
  properties of this run are invariants and one action property, for which
  symmetry is sound.
* Captions: configurations are enabled or disabled, all handlers look at nothing
  else. Nothing else needs a bound.
* Routing: two entries, so that a destination can be the same or another; they are
  only compared for equality, hence symmetric, and the properties are invariants
  and action properties. Two services of the user's own, symmetric too, so that one can
  be lost while the other is kept. Endpoints `Backup` and `Both`: the first makes Backup the
  owner of the service, the second enables both slots with Primary as the owner.
  Four projects, with saved outputs and without, and one edit per entry; dialog and
  dock make the other settings from them. At most one call counts at a time, as in
  the code. The theorems cover every choice of these.
* Dialog: two sessions, two entries, two searches and two pages, so that an answer
  can be wrong in each of them alone; `MaxOpen` 2 requests of a kind, the current
  one and an outdated one. Further outdated requests would be ignored in the
  same way. Nothing is symmetric here because a liveness property is checked.

`CHECK_DEADLOCK FALSE` in `api_client`, where every request may be done, and in
the whisper runs, where a program that aborted or threads that wait for each
other have no step: that is what those properties are about.

### Fairness

Nothing is assumed of users, the network, the audio device or of whether an
output ever connects. Assumed are:

* manager: the UI thread delivers queued frontend events, OBS completes a stop it
  was asked for, and the one-second health timer (`plugin.cpp`) polls;
* inserter: its timer is served and time passes;
* whisper: a thread that can run does; no spurious wakeups, no audio and no user
  action are promised;
* API: Qt's timers fire, so an attempt ends and a retry is sent;
* captions: the health timer fires, in the dialog's event loop too;
* dialog: each call for the list completes, as `ApiClient` shows it does, and the
  debounce timer fires. Nothing is assumed of validation or selection.

All of it is weak fairness of one thread's or one timer's step.

## 4. Proofs

For all values of the constants that satisfy the named assumptions
(`ConfigAssumption`, `RoleAssumption`, `DelayAssumption`, `BoundAssumption`, ... :
types of the constants, disjointness of model values, limits of at least 1; TLC
evaluates them in every run).

**StreamingManagerProofs**: `TypeCorrect`, `PendingBackupIsAlwaysWanted`,
`OnePathPerSlotAlways`, `AuxAlwaysFollowsSlot`, `NoWakeupIsLost`,
`LiveAlwaysMeansStreaming`, `TrackingAlwaysFollowsOwner`, `ActiveStreamAlwaysKeepsOwner`. Types
are proved first, one lemma per group of actions. `Ownership` then joins the
invariants on who holds what; they support each other, since Backup's wait is
withdrawn by the handlers that move the role, and the auxiliary output exists only
beside Primary. None of it says anything on the event queue. `Signalling` does:
`NoLostWakeup` is not inductive: it says nothing of a stop
that is queued behind the `STARTED` of a running stream, whose delivery would
withdraw what it promises. The invariant adds that while the stream is active the
last event in the queue, if there is one, is `STARTED` (`LastEventIsStart`). Two
lemmas, on raising and on delivering an event, carry the queue reasoning.

`LiveAlwaysMeansStreaming` needs the counterpart of that: while the stream is off, the
last event in the queue is an end (`EndIsLastEvent`), so the `STOPPED` that resets the
owner is not lost behind something else. The proof goes by how a slot comes to be shown
live without a stream: it was shown live and its output ended, or it lost or kept the
role, or a handler set it so. `TrackingAlwaysFollowsOwner` rests on
`HandlerHasOwner`: a handler is connected only while somebody has the role, and
Primary's only while Primary has it.

`ManagerImplementsSlots` is the refinement as a whole: every initial state and
every step of the manager is one of `OutputSlots`, or a stutter, with one lemma for
each group of actions. It needs the types and `Ownership`; that a stop of Primary is a step of
the slots, for instance, rests on Backup waiting only behind Primary.
`ActiveSlotAlwaysKeepsConfig` is what `PluginRouting` takes for granted of the manager:
no step changes the configuration of a slot that stays active.

The liveness needs two more invariants. `QueueIsAlwaysOrdered`: a queued `STOPPING` is
followed by its `STOPPED`, or is the last event while OBS is stopping, and an output
exists as long as anything is queued. From it `StopAlwaysHasWayOut`: whenever the owner of
the stream shows Stopping, the stream is stopping, or it is off and the poll will see
that, or `STOPPED` is the next event although somebody has started again. Every step of
the manager is first sorted by what it does to the stream and its queue (`StreamStep`),
so that these proofs have a dozen cases rather than thirty. `PendingBackupIsAlwaysResolved`
and `StopAlwaysCompletes` then follow the stages of a wait and of a stop.

**CaptionInserterProofs**: `InvCorrect` and with it types, `CaptionsAccountedFor`
and `ShownInOrder`, and two facts that are proved only: `NothingWaitsUnlessActive`
and `HealthyMeansInserted`. The invariant describes the queue as an interval of
screen numbers that ends where numbering has come to, which makes counting and order
arithmetic; the drop of the oldest screens and the timer's prefix are lemmas on
tails of that interval. `OverdueAlwaysLeaves` is the heart of `ScreensSettle`: a screen past its
time does not keep the head of the queue, whatever the outputs answer and whatever is
submitted, withdrawn or restarted meanwhile.

**WhisperProviderProofs**: `ThreadsInvCorrect`, with `RingHoldsChunks` for a ring of
any size, `SleeperIsWoken` and `SessionIsWhole`. The invariant has a part for each:
`RingInv` says that what is published fits and what the slot holds that is being
written; `SleepInv` that a worker about to sleep found no phrase; `StopInv` what a
stop has taken down at each of its steps. The lemma `OwnSlots`
is the arithmetic: two chunks less than a ring apart never share a slot.
`AnalysisAlwaysStops` follows the analysis worker from wherever `stop()` finds it, in the
middle of a chunk, before a phrase or at its notification, to its end; the one step at
which another thread can hold it up is the mutex, which the inference worker gives up and
does not come back to with a wait in mind once `running` is cleared.

**ApiClientProofs**: `RequestsInvCorrect`, `ResultIsOfLastAttempt`, and
`RequestsAreCalls`, the safety part of the refinement of `AsyncCalls`, for any number
of requests and retries. `EveryCallCompletes` is its fairness, in the form that a pending
call leads to a completed one: an attempt leads to the next or to the end
(`EveryAttemptEnds`), and since the constructor clamps the retries to ten, twelve such
steps are enough and no induction is needed.

**SettingsStoreProofs**: `StoreInvCorrect`, with `NoCredentialShared`,
`SavedIsDurable` and `SessionSurvives` for any number of collections. None is
inductive alone. The invariant takes `NoCredentialShared` apart (`FilesDistinct`,
`MemoryDistinct`), says that the cache is what the store has (`CacheIsStored`), that the
JSON has the ids in memory unless something is unsaved (`FileIsMemory`), that a record
holds a value of its slot's kind (`KindsMatch`), and that no write is caused by a
missing session and the JSON's session is in reach of the next one (`SessionCached`,
`MemoryKeepsSession`). `PersistFacts` describes `Persist` slot by slot, all its
failures included, once for the operations that end in it.

**PluginCaptionsProofs**: `CaptionsInvCorrect`, with `InsertsForOutputs` and
`AudioFollowsSettings`, for any set of configurations. A part of the invariant,
`Ready`, must also hold between a handler's own work and `FollowOutputs`, while
"captions only for requested outputs" need not. `FollowOutputsEstablishes` says
that `FollowOutputs` turns the former into the whole invariant, whatever the outputs
are; each handler's case then has to show `Ready` only. Handlers that do not reach
`FollowOutputs` leave `requested` alone. `PluginDrivesSlots` says that the handlers use the
slots as `OutputSlots` lets them: each is one of its steps, or leaves them alone, or stops and
configures in one handler (`ClearTo`). `CaptionsAlwaysFollowOutputs` is the timer's part: no handler
can keep captions from a requested output past the next health timer.

**PluginRoutingProofs**: `RoutingInvCorrect`, with `AnswersFollowApply`,
`FirstServiceIsKept` and `StreamsKeepRoute`, for any projects, entries, endpoints,
edits and services of the user. Two are action properties, so each action has one lemma
that shows all that a step must keep (`Kept`): the invariant, what a revert brings back,
and the routes.

**SettingsDialogProofs**: `DialogInvCorrect`, with `ListIsWhatItSays`,
`SelectionIsOfSession` and `QuestionIsOfSelection`, for any number of pages and open
requests. The properties speak of what is shown; the invariant adds what the current
request will bring: a current load is for the session, page and search of
the fields (`CurrentLoadIsQuery`), a current call for the selection
unless that was dropped (`CurrentCallIsSelection`). `NeverWaitsForNothing` adds the other
direction: a list that the user cannot refresh is on its way. It is inductive only with the
fact that the page buttons are never enabled without the refresh button, or a click could
replace the load that is waited for. `ListAlwaysComesBack` follows, for any number of
open requests: the load that counts is one of them, and each of them is answered.

**Liveness.** These theorems have the form `FairSpec /\ []Enabled => Property`. TLAPS has
no rules for `ENABLED`, so `Enabled` says of each fair action what is evident from its
definition, that it can be taken wherever its guard holds (`FairStepsEnabled`, `TimerEnabled`,
`LoadsEnabled`, `ThreadsEnabled`, `TimersEnabled`, `TickEnabled`). Nothing else is assumed:
that a guard holds, stays, or is reached is proved. Put among the invariants of the runs of §3,
TLC confirms each `Enabled` on their instances; the runs themselves check the properties with no
such hypothesis. A proof
names the stages on the way, shows from the invariant that no step leaves a stage except
for a later one and that the fair action does leave it, and ends in propositional
temporal logic.

Every invariant and action property of the passing runs is a theorem, and so are the liveness
properties `PendingBackupResolved`, `StopCompletes`, `AnalysisStops`, `CaptionsFollowOutputs`
and `ListComesBack`, under that hypothesis. Model-checked only are `ScreensSettle`, beyond the
case above, since its measure is the length of the queue and the time left, and induction
over either is out of the prover's reach in temporal formulas; the weak fairness in
`CallsSpec` as it is written there, whose `ENABLED` is of the abstract action; and the three runs that find
a violation. No module declares a RECURSIVE operator; what a recursive computation yields for
every input would be out of the prover's reach.

## 5. Not modelled

* **KalturaDock**: it displays the health it is given and forwards clicks, which are
  actions of `PluginCaptions` and `PluginRouting`. The rest of the file is layout and
  painting.
* **Text**: the rules for the characters of URLs and keys and the SRT URIs
  (`stream_output_config.cpp`), the wrapping of a caption into screens
  (`native_caption_text.hpp`), the dictionary (`caption_dictionary.hpp`), messages.
  They are functions of strings without state; the models keep what their callers tell
  apart: valid or not, how many screens, which slots.
* **In the dialog**: thumbnails, the local status filter, the dictionary table, the
  partner id, and the controls that are only read on OK.
* **Player preview, Logger, module entry points**: no state worth a property.
* **The platform stores, speech recognition, resampling, OBS**: environments, with the
  answers and moves the code meets, refusals included.
* **The whole plugin in one model**: the manager, the inserter and the workers are
  composed through what each promises (`OutputSlots`, the flags of `PluginCaptions`), not
  as one state space. That captions of `PluginCaptions` are inserted by
  `CaptionInserter` and fed by `WhisperProvider` is by reading.
