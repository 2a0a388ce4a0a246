# Verification of gh-lazydispatch

TLA+ models of the parts of gh-lazydispatch that run concurrently or keep
state, model-checked with TLC, and theorems about them proved with TLAPS.
Paths are relative to the repository; line numbers are in `PROJECT.json`
(`map`), which names for every definition the code it stands for.

1. [The system](#1-the-system)
2. [What is modelled](#2-what-is-modelled)
3. [What is checked](#3-what-is-checked)
4. [What is proved](#4-what-is-proved)
5. [Where code and documentation disagree](#5-where-code-and-documentation-disagree)
6. [What is not modelled](#6-what-is-not-modelled)
7. [Plan](#7-plan)

## 1. The system

gh-lazydispatch is a terminal program (bubbletea) that dispatches GitHub
workflows through `gh`, alone or in chains, and shows their runs and logs.

| Component | State | Operations | Hard because |
| --- | --- | --- | --- |
| **Chain executor** `internal/chain/executor.go` | `ChainState` (status, current step, step statuses and results, error), `stopCh`, the updates channel (10) | `NewExecutor`, `NewExecutorFromHistory`, `Start`, `Stop`, the goroutine `runChain` with `runStep`, `waitForRun` and the failure policies | runs against Stop, GitHub, failing `gh` calls and a slow receiver; drops updates |
| **Run watcher** `internal/watcher/watcher.go` | the watch list, the updates channel (100), `isPolling`, the ticker, the context | `Watch`, `Unwatch`, `ClearCompleted`, `Stop`; `pollLoop`, `pollAllRuns`, `pollRun` | a poll releases the lock between reading a run and writing it; several goroutines poll |
| **App session** `internal/app`, `internal/ui/modal` | the modal stack, the chain flow (`pending...`, `executing...`, `chainExecutor`), subscriptions | `Update` and the handlers of keys, modal results and updates | results of modals and subscriptions are messages that race with keys; an open modal takes every message |
| **Panes** `internal/app`, `internal/ui/panes` | focus, tab, selections, filter, view mode, inputs, history preview | keys | indices into lists that change, -1 for "all workflows"; a map of inputs shared with a dispatch |
| **Input and answer modals** `internal/ui/modal` | `pendingInputName`; each modal's cursor, text, warning and result | open, answer, cancel, remap, reset, validate and override | an answer does not say which input it is for; a value is taken after a warning; lists shrink under a cursor |
| **Log streamer** `internal/logs/streamer.go`, `gh_fetcher.go` | line counts per step, the updates channel (50), `logStreamer` | `Start`, `Stop`, `poll`, `detectNewLogs` | increments over logs that shift; drops; a run that ends between polls |
| **Log viewer and filter** `internal/ui/modal/logs_viewer.go`, `internal/logs/filter.go` | the filter, the filtered steps, folds, the match index, the viewport | filter, search, fold, jump, scroll, resize | filter, index and content are derived from one another and refreshed by different keys |
| **History** `internal/frecency` | entries per repository, a JSON file | `Record`, `RecordChain`, `SaveTo`, `LoadFrom`, `migrateOldCache` | a crash while saving, several instances |
| **Log fetching, cache** `internal/logs` | cache entries with a time to live | `Get`, `Put`, `Load`, `Clear` | the program never puts anything into the cache |
| **Templates, rules, validation, configuration** `internal/chain/template.go`, `internal/rule`, `internal/validation`, `internal/config` | none | pure functions | boundaries; the same templates are resolved by two loops |
| **GitHub client, runner, git, exec, browser, errors, views** | none | calls of `gh` and `git`, formatting | their failures |

How they interact. The session creates a chain executor, starts its goroutine
and parks a goroutine of its own in a receive from the executor's channel; what
that receive returns comes back as a `ChainUpdateMsg`. The executor calls
`runner.ExecuteAndGetRunID` (`gh workflow run`, then the latest run of the
workflow) and `watcher.Watch`, and polls its run with `GetWorkflowRun` until it
completes. The watcher keeps the list that the Live tab and the live view show;
both ask it for the list, because nobody begins to receive its updates. Every
start of a chain or a workflow, and every completed chain, goes into the
history, which is saved at once. The form keeps the inputs of one workflow in a
map; the modals that ask for them send their answers back as messages, as they do
the confirmation of a dispatch, which refers to the same map.

What makes each component correct is stated in section 3 for the modelled
ones, and in section 7 for those planned. The hazards, each at its line and
with the properties about it, are in `PROJECT.json` (`hazards`).

## 2. What is modelled

| Module | What it is |
| --- | --- |
| `ChainExecutor` | the chain executor, its caller and GitHub as the executor sees it |
| `ChainPromise` | what a chain promises its user: steps, outcomes, a verdict; no channels, polling or GitHub |
| `MCChainExecutor` | the chains, histories and inputs TLC explores |
| `ChainExecutorProofs` | the theorems about `ChainExecutor` and `ChainInputs` |
| `Templates` | templates in step inputs, and the commands shown before a chain runs |
| `ChainInputs` | `ChainExecutor` with the inputs each step is dispatched with |
| `RunWatcher` | the run watcher, its callers and GitHub's run statuses |
| `WatchList` | what the watcher is for those who use it: a list of runs with statuses; no goroutines, locks, ticks or channel |
| `RunWatcherProofs` | the theorems about `RunWatcher` |
| `LiveRuns` | the Live tab, the live view and the keys that clear runs, over `WatchList` |
| `LiveRunsProofs` | the theorems about `LiveRuns` |
| `AppSession` | the event loop, the modals and the subscription through which chains are run |
| `AppSessionProofs` | the theorems about `AppSession` |
| `LogStreamer` | the log streamer with its fetcher, and the subscription through which the session takes its updates |
| `MCLogStreamer` | the run TLC explores |
| `LogStreamerProofs` | the theorems about `LogStreamer` |
| `HistoryStore` | the history in memory and in its file, for several instances of the program |
| `MCHistoryStore` | the inputs and the old cache TLC explores |
| `HistoryStoreProofs` | the theorems about `HistoryStore` |
| `Rules` | validation rules of inputs, as operators |
| `Lists` | the loop that appends the wanted members of one slice to another |
| `WorkflowForm` | the form of a workflow: panes, keys, selections, preview, the modals it opens, and their answers |
| `MCWorkflowForm` | the workflows, past runs and keys TLC explores |
| `WorkflowFormProofs` | the theorems about `WorkflowForm` |
| `AnswerModals` | each modal that asks for something, from opening to answer |
| `LogsViewer` | the viewer of logs with its filter |
| `Modals` | either of the two on the modal stack |
| `MCModals` | the modals and logs TLC explores |
| `ModalsProofs` | the theorems about `Modals` |

### ChainExecutor

The variables are the fields of `ChainState` and `ChainExecutor` with their
names in the code (`status`, `currentStep`, `stepStatuses`, `stepResults`,
`error`, `stopCh`, `updates`); `pc` and `idx` say where the goroutine is, `runs`
is GitHub's list of runs, `seen` what the caller received last. Steps are
numbered from 1. One action is one stretch of the goroutine between two points
where something else can intervene: the check of `stopCh` at the head of the
loop (`CheckStop`), the beginning of a step with its update (`BeginStep`), the
`gh workflow run` call (`Dispatch`, `DispatchFails`), the search for the run it
created (`GetLatestRun`, `GetLatestRunFails`), the waiting status with its
update (`MarkWaiting`), the outcome of the wait (`PollCompleted`, `PollFails`,
`WaitStopped`, or `RecordUnawaited` for `wait_for: none`), the policy for a
failed run (`HandleStepFailure`), the end of the loop (`Complete`). The policy
for an error (`HandleStepError`) is part of the action that meets the error, as
in the code. `SendUpdate` is the select of `sendUpdate`: a full channel drops
the update, and a closed `stopCh` may win over a ready send.

Choices the environment has: a failing `gh workflow run` may have created the
run all the same; the latest run may be an older one or another user's (that is
what `GetLatestRun` can answer); any `gh` call may fail; the caller may stop at
any point and receive as late as it likes. An `on_failure` the program does not
know ("other") is an input like the rest, since `LoadFrom` only fills in empty
values. What is dispatched, as opposed to when, is `ChainInputs`: its steps are those
of `ChainExecutor`, and the one that begins a step fills in its inputs
(`Interpolates`). `Templates` takes a text as a sequence of parts, words and
templates; a value that is filled in is not read again, what does not resolve stays
as it is, and an input without a value is not passed on (`BuildArgs`), so that the
workflow's default applies. `ResolveSteps` is the loop that both the confirmation
and the status modal have for the commands they show; it moves on to the previous
step one step later than `runStep` does. Interpolation cannot fail (`Interpolate`
returns no error).

### RunWatcher

`runs` is the watch list. Each goroutine (`Callers` are those that call `Watch`,
`Loop` is `pollLoop`) has a `pc`, the run it polls and the status it has read.
The actions are split at each release of the lock and around each call of `gh`,
so that a poll's answer can be stored after the list has changed. A status is
"active" (queued or in progress, which the watcher treats alike), "waiting"
(GitHub's other statuses, for which the program has no name and `IsActive` is
false) or "completed". A send on the closed channel is a panic, after which
nothing happens. Names, conclusions, jobs and steps are abstracted.

The watcher implements `WatchList` (`KeepsList`): the list is `runs` without the
marks for polled and failed (`Listed`), and the runs that GitHub is or will be asked
about (`Asked`) are those on the list, those in the loop's snapshot and those a
goroutine polls. An answer to any of them may be old, but is true of a completion;
this is all that the rest of the program may rely on.

### LiveRuns

The composition of the watcher, as `WatchList`, with what shows it. `tab` and `view`
are the runs and the cursor of `LiveRunsModel` and `LiveViewModal`; the runs are
copies, in any order, since `GetRuns` goes through a Go map. The watcher goes on
between any two steps (`WatcherGoesOn`), and within a handler that clears runs and
then fetches the list: the two calls take the lock each for itself (`refreshing`).
The requests of the live view are messages (`clears`) that are handled in any order,
when no modal is open, or lost in one. That they leave the tab's copy as it was is
the code's doing. The watcher's updates would refresh the tab (`HandleRunUpdate`),
but only a goroutine of `watcherSubscription` receives one, and its only caller is
the handler itself: `receivers` counts these goroutines and stays 0. Which pane has
the focus is in `WorkflowForm`; here the tab has it whenever no modal is open.

### AppSession

The event loop takes keys and messages one at a time. `inFlight` is the bag of
messages that goroutines are sending to it, taken in any order; `receivers` is
the bag of goroutines parked in `chainSubscription`. A key is an action guarded
by the kind of modal on top, a message is handled by the handler for its kind
(`HandleChainConfirmResult` and so on) when no modal is open and goes to the
modal otherwise (`GoesToModal`), where it has no effect. An executor is what
`ChainExecutor` shows of it from outside: updates, the last of which is the
completion, and a close without a last word when the chain was aborted or left.
`executors` keeps for each the name it was started under and the chain whose
steps it runs, since the code takes the two from different places: the name from
the answer to the confirmation, the steps from `pendingChain`. `confirmed` and
`overtaken` are history variables and decide nothing (but for the bound `GoesOn`):
how often the user confirmed each chain, and whether `pendingChain` was set while
the yes to another chain was still on its way.
`RecordChain` is the history store's, reduced to the count and the owner of the
results; branch and variables, which are further parts of an entry's key, are
the same for all chains of a session in the model. The GitHub client is assumed
to be there: without one no chain starts.

### LogStreamer

One stream, from `startLogStream` to the end. `pc` is the place of the polling
goroutine: before its call of `GetWorkflowRun` ("status"), before the list of
jobs ("jobs"), among the logs of the jobs, which are fetched one by one ("logs"),
in the select of `pollLoop` ("select"). A log is a sequence of groups and a group
is its number of lines, since the streamer only compares numbers: `counts` is
`StepLineCounts`, and an update carries for each step index the stretch of lines
it brings. The index of a step is a running number over all jobs, counted as
`FetchStepLogsReal` counts it: a job whose log cannot be had takes one for each
step that was listed, a job whose log can be had one for each group it has, up to
its steps. So an index may stand for another step at the next poll; the model
follows the code in this and the properties are about indices.

`stop` is the progress of `Stop` behind its `sync.Once`, `stopping` its callers:
the goroutine that the streamer starts when the run has completed, and the event
loop, in `startLogStream` for the next stream, which takes no message while it
waits (`Waiting`). `viewer` and `sub` are the session's side: an open viewer
takes the update message and ignores it, so that the subscription is lost;
without a modal the message renews the subscription of the streamer the session
holds by then. Closing the viewer does not stop the stream: `updateModal` asks
whether the viewer is done before the key that makes it done is handled.
(A viewer is opened by a chain status modal's request for logs that is handled
after this modal was closed; the requests of the history tab have no key.) `taken` and `lost` are
history variables for the properties.

Jobs' and steps' names, statuses, the lines' text and the workflow are abstracted.

### HistoryStore

Each instance has its entries in memory (`store`) and the inputs its session edits
(`inputs`). `file` is the history file: absent, empty, not parsing, or whole with
its entries. Recording a run and saving the history happen in one handler, so
`DoExecuteWorkflow` and `RecordsChain` leave the instance on its way through
`Save`: `CachePath`, which looks for an old cache to migrate every time it is
called, `MigrateOldCache` in its two steps, and `SaveTo`, which empties the file as
it opens it and then writes it. Another instance, a crash (`Ends`) or a failure
(`FileFails`, `LoadFails`) can come between any two of them. Two instances that
write at once each write from the file's beginning, so the longer text may stick
out of the shorter: `Writes` then leaves either a whole file or one that does not
parse. A file that is not there, does not parse or cannot be read gives an empty
history, and the program goes on with it, as `main` does.

Entries have a kind: "workflow", "chain", or "" for entries of the old cache from
before there were kinds, which `Record` never matches. `MapsEqual` is the code's
comparison of inputs, in which a missing key reads as the empty value. `Record`
keeps the map it is given, and the session goes on editing this map in place:
`shared` marks the entries that have the session's map, `EditInput` changes them
too, and `InitializeInputs` and `ReplayEntry` give the session a new map. Only one
workflow, chain, branch and repository are modelled; times and ranking are left
out. An entry is replayed straight from the history, of which the history tab's
list is a copy that keeps the same maps.

### WorkflowForm

The variables are the fields of `Model` and of the history pane with their names;
lists count from 1, so `selectedInput = 0` is the code's -1, and `selectedWorkflow
= 0` its row "all". A key goes through `Bindings`, the order in which the handlers
try their bindings, so that a key does what its first binding says (`Does`): `l`
always opens the live view and a digit always edits an input. An action is one
handler for such a key while no modal is open (`Key`), one answer in a modal, or
one message handled by `Update` (`HandleMessage`). A message that arrives while a
modal is open is lost (`LosesMessage`). A message is `late` once anything else was
handled since it was sent; nothing in the code prevents it, but it takes a key
within the time a goroutine needs to send, so the properties say what holds
otherwise.

Three things about memory are modelled as the code has them. A dispatch that waits
to be confirmed, and the answer that confirms it, refer to the map of inputs that
the form goes on editing (`WriteInputs`), until the form gets a new one (`NewMap`).
The preview of a past run is a pointer into the list: the remap wizard edits the
listed run (`HandleRemapResult`), and when the list is replaced the pointer stays
(`at` is then 0). With the row "all" selected, `r`, `c`, `e` and the digits index
the workflows with -1: `Panics` ends the program, as it does in the code.

The history's list is any of those in `Histories`: ranking is left out. Fuzzy
matching and the similarity of names are given by `Ranking` and `BestMatch`.

### AnswerModals, LogsViewer, Modals

`modal` is the modal on the stack and `answer` the message it sends when it is
done; an action is one key in one state of one modal. Of a text input only the text
counts. The modals whose messages carry a decision and no state (run confirmation,
reset) have one action; the remap wizard is in `WorkflowForm`, which composes the
answers with what becomes of them.

`LogsViewer` has the viewer's filter, the filtered steps, folds, match index and
viewport. A line of `content` is what is written in it: a header, an entry, or
nothing. `LineOf` is the arithmetic of `buildMatchIndex`, `RenderUnifiedLogs` that of
the renderer; the two have to agree. The logs do not change while the viewer is
open, because no update reaches it (section 5), so `AppendStreamUpdate` and
auto-scroll are left out. As in the code, folding does not build the match index
again, and folds stay with their places in the list when a filter changes it.

`Modals` puts one of the two on the stack; they never interact, so the run explores
their sum and not their product.

## 3. What is checked

Every property has a mutant in its module: a changed definition, the way a
plausible bug would change it, for which TLC finds the property violated.

### `chain_executor` (MCChainExecutor.cfg)

Chains of no step, of one step with every combination of `wait_for` and
`on_failure`, and of two steps, the first of every kind and the second either
`success/abort` or `none/skip`; fresh or resumed from a history whose restored
step failed; one foreign run. The channel holds 7 updates, exactly the number a
chain of two steps makes, so that `CompletionAnnounced` is checked at its
boundary. Two steps suffice for one step to follow another under each policy;
that nothing else happens with more is what the theorems show. The inputs have a
variable, a value that looks like a template, and templates that name the step
before, the step itself and a variable there is not.

- `SequentialDispatch`: a workflow is dispatched after every earlier step has its
  outcome, and once per step.
- `AbortIsFinal`: nothing is dispatched after a failure under `on_failure: abort`,
  whichever of the two failure paths was taken.
- `ResultsAreOutcomes`: a step's result is the outcome of the run the step followed.
- `AtMostOneLateDispatch`: at most one workflow is dispatched after Stop.
- `CompletionAnnounced`: a caller that drains a channel large enough learns of the completion.
- `ShownIsSent`: the steps of a new chain are dispatched with the commands that were
  shown before it began, as long as no template says "previous" and every earlier
  step has a result.
- `EndsUnlessRunHangs`: the executor ends, or waits for a run that does not; Stop ends it always.
- `KeepsPromise`: the executor implements `ChainPromise`.

Fairness: the goroutine is scheduled, `gh` calls return (with or without an
error), and a select that finds a case ready takes one. Nothing is assumed of
GitHub's runs or of the caller, and no poll is assumed to fail.

### `watcher` (MCRunWatcher.cfg)

Two runs, one goroutine calling `Watch` next to the poll loop, a channel of one
update. Two runs make the loop's snapshot matter (a run can be cleared while
the other is polled); one caller and the loop are the two goroutines whose polls
of the same run can overlap; a channel of one fills after one poll, as a channel
of 100 does in time, since nobody receives.

- `PlaceholderIsBeingPolled`: the entry `Watch` invents does not stay.
- `LoopIsAwaited`: the loop never sends on the closed channel. (A `Watch` that
  overlaps `Stop` can: `Stop` waits for the loop only. In the program nothing
  calls the watcher's `Stop`.)
- `NoneForgotten`: a run listed as active that has completed is caught up with,
  although all updates are dropped. A run listed with one of GitHub's other
  statuses is not: it is no longer polled.
- `StopReturns`: neither a full channel nor a poll in progress holds Stop up.
- `KeepsList`: the watcher implements `WatchList`: overlapping polls may put back an
  older status, but never invent an end or a run nobody asked about.

Fairness: goroutines are scheduled, the ticker ticks, `gh` calls return, and the
loop's select does not pass over the cancelled context for ever (a strong
fairness: a Go select chooses among ready cases at random).

### `live` (MCLiveRuns.cfg)

Two runs and two requests to clear in flight: two runs make the order of a fetched
list and the place of a cursor matter, two requests can be handled out of order and
be about different runs, or one about a run and one about all.

- `ShownCompletedHasCompleted`: however old the copies on screen are, a run shown as
  completed has completed; the clear keys and late answers do not change this.
- `ActiveLeavesByChoice`: a run the list has as active is taken off it only when it
  was under the user's cursor, on screen and not in the list as it is by then, or in
  a request that named it.
- `TypeOK`: cursors stay in their lists, which get shorter and change order.

### `session` (MCAppSession.cfg)

Two chains, one with variables to ask for, two confirmations, two messages in
flight at a time, channels of two updates. Two confirmations are what it takes to
start a chain over another, and chains are opened until there were two (`GoesOn`):
everything may happen between the first and the second, and afterwards messages are
handled or lost, modals are answered and chains end. Two messages are an answer and
something that overtakes it; two updates are a completion behind another update.

- `StatusShowsExecutor`, `MetadataMatchesExecutor`: the status modal, the
  executor the session holds and the name it will record under belong together. (The
  stop asked for in the modal is a message, which stops the executor held when it is
  handled.)
- `StartsAsConfirmed`: no chain is started under a name more often than it was
  confirmed, and the steps it runs are those of the chain so named, unless another
  chain was opened while the answer was in flight. The exception is real: confirm A,
  open B, and if A's answer is only then handled, B's steps run under A's name, also
  when B was or will be declined (`handlers.go:446-447`).
- `ResultsRecordedOnce`: the history counts a start once and a completion at most
  once; nothing is recorded for a chain that ended otherwise.
- `SubscriptionsDoNotMultiply`: a started chain accounts for one goroutine at most.

### `streamer` (MCLogStreamer.cfg)

A run of two jobs of one step, whose logs are a group of at most two lines; a
channel of one update. Two jobs are what a shift takes: the second job's step has
index 0 as long as the first has no group, and 1 afterwards. Two lines let a step
grow after it was counted, and let a shift bring an index fewer lines than it had.
A channel of one update is full at the second poll nobody has received from, as
the channel of 50 is after 50.

- `LinesInOrder`: for each step index, an update carries on where the last one
  received left off, and never repeats a line number, whatever failed or shifted
  in between; lines are passed over only if an update was dropped.
- `StopReturns`: neither a full channel nor the loop's own request holds `Stop` up,
  in the event loop or in the streamer's goroutine.
- `EndsWithRun`: the streamer ends after its run has, even when no viewer and no
  subscription is left, unless it can never again learn that the run has completed.

Fairness: goroutines are scheduled, the ticker ticks, each call of `gh` returns,
with or without an error, and the loop's select does not pass over the cancelled
context for ever. Nothing is assumed of the user or of GitHub.

### `history` (MCHistoryStore.cfg)

Two instances, which may be started, left and killed any number of times; two
runs recorded between them; a workflow with one input of two values; an old cache,
or none, with one entry of an input that has another name now. Two instances are
what an overlap takes, and one after the other they make a restart; two runs are
the least for an entry to be counted up or a second one to be made, and for one
instance's run to be lost to another's save.

- `NothingInvented`: whatever overlaps, is killed or fails, memory and file never
  count more runs than were recorded, and the old cache counts once.
- `KeepsAllRuns`: as long as instances run one after the other and no write is cut
  off, each knows every run recorded by all before it, and those of the old cache.
- `ParsesUnlessDisturbed`: the file then parses whenever it is not being written.

The safety runs need no fairness. They can stop (every chain has ended and the
confirmations are used up, a modal is done, the program has ended), hence no deadlock
check for `RunWatcher`, `LiveRuns`, `AppSession`, `LogStreamer`, `WorkflowForm` and `Modals`; `ChainExecutor` is checked for deadlock.

### `forms` (MCWorkflowForm.cfg)

One workflow with two text inputs, one with a default and a rule, one required and
of limited length; a history that is empty or has a run with an input that is gone and
a run with a missing value; a key for each thing the form does, `w` for those that find
nothing to do, and no help, which the chains tab's modal stands for; one message in
flight. One workflow has both of the form's states, that of a workflow and that of the
row "all", and moving between them replaces the list and the map; two runs are what it
takes to preview one and select the other. One message suffices for an answer to be
overtaken by keys and lost in a modal. The branch is carried along but has one value,
since nothing compares it.

- `AnswersMeetTheirQuestion`: an answer that is not overtaken is assigned to the
  input it was asked for, whatever was opened, cancelled or lost before.
- `RunsAreValidated`: no dispatch is put to the user or sent on with values that
  break a rule, other than those the user was shown and passed over; not by replay,
  remap, override or an edit of the shared map.
- `PreviewIsListed`: the run in the preview is in the list as it is shown, through
  remaps, late answers and replaced lists. (Which listed run a replay starts is another
  matter: the selected one.)

### `modals` (MCModals.cfg)

Every modal: values that break a rule or not, empty lists
and lists of up to five, a window of four lines (the least the branch modal gets)
over five branches, chains with a required text, a boolean and a choice; logs of no
step, one and three steps whose entries differ in level and case, viewports of two
and five lines, fewer and more than the content has when folded.

- `AnswersAreChecked`: a value that breaks rules is taken only after the warning
  about this value, and no warning outlives a value that was put right; variables
  are sent only when all that are required are given.
- `ShowsFilteredLogs`: the content is what the filter on screen lets through, in the
  steps that are not folded.
- `JumpShowsMatch`: a jump goes to the line of the match and has it in view, unless a
  step was folded since the index was built.
- `TypeOK`: cursors stay within lists that a filter shortens, the viewport within its
  content.

Viewports of less than a line are left out (`HeightsAssumption`): the viewer gives its
content the height of the terminal less a margin (`logs_viewer.go:111`), so this leaves
out terminals of ten rows or fewer. The single-input modal starts from texts only;
`AnswersStayChecked` covers the other kinds.

### Runs that show a violation

`chain_preview`, `session_recorded`, `history_listed` and `live_shown` each check one
statement the repository makes of itself and show how the code breaks it: see
section 5. `session_recorded` assumes in addition that the user does not leave a modal
open for ever; `live_shown` assumes that the handler of the watcher's updates runs
whenever it can.

## 4. What is proved

Every safety invariant and every action property of the passing runs is a theorem; what
remains model-checked is liveness. A theorem holds for all values of the constants that
satisfy the assumptions of its module, and tlapm checks each proof down to its leaves.

`CompletionIsSound`, `OutcomesNeverRevised`, `NoInventedEnd` and `LoopIsGone` are about
formulas that no run of section 3 checks for itself: the proofs stand for all
constants, and what the first three say of statuses is part of `KeepsPromise` and
`KeepsList`, which the runs do check.

`ChainExecutorProofs`, for all sets of chains, histories and bounds that satisfy
the assumptions of `ChainExecutor`:

| Theorem | Property |
| --- | --- |
| `TypeCorrect` | `TypeOK` |
| `DispatchesInSequence` | `SequentialDispatch` |
| `AbortEndsDispatch` | `AbortIsFinal` |
| `CompletionIsSound` | `CompletedMeansAllPassed` |
| `StopIsEffective` | `AtMostOneLateDispatch` |
| `OutcomesNeverRevised` | `OutcomesAreFinal` |
| `ResultsFollowRuns` | `ResultsAreOutcomes` |
| `CompletionIsFound` | `CompletionAnnounced` |
| `ChainKeepsPromise` | `KeepsPromise` |
| `CommandsAreAsShown` | `ShownIsSent` |

The argument. `TypeOK` is not inductive: the actions index `stepStatuses` and
`runs` with `idx` and `runID`, so `Control` adds that `idx` is a step and `runID`
a run wherever the goroutine uses them; `TypeInv` is the two together. The
safety properties rest on one inductive invariant, `SafeInv`, which adds:

- `DispatchedUpTo`: every run of the chain was dispatched by a step at or before
  `idx`, and before `idx` while the dispatch is still ahead;
- `OncePerStep`: no step has two runs;
- `PastPassed`: the steps behind `idx` are passed, none of them failed under abort,
  and a completed chain is past its last step;
- `LateOnce`: a run dispatched after Stop is that of the step in progress.

`DispatchedUpTo` gives the order, `PastPassed` the finality of an abort and the
soundness of a completion; `LateOnce` carries Stop, because after `CheckStop` has
seen `stopCh` closed no further step begins. `OutcomesNeverRevised` is an action
property that follows from `SafeInv` action by action. `ResultsAreOutcomes` is
inductive once the types are known: a result is written where the conclusion is
read, and a run that has a conclusion keeps it (`ConclusionsStay`).
`CompletionIsFound` counts: `FewUpdates` says that there are at most three updates
for each step behind `idx` and as many as `pc` allows for the current one, so that
in a chain that fits, the send at the end of the loop finds room.

`ChainKeepsPromise` is the refinement. `PromiseInv` adds what the mapping needs: a
step that was begun is no longer pending, the one in progress is running or
waiting, and the verdict is missing while the loop runs. Each action is then a
step of `ChainPromise` (`BeginStep` is `Begin`, a result or an error `Settle`, a
failure's policy `Abort`, `Leave` or nothing, the end of the loop `Complete`) or
leaves what the promise sees alone (`NothingPromised`); `PastPassed` gives `Begin`
and `Complete` their guards.

`CommandsAreAsShown` is about `ChainInputs`, for all chains, templates and variables.
It compares two computations: the loop of the preview, which resolves all steps at
once, and the executor, which fills in one step when it begins. `InputsInv` says that
exactly the steps that were begun have inputs (`StepsBegin`: they begin one at a time),
that a result of a run of this chain belongs to a step that was begun, and that the
inputs of each such step are those shown, as long as every earlier step has a result and
no template so far says "previous" (`Unbroken`). For the step that begins next,
`ResolvesAsShown` compares the two contexts part by part: a template that names an
earlier step finds the same inputs in both, by the invariant, and one that names the step
itself or a later one finds none in either. `StepsResolved` is the loop of the preview,
unfolded.

`RunWatcherProofs`, for all sets of runs and of goroutines that call `Watch`, and
every capacity of the channel:

| Theorem | Property |
| --- | --- |
| `TypeCorrect` | `TypeOK` |
| `PlaceholdersDoNotStay` | `PlaceholderIsBeingPolled` |
| `LoopNeverPanics` | `LoopIsAwaited` |
| `NoInventedEnd` | `CompletedHasCompleted` |
| `WatcherKeepsList` | `KeepsList` |

The argument. `TypeOK` needs `PollsARun`: a goroutine inside `pollRun` has a run to
store. `LoopIsAwaited` needs `ClosedToLoop`: the channel is closed only when the loop
is gone, and a loop started afterwards does not get past its select.
`CompletedHasCompleted` needs `AnswerWasTrue`: an answer that is still to be stored
was true when it was given, and completion is never undone.
`PlaceholderIsBeingPolled` is inductive once the types are known: every path out of
`pollRun` stores an answer or an error for its run before it leaves, and whoever
takes the entry off the list takes the obligation with it. `SafeInv` is all of them.

`WatcherKeepsList` is the refinement. Storing an answer is `Answer`, for which
`AnswerWasTrue` is what the abstract step asks; calls of `Watch`, `Unwatch` and
`ClearCompleted` are the steps of these names; everything else leaves the list alone
and asks about no more runs than before (`ForgetStep`).

`LiveRunsProofs`, for all sets of runs and numbers of requests in flight:

| Theorem | Property |
| --- | --- |
| `CompletedIsShownTruly` | `ShownCompletedHasCompleted` |
| `ActiveLeavesOnlyByChoice` | `ActiveLeavesByChoice` |
| `TypeCorrect` | `TypeOK` |

The argument. `Inv`: what the list has as completed has completed, and so has what is
on screen, which is either an older copy, true since completion is never undone
(`OldStaysTrue`), or a new one, true as the list is (`FetchedIsTrue`). Together with
`WatcherKeepsList` it holds of the watcher as it is coded. `ActiveLeavesOnlyByChoice`
goes through the actions. `TypeInv` carries the cursors: what
`GetRuns` copies is a list, since the watched runs stay finitely many (`FetchedType`), and `SetRuns` and `RemoveAt` bring the cursor back into what is left.

`LogStreamerProofs`, for any number of jobs, steps, groups and lines, and every
capacity of the channel:

| Theorem | Property |
| --- | --- |
| `TypeCorrect` | `TypeOK` |
| `LoopIsGone` | `ClosedMeansGone` |
| `LinesArriveInOrder` | `LinesInOrder` |

The argument. `LinesInOrder` speaks of the next update only; `Order`, the inductive
invariant, of all that are in the channel: what was received lies before what was
counted (`TakenBeforeCounted`), the news in the channel lie between the two
(`NewsBetween`) and follow one another (`NewsAscend`), and for an index of which
nothing was dropped each stretch begins where an earlier one, or what was
received, ends (`NoGap`). A send preserves it because the news go from the old
counts to the new ones (`SendOrder`), a receive because the head of the channel is
the first stretch of each index it mentions (`TakeOrder`). How the fetcher numbers
the steps does not enter, beyond the types.

`HistoryStoreProofs`, for any number of instances, any inputs and any old cache:

| Theorem | Property |
| --- | --- |
| `FileParses` | `ParsesUnlessDisturbed` |
| `TypeCorrect` | `TypeOK` |
| `NothingIsInvented` | `NothingInvented` |
| `AllRunsAreKept` | `KeepsAllRuns` |

The argument. `OneAtATime` and `EmptyWhileWritten` together are inductive: while
nothing is disturbed only one instance runs, so the file it writes is the empty one
it has opened.

How many runs a history counts (`Runs`) is the size of a set with one member for each
run of each entry, so that the theorems on finite sets apply: `RecordedRuns` says that
`Record` adds exactly one, whether it counts an entry up or makes a new one, and
`EditedRuns` that an edit of the inputs an entry shares with the session changes the
entry and not the count. `CountInv` bounds the file and every memory by what was
recorded; it needs that only an instance that saw the old cache is on its way to
migrate it. `KeepsAllRuns` is not inductive: who has all the runs depends on where an
instance is. `Knows` says it for each place: the file while the instance starts, the old
cache while that is migrated, the instance once it has loaded, both when it has nothing to
save; when no instance runs it is the file (`FileKnows`). `OneAtATime` then makes the step
of one instance no concern of the others (`OneStays`).

`AppSessionProofs`, for all chains, channel capacities and bounds:

| Theorem | Property |
| --- | --- |
| `TypeCorrect` | `TypeOK` |
| `StatusShowsWhatIsHeld` | `StatusShowsExecutor` |
| `MetadataFollowsExecutor` | `MetadataMatchesExecutor` |
| `OnlyConfirmedStarts` | `StartsAsConfirmed` |
| `SubscriptionsAreRenewed` | `SubscriptionsDoNotMultiply` |
| `CompletionsAreRecordedOnce` | `ResultsRecordedOnce` |

The argument. `TypeOK` is inductive; it says of every message in the bag and of
every modal that the executor it names exists. With it the two properties about
what the session holds are inductive: the handler that replaces the executor
replaces the modal and the name as well. `OnlyConfirmedStarts` is an action property
of two halves. For the name it needs `StartsInv`: for each chain, the executors started
under its name and the copies of its "yes" that are in flight are together no more than
its confirmations. A start takes a copy out of the bag, so answers may be delayed,
overtaken or lost. For the steps it needs `PendingInv`: what a confirmation on screen asks
for is `pendingChain`, and so is what a "yes" in flight is about, unless `pendingChain`
was cleared, which a start refuses, or set again by another chain that was opened
(`overtaken`). `OpeningPending` is the step in which that happens.

The last two add up the copies in a bag and the counts of the history's entries: `Total`
is the size of a set with one member for each copy, and `PutTotal` and `TakeTotal` say
that it goes up and down by one. In `SubscriptionsInv` a receiver turns into the update it
received and a handled update into a receiver at most, and only a start makes a new one.
`ResultsRecordedOnce` alone is not inductive, since the completion may be
received several steps after the chain completed, in any order with others.
`ResultsInv` follows it on the way: a chain that completed has its completion last in its
channel, or once in flight, or neither (`OneCompletion`), and what is recorded and
what may still be (`Awaited`) is together no more than the starts and the completions.

`WorkflowFormProofs`, for all workflows, histories, keys and numbers of messages
that satisfy `WorkflowsAssumption` (there is a workflow, and the lists are sequences) and
`TextsAssumption` (defaults, past inputs and what the user types are texts):

| Theorem | Property |
| --- | --- |
| `AnswersArrive` | `AnswersMeetTheirQuestion` |
| `RunsStayValidated` | `RunsAreValidated` |
| `PreviewStaysListed` | `PreviewIsListed` |
| `TypeCorrect` | `TypeOK` |

The argument. `IInv` has a part for each place a promise is kept in. `ModalInv`: an
input modal asks for `pendingInputName`, a validation modal shows the errors of the
map there is, a confirmation was validated or waived. `MessageInv`: the same of
each message that is not late; handling anything makes the others late (`Quiet`),
so only a message just sent has to be looked at. `PreviewInv`: a preview with a
place in the list is what stands there, also while it is off screen. `IndexInv`:
selections are in their lists. What a rule is does not enter.

`TypeOK` rests on a `TypeInv` that also says what is needed of what is not yet used: the
messages in flight carry texts and decisions (`Well`), past runs and the one in the
preview have inputs (`RunsType`), the filtered inputs are among those of the workflow, and
without a filter are all of them (`ListType`), a question is about an input of the selected
workflow (`ModalType`). The loop over the wizard's decisions keeps a map of
texts one (`DecidedIsGood`).

`ModalsProofs`, for all inputs, variables, rules, lists, logs and heights that satisfy
`FormsAssumption` (the lists are sequences; a chain without variables does not ask for any,
and the branch modal has a line at least, since it is given ten lines or more and takes six
for itself), `LogsAssumption` (logs are sequences of sequences) and `HeightsAssumption`:

| Theorem | Property |
| --- | --- |
| `AnswersStayChecked` | `AnswersAreChecked` |
| `TypeCorrect` | `TypeOK` |
| `ViewerShowsFilteredLogs` | `ShowsFilteredLogs` |
| `JumpsShowMatches` | `JumpShowsMatch` |

The argument. `WarningInv`: a warning on screen is about the value that stands in
the input, since every key that changes the value takes the warning away.

`ModalInv` adds the cursor of the variables, `CursorInv` those of the lists: a filter
keeps the cursor's place if the list still has it and goes to the top if not
(`FilteredCursors`), and a move stays within (`MovesWithin`). `KindIsKept` says that a key
leaves a modal what it is, so that each invariant only looks at its own modals.

`ShowsFilteredLogs` is inductive with the shape of the filter: each key either leaves
the filter and the folds alone or writes the content again, and a case that is toggled
without a term changes nothing (`NoTermNoCase`).

`JumpShowsMatch` compares two computations of a line. The renderer appends, for each
step, a header, the entries that are not folded and a blank line; `BlockLines` says how
long such a block is and where in it an entry stands, `FlattenedPlaces` where a block
begins when the blocks are joined, `LineOfCounts` that `buildMatchIndex` adds up the same
numbers. Hence `ContentLines`: the line of an entry that is shown is the line
`LineOf` computes, and `MatchesAreLines`: the index holds such lines only. `LineInView` is
the arithmetic of the jump, for heights of one line and more. `PlacesInv` is the invariant.

Induction. The library's induction theorems cannot be used, since they take an
operator. Where a definition is recursive the proof modules have induction as a first-order
fact about a set of naturals (`Induction`, from the least element of its complement), show
with it that the recursive function exists (`LoopComputes`, `ResolutionExists`,
`FlattenSeqIsLoop`), and that what holds at first and is kept by each round holds in the end
(`LoopKeeps`). Loops over slices are therefore written as recursive functions
(`Lists`, `Decided`) and not with `SelectSeq`, whose recursion the
provers do not unfold.

Only model-checked: the liveness properties `EndsUnlessRunHangs`, `NoneForgotten`,
`EndsWithRun` and both `StopReturns`, which speak of fairness and are out of the prover's
reach, and the four statements of section 5 that the code violates. What the proofs take
from the definitions and TLC evaluates are the operators over data that no theorem is about:
which rules a comment gives (`Rules`), what a template resolves to (`Templates`).

## 5. Where code and documentation disagree

- `chain_preview`: "A command preview before anything runs" (`docs/README.md`); the
  commands shown fill in `{{ previous }}` from the step before the previous one, and
  not at all in the second step, where the executor takes the previous one.
- `session_recorded`: the session keeps a chain's name "for history update on
  completion"; the update is lost when a modal is open at its arrival, and the
  status modal is opened with the chain.
- `history_listed`: `store_test.go` expects dispatches with different inputs to be
  different entries; the history keeps the map the session edits, so an edit after
  a dispatch changes the entry, and a second dispatch counts it up.
- `live_shown`: "Runs appear here when Watch is enabled" (the Live tab) and "Watch mode
  for live run updates" (`docs/README.md`); the subscription to the watcher's updates
  is never begun, so the tab stays empty until the user presses a clear key in it.

## 6. What is not modelled

`PROJECT.json` (`components`) lists every part with its status. Left out for good:
process and file I/O, decoding of JSON and YAML, quoting and formatting of
commands, rendering, themes, test support: they keep no state, or their state is
text. The memory race on `ChainState` (an update carries the map and the slice the
executor goes on writing) is noted as a hazard: the model's updates carry scalar
fields only.

These statements are true of the code, known, and not excluded by a property:

- Executor: the `failed` of an aborted chain is set after its last update and never
  announced.
- Watcher: a run that is cleared while it is being polled comes back; `ClearCompleted`,
  against its comment, also removes runs that wait for an approval.
- Session: a chain that was started over another one leaves that one unreachable, and
  its completion is recorded under the newer chain's name; a subscription that survives
  an abort receives the zero update of the closed channel in a loop; a late answer to a
  confirmation takes the steps of the chain that was opened meanwhile, which may be
  declined and is recorded under the name of the one confirmed (`StartsAsConfirmed` says
  that this takes the opening of another chain, and allows it).
- Streamer: an open viewer takes the update and ignores it, and the subscription is
  gone, so that no line is streamed into it, although `docs/interface.md` says that logs
  keep streaming; the lines logged between the last poll and the end of the run are
  never sent; lines of a dropped update are never sent again; when a step's index
  shifts, lines may be sent again under the new index, or not at all. What the viewer
  does with an update (`AppendStreamUpdate`) is left out, because none reaches it.
- History: two instances that run at once overwrite each other's runs; a crash in the
  middle of a save or of the migration loses the whole history for good; inputs of
  different names may be counted as the same.
- Form: the keys named above end the program in the row "all"; Enter in a preview
  replays the entry that is selected, which may be another one; an answer that is
  overtaken may be assigned to another input; the remap wizard offers, for a choice that
  no longer has a value, the default value of the input as the name of an input to map
  the value to.
- Modals: after a filter the branch under the cursor may be out of sight until the
  cursor moves; Enter on a last boolean or choice of a chain's variables changes it and
  sends it unseen.
- Viewer: the match jumped to is not drawn as the current one until the content is
  written again; the positions that are highlighted overlap, and are those of the
  lower-cased text.

Of the form's keys, the cursor of the chains tab, the watch flag and copying are left
out. Of the live view, `UpdateRuns` has no caller. `BranchModal`, `ChainRerunModal`, `ConfigModel`,
`WorkflowModel`, `ExportAsBash` and the cache's `Put` have no caller in the program.

## 7. Plan

1. The rest of the panes: the cursor of the chains tab, composed with the modals a
   chain is started through.
2. One abstract specification of an update channel (in order, at most once, closed
   once) that the chain executor, the watcher and the streamer implement.
3. Proofs: that an update the streamer dropped is the only reason for a gap in the lines, as
   a refinement of the channel of item 2, and the chain flow of `AppSession` over
   `ChainPromise` in place of its reduced executors.
