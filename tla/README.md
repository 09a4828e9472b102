# Hermes Voice: a verification project

TLA+ models of Hermes Voice, the checks TLC makes of them on small instances,
and the theorems TLAPS proves about them for every instance. All paths are
relative to the repository (`src/`).

## 1. The system

Hermes Voice takes a spoken request from Home Assistant to a backend (a Hermes
CLI process) and its answer back. A request that takes long is answered
"accepted" with a task id; the work goes on in the background, and its result is
fetched later by polling.

```
Home Assistant agent ── HTTP ──> forwarder (edge) ── HTTP ──> dev HTTP handler
 conversation.py                  forwarder.go                 devclient/handler.go
   one entity, coroutines                                       │ Registry.Resolve
   polls tasks, notifies                                        │ Cleaner.Clean
                                                                ▼
        GET /v1/dev/tasks/{id} ──────────────> task store <── dispatcher ──> backend adapter
                                               memory.go       dispatcher.go   hermes_cli.go / static.go
```

### Inventory

| Component | State it keeps | Operations | What makes it hard | What makes it correct |
|---|---|---|---|---|
| Task store (`internal/taskstore`) | map id → record under a mutex | CreateAccepted, Complete, Fail, Get | called by many goroutines in any order | a granted create or settlement stays true; one terminal state per task; an error means nothing changed |
| Dispatcher (`internal/dispatch`) | per call: result channel (capacity 1), timer, detached context, task id; process-wide task counter | Invoke; the backend goroutine; storeBackendResult; TaskRunner.Start | a select over result, cancellation and timeout; clashing task ids; work that outlives its call | every call answered once; an accepted call owns its record, keeps running whatever its caller does, and is settled once with its own result; any other call leaves nothing behind; no goroutine stuck |
| HA conversation agent (`homeassistant/.../conversation.py`) | last accepted task, pending tasks, delivery loops, notifications | handle a turn (forward, or ask for the status), deliver loop, removal from HA | turns and loops interleave at each await; polls fail; the service restarts and reuses ids | a promised result is announced, about the right request; no loop runs for ever; "no task" is only said when there is none |
| Registry (`internal/registry`) | five tables, loaded once | Load, Validate, Resolve | references across tables, half-inherited routes | what loads routes every device and alias it names to a backend, under a profile of the routed person |
| Registry backup (`internal/registry/backup.go`) | files in a directory | BackupFile | two backups of one second pick the same name; the registry is saved while it is copied; errors and crashes half-way | a returned backup is exact, its own and kept; a partial file is explained |
| Dev HTTP handler (`internal/devclient`) | none | POST text, GET task, healthz | four contexts end in a row; many error paths | what is answered is true; work for nobody ends; a task is shown as the store holds it |
| Speech cleanup (`internal/cleanup`) | rules | CleanWithTrace | rule order, phrase boundaries, falling back to the input | never empties a non-blank utterance; the trace replays; no word is cut or lost |
| Forwarder (`internal/forwarder`) | none | text, task, healthz | its own timeout, apart from the service's and the agent's; size limits; it reads the request with another decoder than the service | an answer is passed on whole or the exchange fails visibly; a good request is served as if sent directly |
| Backend adapters (`internal/backend`) | none | Invoke (static, error, Hermes CLI) | deadline, cancellation and exit of a process race | no output of a killed process is an answer; the error class tells what happened |
| Main (`cmd/hermes-voice`) | configuration | start-up, delayed adapter | which components are wired | nothing is served before the registry has loaded |
| HA set-up, config flow; development scripts | config entries; remote processes | forms, YAML import; ssh | – | not modelled: pure plumbing |

`PROJECT.json` lists the hazards of this code, each at its line, with the
properties that watch it.

## 2. The modules

```
TaskStore ────────────┬─ TaskStoreClients ── TaskStoreProofs, MCTaskStore
 operations as actions │
                       └─ Dispatch ──┬─ DispatchProofs ───────────────┐
TaskLifecycle ◄─ implemented by ─┘   ├─ MCDispatch                    │
                                     └─ Adapters ── VoicePath ──┬─ VoicePathProofs
                                                                └─ MCVoicePath
TaskService ◄─ implemented by ─ VoicePath
     └─ HAConversation ── HAProofs, MCHAConversation
EdgeText ──┬─ DevText ──┬─ MCDevText
Cleanup ───┤            └─ DevTextProofs
           └─ CleanupProofs ┘
Registry ── Routing ── RoutingProofs, MCRouting
Backup ── BackupProofs, MCBackup
```

**TaskStore** is the `MemoryStore`: each operation is an action on `records`
whose last argument is the error it returns. The code computes answer and update
under one lock, so an operation is one step. Ids are what `strings.TrimSpace`
leaves of them; `BlankID` stands for every blank one. It is used twice: by
**TaskStoreClients**, where arbitrary goroutines call it with arbitrary
arguments and remember what they were granted, and by **Dispatch**.

**Dispatch** is `Dispatcher.Invoke` for any number of concurrent calls. Per call
`r`: `pc[r]` is where the calling goroutine is, `backend[r]` the goroutine of
lines 59-63, `storer[r]` the goroutine `storeBackendResult`, `result[r]` the
buffered channel, `ctxDone[r]` and `fired[r]` the caller's context and the timer,
`invokeDone[r]` the detached context. The steps are the points where another
goroutine can see or change something:

| Action | Code |
|---|---|
| `Invoke` | lines 52-66: contexts, channel, backend goroutine, timer |
| `CallerGone`, `TimerFires`, `BackendReturns` | the environment: context, runtime timer, adapter |
| `SendResult` | `result <- ...` and the deferred `cancelInvoke` |
| `Select`, `Wake` | the select of line 68: `Ready` is the set of ready cases, one taken at random; with none ready the goroutine is parked and the first event decides |
| `ReturnResult`, `ReturnCanceled` | lines 69-73 |
| `NewTaskID`, `CreateTask`, `ReturnAccepted` | lines 74-105, split at the shared counter and the shared store |
| `StoreResult` | `storeBackendResult`; `Settle` chooses the store operation by the outcome |

Backend outcomes are the classes `storeBackendResult` and `safeTaskError` tell
apart. A task id is the pair of the normalised request id and a number, as
`fmt.Sprintf("%s-task-%d")` makes it; a configured id may equal a generated one.

**TaskLifecycle** is the promise without timers, channels and goroutines: a call
is open and then answered once; a task exists for a call exactly if the call is
answered (or about to be answered) "accepted"; an accepted task is settled once.
`Dispatch` implements it under the mapping `CallOf`, `TaskOf`.

**TaskService** is the voice service as an agent sees it: an exchange is answered
(there is no task and there will be none), promised (the task of the id that was
told), or lost, and a lost exchange may become a task all the same, even later. A
task is settled at most once, under an id no other task has, until a `Restart`
forgets all tasks and sets their ids free. It joins the two halves of the system:
`VoicePath` implements it, `HAConversation` is built on it.

**Adapters** extends `Dispatch` by what an adapter does between the start of its
goroutine and `BackendReturns`: the static adapter with the delay `main.go` puts
around it, and the Hermes CLI adapter with its process (`proc[r]`), its deadline
(`Expire`) and the kill. The process and the watching part of `os/exec` are
external: `Start` looks at the context, a context that is done kills, and `Wait`
prefers the process's own failure to the context's error. `ClassOf` is the error
class `Invoke` makes of an ended process.

**VoicePath** composes the whole way of a request: the agent's POST, the
forwarder, `devText`, the dispatcher and the adapter. Per request `edge[r]` is
the forwarder's handler, `refused[r]` an early return of `devText`, `heard[r]`
what the agent was told, `gone[r]` whether it gave up. `EdgeFails` is the
forwarder's timeout or a lost connection, which may come before, while or after
the service works on the request; a request may even reach the service after
that (`Arrived`). `EdgeCuts` is an answer above the size limit. `RequestEnds`
ends `r.Context()`, which is the dispatcher's `CallerGone`. The remaining actions
are those of `Dispatch` and `Adapters` themselves, the other variables unchanged.
It implements `TaskService`: `ExchangeOf(r)` is what the agent knows of its request,
where `Meaning` takes an answer for a promise only if it carries the id of the
request's own task, and the records are those of the store. The path has no
restart; to it `MaxRestarts` is 0.

**EdgeText** is what `text`/`applyEdgeMetadata` make of one request and what
`parseDevTextRequest` then reads, beside what it reads without the edge. Strings
are device ids, texts, blank or mistyped values; a size is "fits", "fits, but not
with the edge's metadata" or "too large".

**HAConversation** is the agent entity on top of `TaskService`. What a
coroutine does between two awaits is one action: `Forward` / `NotAccepted` /
`Accepted` for `_forward_to_hermes`, `AskStatus` / `StatusAnswered` for
`_poll_last_task`, `Wake` / `PollRaises` / `PollAnswered` for the delivery loop.
`RemoveEntity` cancels the loops of the moment. `ServiceAccepts`, `ServiceSettles`
and `ServiceRestarts` are the service's own steps; the ids it gives are any free
ones, so that after a restart an id may be given again, as the counter of the
dispatcher, which starts over, does. A failed task's answer carries an error object (`taskResponseFromRecord`), which the
agent takes for an error: `HasError`. A turn is a command or a question; the two
sets may overlap, for wordings that are a status request only while there is a
last task.

**Cleanup** is `New` and `CleanWithTrace` with every rule kind, the fallback and
the default rules, over sequences of word pieces and spaces; adjacent pieces make
a longer word, which is what a phrase boundary is about. The loops of the code
(over the runes of a text, over the words, over the rules) are recursive functions
of how far the loop has come. `ByWords` is the reference definition of the default
rules in terms of whole words. A rule may bear the id `fallback_original`, which
`New` does not reserve: in a trace the fallback is told by its empty `before`.

**DevText** puts the two together, as `devText` does: the cleaner is made at the
start (`Start`), a request is read (`Read`), and the text of an accepted one is
cleaned (`Clean`), whichever way it came.

**Backup** is `BackupFile` system call by system call, for concurrent processes
that may fail or die at each of them, against an editor that renames a new file
over the registry or writes into it. `io.Copy` moves blocks.

**Registry** has `Issues` (Validate), `LoadError` (Load) and `Resolve` as
operators over abstract strings; **Routing** is a service that loads its file at
start and routes requests by it.

Operators whose comment begins "Mutation of" are faulty variants of the
definition that follows them. They are not part of a specification: each one is
put in its original's place to confirm that a property notices the fault.

## 3. What TLC checks

| Run | Instance | Shows |
|---|---|---|
| `task_store` | 2 ids and a blank one, 2 requests, a response, an error | `GrantedIsStored`, `StoredIsGranted`, `TaskHistory` |
| `dispatch` | 2 calls whose configured and generated ids clash, store and runner, 6 outcomes | `AcceptedIsKept`, `AcceptedRunsDetached`, `NoOrphanTask`, `SettledWithOwnResult`; refinement of `TaskLifecycle`, also of its fairness; `InvokeReturns`, `BackendGoroutineEnds` |
| `voice_path` | 2 requests with clashing ids (with Hermes the second stays at the forwarder), both adapters, with and without `--hermes-timeout`, fair | `HeardIsTrue`, `NoSecretTask`, `ResultIsWhole`; refinement of `TaskService`; `WorkEnds`, `AcceptedSettles` |
| `hermes_timeout` | 1 request, Hermes with a timeout | violates `TimeoutIsTemporary` |
| `dev_text` | requests of every shape with 2 devices, 2 texts and the bad values, default device unset, blank or either; every text of up to 4 tokens and sentence of up to 5 words, under the default rules and 7 other lists | `NeverSilenced`, `TraceReplays`, `CleanedByWords`, `EdgeServesTheSame`, `EdgeMendsItsOwn` |
| `ha` | 2 commands, 1 question, both faults, 1 restart, removal, fair | `PendingIsPolled`, `NoSilentDrop`, `NoteMatchesRequest`, `EventuallyTold`, `LoopsEnd` |
| `ha_transient` | 1 command, one kind of fault | violates `RunningIsNotGivenUp` |
| `ha_no_task` | 2 commands, 1 question, no fault | violates `NoTaskIsTrue` |
| `ha_reuse` | 2 commands, exceptions, 1 restart | violates `PromiseIsKept` |
| `backup` | 2 calls in one second, 2 saves, texts of 2 and of 1 block, failures, crashes, fair | `ReturnedIsWhole`, `PartialIsExplained`, `BackupsAreKept`, `BackupEnds` |
| `routing` | about 31 000 registry files: 1 device, at most 1 alias, 2 persons, 2 profiles | `RouteResolves`, `RouteOwned` |
| `routing_blank` | the same | violates `LoadedRouteResolves` |

**Bounds.** `MCDispatch` makes a configured id equal to a generated one,
`MCVoicePath` two configured ones. What a call does depends on the others only
through the shared store and counter, so more calls repeat these cases (and the
theorems below hold for any number). `taskCounter` is not bounded: it is
incremented at most once per call. The six outcomes of `dispatch` are a stored
response, an accepted response, two errors of the adapter, a nil response and a
response with a failed status: one for each way `storeBackendResult` goes, and
two codes to tell apart. `voice_path` needs two requests for a task to be refused
because of another. With the static adapter both go all the way and their ids
clash; with Hermes, whose processes would multiply the states, `FirstOnly` keeps
the second at the forwarder. It loses little: requests meet in the store and the
counter alone, which the adapter does not touch, nothing waits for anything of a
different request, and the safety properties and the refinement are theorems for
any number of requests with either adapter. It disables no fair action for good:
the forwarder may still refuse the request.
Two commands and a question are the fewest turns in which a status poll in flight
meets a newer task; two ids let both commands be accepted at once, and with
`MaxRestarts = 1` a restart loses every task and sets every id free again: after
it the second command gets an id of its own, for which `NoSilentDrop` and
`EventuallyTold` promise a report, or the id of the first, which is `ha_reuse`. In
`MCRouting` one device with one alias has every combination of bound, inherited,
empty, white-space and dangling halves; routes of different devices do not
interact. A version other than 1 and an inline key are tried with devices without
aliases only, since they are refused before the tables are looked at. In
`MCBackup` a third call would find two names taken instead of one; two saves are
enough for a text to be replaced while it is copied, and once more. In
`MCDevText` five words are a wake phrase, two fillers, a word and "please"; the
other lists of rules are tried with requests without any flaw, and a default
device with the requests of every shape only, since cleaning sees nothing but the
text and reading nothing of the rules.

**Fairness.** `Scheduling` in `Dispatch`: a goroutine that can run does so, and an
armed timer fires; this is what the Go runtime gives. No fairness is put on
callers. That the backend returns is a separate assumption, `BackendFairness`,
used only in `ImplementsFairLifecycle`; no call needs it to be answered.
`VoicePath` does without it: `AdapterFairness` says that timers fire, a kill is
carried out and an ended command is reaped, and nothing makes a Hermes process
end. The reaping assumes that no descendant of the process keeps its stdout open,
which the code does not ensure (`cmd.WaitDelay` is not set).
`PathFairness` adds that the forwarder's own timeout fires and that a closed
connection ends the request's context; nothing makes an answer overtake a timeout.
In `HAConversation` a sleep ends, a poll is answered or raises (the client
timeout of 75 s), tasks are settled (which the service gives with the static adapter
or with `--hermes-timeout`, see `AcceptedSettles`), and a poll repeated for ever is answered at
some point, if only by an error object: strong fairness on `PollAnswered`. Without
the last one a network that never works again would refute any promise. In
`Backup` a process that was started runs.

`routing` and `dev_text` run without deadlock checking: a program
whose registry or rules are refused ends, and so does an exchange that has been
answered.

### Disagreements found

1. `hermes_timeout`: a Hermes process killed by `--hermes-timeout` is reported as
   a failed invocation; hermes_cli_test.go:63 tests for a temporary error, with a
   command runner that does not behave like the real one.
2. `ha_transient`: one `upstream_unavailable` answer makes the agent give up a
   running task (conversation.py:285 means to survive transient errors).
3. `ha_no_task`: "I have no pending task" is said while one is running.
4. `ha_reuse`: the pending list knows tasks by their id, and ids start over with
   the service. After a restart the loop of a lost task may take the entry of a
   newer one of the same id off the list, announce that one's result under its
   own text, and leave the newer request's user untold, who was promised a report
   (conversation.py:197).
5. `routing_blank`: Validate takes a white-space binding for a missing one,
   Resolve for an id (README.md:43).

Seen while modelling, without a run of their own:

- The select of the dispatcher may choose the timeout when another event was there
  first. README.md:91-92 promises the response "unchanged" to a backend that is
  done before the timeout, and no background task to a caller that cancels before
  it; either may be answered "accepted" if both events are there when the
  goroutine looks. `NoOrphanTask` is about the answer that was given.
- The default rules are not idempotent: "ну окей гермес включи" needs two passes.
  `TestDefaultRulesAreIdempotent` (defaults_test.go:34) tries three inputs that are.
- A registry written in place while it is copied gives a backup of no version,
  against "an exact byte-for-byte copy" (README.md:212). `ReturnedIsWhole` excepts
  this case.
- No text of the repository is about these: a body of `null` makes the forwarder
  panic (`EdgePanics`); without `--hermes-timeout`, the default, an accepted task
  may run for ever; the edge's default device replaces one the client named
  `Device_ID`, which the service itself would have read (forwarder.go:100, the
  second exception of `EdgeServesTheSame`).

## 4. What is proved

All theorems hold for every value of the constants that meets the named
assumptions of the modules. `StoreConstants`, `HAConstants`, `RegistryConstants`,
`NilIsNoError` and `TextConstants` say that distinct things are distinct,
`DispatchConstants` that the dispatcher has a store or a runner,
`AdapterConstants` which modes and outcomes there are, `VoiceConstants` that the
service is built with a store (as `main.go` does), `BackupConstants` that texts
are sequences of blocks, `CleanerConstants` that the spaces are tokens and the
lists of rules sequences of rules, `DevConstants` that a text which is not blank
to `EdgeText` is not to `Cleanup`.

**TaskStoreProofs.** `StoreInv` (types, `GrantedIsStored`, `StoredIsGranted`) is
inductive. Each operation is brought to one of three shapes: refused, filed under
a free id, settled (`CreateCases`, `CompleteCases`, `FailCases`); the invariant is
shown for each shape once. A settlement contradicts no earlier grant because a
granted settlement's record is terminal and the operations refuse those.
`TaskHistory` follows from the same shapes.

**DispatchProofs.** `AcceptedIsKept` is not inductive: that a record belongs to a
call has to be known from the moment it is created. `IInv` adds that every task
has an id (`NamedHasID`), that a storer's task is a record of its own call
(`StorerOwnsRecord`), that every record has a storer (`RecordHasStorer`), that a
call past `CreateTask` has one (`HandoffHasStorer`), how far the backend and the
channel can be (`BackendProgress`), and that only a call without a task cancels
its backend (`DetachedContext`). There is one lemma per action. From `IInv`
follow `AcceptedIsKept`, `SettledWithOwnResult`, `AcceptedRunsDetached`,
`NoOrphanTask` and, with the mapping, that every step is a step of
`TaskLifecycle` or a stutter (`Refinement`). `DistinctTasks`, that two calls with
tasks never share an id, is what keeps one call's settlement invisible to the
other's abstract task.

**RoutingProofs.** An empty set of issues gives `ValidTables` (each reference
leads into the next table) and `ValidAlias` (so does an alias' route, half
inherited or not); `ValidRoute` shows that Resolve reads the same route as
Validate wherever a binding is empty or not blank. `RouteResolves` follows, with
white-space bindings as the exception that finding 4 shows to be necessary;
`RouteOwned` needs no exception, because no id of a valid table is blank.

**VoicePathProofs.** Every step of the composition is a step of `Dispatch` or
leaves its variables alone (`PathImplementsDispatch`), so the dispatcher's `IInv`
is taken over as it stands, and with `Refinement` the path implements
`TaskLifecycle` (`PathImplementsLifecycle`). `PathInv` adds where an outcome comes from
(`OutcomeOfAdapter`), that a success is that of a process that ended by itself
(`OutputOfExited`), that nothing refused is dispatched (`RefusedIsIdle`), which
state of the service an answer was read from (`HeardFrom`), and that an agent that
has not given up has been told (`ClosedIsTold`), and that only an agent that
has posted gives up (`GoneHasPosted`). `HeardIsTrue` then is
`AcceptedIsKept` and `NoOrphanTask` carried through the answer; `NoSecretTask`
follows because the only other ends of an exchange are visible failures.

`PathImplementsService` is the refinement of `TaskService`, step by step. Outside
the service (`OutsideServes`) posting is `Post`, giving up is `Lose`, and an
exchange that ends (`TellEnds`) is `Answer`, `Promise` or `Lose`, whichever
`Meaning` says: an answer read from an accepted call carries the id of its task
(`HeardFrom`, `AcceptedIsOwn`), one read from any other call finds the call
without a task. Inside (`InsideServes`) `CreateTask` is `Accept` under an id the
store did not have (`CreateServes`), or a stutter if the store refuses it,
`StoreResult` is `Settle` of an own record that is still "accepted"
(`StoreServes`), and everything else a stutter. The delicate part
is that `Accept` needs an exchange that is open or lost: a call answered without
a task must never create one, which is `HeardFrom` again.

**CleanupProofs.** What the loops of package cleanup compute, for every text and
every list of rules. The prover cannot use an induction theorem over a predicate,
so induction is done on sets: `Least` (a non-empty set of numbers has a least
element) gives `Induct`, and `Loop` says once that a recursive function is the loop
it is written as. From these:

- *Texts and words.* `Fields` of a joined list of words gives the list back
  (`FieldsOfJoin`), a text splits into its words at any of its spaces
  (`FieldsSplit`, `SplitAt`), trimming changes no word (`FieldsOfTrim`), so that
  trimming and collapsing make of a text its words, joined (`TidyText`).
- *Any rules.* The invariant of the loop (`Replayed`) is that the trace so far
  replays the rules so far; each round keeps it (`RoundReplays`), because `New`
  refuses duplicate ids and no rule makes something of nothing
  (`NothingOfNothing`), which is what tells the fallback apart. With the fallback
  this is `CleaningReplays`.
- *The default rules.* A prefix phrase matches a joined text just if its words are
  the first ones (`PrefixByWords`; `SuffixByWord` for the last); three rounds per
  phrase strip it and tidy up (`StrippedByRounds`); hence `CleaningByWords`.

**DevTextProofs.** The invariant says that both answers are `Parse` of the request
and of the mended request, that a ready cleaner has rules that `New` lets pass, and
that a result is `CleanWithTrace` of an accepted text. `EdgeServesTheSame` and
`EdgeMendsItsOwn` are then facts about `Parse` and `ApplyEdgeMetadata`: what
decodes loses nothing. `NeverSilenced`, `TraceReplays` and `CleanedByWords` are
those of `CleanupProofs`, with what the service accepts for the input.

**HAProofs.** `NoSilentDrop` speaks of a request, the lists of the agent of ids.
`IInv` adds what joins the two: a loop has a task id (`LoopHasTask`), a status
request that waits has asked for a task (`PollsATask`), a notification is filed
under the id of the task it quotes (`NotesFiled`), and until a restart an id leads
to its own record (`IdsAreOwn`); and that a turn speaks at its end only
(`SaidAtTheEnd`), so that what it said stays said. As long as no other request has
had the same id (`HasOwnID`, which if it holds has always held: `OwnIDBefore`), the
one loop or turn that takes an entry off the list is about the very request of the
entry, and tells its user in the same step (`DropStep`); a notification is never
replaced by another request's (`ToldStays`). `HasOwnID` is necessary: without it
`ha_reuse` is a counterexample. `NoteMatchesRequest` follows from `IdsAreOwn`.
A step is the agent's or
the service's (`StepSplits`): the agent's leave the tasks alone
(`AgentKeepsTasks`), the service's leave the agent alone (`ServiceKeepsAgent`), and
what they do to the tasks is said once, in `TalkShape`, `AcceptShape`,
`SettleShape` and `IdStays`, whatever ids the service gives.

**BackupProofs.** `IInv` adds that a call which has made its file owns the file of
its name (`OwnsFile`), that the text being read has been seen (`SeesSource`), and
that while only one text has been seen the copy is a prefix of it
(`CopyIsPrefix`), which at the end of the source makes it the whole.
`BackupsAreKept` follows from `OwnsFile`: two calls never share a name.

**Only model-checked.** Everything under fairness (`ImplementsFairLifecycle`,
`InvokeReturns`, `BackendGoroutineEnds`, `WorkEnds`, `AcceptedSettles`,
`EventuallyTold`, `LoopsEnd`, `BackupEnds`): liveness and ENABLED are beyond the
prover. Every invariant and every action property of the passing runs is a theorem.

## 5. What is not modelled

Timestamps, metadata other than its shape, and the text of messages; the
defensive clones (records are values); YAML and JSON decoding beyond what
`EdgeText` tells apart; the matching of status phrases; a turn without endpoint;
unknown status strings, which the service never sends; method and path checks and
`/healthz`; flag parsing and the check of the listen address; a server without a
quick timeout, which calls the adapter without a dispatcher; the parsing of the
Hermes CLI's stdout beyond whether it leaves an answer. `TaskRunner` has no
implementation in the repository: `Dispatch` records what is handed to it. A
`uint64` task counter does not wrap within any run. Home Assistant's set-up code
and the development scripts are listed in `PROJECT.json` with the reason.

## 6. Plan

Done: every component that keeps state, the composition of the path from the
agent's POST to the Hermes process, the invariants of all of them proved, and the
two halves joined: the service on which `HAConversation` stands is the one
`VoicePath` is proved to implement. What would add most next: restarts on the path
itself, which `TaskService` has and `VoicePath` does not, so that the join holds
beyond the first restart.
