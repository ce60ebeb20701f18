# llblib in TLA+

llblib is a Go library on top of BuildKit's client. A program describes states,
asks a `Solver` for requests, opens a `Session` and sends the requests to
BuildKit while a `Progress` shows what happens; containers for debugging take
over the terminal in between. The modules here model the parts of the library
that run concurrently (the progress hub, the image config cache, containers, the
solver and its sessions) and the parts that compute something intricate (image
histories, mount propagation, the YAML document). TLC checks them on small
instances, and TLAPS proves almost all of the safety properties for every instance.

All line numbers refer to the files under `src/`.

## 1. Inventory

| component | source | state it keeps | operations |
|---|---|---|---|
| progress hub | `progress/progress.go`, `progress/fromreader.go` | `mu`, `children`, `childCond`, the current `statusCh` and `done`, `seen`; one display goroutine, one forwarder goroutine per channel | `NewProgress`, `Channel`, `Sync`, `Pause`, `Resume`, `Close`, `Label`, `Begin`, `FromReader` |
| image config cache | `resolver.go` | a map from (reference, platform, mode) to a value with an `inflight` channel | `ResolveImageConfig`: `lookup`, `fetch`, `store` |
| containers on the terminal | `container.go`, `container_unix.go` | per run: errgroup and context, Setup and Teardown lists, `resize` and `ch` channels, the terminal's mode | `Container`, `runContainer`, `WithTTY`, `handleResize`, `WithLock` |
| error handlers | `error.go` | the request's `onError` | `OnError`, `DropBuildError` |
| solver and sessions | `solver.go`, `session.go`, `context.go` | `err`, `localDirs`, `secrets`, `downloads`, `helpers`, `agentConfigs`; per session its BuildKit sessions and releasers | `Local`, `AddSecretFile`, `Forward`, `Build`, `NewSession`, `Do`, `Release` |
| forwarding | `forward.go`, `sockproxy/` | listener, one pair of copies per connection | the tcp helper, `Run`, `NewProvider` |
| image config and history | `image.go`, `state.go` | an image config and a chain of mutators on an `llb.State` | `LoadImageConfig`, `commitHistory`, `commitHistoryKV`, `Merge`, `Diff`, `Run`, the setters |
| mount propagation | `mounts.go` | mounts applied so far and their latest states | `Add`, `With`, `Run` and friends of `MountPropagator` |
| YAML rendering | `yaml.go` | visited vertices and aliases | `ToYAML` |
| requests and frontends | `frontend.go`, `docker.go`, `push.go`, `dockerload.go`, `run.go`, ... | none between calls | option and request builders |
| client connection | `client.go` | none | `NewClient`, `DockerHost` |

How they interact:

- Every solve of a session writes its status to a channel from
  `Progress.Channel`; `Session.Do` (`session.go:118,186`) and the resolver
  (`resolver.go:54`) each open one.
- A container calls `Pause` before it takes the terminal and `Resume` when it is
  done (`container.go:260-261`). `Pause` returns with the hub's mutex held, so a
  second container waits there, and so do all forwarders.
- A request's `OnError` runs a container from inside the failed build
  (`error.go:40-56`), possibly in several parallel solves; `WithLock` serialises them.
- All sessions of a solver share its image config cache.
- `NewSession` calls the helpers that `Forward` registered; the session's
  `Release` calls the functions they returned.

What is hard, and what makes each component correct:

- *Progress hub.* Three kinds of goroutine share two Go channels that are closed
  and replaced under way. It must never use a closed channel, never lose or
  repeat a message, show nothing during a `Pause`, and let `Close` return with
  everything written.
- *Image config cache.* Single flight: one leader per key, followers that obey
  their own contexts, answers that agree, fields read without the mutex.
- *Containers.* Five goroutines per run, started and stopped by one context that
  ends for four different reasons. The terminal must be raw only while the
  display is paused and cooked again afterwards; nothing may be left behind;
  `runContainer` must return once pid 1 has.
- *Solver and sessions.* Goroutines register items under one lock and an error
  without it; `NewSession` holds the lock while it calls back and while it waits
  for BuildKit. A session must get all that was registered, none may open after
  a failure, calls must return, a download must find its own session, and what
  was started must end.
- *Forwarding.* A tcp forward runs code of its own inside `NewSession`.
- *History.* A chain of closures that is run on a copy: which record is
  extended, which config survives `Merge` and `Diff`; config and history must
  agree, and the history must match the layers of the graph.
- *Mounts.* A map that `Run`, `AsRun`, `ApplyMount` and `Copy` read and write: no
  write may be lost and copies must be independent.
- *YAML.* What is printed in full and what as an alias depends on what was
  printed before; aliases must resolve and stand for the right output.

`PROJECT.json` lists the hazards line by line with the properties that cover them.

## 2. Plan

| step | modules | properties aimed at |
|---|---|---|
| 1 (done) | `ProgressLog`, `Progress`, `ProgressProps`, `ProgressSync`, `ProgressProofs` | the hub and its refinement of the interface's promise |
| 2 (done) | `ImageConfigs`, `ResolveCache`, `ResolveCacheProofs` | single flight as a write-once table |
| 3 (done) | `ContainerRun`, `ContainerProps`, `ContainerProofs` | the terminal, the Teardown, what is left behind |
| 4 (done) | `SolverRegistry`, `SolverSession`, `SolverProps`, `SolverProofs` | registration, `NewSession`, `Do`, `Release`, the tcp helper's lock |
| 5 (done) | `LlbGraph`, `ImageHistory`, `MountPropagation`, `YamlDocument`, `Building`, `BuildingProps`, `LayerProps`, `Printing`, `PrintingProps` | histories, mounts and documents of small programs |
| 6 (done) | `BuildingLemmas`, `MountProofs`, `HistoryProofs`, `LayerProofs` | the propagators' laws, and the histories and layers after any number of calls |
| 7 | `ContainerRequest` | `mergeExecOp`, `convertMounts` and `errContainer`: which mounts of a failed operation its container gets |
| 8 | `SockProxy` | worth its while once the tcp helper gets past its lock |

`Progress` and `ContainerRun` meet in `Pause` and `Resume`. `ContainerRun` models
the hub by the holder of the Pause, which is what `ProgressLog`'s `quiet`
promises. `SolverSession`'s `OnError` step is where a `ContainerRun` takes place.

## 3. The progress hub

`Progress.tla` is `progress/progress.go`. Each variable is a field or a
goroutine's position (listed in the module):

- `gen` stands for the current pair of `statusCh` and `done`: `sync()` replaces
  both, so a generation number identifies them. `statusClosed` and `doneClosed`
  say which generations were closed; a display remembers the generations it
  captured (`ch` when `UpdateFrom` was called, `done` when `p.done <-` was evaluated).
- `mu` is the holder of the mutex; a forwarder is named by its channel.
- A message is a count per channel (`sent`, `held` by a display, `shown`), its
  log records a subset of `Keys`.

| code | action |
|---|---|
| `Close` 166-174 | `Call`, `Lock`, `CondWait`, `ReceiveDone` |
| `Sync` 176-184, `sync` 188-197 | `Call`, `Lock`, `ReceiveDone`, `Reset` |
| `Pause` 199-202, `Resume` 204-207 | the same without the restart; `Resume` |
| `start` 155-164 | `DisplayStart`, `DisplaySend`, `DisplayCloseDone`; `UpdateFrom` is BuildKit's: `DisplayTick`, `DisplayEnd`, and the receiving half of `Deliver` |
| `Channel` 242-286 | `Open`, `Accept`, `Dedup`, `FwLock`, `Deliver`, `FwEnd`, `FwExit` |
| producers (`Begin`, `FromReader`, BuildKit) | the sending half of `Accept`, `CloseChan` |

Conditions taken from the documentation: `Close` is the last call and is made
when no `Sync` or `Pause` is under way; every channel is closed by its producer;
whoever pauses resumes. A send on a closed Go channel ends the process: the
model has no step for it and `Panics` describes the states before it.

`start`'s goroutine reads the field `p.done` for `close(p.done)` (162) without
`p.mu`, after `sync` has received from it and perhaps replaced it (193-195): a
data race. Both orders are in the model: `Reset` does not wait for the display, and
`DisplayCloseDone` closes the `done` of the current generation. If it is a later one,
its `Close` or `Sync` returns early and its display's send panics. The history variable
`raced` records that some `Reset` came first; no step of the code reads it. `TtyMissing`
makes `NewDisplay` fail. What the hub promises can hold only until `Disturbed`, one of
these two, and the properties say so; both are reported as violations below.

`ProgressLog.tla` is the promise of the interface (18-38): messages are handed
over, shown in order and once, not shown during a pause, all shown at `Close`.

### Runs

- `progress` (`MCProgress.cfg`): 2 users, 2 channels, 1 log key, 1 message per
  channel, 2 calls of `Sync`/`Pause`: 145,002 states. Two users are needed for
  overlapping calls and for a waiter on the mutex, two channels for duplicate log
  records and for the last of several children, two `Sync`s for a display that
  meets a generation not its own. A second message per channel takes the same
  path as the first. Checks `TypeOK`; `PanicOnlyDisturbed` (a closed channel is used
  after the race and by nothing else); `CloseFlushes`, `PauseExclusive` and the refinement
  `Implements` until `Disturbed` (that a Pause keeps `p.mu` always); `LogOnce` always; and
  the liveness properties `CloseReturns` (or a panic ends the process) and
  `MessagesShown` (unless `raced`).
- `progress_race`: the unqualified promise of `Close` (33-34). `Close` returns before
  its messages are written: the new `done` is closed by the old display.
- `progress_sync`: a message sent before `Pause` was called is still with its
  forwarder when `Pause` returns, against "all in-flight messages have been
  handled". For example `OnError`'s "running error handler" may be shown only
  after the handler's container has ended.
- `progress_tty`: with a display that fails, the first message blocks its
  forwarder with the mutex held, and `Close` never returns.

Fairness: goroutines that can run do (WF per goroutine). Taking `p.mu` has SF:
Go's mutex switches to handing over when a waiter has starved for 1 ms. A producer
closes its channel and a pausing user calls `Resume`: both are obligations the
comments state (28, 240). No user has to call anything.

## 4. The image config cache

`ResolveCache.tla` is `resolver.go`. `Lookup` is the critical section of
`lookup` (103-111), `Resolved` the leader's BuildKit call with any answer,
`Store` and `CloseInflight` the two halves of `store` (readers do not take
the mutex, so the order of the halves matters), `FetchCanceled` and
`FetchValue` the two cases of `select`, either of which may be taken when both
are ready. `Cancel` ends a caller's context at any time. The four fields of a
value are written and read together and are one value here; `store` writes
them before `close(v.inflight)` and `fetch` reads them after it, and nothing
else touches them.

`ImageConfigs.tla` is the abstract table: a key is resolved once, all answers are
that resolution.

Run `resolve_cache`: 3 callers (a leader and two followers), 2 keys, 2 configs (a
second resolution could differ), 3 lookups: 108,697 states. A fourth lookup
repeats the state of a key that is cached. It checks `OneLeader`, `Agreement`,
`ResolvedForGood`, the refinement and `CancelReturns`. `ResolvedForGood` also
says what one may regret: an error, be it the leader's own cancelled context, is
final for all later lookups of the key.

Fairness: goroutines run; BuildKit answers a call whose context has ended.
Nothing else makes it answer.

## 5. Containers on the terminal

`ContainerRun.tla` is `runContainer` with the callbacks of `WithTTY` and
`handleResize`, for a set of runs on one terminal with one `Progress`.

| code | action |
|---|---|
| callback of `Container`, `container.go:179-227`; 244-258 | `Enter` (the lock), `Start` (mounts, `NewContainer`, `Start`) |
| 260 | `Pause` |
| Setup loop 263-267: `WithTTY` 87-100, `handleResize` 18-54, the user's | `MakeRaw`, `WatchSize`, `Setup` (with the `eg.Go` calls) |
| 313-320 | `Wait`, `Join` |
| deferred calls 261, 252, 249, 182 | `Resume`, `Release` |
| teardown goroutine 269-281 | `Restore` (terminal and reader), `StopNotify`, `JoinWinch` |
| `co.Resize` loop 283-296 | `ResizeRecv`, `ResizeSent`, `ResizeStop` |
| SIGWINCH loop, `container_unix.go:26-43` | `WinchTake`, `WinchPush`, `WinchStop` |
| outside | `Sigwinch`, `Exit` (pid 1), `Interrupt` (the caller's context) |

`result` records how `runContainer` returns; `"left"` marks the two returns that
do not wait for the goroutines (a failed Setup, an error of `proc.Wait`). The
properties say exactly what those returns cost: `RawOnlyWhilePaused` and
`OwnTerminal` hold as long as no run has left, and `CleanReturn` holds for each
run that returns nil. In particular an exit code of pid 1 other than 0 is an
error of `proc.Wait`: after it the terminal is restored some time after
`Resume`, or by nobody if the program ends first, and a second run can save the
raw mode as the terminal's old state.

Assumed of BuildKit: `Release` kills what still runs, `Wait` reports an error
when its context has ended, calls return.

### Runs

- `container`: one run, its initial SIGWINCH and two more, its context may end
  from outside: 11,332 states. Two more fill both channels and the loop's hand.
  Checks `CleanReturn`; `SignalWindow`, that the window in which a SIGWINCH meets a
  closed channel (`container_unix.go:30`, `:45`) opens with the end of the context and
  closes with the Teardown; and the liveness properties `Returns`, after the exit of
  pid 1 `runContainer` returns unless a SIGWINCH loop is stuck, and `TornDownLate`, a
  run that left its goroutines behind is torn down after all unless its loop is stuck.
  With several runs `Returns` needs that no other pid 1 runs for ever: one that
  does keeps the Pause, or the lock, from the rest. The property has that as its hypothesis.
  (Two runs with it make 388,162 states and pass, but take more time than this run should.)
- `container_pair`: two runs, with and without `WithLock`, the initial SIGWINCH
  only, one of them interrupted from outside: 961,389 states. Checks
  `RawOnlyWhilePaused`, `OneRunning`, `OwnTerminal`. More signals do not touch
  the terminal's mode; the properties are proved for any number.
- `container_teardown`: a failed `proc.Resize` ends the errgroup's context, and
  the Teardown starts with pid 1 alive, against `container.go:51`.
- `container_resume`: the SIGWINCH loop blocks on its full channel after the
  `co.Resize` loop has stopped; `runContainer` hangs in `eg.Wait` and `Resume`
  is never called.

The runs of containers do not check for deadlock: runs end, and the stuck loop is
the subject of `Returns`.

Fairness: goroutines run, a starved waiter gets the lock and the Pause (SF),
gateway calls return. Nothing makes pid 1 exit, the user resize, or a context end.

## 6. The solver and its sessions

`SolverSession.tla` is `solver.go`, `session.go` and `Forward` of `forward.go`:
goroutines (`Callers`) that share one solver.

| code | action |
|---|---|
| `Local` 134-190, `Forward` 51-97, `AddSecretFile` 284-304, `Build` 365-379 | `Call` or `CallFails`, then `Add` (the lock section) |
| `NewSession` 402, 403-405 | `Open` (the call), `Check` |
| 407-416, the helpers | `Lock`, `Helpers`, `OpenFails`; a tcp helper's own lock section (`forward.go:105-111`) is `Add` |
| 420-457 | `Mounts`, `AttachSecrets`, `AttachAgents` |
| 466-497 | `Connect`; per session and attachable `Dial`, `FirstRead`, `Ends` |
| 500-519 | `Ready`, `GiveUp`; every return is `Return`, with the deferred unlock |
| `Do` 84-196, `OnError` (`error.go:33-58`) | `Do` (with `Choose`), `Solved`, `SolveFails`, `OnError`, `Handled` |
| `Release` 50-65 | `Release`, `Close`, `CloseLoopEnds` |
| outside | `Cancel` (the context given to `NewSession`) |

`reg` is the union of the five maps and slices; which one an item is in follows
from its kind. `Entry` gives the map key of an item: a second `Local` of a name, or
secret or socket of an id, overwrites the first (`With`). `err` is read and written
without the lock, as in the code. It is a Go interface, two words, so a reader may
get a mixture of two values; the model has only whether it is nil, which one
of the words tells, and the code does nothing with the rest but format it. `NewSession`
looks at `err` in a step of its own (`Check`) before it takes the lock: a `Local` that
fails in between does not stop it. The variables `tried`, `failed`, `before` and `broken`
record the past for the properties only; the last two are what was registered and what
had failed when `NewSession` was called. `Requests`: each request is sent once.

`SolverRegistry.tla` is the abstract promise: items are registered one by one and
a session gets what is registered at one moment.

### Runs

- `solver_session`: 2 goroutines, 1 session, two directories of one name, a tcp forward
  and a download, a plain request: 116,266 states. Secrets and unix sockets take the steps
  of directories, in the phases after theirs, and are left to the proofs; two goroutines for one that registers, fails, cancels, or sends a
  request while the other is in `NewSession` or `Release`. Checks `Complete`,
  `NoFailed`, `OwnSession`, `ReleaseCloses`, the refinement `Implements` and the
  liveness properties `Returns` and `FailedEnds`. The proofs cover more
  sessions and items.
- `solver_tcp`: `CancelledReturns`, that a `NewSession` with the lock returns once
  its context is over, fails: the tcp helper locks `s.mu` a second time. In the
  passing run `Returns` says what a helper and a failed dial keep waiting
  (`InHelper`, `DeadDial`) and that nothing else does.

Deadlock is not checked: programs end, and the helper's block is the subject of
`solver_tcp`.

Fairness: goroutines run (WF); a starved waiter gets the mutex (SF on
`Add \/ Lock`); a dial ends and BuildKit sends its first message on a connection
that holds; a connection ends once its context is over. No caller has to call
anything, no connection has to hold, no context has to end.

## 7. States, mounts and documents

These functions run in one goroutine, so the model is a program that calls them
in any order. Data is a graph: `LlbGraph.tla` has vertices as the records of what
they are made of (equal exactly when their digests are) and what BuildKit's `llb`
package does with them; it is external.

- `ImageHistory.tla` is `state.go` and `image.go`. A state is its output, the
  config pointer (a sequence of at most one config) and the closures it chains, as
  a sequence. Instructions are grouped by what they do to the config
  (`KeyValues`, `Once`, `Replaced`, ...). A config in JSON loses the session of
  its records and turns nil into an empty config (`BuildDefinition`). A call of
  `LoadImageConfig` starts with a copy of the config and runs one mutator per step.
- `MountPropagation.tla` is `mounts.go`; the map of mount states is a reference,
  so a propagator has its name and the map is an argument.
- `YamlDocument.tla` is `yaml.go`. A document is a sequence of nodes in order of
  creation, and `graphState` is passed from call to call, since Go's maps are
  shared by its copies. An alias has the anchor its target had when the alias was
  made; the target's own may be overwritten later, as in `yamlAliasOf`. Attributes
  of nodes (arguments, owners, modes) are a single name.
- `Building.tla` is the machine: variables of type `llb.State`, propagators, one
  action per function called. `ran`, `given` and `seen` record for the properties
  only which runs a propagator made, which vertices the program gave it, and what
  had run before each run.
- `BuildingProps.tla` has the properties that are proved, `LayerProps.tla` the
  layers that a graph has (`LayersIn`), `Printing.tla` what can be printed at any
  time (`Dumps`), and `PrintingProps.tla` what a document matches (`Matches`).

The parts that are recursive over graphs (`visit`, `Matches`) are in
modules of their own, which the modules with proofs do not use. A vertex
has in `below` the vertices it is made of, so that `Vertices` needs no recursion, and
`LayersIn` goes back from an output step by step (`Ways`, a function of the number
of steps), at most as often as there were calls that could have made a vertex.

Run `states`: 2 variables of which one starts as an image and the other as an
image, a source without a config or Scratch, 2 propagators, 2 mountpoints of
which one is mounted readonly, 2 keys, one instruction of each kind that has a
body of its own (`ENV`, `EXPOSE`, `WORKDIR`, and labels, which `SetLabels`
adds); 301,251 states. The image is like that of `test-data/configs/defaultEnv.yaml`: its
history tells one of its two variables, and neither its command, its working directory
nor its port.

| property | what it says |
|---|---|
| `TypeOK` | states, configs and propagators have their shape: a state without a config has no mutators (they would panic), a config stored in a state has no record of a session, a propagator has its own map |
| `LayersMatch` | a loaded history has one record per `Run`, `Copy`, `Merge` and `Diff` from the base to the output, in that order, with the right digests, however often it was loaded |
| `HistoryTellsConfig` | after every mutator the config is that of a pulled image (any image: its history need not tell its config) or an empty one, with the changes that the history has since; a `Diff` forgets what came before it, labels excepted |
| `BaseKept` | in a session no record of the base is changed and neighbours are joined. Outside any session (`sessionID` is empty for all) `commitHistoryKV` does extend the base's last record |
| `NoLostWrite`, `SeesWrites` | the promise of `mounts.go:9-12,35-36` for `Run`, `AsRun`, `ApplyMount` and copies |
| `Isolated` | nothing a copy or its original does later is seen by the other |
| `AliasesResolve` | an alias names the anchor that its target, and nothing else, has at the end, and comes later |
| `DocumentMatches` | the document has the operations that the states are made of, with their inputs; an alias is of the very output it stands for, and MOUNT names the output of a root |

Bounds. `Sizes` are the numbers of building calls and of propagator calls. `<<3, 0>>`:
three building calls are enough for an operation on the result of an operation with a
third around it (an alias of an alias's mount, a `Diff` between two instructions).
`<<0, 3>>`: create, run or add, then copy, apply or run again. `<<1, 1>>`: a propagator
of a state that was built, or a state built beside a propagator. Longer mixtures are left to
the proofs, which hold for any `Sizes`: a propagator looks at nothing but the output of
what it mounts. `cur` keeps loading and printing to what was
called last: the others were looked at before. Programs without an image
have no config to load (`MCInit`). Variables are interchangeable, and so are
propagators (symmetry): the model compares them with nothing but each other.

Left out because the code panics or fails there: `Merge`, `Copy` and `Diff` with
Scratch as a source (`state.go:141`, `:170`, `:243` call methods of a nil output), instructions
on Scratch, and printing a `BuildDefinition` of Scratch (`yaml.go:650` visits a nil
input; `BuildsScratch`). `DocumentMatches` is not that a document could be read back. An operation printed in
full as an input does not tell which of its outputs is meant (`yaml.go:340-347`,
`:529-536`, `:618`): a `File` on the root of an exec and a `File` on what it left at a
mountpoint are printed alike if the exec was not printed before. No comment or test says
that documents are more than a display, so this is no finding; `Matches` takes an operation
written in full for any of its outputs. Aliases, and the MOUNT node for the states given to
`ToYAML`, do tell, and there the property is exact.

Mounts are bind mounts. Those without an output (tmpfs, cache, secrets) have no state
that a next `Run` could mount, and `yaml.go` prints them without input (`:439`, `:470-473`).
Options of propagators are values: `Persistent` keeps the caller's variadic slice
(`mounts.go:46`) and `Add` may append to it in place (`:101`), so a program that passes one
slice with spare capacity to two propagators can make them overwrite each other's mounts.
That is a matter of Go slices, not of the calls' order, and is not modelled.

Deadlock is not checked: programs end.

## 8. Proofs

Each `*Proofs` module proves an inductive invariant `Inv` (`Init => Inv`, `Inv`
is preserved by every step, `Inv` implies the property) for all values of the
constants, with one step per action.

**Progress** (`ProgressProofs`, assuming `ProgressAssumption` only, so for every
schedule and also for displays that fail). The inductive invariant is
`Kept == Core /\ (Disturbed \/ Inv)`. `Core` holds whatever happens:

- `Mutex`: who is between lock and unlock holds `mu`;
- `Closing`: what `Close` being called, waiting or returned implies;
- `Children`: `children` is the number of forwarders alive (a cardinality);
- `Logs`: a key was seen iff it was logged once or is in the hand of exactly one
  forwarder.

`Inv` adds what is known until the race on `p.done` or a failed display:

- `Displays`: only the last display is alive, it has captured the current
  generation, and exactly the user that waits sees that generation closed. None
  of the properties about displays is inductive without it, since each depends on which
  display reads which channel;
- `Counts`: `sent = shown + held by the last display + 1 if the forwarder has a
  message in hand`, per channel.

The step that disturbs is `Reset` with the last display still at its `close(p.done)`;
each other step of a state with `Inv` leads to one with `Inv`, and no step takes
`Disturbed` back. From it follow `TypeOK` and `LogOnce` always, `PanicOnlyDisturbed`,
`CloseFlushes` and `PauseExclusive`, and `Implements`: every step is a step of
`ProgressLog` or a stutter, unless it is or follows the one that disturbs.
The properties are as strong as the code allows: without `Disturbed` the
runs `progress_race` and `progress_tty` are counterexamples.

**ResolveCache** (`ResolveCacheProofs`). `Inv` is `TypeOK`, `OneLeader` and
`Values` (a value is written exactly when its channel is closed, and answers are
written values). It gives all safety properties and the refinement.

**ContainerRun** (`ContainerProofs`). `Inv` is `TypeOK`, `Holders` (Pause and lock
are held exactly between their calls), `Pid1`, `Torn` (how far the Teardown has
come and what that implies), `Closing` (the loop's channel is closed at the end of
the context only) and `Terminal` (while no run has left, the terminal
is raw exactly while some run has it, and all found it cooked). It gives
`RawOnlyWhilePaused`, `CleanReturn`, `SignalWindow`, `OneRunning` and `OwnTerminal`.

**SolverSession** (`SolverProofs`, assuming `SolverAssumption`: kinds of items are
disjoint, `Plain` and `Free` are none of them). `Inv` consists of

- `TypeOK`, in which the disjointness of `reg` and `failed` is the part that
  needs induction;
- `Mutex` and `Alone`: whoever is between `Lock` and `Return` holds `mu`, and no
  two are in the same session. Without them somebody else could add to `reg`
  between two phases, and neither `Complete` nor the refinement is inductive;
- `Work`, `Collected`: how far `got` has come in each phase of `NewSession`;
- `Requesting`: what a request being sent says about its session;
- `Standing`: a session that was returned had every channel closed, so none of
  its BuildKit sessions is still dialling: `Release` finds each up or ended;
- `ErrSet`: after a failure `err` stays set, which a `NewSession` called later reads;
- the properties `Complete`, `NoFailed`, `ReleaseCloses` themselves.

It gives all safety properties and the refinement of `SolverRegistry`: `Connect`
is the moment of the snapshot, all other steps register one item or stutter.

**Graphs and configs** (`BuildingLemmas`). What the functions of
`LlbGraph`, `ImageHistory` and `MountPropagation` return, stated once and cited by
name: which vertices an operation's output has, that `ExecOp` keeps each
mount under its name, that each function of the library gives a state of
the right shape, and what one mutator does to a config. They also have the facts
about `Seq`, `ToSet` and the community modules' sequence operators that the
library's theorem modules do not state.

**Mounts** (`MountProofs`, assuming `BuildingAssumption`). `TypeCorrect` comes
first, with the lemmas that use it: since each propagator has the map of its own
name (part of `TypeOK`), a call writes to no other map. `NoLostWrite`,
`SeesWrites` and `Isolated` follow from `MountInv`, which is `TypeOK` and, per propagator,

- `Written`: each of its runs is in its root and, for each mountpoint that the run
  could write to, in what the map has there. It is inductive as a run has the
  root and all current mounts as inputs, so whatever was in them is below it,
  and `Add` mounts nowhere where there is a mount already;
- `OwnOnly`: the runs in its root and its map are in `ran` or in `given`, and so is
  all that its options are made of. The options have to be in it: `Isolated` speaks of
  what is held now, and the next run brings in what it mounts;
- `SeesWrites` itself, about runs that are over.

The attempt to prove `Isolated` in its first form, without `given`, failed for
a good reason: a program may create a propagator, run it, apply its `AsRun` to a
variable and create a second propagator from that variable. The second
holds a run of the first then without being a copy. TLC had not met it, as the
model let only the first propagator be created and all others be copies of it.
Now `Persistent` is called at any time, the property has `given`, and the
run has programs of that form.

**Histories** (`HistoryProofs`, assuming `BuildingAssumption`). A call of
`LoadImageConfig` is one machine step per mutator, so both properties are
invariants of the steps, and none of the proofs is an induction over the chain.

- `HistoryTold`, for any set of pulled images with any configs (`IsPulled` asks that their
  records be of no session and that their ENV and LABEL records have no layers, not that the
  history tell the values). `TellingInv` is `TypeOK` and `ConfigsTell`: for some base, an
  image's config or the empty one, `Tells` and `KeepsTelling` hold of the config
  under way and of the config of every state that can be loaded, a variable or a root.
  The latter is needed as a call starts with such a config, and `Rebuild`
  turns a result into one. `KeepsTelling` says that what the base's history tells is a
  prefix of what the new one tells, without which the difference would mean nothing. That one mutator keeps `Tells` is the core, with one lemma for each
  kind of instruction: a record appended, a last record extended
  (`commitHistoryKV`), a `Diff` that starts over, several labels.
- `BaseIsKept`: `KeepingInv` is `TypeOK` and `CallKeeps` of the call under
  way, which adds to `BaseKept` that the new key=value records are of the session. No
  config in a state has a record of a session, which is part of `TypeOK`. Only so
  can the record that `commitHistoryKV` extends never be the last one of
  the base, and is each new one that could be extended.

**Layers** (`LayerProofs`, assuming `BuildingAssumption`, whose `Images \cap Locals = {}`
it needs: the identifier of a BuildKit source begins with its scheme, so no image is
another source). `LayersAlwaysMatch` follows from `LayersInv`, which is `TypeOK` and

- `Explained` of every variable and of every propagator's root: the layers that the
  state *will* have once loaded (those of its config's history, then one for each
  `Run`, `Copy`, `Merge` and `Diff` in its chain) are layers of its graph. The
  property speaks of the result of a call only, and every call starts from a state;
- in `Explained` also that a state without a config is `Bare`: it comes from a base
  that is no image by plain file operations, and its graph has no layers. `Merge`
  goes on with the first state that *has* a config, so what the skipped ones are made of
  matters, as it does for a state that gets its first config from an empty one;
- `IsBooked`: records of layers have no session and no instruction's name, records of
  instructions no layer's name. Without it `commitHistoryKV` could extend the record
  of a layer, and the JSON of a config, which drops sessions, could change one;
- `CallExplained` of the call under way: its history is that of the state's config with
  the layers of the mutators that have run.

Each operation of the library adds a vertex and, to the chain, the mutator that commits the
layer of that vertex; one lemma for each shows that the two agree, `MergeExplained` and
`RebuiltExplained` (a definition built again has a vertex of its own and no layer) being those
where the history does not simply go on with the first input. `LayersIn` has the
number of calls as its bound, so the lemmas go from `d` to `d + 1`, and what is left alone
stays explained as the bound grows (`ExplainedMore`).

`Told` is a `FlattenSeq`, and so are the layers of a history. The library defines it by a
recursive function over natural numbers and has no theorem on it that can be cited here, so
what it gives for a longer sequence is proved from the definition, by taking the least number
for which it would be wrong (`NatLessThanWellFounded`, `WFMin`); `Ways` is treated alike.

Only model-checked:

- the liveness properties `CloseReturns`, `MessagesShown`, `CancelReturns`,
  `Returns` (of containers and of the solver), `TornDownLate` and `FailedEnds`: liveness
  under fairness is out of the provers' reach;
- `AliasesResolve` and `DocumentMatches`: the model of `visit` and the meaning of a
  document are mutually recursive operators over graphs, which the provers cannot
  expand; what they compute would need an induction over the graph.

## 9. Bounds

| constant | module | why it is enough |
|---|---|---|
| `MaxMsgs` | Progress | messages of a channel are handled one at a time and independently |
| `MaxSyncs` | Progress | 2: one replacement can overlap the next; also bounds the displays (`Starts`) |
| `MaxLookups` | ResolveCache | a leader and two followers, or two keys at once |
| `MaxWinches` | ContainerRun | 2 besides the initial one fill `ch`, `resize` and the loop's hand |
| `Interrupts` | ContainerRun | the runs whose context may end from outside |
| `Keys` | Building | 2: an order, and a value that is replaced by or added to another |
| `Sizes` | Building | see section 7 |

The proofs hold for every value of all of them.

## 10. Not modelled

- Labels and the other options of the hub (text of messages), the `co.Signal` loop
  (a copy of the `co.Resize` loop, and no option of the package sets the field)
  and the assembly of container requests (`mergeExecOp`, `convertMounts`,
  `errContainer`; planned).
- What `Do` does with exports and the result's image config, and the keys of
  `context.go`: values handed on.
- The listener, `sockproxy.Run` and the release of a tcp forward: no execution
  gets there (`solver_tcp`). `sockprovider.go`'s `ForwardAgent` copies streams
  inside BuildKit's gRPC server.
- The releasers of helpers in `Release` (`session.go:51-58`), since no helper returns.
- Mounts without outputs, and slices of options shared through the caller (section 7).
- Errors of `yaml.go` on definitions that no function of the package makes
  (`yaml.go:613-640`, `:682-692`).
- Mount options other than mounts: `mountPropagatorRunOption` hands them on or, as
  with arguments and environment (`mounts.go:138-176`), does not.
- Attributes and comments of YAML nodes, and the paths of `Copy`.
- Request builders, frontends and the client's address lookup: they keep no state
  between calls.
