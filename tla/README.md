# LlmOnLan in TLA+

LlmOnLan shares one machine's language models with the people on its LAN. A **farm**
(`farm/`, Node.js, the command `lol up`) runs the model engines behind LiteLLM and gates them;
the **Farm app** (`farm-app/`, Electron) supervises it; the **client** (`shell/`, Electron)
finds a farm and holds the chat window (`shell/renderer/chat/`), which keeps its chats in
IndexedDB, and the *Computer*, a graph editor that runs pipelines of model calls.

Everything is JavaScript: each process is one thread, and what can interleave are the
continuations after an `await`, timers, socket events, child processes' exits, and crashes.
That is the grain of these modules: **an action is the code from one await (or one event, or one
durable write) to the next.** Where several awaits in a row touch nothing anybody else sees,
they are one action.

## 1. Files

| Module | Role |
| --- | --- |
| `SeatPool` | abstract: a bounded pool of seats |
| `SeatGate` | the farm's seat gate, `farm/src/seats.js`; implements `SeatPool` |
| `FarmDoors_proofs` | six theorems about it, and four about the message bus (`FarmBus`) |
| `ChatSlot` | who may talk to the farm from one chat window: governor, controller, seat wait |
| `ChatSlot_proofs` | four theorems about it |
| `KeptChats` | abstract: what the chat store promises |
| `ChatStore` | the chat store over memory, journal and IndexedDB; implements `KeptChats` |
| `ChatStore_proofs` | four theorems about it, that one among them |
| `StorageMove` | "Move here": the model files go to another folder while the farm serves |
| `StorageMove_proofs` | five theorems about it |
| `FarmSupervisor` | the Farm app's Start, Stop, restarts and Quit over `lol up`, `lol down`, vLLM |
| `FarmSupervisor_proofs` | four theorems about it |
| `GraphRunner` | the Computer's run engine with its parks, presses and documents |
| `GraphRunner_proofs` | five theorems about it |
| `FarmRun` | a running `lol up`: the chain of tasks, LiteLLM, llama-server, `lol down` from outside |
| `FarmRun_proofs` | three theorems about it |
| `FarmPassword` | what the next three share: the farm password |
| `FarmService` | one optional service of the farm as a child process: start, stop, probe, crash |
| `Bus` | the message bus: MQTT, WebSocket and OSC clients, the password at each door |
| `FarmBus` | the two composed: the bus inside the process the service's life starts and ends |
| `SidecarSwap` | the client's chat engine on disk: download, staged update, swap at launch |
| `ClientEngine` | the client's shell around its chat engine: the process, over `SidecarSwap` |
| `ClientEngine_proofs` | eight theorems about the two |
| `MC*` | constants and symmetry sets for TLC, one per component |

A definition named `X_Something` above a definition `X`, with a comment that begins "Mutant:",
is a plausible bug in the code `X` models. No specification uses it; putting it in place of `X`
makes TLC find the property it was written for violated. `PROJECT.json` lists which goes with
which, the source lines of every definition, the hazards, the runs and the theorems.

To check: `tlc -config SeatGate_safety.cfg MCSeatGate`, likewise for the others;
`tlapm FarmDoors_proofs.tla`, likewise for the other `*_proofs`, for the proofs.

## 2. Inventory

For each part: its state, what happens to it, what is hard about it, what makes it correct.
**Bold** parts are modelled.

### The farm (`farm/src`)

* **Seat gate** (`seats.js`). State: a Map caller → {in flight, last seen}; live settings (slots,
  idle window, password, "switching engines"); statistics. Operations: admit, release, prune,
  view; per HTTP request the handlers of two sockets. Called by readers' requests, read by the
  beacon. Hard: `error`, `close`, `end` of two sockets in any order, settings changed under open
  streams, an upstream that dies. Correct: the count on a seat is the number of its open
  generations; nobody loses a seat mid-answer; nobody is seated above the slots.
* **Model storage** (`storage.js`, `makeStorage` in `commands/up.js`). State: two folders, the
  config's `storage.dir`, a journal on disk, one job. Operations: copy, switch (stop services,
  copy what changed, check, save config, save journal, start services), Finish, Forget. Hard:
  crashes between writes, downloads and deletions during the copy, services stopped and a failure.
  Correct: the folder in use holds what its users put there, and what was stopped runs again.
* **Jobs, the chain and proxy restarts** (`makeJobs`, `serialize`, `restartProxy`, `applyModels`,
  `setBackend`, `onEngineDown`, `shutdown` in `up.js`). State: one promise chain, one job slot, the
  LiteLLM and llama-server children, the runtime file. Hard: a change, its undo, a crash, a signal
  and `lol down` all around the same children. Correct: one proxy at a time, routed as the config
  says; every change ends; a `lol down` is heard.
* vLLM's life cycle (`vllm.js` and its watch in `up.js`). State: phase, container or process with
  the farm's marker. Hard: three missed answers, restarts, fallback to Ollama, a farm that died in
  a switch. Correct: one engine owns the GPU; every early return leaves a phase the watch acts on.
* **`lol down` and the runtime file** (`commands/down.js`): one step of `FarmSupervisor`, a process of
  its own in `FarmRun`.
* **Optional services** (`plugins/registry.js`, `setPlugin` and the health tick in `up.js`;
  `pysvc/`, `searxng.js`, `kokoro.js`, ... are the programs). State: child, `up`, `wasUp`, what the
  farm advertises. Operations: start with its wait, stop, switch, probe, exit. Hard: a stop or a
  crash in the wait for readiness, a probe that crosses both, a farm that leaves. Correct: no
  process outlives the farm's knowledge of it; what is offered is corrected.
* **Message bus** (`bus.js`). State: connections and their ids, a registry, listeners, subscribers,
  the password. Operations: connect, takeover, close, upgrade, listen, a changed password. Hard: a
  late 'close' of the connection that was taken over, sessions let in under an older password.
  Correct: the registry is of who is there; only the current password receives.
* Engines and routing, discovery beacon and panel server, configuration and presets, capacity
  estimator, command line: mostly read-outs, validation, arithmetic and process calls.

### The Farm app (`farm-app/src/main`)

* **Supervisor** (`farmSupervisor.ts`, with `index.ts`, `farmProcess.ts`, `util.ts`). State:
  child, generation counter, crash count, status, `stopping`, `ranSinceStop`. Operations: start,
  stop, share toggle, Quit, restart after a crash, two health waits. Hard: awaits of several of
  them interleaved; vLLM outlives `lol up`. Correct: no `lol up` without an owner; Stopped means
  stopped; nothing boots under a stop; what was stopped stays stopped.
* Installer, runtime, updater: sequential downloads and copies.

### The client (`shell/src/main`)

* **Chat engine updates** (`sidecarManager.ts`). State: five places on disk. Operations: first
  download, staging, the swap at the next launch. Hard: cut between two renames or in a removal,
  files another process holds. Correct: an app that had an engine has a whole one at every launch.
* **Chat engine process** (`sidecar.ts`, with `index.ts`). State: child, generation counter, crash
  count, status, and three copies of what the farm gives (the shell's, the supervisor's, the
  process's environment). Operations: boot, farm chosen, Retry, new data folder, crash restart, quit.
  Hard: each awaits kills, ports and probes while the others go on. Correct: one engine at most, none
  where its files or its data move, and the one that runs is the one the shell shows.
* Discovery and choice of a farm (`discovery.ts`, `farmSelect.ts`): one record per farm seen under
  several names, ageing, a sticky choice.
* Configuration, data, projects, tools: files and IPC.

### The chat window (`shell/renderer/chat`)

* **Slot** (`net/governor.mjs`, `app/controller.mjs`, `app/seat-wait.mjs`). State: the foreground
  slot (idle, streaming, held by a name), `active`, `inflight`, the one seat wait, the reply's
  status shared by several coroutines. Operations: send, Continue, the 429 handler, resend by
  snapshot and by button, Stop, Cancel, give up, deletion. Correct: one generation owns the slot; a
  hold has its wait; a turn is sent once; every hold, stream and deletion ends.
* **Store** (`state/repo.mjs`, its backends; `main.mjs` and `ui/sidebar.mjs` as callers). State: mode, three
  backends, journal, promise chain, pending checkpoints. Hard: the database opens late or never,
  deletions against checkpoints, crash recovery, temporary chats. Correct: nothing shown is lost by
  the late attach, nothing is written behind a deletion, a settled reply stays settled.
* Asks (`app/ask.mjs`), the network run and its parsers, message trees and the v1 import, views.

### The Computer (`shell/renderer/chat/graph`, `computer`, ...)

* **Graph runner** (`runner.mjs`, `topo.mjs`, `parts/control-bus.mjs`, `parts/button.mjs`,
  `computer/host.mjs`). State: the state and value of each box, the active set, parked activations,
  presses, cap and ceilings. Operations: Run all, a press, turns, answers, Stop, edits, another
  document. Hard: a person acts at every await of the run. Correct: no question nobody awaits, no
  spinner without a run, no `done` that is not current, no lost press, every run ends.
* Editor, boxes, sandbox: drawing and messages.

How they meet: the chat slot's generation is a request to the seat gate, whose 429 is the seat
wait's cause and whose beacon's free seats are the snapshots it waits for; the slot writes its
replies through the store; the storage's switch and the supervisor stop and start the same farm;
the bus runs inside the service the farm starts, and gets its password from it (`FarmBus` composes
these two). The other two sides of each meeting are modelled apart: the other side is an environment that may answer
anything the real one may.

## 3. What is modelled, and how it corresponds to the code

### SeatGate (implements SeatPool)

`held`, `inFlight`, `age` are the Map `seats`; `slots`, `window`, `locked`, `down` are the thunks
the gate asks; `req[r]` is one request with the state of its two sockets (`up`, `res`), the
`released` flag of the `releaseOnce` closure and `upFailed`. `Admit`, `RefuseFull`, `PassThrough`
are the request handler's outcomes; `UpAnswers`, `UpEnds`, `UpError`, `UpCut` the model server's
events; `ResClose`, `ClientLeaves`, `ResFinishes` the response's; `View` the beacon's read, which
prunes; `Configure` the panel's changes. Time is an age per seat that saturates one tick after the
longest window.

`PoolSpec` (refinement with `seated <- held`, `busy <-` callers with an open generation,
`capacity <- Cap`) says that all of this is a pool of seats; `SeatAccounting`,
`GeneratingKeepsSeat`, `NewSeatOnlyBelowCap` and `NumbersAreTrue` (the Retry-After a refused reader
gets, the peak and the stopped count) say more than the pool does.

### ChatSlot

`gov` is the governor; `call[k]` a `generate()` coroutine by the await it is at (`thread`, `path`,
`stream`, `painting`, `observe`, `final`, `refresh`, `failed`, `note`); `wait` the seat wait with
the resend calls that refer to it; `snap` the snapshot handler between its awaits; `notes` the
continuations of `stopWaiting`; `deletion` the sidebar's delete. A store call takes effect when
it is made and its answer is read when the coroutine resumes, so stale answers are in the model.
What the farm answers is free. `TailOverlap` says whether a call may take the slot between the
awaits that end another one: the code does let it, and section 6 says what comes of it; the
properties are checked with FALSE.

### ChatStore (implements KeptChats)

`chain` is the promise chain as a queue of calls, `Run` the call whose turn came; `mem`, `eph`,
`idb` the backends; `journal` the replay journal; `open` and `attached` the database;
`ephemeralIds` and `pending` as in the code; `recovery` is `settle()` of `main.mjs` about to call
`recoverInterrupted()`; `gen` is `generate()` (one at a time), `deletion` the sidebar's delete.
What the code reads in the queued function (`loadThread`, `isEph` in `putMessage`) is read in `Run`;
what it reads at the call (`isEph` in `createThread` and `appendMessage`, the snapshot) is in the
record on the chain. `CloseWindow` forgets everything but `idb`.

`KeptSpec` maps what the window shows and `idb` to `KeptChats`: from the attach on what is shown is kept,
the attach itself loses nothing shown and nothing kept, a temporary chat is never kept.

`DeleteUnseen` says whether a thread is deleted while `generate()` works on its reply without
streaming (it builds the request, or awaits its observers after the stream). `abortThread()` does
not see it then, and the reply's row is written behind the cascade. The passing run has FALSE; see
section 6 for what TRUE shows.

### StorageMove

`old[f]`, `new[f]` are the files of the two folders, `newer[f]` the comparison of modification
times that `copyStore` makes, `config` the saved `storage.dir`, `journal` the file beside the
config, `job` the running move or Finish by the write it is about to make; `want[f]` is history:
what the users last put there. `CopyKept/Adopted/Read/Placed/Recorded/Damaged/Blocked` are
`copyStore` and `copyFile` for a file, `Switch` ... `Restart` the switch, `FinishStore`,
`Deleted`, `DeleteBusy`, `OldKept`, `StoreFinished` the deletion of old copies. `Download`,
`ModelDeleted`, `PersonClears` and `Crash` are the world. `CutBetweenSaves` and
`ReplacedWhileCopied` turn on the two things under which the folder is *not* always whole.

### FarmSupervisor

`op[o]` is a coroutine of the app (start, stop, toggle, quit, restart after a crash) by the await
it is at; `current` is `gen === myGen`; `stopping`, `waiters` and `woken` are the promise of the
stop under way, who awaits it, and the order in which they go on when it settles. `up[p]` is a
`lol up` process, `file` the runtime file, `proxy`, `engine` LiteLLM and vLLM. `LateEngine` says
whether a `lol up` being killed may still start vLLM in that moment.

### GraphRunner

`pc` is where the run's one coroutine stands; every value but `turn` and `instant` is an await,
where a person, an answer or the clock may come between. `state[q]` is what a box shows, `has` the
boxes with a value, `current` those whose value was made from what their inputs are now (values
themselves are not modelled). `A`, `requeue`, `blocked`, `executed`, `iters`, `spent` are the run's
locals, `parked` its `waiting` map, `parks` the registry of `control-bus.mjs`, `pressed` the one of
`button.mjs`, `doc` the host's open document. `RunAll`, `Play`, `Press`, `Stop`, `Answer`, `Edit`,
`OpenOther`, `BackAgain` are the person; `LoopTop` picks the next ready box, `Activate` starts it,
`Returns`, `Throws`, `CapReached` bring it back, `Suspend` and `Resume` park it, `RunEnds` is
`finish()`. `owed`, `excused` and `ahead` are history: the presses no activation has followed yet, and
the boxes that were activated while an input of theirs was still to answer.

### FarmRun

The farm's event loop: `op` is the task at the head of `serialize`'s chain with the await it is at,
`queue` those behind it. At `begin`, `bounce` and `back` a task has the thread and no handler runs
(`Awaiting`). A task is a way through three calls: `stopLlamacpp()` (`unload`), `startLlamacpp()`
(`prep`, `load`, `unloadfailed`), `restartProxy()` (`bounce`, `kill`, `boot`, `killnew`, `back`).
`proxy[p]`, `engineProc[e]` are the processes by pid, `child` and `llama` those of now, `yaml` what
LiteLLM's config file says and `routes` what the current one read of it, `exit` the shutdown
between its awaits, `file` the runtime file, `down` the `lol down` of another shell.

### FarmService, Bus, FarmBus

`FarmService` cuts `start()`, `stop()` and the health tick of `plugins/registry.js` and `up.js` at
their awaits: `task` is the start or stop under way, `tick` the probe, `exits` exit events not yet
handled, `advertised` what clients are told, `ipc` the password on its way to the child. `Bus` has
one action per event of `bus.js`: a destroyed socket keeps its entries until its `close`, so a late
`close` can meet a new registration under the same id. `FarmBus` runs the bus in the process the
service starts: `Spawn` hands over the password of the moment, the end of the process ends every
session (`EndStep`), `TakeKey` is the child's message handler. `FarmPassword` declares the constants
both modules share.

### SidecarSwap

`disk[p]` is what is at each of five places (nothing, a part, a version), one action one file
operation; `Held` are the trees another process may hold a file of (renaming one fails), `HalfDone`
those whose removal may stop in the middle. `Cut` is the end of the app, anywhere. `clean` is
history: nothing from outside has failed an operation of this launch.

### ClientEngine (over SidecarSwap)

`shown` is the shell's `currentEndpoint` and the like, `conf` the supervisor's, `env[p]` what a process
was launched with; `Env` maps a context to the launch environment, for `repoint()` keeps the engine
when two contexts make the same. A superseded `start()` (its `gen` is old) returns at its next await,
so `start` is the one that is not, by the await it is at; `stops` are the stops whose kill is awaited,
with what comes after: `After` is the code behind each `await stop()`. `Connect` is `connectTo()` with
`repoint()`, `ChildExit` `onChildExit()`. An exit cuts the download under way (`Cut`), a launch swaps the
files before anything runs. `overtook` counts the calls that reach the engine while a stop awaits its kill
or the app is leaving: `MaxOvertakes` bounds them in a launch.

## 4. Runs

| Run | Instance | Distinct states | Shows |
| --- | --- | --- | --- |
| `seatgate_safety` | 3 callers, 2 requests, slots 0 or 2, windows 1 or 2, symmetry | 384 k | accounting, no reaping, honest numbers, refinement of the pool |
| `seatgate_live` | 2 callers, 1 request, 1 slot | 2.7 k | a generation gives its seat back and a quiet seat is reclaimed (`SeatsComeBack`) |
| `chatslot_safety` | 2 chats, 2 coroutines, 2 attempts, symmetry | 0.6 M | slot ownership, hold and wait agree, one resend |
| `chatslot_live` | 1 chat with Continue, 2 coroutines | 252 k | holds, streams, deletions end; no late write into a deleted thread |
| `chatstore_all` | 2 threads, 2 sessions, chain 2, journal 3 | 1.7 M | journal, orphans, recovery, refinement |
| `storage_whole` | 2 stores, 2 files, 3 versions of 2 sizes | 89 k | the folder in use is whole, no last copy deleted, services come back |
| `storage_cutany` | the same with crashes and failing saves anywhere | 92 k | nothing clobbered, old folder kept, every job ends |
| `supervisor_all` | 2 coroutines, 3 processes, 1 restart | 189 k | no stray farm, the engine accounted for, stops hold, everything settles |
| `runner_all` | a Confirm, a draft, a Button on a loop; 2 starts, 1 press, 1 edit, cap 1, 2 iterations | 1.1 M | quiet when idle, no ghost question, `done` is current, presses kept, runs end |
| `farmrun_all` | 2 pids for LiteLLM, 2 for llama-server, 1 press, 2 deaths | 363 k | one proxy, routed as the config says; `lol down` heard; every change ends |
| `bus_all` | 2 MQTT sockets of one id, 1 WebSocket, 1 OSC address, 2 processes, open or one key | 214 k | true registry, current password only, no orphan, the offer corrected |
| `client_all` | 3 versions, every tree held but `old`, every removal cut but `pending`'s; a farm seen in 2 contexts, and none; 2 processes, 1 restart, 1 overtake, symmetry | 2.3 M | one engine, as shown; never part of one, never none; a clean launch updates |

A conjunction of related promises is one property (`NumbersAreTrue`, `SeatsComeBack`, `WaitHonest`, `NothingHangs`,
`RepliesTrue`, `EngineAccounted`, `StopHolds`): its parts are named definitions above it, each with
its own comment. The type invariants of `ChatSlot`, `ChatStore` and `GraphRunner` are conjuncts of
`WaitHonest`, `RepliesTrue` and `QuietWhenIdle`; each module's is a theorem.

### Bounds

* **SeatGate.** Three callers and two slots give a seat taken, a seat idle and a caller refused at
  once; two requests let one caller have two generations on a seat, or two callers race for the
  last one. Windows of one and two ticks make a shortened window bite in mid-stream. Slot count 0
  is "unknown". For liveness symmetry is not sound and is left out, and one request is enough: the
  property is about one.
* **ChatSlot.** Two coroutines are what the governor should keep apart; a third could only wait as
  the second does. Two chats are needed for a wait in one while the other sends. `MaxAttempts = 2`
  instead of 5 reaches the last attempt. Continue has a run of its own, with one chat.
* **ChatStore.** `MaxChain`, `MaxJournal` bound only what the reader and the stream call, never the
  store's own calls; with a chain of 3 (6.2 M states) the same properties hold. Two sessions are
  one crash and one recovery. One reply per thread: the properties are about a row and its thread.
* **StorageMove.** Two files in two stores reach "one store done, the other not"; two versions of
  one size and one of another reach each branch of the comparisons; one file is pinned by its
  sha256, and in `storage_cutany` one is small enough to be compared byte by byte.
* **FarmSupervisor.** Two coroutines at once, each with the process it is killing, and the child: three
  processes. One crash restart instead of three reaches both ends of the counter. Stops, toggles and
  Quit may all be asked for while a stop is under way (`Queueing`).

* **GraphRunner.** The document has one box of each kind that matters: one that parks, one that asks the
  farm after it, one that only a press activates, and a back edge from the last to the first, so that a
  run can go round, be capped (one generation), reach the iteration ceiling (two) and be pressed,
  answered, edited, stopped or left at each await. The one that asks can run ahead of the one that parks.
  `Gating` boxes are in the module, none in the instance; the theorems are about any document.
* **FarmRun.** One press reaches each task's whole way and its undo; the other pid is the successor;
  two deaths are a llama-server that dies again after its recovery, or a LiteLLM that dies under a
  change. Pids and sets of models are alike, so the farm starts with the first of each.
* **FarmBus.** Connections are two at a time and through one door at a time (`MaxAtOnce`, `Room`):
  doors meet only in a changed password and in the end of the process, which treat each by itself.
  Two processes are an old one that is dying and its successor. The switch is left alone until the
  boot has started the service; one password message is on its way at a time, the later one replaces it.
* **ClientEngine.** Three versions are one installed, one staged, one newer. Two contexts with one
  environment and none reach both ways of `repoint()`; two processes are one being killed and its
  successor; one restart instead of five reaches both ends of the counter. With two versions a second
  farm fits (1.3 M states), with the same result. The theorems have no bound.

Deadlock checking is off where the system may really stop: a reader who asks for nothing more, an
app that has quit, a move whose journal could not be written.

### Fairness

* `SeatGate!Fairness`: an upstream socket comes to some event, a socket that was ended or destroyed
  closes (Node guarantees both), the clock runs, the beacon reads the seats (it does every few
  seconds). Nothing of readers or operators.
* `ChatSlot!Fairness`: awaits resume, streams end (the network layer has timeouts), farm snapshots
  keep coming, the clock runs. Nothing of the reader, so that holds end by themselves.
* `StorageMove!FairSpec`: a job that runs goes on. Nobody has to press Finish.
* `FarmSupervisor!FairSpec`: timers fire, killed processes die, awaits settle, exit events arrive. A
  `lol up` may boot, hang or die as it likes.
* `GraphRunner!LiveSpec`: the run's awaits resume, an ask comes back (it has a timeout), the wall
  clock runs (`maxWallMs`). Nothing of the person: a run ends though nobody answers.
* `FarmRun!Fairness`: the loop serves what is due (the waits have timeouts: 90 s for LiteLLM, 300 s
  for llama-server), killed processes end, `lol down` goes on.
* `FarmBus!FairFarmBusSpec`: a start or stop goes on, ticks come, exits and messages are handled, a farm that
  stops ends, the bus of a farm that is gone sees its disconnect.
* `ClientEngine` and `ChatStore` have none: a person who moves the data folder again and again keeps an
  engine from coming up. The store's `NoGhostReply` says that a recovery is *due* whenever a reply shown as
  streaming is not, which the chain carries out.

## 5. Proofs

For every number of callers, requests, files, stores, versions and settings, from the named
`ASSUME`s of the modules only (finite sets, a non-empty set of settings, distinct model values):

| Theorem | Statement | Argument |
| --- | --- | --- |
| `FarmDoors_proofs!TypeCorrect` | `Spec => []TypeOK` | one step per action |
| `!Accounting` | `Spec => []SeatAccounting` | inductive with `Unseated` (who has no seat counts nothing, what a fresh Map entry starts from) and `Settled` (a closed response has been released, or collecting its closures would lose a count) |
| `!NeverReaped` | `Spec => []GeneratingKeepsSeat` | a corollary: a positive count is never pruned |
| `!NewSeats` | `Spec => NewSeatOnlyBelowCap` | only `Admit` adds to `held` |
| `!HonestNumbers` | `Spec => []NumbersAreTrue` | the number told to a refused reader is computed from the oldest idle seat (one exists in a finite registry), which is the first `prune()` takes; `StopInv`: a destroyed upstream is marked as failed, so that its late 'error' is not counted as a reader's Stop |
| `!Implements` | `Spec => PoolSpec` | each action maps to Seat, Finish, Reclaim, Resize or a stutter; the accounting invariant tells when a release is a caller's last |
| `ChatSlot_proofs!TypeCorrect` | `Spec => []TypeOK` | with `CallPart`, `NamesPart`: a coroutine under way has its reply, a deletion its thread |
| `!StaysDeleted` | `Spec => StreamStaysDeleted` | `dead` is asked again at each write of the coroutine itself |
| `!SlotIsOwned` | `NoOverlap` ⊢ `Spec => []SlotOwned` | `SlotPart`: one coroutine at most between its acquire() and its finally |
| `!WaitIsHonest` | `NoOverlap` ⊢ `Spec => []WaitHonest` | `EndPart`, `HoldPart`, `RowPart`, `RefPart`, below |
| `StorageMove_proofs!TypeCorrect` | `Spec => []TypeOK` | with `Running`: a job that runs has its journal |
| `!Whole` | `CutBetweenSaves = {}`, `ReplacedWhileCopied = FALSE` ⊢ `Spec => []FolderIsWhole` | the invariant `Inv` of `StorageMove` |
| `!Clobbers` | `Spec => NeverClobbers` | with any cut and any replacement |
| `!Keeps` | `Spec => OldFolderKept` | the same |
| `!CopiesFirst` | `Spec => NoCopyNoDelete` | needs the types only: who removes a copy has just compared it with the other |

The seat wait's promises lean on each other. A hold never outlives its wait because a wait ends in
few ways only (`WaitGone`), each of which releases the hold: its row settled, or its thread is deleted,
which `RefPart` knows of whoever asked the store for the row and was told it is not there. A waiting
row keeps the slot in its name because a stream that ends and frees it is of a row that does not wait
(`EndPart`), and because nobody else acquires a slot held for it. `RowPart` (a reply that was begun has
its row for as long as its thread) closes the circle. `NoOverlap` is `TailOverlap = FALSE`; both theorems
are false without it, as section 6 shows. The types and `StaysDeleted` do not need it. TLC found every
part to hold in both of its instances.

`Inv` of the move is needed because the switch is only right for what happened long before it: `Phases` ties
the job to the config and the journal, `JournalRight` says that a copy in the journal equals its
original *unless the original is newer*, `InHand` covers the file between its rename and its
journal entry, and `Recopied` says that during the switch each file is still to be done or equal
in both folders. `FolderIsWhole` after the switch is `Recopied` with nothing left to do. `Inv` holds in
TLC's instance as well (add it to `StorageMove_whole.cfg`). The two assumptions of `Whole` cannot go: a non-empty
`CutBetweenSaves` gives a counterexample to the first, and `StorageMove_whole.cfg` with `ReplacedWhileCopied = TRUE` gives one
to the second in eight steps.

| Theorem | Statement | Argument |
| --- | --- | --- |
| `FarmSupervisor_proofs!TypeCorrect` | `Spec => []TypeOK` | one lemma per group of actions |
| `!NothingStrays` | `Spec => []NoStray` | with `Owned`: a coroutine names a process only while it is about to kill it, and one at most replaces the child, when there is none for its spawn to write over |
| `!EngineKnown` | `StopsDoNotPileUp`, `~LateEngine` ⊢ `Spec => []EngineAccounted` | `StopInv`: one stop at a time, who waits for it waits in its queue, past its `lol down` neither an engine nor a late answer of the old farm is left, and `ranSinceStop` is up whenever a child or an engine is |
| `!StopsHold` | the same ⊢ `Spec => StopHolds` | the same: while a stop is under way, and after it, nobody is current and no answer is being read that could set the status or boot |
| `FarmRun_proofs!TypeCorrect` | `Spec => []TypeOK` | with `Fits`: what a task holds fits its kind and its await, or an undo would restore nonsense |
| `!OnlyOneProxy` | `Spec => []OneProxy` | with `OneLite`: a farm on its way out has no LiteLLM that serves |
| `!RoutesAreTrue` | `Spec => []RoutesWhatItSays` | `RoutePart`: a bounce writes the config it finds and starts LiteLLM from what it wrote, and a task changes nothing between its last bounce and its end |
| `FarmDoors_proofs!BusTypeCorrect` | `FarmBusSpec => []FarmBusTypeOK` | the service's and the bus's types, step by step |
| `!RegistryStaysTrue` | `FarmBusSpec => []RegistryTrue` | `Registered`: an id names the connection that took it, and a connection before its CONNECT has none |
| `!PasswordEndsSessions` | `FarmBusSpec => []OnlyThePassword` | `LetIn`: an OSC address is a subscriber exactly while it listens, so a changed password finds it |
| `!NothingOrphaned` | `FarmBusSpec => []NoOrphan` | `SvcInv`: a start begins with nothing alive, and what it waits for is the child or was forgotten by a crash |
| `ClientEngine_proofs!TypeCorrect` | `Spec => []TypeOK` | the swap's |
| `!NeverWithoutEngine` | `Spec => []EngineAlways` | `EngineKept`, `StepFacts`, `JobFacts`: where the engine is at each step of the swap and of a download |
| `!UpdateLands` | `Spec => []CleanLaunchApplies` | the same |
| `!SwapImplemented` | `ClientSpec => Spec` | each step of the shell is one of the swap's or leaves the files alone, which hands down the swap's theorems (`!EngineStays`) |
| `!EngineTypeCorrect` | `ClientSpec => []EngineTypeOK` | one lemma per group of actions |
| `!NeverTwoEngines` | `ClientSpec => []OneEngine` | `Only`: what is at an await before its spawn has no child; `Idle`: before the first engine and outside use nothing runs; `Quiet`: where nothing overtook, one stop at a time |
| `!RunsWhatItSays` | `ClientSpec => []RunsAsShown` | the same: the two copies agree, or the one stop under way carries the newer |
| `GraphRunner_proofs!TypeCorrect` | `Spec => []TypeOK` | one lemma per group of actions |
| `!NoGhosts` | `Spec => []NoGhostPark` | `ParkPart`: what is parked is of the active set, and not queued; what a barrier takes loses its question with its place |
| `!QuietAfterRuns` | `Spec => []QuietWhenIdle` | `BusyPart`: a box reads busy only when it is in the active set, awaited or parked, so that `finish()` finds it; `DocPart`: who leaves the document has stopped the run, which starts no box after that |
| `!PressesKept` | `Spec => []PressKept` | `OwedPart`: an owed box is queued, or under way and asked for again; and when no queued box may start none is queued, for the one of lowest rank could |
| `!DoneIsTrue` | `Spec => []DoneIsCurrent` | `ValuePart` and `CurrentPart`, below |
| `ChatStore_proofs!TypeCorrect` | `Spec => []TypeOK` | one step per action |
| `!JournalIsTrue` | `Spec => []JournalIsMemory` | what a write appends to the journal it does to memory, and some writes after others are the two together (`AppliedConcat`) |
| `!RepliesAreTrue` | `~DeleteUnseen` ⊢ `Spec => []RepliesTrue` | the invariant `Inv`, below |
| `!KeepsItsPromise` | `~DeleteUnseen` ⊢ `Spec => KeptSpec` | the attach is `Keep`, a temporary chat `Temporary`, the end of a session `Close`, and everything else a `Write` |

The swap's theorems assume `Undisturbed`: nobody holds a file of `live.old` in the instant between
the renames, and the removal of a staged engine before its rename is whole. Section 6 says what
happens without the second.

The two of the supervisor assume that stops do not pile up (`StopsDoNotPileUp`: none is asked for while
one is under way, or there are two coroutines, as in TLC's instance) and that a `lol up` that is being killed
starts no vLLM (`~LateEngine`). start() and stop() wait once and go on without looking again; a third call
does boot a farm under a stop, and `LateEngine = TRUE` does lose an engine (section 6).

The graph runner's are about every document, with any wires and any loops, and need nothing of `Walk`. That a box
which reads done is current is not inductive: what matters is that nothing before it is still to change.
`CurrentPart` says both, of the boxes that read done and of those that will, because their activation is under
way, unedited and not asked for again. A step can break it by queueing a box and not what hangs off it. A press
queues all that its box reaches (`Reach`), but for the ancestors it pulls in, which have no value yet; then
neither has what reads them (`ValuePart`). A loop queues its walk, and a box off the walk is `OffLoop`; a box on it
that is neither queued nor parked is out of the active set, and reads done no longer. What remains are the two ways
a box gets ahead of its input, which `ahead` records and `DoneIsCurrent` names. The attempt at this proof is what
found the first of them (section 6). TLC found the parts to hold in its instance and in five other documents of two
and three boxes, with Timers, Conditions and a loop that leaves a box out.

The chat store's two invariants say little of the calls that wait on the chain, and it is there that a reply
and a deletion meet. `Writing`: the writes on the chain are of the reply afoot, with its finalize the last of
them. `Living`: that reply has its thread, which nobody has a deletion on the chain for, unless the deletion still
waits for the reply; a `generate()` that has asked for its thread has every such deletion ahead of it. `Creating`:
nothing else happens to a thread whose creation waits. `Dying`: of a deleted thread nothing is left. So a turn
writes only to a thread that is there, and takes away only what nobody writes any more (`NoOrphan`). `NoGhostReply` needs
`Settled`: a reply is let go of only when its last write has had its turn. The promise needs `Apart`: a temporary chat is in
its own memory only, and while the database is not attached it knows nothing of the threads this session
has touched (`Touched`). The late replay therefore makes of a thread either what memory holds or what the database
held (`Replayed`), which is `Keep`. The types and the journal need none of this. `~DeleteUnseen` cannot go from the other
two: section 6 shows how both fail without it. What `bulk()` makes of a list of writes is stated as the last write
to each row (`Row`), not by recursion, so that it can be reasoned about without induction. TLC found every
part of `Inv` to hold in its instance.

Only model-checked: all liveness, for the prover does not handle `ENABLED`, which fairness needs.

## 6. Seen while modelling

What the code does that its own words, or a reader, would not expect. Each is in its model, or
excluded by a named constant that turns it on.

The chat window:

* After a 429 the slot goes to "held" while `generate()` still has awaits to go. A send, or Try now,
  in that time streams under the same holder name, and the old call's release closure
  (`governor.mjs:142`) compares names, not acquisitions: the slot is then idle with a generation
  running that Stop cannot reach. `TailOverlap = TRUE` shows it as a violation of `SlotOwned`.
* A thread deleted between `acquire()` and `startGeneration()` (`controller.mjs:616`) gets its answer
  generated to the end, a seat held for nobody.
* `ChatStore` with `DeleteUnseen = TRUE` violates `NoOrphan` (create, send, delete while the request
  is built, append, cascade, append runs): the row outlives its thread, although
  `controller.mjs:79-82` says that finalize is a no-op "even when the delete lands in the last
  microtasks". For a temporary chat the row goes to IndexedDB (`isEph()` is asked when the write
  runs, after the cascade cleared it), against `repo.mjs:24-25`.
* A cancelled resend still writes its answer into the row the cancel marked.

The farm:

* A model server that closes its socket mid-answer without a reset reaches no handler of the gate
  (`UpCut`): the seat stays taken until the reader leaves, who is then counted as having stopped.
* A crash between the config's save and the journal's (`up.js:4847`) leaves a farm that runs from the
  new folder and a journal that does not know; Move here then copies older files over newer ones.
  `CutBetweenSaves` turns it on and `FolderIsWhole` fails. A journal that cannot be saved there
  leaves the services stopped.
* A model deleted after it was copied is back after the switch.
* A recovery of llama-server never asks which engine serves (`up.js:1241`): one that is queued behind a
  switch to Ollama starts a llama-server beside it, two engines on one GPU. The switch's `from` is
  read when the button is pressed (`up.js:2855`) and may be stale when its turn comes.
* `onProxyExit()` does not kill llama-server, nor does a recovery write the runtime file: `lol down`
  misses the llama-server that a recovery started. `startLlamacpp()` does not look at `stopping`.
* A farm whose rollback failed has no LiteLLM, and hears a `lol down` only with its next bounce, for
  it is LiteLLM's exit and the bounce's end that look at the file. `DownIsHeeded` therefore asks for
  a LiteLLM, or for a bounce under way.
* The boot brings late services up outside the chain that `setPlugin()` goes through; `FarmService`
  leaves the switch alone until the boot has started the service.

The Farm app and the client:

* `FarmSupervisor` with three coroutines violates `NeverBootsUnderAStop`: `start()` and `stop()` wait
  for a stop once and do not look again. A Start that is still reaping when Quit's stop runs boots a
  farm just before the app exits (`farmSupervisor.ts:76`).
* `LateEngine = TRUE` violates `EngineIsRemembered`: a `lol up` may start vLLM after `lol down` looked.
* A second download of an update removes the staged engine before its rename, "replacing it
  atomically" notwithstanding: cut in that removal, the part is taken for an engine by the next
  launch. With `pending` in `HalfDone` the two properties of `SidecarSwap` fail; with `old` in
  `Held` too.
* A farm chosen while an earlier `repoint()` awaits its kill (1.5 s) finds no child and starts at once;
  the earlier one's `start()` then runs later and takes over (`sidecar.ts:236-237`). The engine ends on the older
  farm, the shell shows the newer (`index.ts:374`), and `connectPlan()` sees nothing to repair. Plugin keys that
  arrive just after a switch to a farm with a password can be that second call. `RunsAsShown` without
  `overtook = 0` is violated in this way (in the instance, by a farm clicked just before the boot).
* In the same way a repoint's `start()` can spawn an engine behind the quit's `stop()`, while the rest of
  the quit's cleanup goes on, and a farm chosen while `set-data-dir` awaits its kill boots an engine
  on the folder that is copied next. A shell that crashes leaves its engine running; no launch looks for it.

The Computer (all in `GraphRunner`, the first two named in `PressKept`, the third in `DoneIsCurrent`):

* A press that joins a run while the run reads its cap is swallowed (`runner.mjs:32` against `397`,
  `host.mjs:412-414`), and so is one on a box edited since it started.
* An edit of a box that is parked takes it out of "waiting" (`markStale()`), and the scan for the next box asks
  nothing else of an input (`runner.mjs:1176-1180`). A press of that box, or of one after it, then starts what
  comes after it at once, with its old value; its own answer comes later (after a press of it, a second question
  too), and what came after it reads done and is skipped by the next Run all, although "a part is in
  the run set ... when any upstream part is in the run set" (`topo.mjs:163-165`). `DoneIsCurrent` without `ahead`
  is violated in TLC's instance in thirteen steps.
* A press made during the journal's `await` wakes nobody; the minute tick picks it up.
* A second press of a Button merged into one activation stays in `pressed` and opens a later gate.
* A press after Stop joins the dying run. A press downstream of a running box that has no value yet
  queues that box again. A requeue survives `failPart` and barriers.
* A box that hangs off a loop keeps what an earlier iteration gave it (`OffLoop`), and a Button that
  is done is not run again by Run all.
* `timer.mjs:71` says that a Timer that repeats re-activates its downstream; only the Timer itself is
  queued again (`runner.mjs:691-699`), and what hangs off it waits for its last activation.

## 7. Not modelled, and why

* Data: stream parsing, packet codecs, validation, arithmetic of the capacity estimator, message
  trees. Pure functions with unit tests; few of them have a state.
* External programs: LiteLLM, Ollama, llama.cpp, vLLM, Open WebUI are seen through exits and answers.
* Rendering, IPC plumbing, installers, build scripts.
* vLLM's life cycle: the chain, the job slot and the recovery it shares with llama-server are
  `FarmRun`'s; its own watch, marker and memory guard depend on containers, WSL and GPU readings.
* Discovery: what happens depends on which addresses answer and how fast; a property of it would be
  one of the network assumed.
* The chat's queued asks: sequential, waiting for the same snapshots as the seat wait.
* In modelled components: a job's cancel and the other changes that end in the same bounce (context,
  slots, names, password, presets), several farms on a host and services' pids in the runtime file;
  the bus's retained topics and rate window; the run journal across sessions and recipes in the
  graph runner; Ollama's manifests, links and free space in a move; branches of a thread
  and the coding agent's turns in the chat slot; a crash of the shell, a kill that hangs and a spawn that fails
  at once in the chat engine; graphs, attachments, recipes, `deleteSubtree` and
  the v1 import in the store; `lol down` that times out and a spawn that fails at once in the
  supervisor.

## 8. How it grew, and what could follow

The order was that of importance: seat gate, chat slot, storage move, supervisor, chat store; then the
graph runner, the running farm, the service and the bus, the engine's swap and its process; the proofs of each after
its runs. There are few runs, one per question, and few properties: what a new module asked replaced
the weaker questions of an old one.

What is left are parts with state that this scheme could take: vLLM's phases beside `FarmRun`, with the
container as an environment; the queue of asks beside `ChatSlot`. Every safety property of the runs
has its theorem or is a conjunct of one.
