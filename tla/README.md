# A verification project for jailbee

jailbee gives every git branch its own Incus container and lets an *orchestrator*
container (an agent with a grant) create, stop, restart, import and destroy *child*
containers. It does so by writing manifest files to an outbox in its own file system; a
single *broker* process on the host polls all outboxes, acts, and writes answers to
inboxes. The broker keeps its state in small files and in Incus labels, starts detached
worker processes that outlive it, and may die at any point. That is the part of jailbee
with the most concurrency and the most to lose (a child's unimported work), and it is what
this project models first. Five of its modules are about the broker: the spawn queue
(`SpawnQueue`), the end of a child (`ChildFinish`), the publication of an orchestrator's
GitHub writes (`Publishing`), the delivery of messages (`ParkedDelivery`, which implements
the abstract `Channel`) and the watch over a launched child (`ChildWatch`). Two are about
the shared caches of the containers: the slots of a pool (`PoolSlots`) and the layout of
its root (`PoolLayout`).

Paths below are relative to the repository (`src/jailbee/...`, `docs/...`).

## 1. Inventory

### 1.1 The orchestration broker

| Component | State it keeps | Operations | Interacts with |
|---|---|---|---|
| Round (`orchestration/broker.py` `tick`) | a listing of all containers (`nodes`), `BrokerMemory` | prune reservations, list, clear stale stop labels, serve every running orchestrator and child, list again, settle finished children, drain queues, settle watches | everything below; polls every few seconds |
| Journal (`journal.py`) | `journal.jsonl`: (container key, digest) | `seen`, `record` | `_handle_raw`: act, record, reply, delete |
| Spawn queue (`actions.py`, `state.py`) | `queue.json`, `reservations.json`, the job table | `handle_spawn`, `handle_restart`, `drain_queue`, `drop_queue`, `prune_reservations` | detached workers (`_new-worker`, `_boot-worker`), Incus, adoption |
| Messages (`outbox.py`, `messages.py`) | `pending/<container>/`, `done-replies/` | `deliver`, `flush_pending`, `handle_done`, relay of notes and questions | inboxes of containers that may be stopped |
| End of a child (`finishing.py`, `importing.py`, `actions.py`) | labels `LAST_IMPORT`, `PENDING_DESTROY`, `STOPPED_*`; parked finish items | `complete`, `park`, `import_child`, `handle_stop`, `handle_destroy`, `destroy_guard`, `settle_destroys` | the git bridge, the child, the orchestrator |
| Publishing (`publishing.py`) | `publish-inflight.json`, `-budget`, `-accepted`, `-known`, `publish-results/`, uncertain markers | `handle_publish`, `start`, `_run` (a thread), `settle`, `recover`, `prune` | GitHub through the host's outbox code |
| Watches (`watch.py`, `agent_watch.py`) | `watch.json` | `register`, `record_message`, `cancel`, `verdict` | job table, listing, inboxes |
| Adoption (`adoption.py`), rights (`rights.py`), grants (`commands.py`, `grant.py`) | labels `SPAWNED_BY`, `GRANT`, `RIGHTS`; work ACLs | `adopt`, `release`, `grant`, `revoke`, `revoke_owned` | run in the CLI's process, under the mutation lock and container locks |

What is hard here: the round works from a listing while workers, users and other
commands go on; every handler has a crash window between its effect, the journal, the
reply and the deletion of the manifest; starts must not exceed a limit that is counted
from three sources (running containers, job rows, reservations) of different age; a child
is destroyed on the strength of labels written earlier.

What makes it correct: the limit on running children holds, requests start in order and
at most once, no name is built twice, nothing queued is lost silently; a child is never
destroyed with work its orchestrator does not have; every accepted report arrives; every
status arrives; a queue that can move does move.

### 1.2 The rest of jailbee

| Component | State | Hard behaviour | Properties worth having |
|---|---|---|---|
| Container life cycle (`lifecycle.py`, `create_flow.py`, `stopping.py`, `golden.py`) | Incus instances and labels | a create that fails half way | a failed child frees its name |
| Background jobs, autostart (`background.py`, `autostart*.py`) | SQLite job rows, supervisor processes | best-effort rows, dead workers, re-runs | one live worker per container |
| Pools (`pool.py`) | slots of shared caches | two containers, one slot; reclaim | a slot has one owner |
| Accounts (`accounts/`) | logins parked and live, per group | switch interrupted half way | a login is in exactly one place |
| Egress pool (`egress_pool.py`, `egress_proxy.py`) | rolling set of addresses per host | a day's window, a cap of 20 per host | what was resolved recently stays allowed |
| Timed reverts (`loose_revert.py`, `mount_revert.py`, `egress_revert.py`) | expiry labels, timers | revert racing an extension | access ends, extensions hold |
| Network switch (`net_switch.py`, `network_generation.py`) | profiles, ACLs, a generation | partial switch | exactly one mode |
| Services (`services/`) | state files, tmux windows | starts racing stops, elevated steps | readiness gates dependants |
| Host outboxes (`issue_outbox.py`, `pr_outbox.py`, `outbox_io.py`) | action journals, receipts | uncertain outcome of a GitHub call | no action twice, none forgotten |
| In-container store and inbox (`container_outbox/`, `inbox/`) | manifest files | partial writes, concurrent readers | a manifest is whole or absent |
| State service (`state_service/`) | one server per host | election of the server | one server at a time |
| Git bridge (`sync.py`, `git.py`, `submodules.py`) | refs | fast-forward only, branch names chosen by others | no ref is overwritten |
| Locks (`container_locks.py`, `claude_locks.py`) | lock files | lock order | no deadlock |
| Configuration, upgrade, dashboards, remote access, provisioning | files, displays | little concurrency of their own | not planned |

Everything under `tests/`, `website/`, `docs/skills/` and the provisioning scripts is left
aside.

## 2. Plan

| # | Module | Subject | Composes / refines | State |
|---|---|---|---|---|
| 1 | `SpawnQueue` | limit, queue, reservations, workers, rounds, adoption | refines `RequestLine`, the line an orchestrator is promised | done, proofs in `SpawnQueueProofs` and `SpawnQueueRequests` |
| 2 | `ChildFinish` | done, import, stop, destroy, parked reports, reply gate | -- | done, proofs in `ChildFinishProofs` |
| 3 | `Publishing` | one issue manifest: request, budget, thread, journal, settle, recover, a user on the host | -- | done, proofs in `PublishingProofs` |
| 4 | `ParkedDelivery` | one recipient: `deliver`, `flush_pending`, purge, a host command delivering beside the broker | refines `Channel`, a FIFO channel | done, proofs in `ParkedDeliveryProofs` |
| 5 | `ChildWatch` | registration, verdicts, probes, readiness, exit notices against workers, agents, users and rounds | -- | done, proofs in `ChildWatchProofs` |
| 6 | `PoolSlots`, `PoolLayout` | slots of a cache pool; migration of the cache that predates it | -- | done, proofs in `PoolSlotsProofs` and `PoolLayoutProofs` |
| 7 | `Adoption` | adopt and release with their rollbacks against the broker, rights revoked step by step | with the labels of 2 | left |
| 8 | `OutboxJournal` | several manifests in one batch, a manifest written again after its deletion, drop, the pull request outbox with its review markers | the issue journal of module 3 as its abstract specification | left |
| 9 | `AccountSwitch`, `EgressPool`, `TimedRevert`, `GoldenBuild` | the stateful parts of 1.2, one small module each | -- | left |

Theorems: every safety invariant and every action property the runs check, the types and the
refinements of `RequestLine` and `Channel` included, is proved (section 5). Left to prove are the
issue journal of module 3 as the abstract specification of module 8, and the theorems of modules
7 to 9 when those exist.

## 3. The modules

### 3.1 SpawnQueue and RequestLine

One broker, the orchestrators `Orch` of one repo, children by name, and manifests `Req`
that each name an orchestrator, a child and a kind (`spawn` or `restart`). The state
follows the code: Incus (`status`, `parent`), grants (`limit`), worker processes
(`workers`, `made`, `jobs`), the files (`reserved`, `queue`, `outbox`, `journal`) and the
broker's memory (`pc`, `snap`, `todo`, ..., `results`). The last group only bounds the
model or remembers facts for the properties.

| Action | Code |
|---|---|
| `Prune`, `List`, `Refresh`, `EndRound` | the parts of `tick` |
| `SkipSeen`, `Record`, `Answer` | `_handle_raw` around `dispatch`; `Answer` also lists anew as `_refresh_children_snapshot` does after a start |
| `StartNow`, `Enqueue`, `Refuse` | `handle_spawn`, `_handle_restart_locked` |
| `Reserve` | the end of `start_child` and `_boot`: the reservation, or an I/O error that is only logged |
| `DropQueue`, `BeginDrain`, `Pop`, `StartQueued`, `RefuseQueued`, `StarterRaises`, `EndDrain` | `_settle_queue`, `drop_queue`, `drain_queue` |
| `WorkerCreates`, `WorkerBoots`, `WorkerEnds`, `WorkerFails` | `_new-worker`, `_boot-worker`, `_create_instance`, `new_container`'s clean-up |
| `Crash`, `Restart` | the process dies; `KillMode=process` leaves the workers, `Restart=on-failure` starts it again |
| `AdoptCheck`, `AdoptLabel` | `_adopt_locked` before and after its check |
| `Submit`, `ChildStops`, `ChildDestroyed`, `UserStarts`, `Regrant` | orchestrators, users, `orchestrate grant` and `revoke` |

A manifest read in a round but not reachable later is left for the next one (`List` picks
any subset of orchestrators to serve). All checks of a request other than the name, the
queue, the state of the container and the limit (profile, rights, runner, pull request,
fork) are one nondeterministic refusal.

Excuses are explicit. `outside` holds children whose start the limit cannot see: started
or adopted by a user, booted after losing their parent, or launched with a reservation that
was never written (I/O error, or a death between launch and reservation). `retried` holds
requests whose handler ran before a broker death and whose journal entry did not. `dropped`
holds requests popped from the queue and lost with a death or an exception.

`RequestLine` is what an orchestrator may rely on: one line per orchestrator, and a standing per
request, from `open` over `waiting`, `next` and `declined` to `started`, `refused` or `lost`, which
are final.

| Action | Step of the queue |
|---|---|
| `Wait`, `Take`, `Clear` | `Enqueue`, `Pop`, `DropQueue` of a line that is not empty |
| `Start`, `Decline` | `StartNow` and `StartQueued`; `Refuse` and `RefuseQueued` |
| `Tell` | `Answer` and `EndDrain`, when there is a refusal to report |
| `Lose` | `StarterRaises`, and `Crash` with something popped or a refusal not told yet |
| `Excuse` | `Crash` between an action and its journal entry |

`Line` instantiates it with `queue` for the lines and `standingOf` for the standings; every other
step changes neither. To an excused request (`retried`) it promises only its turn in the line:
that one may start twice. `standingOf` has one more value, `forgotten`, for a request that
waited and that nothing accounts for; it is no standing of the line, so `LineKept` says that
nobody is forgotten.

### 3.2 ChildFinish

One orchestrator and one child with `on_done: destroy`. The child's history is a counter
(commit *n* contains 0..*n*), its work tree dirty or clean, its own outbox with or without
staged GitHub writes. Labels are one record. `pending/<orchestrator>` is the sequence
`parked` of finish items, reports and notes; `done-replies/<child>.json` is `reply`.

| Action | Code |
|---|---|
| `List`, `ClearStale`, `Serve`, `Refresh` | `tick`, `_serve`, `_clear_stale_stop_labels` |
| `FlushParent`, `FlushChild`, `Unlink` | `flush_pending` with `flush_callback` |
| `Replay`, `Answer`, `TellDone`, `DropReply` | the reply gate of `_serve`, `_handle_raw`, `_reply` |
| `RefuseDone`, `CheckDone`, `Fetch`, `Park`, `Report` | `handle_done` |
| `Check`, `Mark` | `complete` before and after the import; `Mark` sets `PENDING_DESTROY` |
| `Transport`, `Label` | `import_child`: the git transport, then `LAST_IMPORT` |
| `Take`, `RefuseOrder`, `ImportOrder`, `StopOrder`, `StopNow`, `RestartOrder`, `DestroyOrder`, `Delete` | dispatch of the orchestrator's manifests |
| `Settle`, `GuardHead`, `GuardTree`, `Destroy`, `Keep` | `settle_destroys`, `destroy_guard`, `destroy_container` |
| `Commits`, `Edits`, `Stages`, `Sends`, `Starts`, `Stops`, `ParentFlips` | the child, the orchestrator, a user |

Every read of the child by the broker and every write of a label or file is a step of its
own, so commits, starts, stops and a broker death fall between any two of them. The
listing a handler works from (`seen`) is separate per served container, as `ctx.nodes` is.
`late` and `stale` are the excuses of `NoWorkLost`: a change after the guard's own reads,
and a change after the reads of a stop whose labels no later listing has cleared.

### 3.3 Publishing

One orchestrator that runs all the time and one issue manifest in its outbox, which the
container may rewrite until it is deleted. A proposal is known by its number of actions,
so a digest tells apart what that number does. `github` is what GitHub has really carried
out; `jsize` and `receipt` are the host's journal, `lock` the journal's file lock. Two
publishers run `publish_selected`: the broker's thread (`worker`) and a user's command
(`host`). `budget`, `inflight`, `result`, `accepted` and `journal` are the broker's files.

| Action | Code |
|---|---|
| `StartRound`, `EndRound` | `tick` with `publishing.prune` (a result nobody waits for goes), `_serve` |
| `Accept`, `Refund`, `Flag`, `Answer`, `Clear`, `Unlink` | `settle`, one step per file it writes |
| `SkipSeen`, `Refuse`, `NothingPending`, `Reserve`, `SaveInflight`, `Remember` | `_handle_raw`'s first test and `handle_publish` |
| `Record`, `Tell`, `Delete`, `Start`, `Aborts` | the end of `_handle_raw`, `start`, `abort_before_start` |
| `Lock`, `Prepare`, `Policy`, `Verify` | `publish_selected` to the last check, `apply_batch`'s first pass |
| `MarkPrepared`, `Send`, `MarkApplied` | `apply_batch`'s second pass, one action at a time |
| `Clean`, `Archive` | `_cleanup_manifest` |
| `SaveResult` | the end of `_run` |
| `WriteFails`, and the disjuncts with `fault` | a host file that cannot be written |
| `Crash`, `RestartBroker` | the broker and its thread die; `recover` |
| `HostStarts`, `HostDies`, `Resolve` | a user's `jb outbox`; `reconcile_action` |
| `Submit`, `Rewrite`, `HourPasses` | the container, and the clock |

All that may refuse a publication before anything is sent (parsing, rights, labels, a
changed issue on GitHub, a read that fails) is one nondeterministic failure; the two checks
the properties depend on, the number of pending actions and the unchanged text, are kept.
`Resolve` is a human who tells the truth: an action is resolved as applied exactly when
GitHub has it. `expired` and `acted` remember which GitHub writes belong to a reservation
of the last hour; `covered` which actions a `done` was about; `lost` that a failed write
left the request in flight with nobody at work on it.

### 3.4 ParkedDelivery and Channel

One recipient, which stops, is destroyed and created again under its name. A message is the
broker's *m*-th or a host command's *h*-th. `pending` is the parked directory, whose file
names sort by stamp and counter; `order` remembers in which order the broker's messages
were first written into the inbox.

| Action | Code |
|---|---|
| `List`, `EndRound` | `tick`: the listing and the one `now` of a round |
| `Purge` | `purge_vanished_pending`, with what `notify_orphaned_finishes` holds back |
| `Flush`, `Flushed`, `Unlink` | `flush_pending`: write the oldest, then unlink it |
| `Emit`, `Write` | `deliver`: park, or write and park when that fails |
| `Die`, `Restart` | a broker death, which resets the counter; `RestartSec` |
| `HostLook`, `HostWrite`, `HostPark` | `deliver` in another process (adopt, the refresh worker) |
| `StartStop`, `Destroy`, `Create`, `Second` | the recipient, and the clock |

`Channel` is the promise: messages are first seen in the order they were sent, and only a
recipient that is gone costs those on their way. `KeepsPromise` is `Channel`'s
specification under the mapping `sent <- sent, seen <- order, dropped <- dropped`. A
message seen twice (a write that fails with effect, a death before the unlink) is a stutter
of the channel. Order is promised for the broker's own messages: those of host commands
interleave with them, and a host command that looks before the broker parks may overtake.

### 3.5 ChildWatch

One orchestrator, one child name, and manifests that each ask for one of five things: a
spawn, a restart, an agent-only restart, a stop or a destroy. `entry` is the child's entry
in `watch.json`, `ripe` which of its delays (the grace of a missing container, the 120
seconds for an agent's start, the time an agent must live) have passed. `row` is the job
row, `agent` what the prompt wrapper's files and process say, and of which run.

| Action | Code |
|---|---|
| `Begin`, `Refuse`, `Accept`, `EndServe`, `DeleteSeen` | `tick`, `_serve`, `_handle_raw` and the checks of the handlers |
| `Register`, `Unset`, `Launch`, `InsertRow` | `start_child`, `_boot`: watch entry first, then labels, worker, row |
| `Relaunch`, `LaunchFails`, `DropWatch` | `_restart_agent`, `agent_session.relaunch`, the rollback of both |
| `StopChild`, `DestroyChild`, `TakeDone`, `Cancel` | `handle_stop`, `handle_destroy`, `handle_done`, `watch.cancel` |
| `Record`, `Reply` | the end of `_handle_raw` |
| `ReadJobs`, `Unreadable`, `ListNodes` | `_settle_watches`: the rows are read before the containers |
| `Discard`, `Judge`, `Reread` | `_settle_agent_watch`, `checked_verdict` |
| `Probe`, `ProbeFails`, `Advance`, `Deliver`, `Save` | `agent_watch.probe` and `advance`, deliver before save |
| `Create`, `Boot`, `WritePrompt`, `FinishWork`, `Exit`, `FailWork`, `KillWork` | the workers: the row is deleted before the process exits |
| `AgentStarts`, `AgentEnds`, `AgentReports` | the wrapper of `initial_prompt.prompted_run` and the agent |
| `UserStops`, `UserStarts`, `UserDestroys`, `UserTakesName` | a user; the last creates a container of that name himself |
| `Ripen`, `Die` | time between rounds; a broker death and its restart |

Assumed: a worker outlives the insertion of its row; handlers read live containers; a
manifest sent during a round is as good as one sent after it. `excused` holds manifests
without a row (its insertion is best effort) and those whose handling a death cut off
before the journal.

### 3.6 PoolSlots

One pool with its flock, containers that come and go, and host commands that each run one
of `allocate` (a boot), `destroy` (with `release`), `prune` and `ls`. A slot number is all
there is of a slot. `cmd[p]` is a command's step and its local variables.

| Action | Code |
|---|---|
| `Begin`, `Acquire` | `boot_container`, `_destroy_container_locked`, the two commands; `_lock` |
| `List`, `ListFails`, `Drop` | `_reconcile`: unlink what belongs to no container |
| `AlreadyAllocated`, `Look`, `Choose`, `Link`, `Unmount`, `Mount`, `MountFails`, `Undo` | `allocate` |
| `Relook`, `Remove`, `Unlink`, `Delete` | `release` and the deletion of the container |
| `Prune` | `prune` under the lock, after `_reconcile` |
| `Kill`, `Create`, `UserRemoves` | a killed command, a new container, a slot deleted by hand |

`Slots` may be infinite, as the numbers in `pool.py` are; only the runs give it two. A new slot
takes the smallest number without a directory (`NewSlot`, empty when a run has none left).
Warmth ranks free slots and nothing else, so `Choose` takes any free one. `removed` are the
slots deleted by hand, whose numbers the code gives out again.

### 3.7 PoolLayout

The entries of one pool root: `loose` in the root, `moved` into `slot-0`, or `aside`.

| Action | Code |
|---|---|
| `Begin` | `preflight_pools` (with or without asking), or a boot's `ensure_pool_dirs` alone |
| `Resolve`, `Answer`, `MoveAside` | `resolve_loose`, which takes no lock |
| `Lock`, `Layout`, `Migrate` | `ensure_pool_dirs` under the flock |
| `Kill`, `Stray` | a killed command; a program that writes into the root of a pool |

## 4. What the runs check

Each run uses the MC module of its component (`MCSpawnQueue` for `SpawnQueue*`, and so on).

| Run | Properties | Instance | Distinct states |
|---|---|---|---|
| `SpawnQueueRival` | `SlotsSeen`, `NoDoubleStart`, `NoOvertaking` | two orchestrators, one name for both, a restart beside it, a user who starts and adopts | 4 208 538 |
| `SpawnQueueLive` | `TypeOK`, `LimitHeld`, `StartedOnce`, `LineKept`, `QueueMoves` | a spawn and the restart of a stopped child, limits 0 and 1, the grant changes, 1 crash, fair broker | 1 091 330 |
| `ChildFinishLive` | `TypeOK`, `ReportedFirst`, `DoneKept`, `ReplyKept`, `ParkedDelivered`, `MarkerSettled` | one done, the orchestrator stops and starts, 1 crash, fair broker | 431 714 |
| `ChildFinishOrders` | `NoWorkLost`, `ImportsReal` | a stop, a destroy, an import and a restart; user starts and stops; 2 commits | 4 814 849 |
| `PublishingOnce` | `TypeOK`, `DoneMeansPublished`, `CapHeld`, `OneWorker`, `NeverRetried` | two requests, up to two actions, cap 2, one publication on the host, 1 crash | 2 187 733 |
| `PublishingLive` | `AtMostOnce`, `DeletedPublished`, `PublishSettles` | one request, up to two actions, one publication on the host, 1 crash, 1 failed write, fair broker and thread | 394 277 |
| `ParkedDeliveryOrder` | `TypeOK`, `NothingLost`, `KeepsPromise`, `ParkedFlushed` | two messages of the broker and one of a host command, two containers one after the other, 1 failed write, 1 crash | 297 497 |
| `ChildWatchKept` | `TypeOK`, `NoFalseDeath`, `AgentIsThisRuns`, `StatusKept` | two manifests of any kind, one move of a user or one killed worker, 1 crash | 7 991 895 |
| `ChildWatchLive` | `Settles`, `DeathTold` | one spawn, a user stops, starts or destroys, 1 crash, fair broker, workers, probes and clock | 146 163 |
| `PoolSlotsKept` | `TypeOK`, `DeviceLinked`, `Exclusive` | two containers, two commands, two slots, 1 failed call, 1 kill, 1 slot deleted by hand | 709 673 |
| `PoolLayoutKept` | `TypeOK`, `EntriesKept`, `RootClears` | three entries, two commands, 1 kill, 1 stray entry | 24 821 |

The bounds. One crash is enough to separate any two steps of a round, and the second round
after it shows what the files kept. A limit of one makes every request beyond the first
queue, and two queued requests have a head and a tail. `NoOvertaking` needs a fresh request
that finds a slot while another waits: a running child that is adopted and stops
(`SpawnQueueRival`). Two commits allow one before and one
after a read. Two actions allow a manifest that is half published, and a rewrite that grows
or shrinks it; a cap of two lets one full request exhaust the hour. `MaxCrashes` also bounds
how many workers a spawn manifest can have (`Worker`), since only a crash lets one be acted
on again, and with `MaxFaults` how often a publish request can be reserved (`Attempt`). Two
messages of the broker are an order to keep, and a host's beside them a second writer of
the parked directory. Two manifests are a launch and what supersedes, stops or relaunches
it, and the first of them is the run whose leftovers may mislead the second. Two slots for
two containers let each have one, and a removed number be given out again. Three entries
let a migration be cut off with one moved and one not, with a third still to come.
`PublishingOnce`, `PoolSlotsKept` and `ChildWatchKept` take alike requests, containers,
commands and manifests up to symmetry; no run with a liveness property does.

Three windows are open in the code and are excused by name, never more widely. `LimitHeld`
does not speak of children a user started or adopted, which may take an orchestrator over
its limit together with a start of the broker's. `NoWorkLost` does not speak of a commit
between the reads of a stop or of the destroy guard and the stop or destruction itself.
`DeviceLinked` and `Exclusive` do not speak of a slot deleted by hand.

One run ends in a violation and shows where the code departs from what its documentation
says. `ChildFinishStoppedElsewhere`: "a child stopped any other way is refused until
restarted" (`docs/orchestration.md:805`) does not hold for a child started and stopped
again between two listings (16 514 states up to the counterexample).

### Fairness

`FairSpec` of `SpawnQueue` and `ChildFinish` is weak fairness of the broker as a whole
(`Broker`): its loop goes on (`run_broker` catches what a round raises), and systemd starts
it again after a death (`Restart=on-failure`, `RestartSec=5s`). `Publishing` adds weak
fairness of the broker's own thread (`Worker`), which the interpreter runs. In these
modules workers in other processes, containers, users and orchestrators get no fairness, so
a liveness property never relies on a create that ends, a child that reports or a user's
command that gives the lock back. A step that may fail may fail every time.

`QueueMoves` says that a queue with a free slot does not stand still for ever;
`ParkedDelivered` that parked reports are delivered once the orchestrator stays up;
`MarkerSettled` that a marked child is destroyed or unmarked once both stay up (an
orchestrator that stops, or a child that is stopped, holds the clean-up back by design);
`PublishSettles` that a request in flight is settled unless a user sits on the lock for
ever or a failed write left it with nobody at work.

`ParkedDelivery` assumes a fair broker, a clock that goes on and a host command that ends;
`ParkedFlushed` speaks of a recipient that runs from some point on, since nothing can be
flushed into one that does not.

`ChildWatch` assumes more, because a launch is settled by what others do. Create and boot
workers end (weak fairness of `Worker`; which step of theirs fails is open), time passes
between rounds, and the job database and the probe succeed again and again (strong
fairness of `ReadJobs`, `Reread` and `Probe`), though they may fail any number of times.
The broker has no limit of its own for a worker that hangs. The agent has no fairness: one
that never starts is what the 120 seconds are for.

`PoolLayout` assumes that users go on starting commands in a terminal, get the flock in the
end (it is given to waiting processes in turn) and in the end answer yes; a user who
always says no keeps the conflict, by design.

## 5. What is proved

| Module | Theorem | Statement |
|---|---|---|
| `SpawnQueueProofs` | `WorkersReservedAlways` | `Spec => []WorkersReserved` |
| | `SlotsSeenAlways` | `Spec => []SlotsSeen` |
| | `NoDoubleStartAlways` | `Spec => []NoDoubleStart` |
| `SpawnQueueRequests` | `TypeOKAlways` | `Spec => []TypeOK` |
| | `LimitHeldAlways` | `Spec => []LimitHeld` |
| | `StartedOnceAlways` | `Spec => []StartedOnce` |
| | `QueuedAccountedAlways` | `Spec => []QueuedAccounted` |
| | `NoOvertakingAlways` | `Spec => NoOvertaking` (`[][A]_vars`) |
| | `LineKeptAlways` | `Spec => LineKept` (implements `RequestLine`) |
| `ChildFinishProofs` | `ImportsRealAlways` | `Spec => []ImportsReal` |
| | `ReplyKeptAlways` | `Spec => []ReplyKept` |
| | `TypeOKAlways` | `Spec => []TypeOK` |
| | `DoneKeptAlways` | `Spec => []DoneKept` |
| | `ReportedFirstAlways` | `Spec => []ReportedFirst` |
| | `NoWorkLostAlways` | `Spec => []NoWorkLost` |
| `PublishingProofs` | `AtMostOnceAlways` | `Spec => []AtMostOnce` |
| | `DeletedPublishedAlways` | `Spec => []DeletedPublished` |
| | `OneWorkerAlways` | `Spec => []OneWorker` |
| | `TypeOKAlways` | `Spec => []TypeOK` |
| | `DoneMeansPublishedAlways` | `Spec => []DoneMeansPublished` |
| | `NeverRetriedAlways` | `Spec => NeverRetried` (`[][A]_vars`) |
| | `CapHeldAlways` | `Spec => []CapHeld` |
| `ParkedDeliveryProofs` | `TypeOKAlways` | `Spec => []TypeOK` |
| | `NothingLostAlways` | `Spec => []NothingLost` |
| | `PromiseKept` | `Spec => KeepsPromise` (implements `Channel`) |
| `ChildWatchProofs` | `TypeOKAlways` | `Spec => []TypeOK` |
| | `NoFalseDeathAlways` | `Spec => []NoFalseDeath` |
| | `AgentIsThisRunsAlways` | `Spec => []AgentIsThisRuns` |
| | `StatusKeptAlways` | `Spec => []StatusKept` |
| `PoolSlotsProofs` | `TypeOKAlways` | `Spec => []TypeOK` |
| | `DeviceLinkedAlways` | `Spec => []DeviceLinked` |
| | `ExclusiveAlways` | `Spec => []Exclusive` |
| `PoolLayoutProofs` | `TypeOKAlways` | `Spec => []TypeOK` |
| | `EntriesKeptAlways` | `Spec => []EntriesKept` |

That is every invariant and every action property of the passing runs. They hold for all values
of the constants that satisfy the assumption of the module: any number of orchestrators,
children, manifests, commits, publish requests, actions, messages, containers, commands, broker
deaths, kills and failed writes. The assumptions say no more than that the bounds are natural
numbers, that maps like `Who` and `Asks` map to what they name, that the stand-ins for "nothing"
(`None`) are none of the things they are told apart from, that what is counted is finite in number
(the children and requests of `SpawnQueue`, the publish requests, the entries of a pool root), and
that a recipient of `ParkedDelivery` is created at least once. The invariants were checked by TLC
on the instances of the runs before they were proved; `ImportsReal`, which `ChildFinishOrders`
checks without a broker death, is proved with any number of them.

### SpawnQueueProofs

The three invariants support one another: two workers on one name are excluded because a name
with a live worker is in `reserved` (or in hand), and a name in `reserved` is refused
(`creating`); the listing plus reservations cover every busy child because a worker that ends
after the prune is still reserved, and one that ended before it is in the listing. The inductive
invariant is `IInv == Types /\ Safe`, where `Safe` joins the three with `LoneInHand` (while a
reservation is being written no other worker is at work on that name). There is one lemma per
action that touches workers, reservations or the listing, and one (`QuietStep`) for all that
leave them alone.

### SpawnQueueRequests

*Types.* `TypeOK` in five parts, each with its own lemma about a step: sets, numbers (a count of
slots is a number because the names counted are among the children), answers, stamps (one
request was queued last, so the next stamp is a number) and names (an accepted request's name is
not in its queue, and a drain takes from the front). Only `Enqueue`, `DropQueue` and `Pop` touch a
queue (`QueueMoved`).

*The limit.* `LimitHeld` bounds a cardinality, so it needs to know what a start is measured
against. By `SlotsSeen` the children the limit must answer for are among those the round sees
(`Seen`), and a launch is allowed only when these are fewer than the listed limit, which is at
most `peak` (`LimitInv`). In a drain the slots are counted once and then counted down:
`Cardinality(Seen(draining)) + free <= peak[draining]` is kept because each start adds at most one
reservation and takes one from `free` (`DrainStep`). Workers and users only move a child within
`Busy`, or out of the limit's sight (`OthersHold`). `Own` says that a queue holds requests of its
orchestrator alone. What the property leaves out is named: the children in `outside`.

*Once.* The fate of a request is kept in sets (`Started`, `Queued`, `Starting`, `Refused`,
`Unrecorded`). `OnceInv` says that whatever was done for a request it is in the journal or about
to be written there, so that its manifest is not handled again, and that starting, waiting and
refusal exclude each other. A refusal counts from the moment it is decided, not from when it is
told: `Refused` includes the outcomes a drain has not reported yet.

*Accounted for.* `QueuedAccounted` is proved and in no run of its own; `LineKept` has its part. A
popped request stays in the hands of the drain until `EndDrain` reports all of
them, or `dropped` takes them (`DrainKeeps`).

*Order.* Queues are sorted by stamp, since whatever is queued gets the greatest (`LastIsLast`), and
the request a drain is about to start was queued before all that remain (`OrderInv`). A new request
starts only past an empty queue, a queued one only from the front (`LaunchedHow`).

*The line.* `Stands` reads a request's standing off the sets of *Once*, whose exclusions
(`OnceInv`) decide which branch holds before and after a step. Two more facts are needed. A
handler's action is on file or in hand when it is journalled (`HandInv`), so that `Record` changes
no standing. And a request waits only after it is journalled (`WaitInv`), so that a refusal lost
between its journal entry and its report is that of a request that never waited, while what a
drain loses is in `dropped` (`DrainLoses`). There is one lemma per kind of step (`LaunchInLine`,
`WaitsInLine`, `TakesFront`, `DeclinesOne`, `TellsAll`, `ClearsLine`, `LosesAll`, `DeathInLine`), and
`LineStep` maps every action to one of them or to a stutter.

### ChildFinishProofs

`ImportsReal` needs to know which steps are between a transport and the labels (`ImportInv`: the
item in hand, when the import is good, is at most `ref`). `ReplyKept` needs the order of the steps
from `Answer` to `DropReply` (`ReplyInv`): the reply file is overwritten only when the previous
status was told or parked, because `Replay` runs before the outbox is read. `TypeOK` is not
inductive by itself: what `Answer` writes is a manifest only by `Roles`, a part of `ReplyInv`, and
a report has its finish item on file only because the check had (`OnFile`).

The other three share `FinishInv`. `ReportInv` follows a finish item: while it is completed it is
the head of the queue (`CompletingItem`), and when it is unlinked its report was made, or could not
be written and is parked behind it. `PartingInv` says whom the last steps part with: a clean-up
only reaches a child with a marker, with its reports delivered and nobody left to serve.
`FinishedInv` keeps what was then true of a child that is gone for having finished. `LossInv`
justifies the guard: what a stop recorded is how the child is, in the label and in the listing
the round works from, but for the changes the property excuses (`late`, `stale`), and each of the
guard's two reads holds until the destruction.

### PublishingProofs

`AtMostOnce` rests on `Known` (while the manifest is there, whatever GitHub has the journal knows
of) and on what the holder of the lock may assume: past its checks the journal is of its proposal
and nothing in it is in doubt (`Checked`), and while it sends exactly one action is prepared
(`Sending`). That only the holder of the lock is at work needs `WorkerInv`: a thread is started
only when none is at work, because a request in flight has no result until its thread has ended,
settling waits for the result, and a new request is taken up only when nothing is in flight.

`DoneMeansPublished` and `NeverRetried` follow a request to its end: a result is `done` only when
the journal of its proposal is clean (`DoneInv`), and one that was told its end (`Ended`) is in the
journal of handled manifests or its result was accepted, and no thread is at work or about to
start for it (`EndedInv`).

`CapHeld` compares two sets that change at different steps, what GitHub got (`acted`) and what the
budget holds (`budget`). `CapInv` keeps the balance: a reservation holds at least as many stamps
as actions its thread has sent or may still send (`Balanced`, `charge`), a refund returns only
those of a request that sent nothing (`Blank`), and what the hour's end takes out of one set it
takes out of the other. The last step (`Numbered`,
`SentWithinBudget`) builds the injection from `acted` into `budget`, and the cap bounds the budget
where it is reserved.

### ParkedDeliveryProofs

`FilesInv` says that the broker's parked files sort as their messages were sent. Files are named
by stamp and counter, and the counter starts again after a death: the order holds since the pause
before a restart lets the clock pass every stamp in use. `RoundInv` holds a round to what it
listed: it writes past no parked message, purges only what was for a container that is gone, and
unlinks only what was seen. With them each step of `Spec` is a step of `Channel` under the mapping
of section 3.4 or leaves its variables alone (`PromiseKept`, one step per action); the channel's
initial state is that of the recipient.

### ChildWatchProofs

Four parts on top of the types. `HandlingInv`: a manifest is handled once and with no other worker
alive, and the entry and the worker are of the same manifest. `DeathInv`: a worker's row goes
before its process does, so when the pid of a row is found dead and the row, read again, is still
there, its work was not done. `AgentInv`: the files of an earlier run stay until the prompt is
written, and until then the entry's manifest is at hand or its row keeps the entry from the probe.
`StatusInv` counts: the final statuses a manifest has and those it may still get without a death
(`Outstanding`) are together at most one more than the deaths there were.

### PoolSlotsProofs and PoolLayoutProofs

A command at a step under the flock holds it (`LockInv`), so the state it relies on is changed by
nobody but users and Incus (`Relies`): from its listing to its mount the chosen slot has no other
symlink, and what it did not list has no device. Every symlink leads to a slot of its own
(`LinksInv`). What a kill or a failed call leaves behind is a state in which the same is true.
`EntriesKept` of `PoolLayout` needs that two migrations never overlap, which is part of its
`TypeOK`.

### Only model-checked

All liveness, which is out of the proof system's reach together with `ENABLED`: `QueueMoves`,
`ParkedDelivered`, `MarkerSettled`, `PublishSettles`, `RootClears`, `ParkedFlushed`, `Settles` and
`DeathTold`. The proofs are about `Spec`, the runs with liveness about `FairSpec`, which implies
it. `WorkersReserved` and `QueuedAccounted` are proved and in no run of their own: the first is
what `SlotsSeen` and `NoDoubleStart` rest on.

## 6. What is not modelled

* Release and rights, refresh and update: see the plan.
* An orchestrator that is stopped or destroyed while it has a queue (`SpawnQueue` takes
  orchestrators to be running). What its destruction does to parked messages is in
  `ParkedDelivery`, without the choice `notify_orphaned_finishes` makes item by item; the
  quarantine of an unreadable finish item is left out.
* In `ChildWatch`: idle notices, entries written before supervision existed, the refresh
  jobs that share the list, and the recorded session ids; `DONE_SHA` and `STATE` beyond
  "finished or not", which only displays read.
* Publication of reviews and of source pull requests, with the marker of an uncertain
  review; a container recreated under the name of a publisher, and one that stops while its
  request is in flight; the 25 seconds the broker waits for its threads at shutdown; a
  manifest written again after its deletion.
* Parsing, validation of names and sizes of manifests: a bad manifest is a refusal.
* The mutation lock between the broker's stop, destroy and settle and the CLI's adopt and
  release: adoption only meets the broker's spawn in `SpawnQueue`, which takes no lock.
* Files are written atomically (`atomic_write_text`, fsync and rename) and read back whole.
* What a slot of a pool holds, how warm it is, and pools that are not allocated on start.
* The rest of 1.2: accounts, egress, timed reverts, network generations and services are
  stateful and planned or open; configuration, upgrade, dashboards, remote access and
  provisioning are sequences of calls to external programs or pure functions of files, with
  little for a model to order differently.

### Known disagreements without a run

Holes the models excuse by name, met while writing them:

* "acts on it at most once" (`docs/orchestration.md:547`) does not hold across a broker
  death between the handler and `journal.record`; excused as `retried` in `SpawnQueue`.
* "Import failures arrive as `import_error`, keep the child"
  (`docs/orchestration.md:771`) does not hold when an earlier attempt, cut off by a broker
  death, left the destroy marker: `complete` never unsets it.
* "A worker failure replies `failed`" (`docs/orchestration.md:171`) does not hold when the
  result file, or the one `abort_before_start` writes, cannot be written: the request stays
  in flight, and every later publish is refused, until the broker is restarted; excused as
  `lost` in `Publishing`.
* "A child that already reported done before readiness was confirmed still gets a final
  `done`" (`docs/orchestration.md:554`): `_handle_raw` cancels the watch (`broker.py:522`)
  and `_settle_agent_watch` discards a finished child silently (`broker.py:330`), so the
  branch of `advance` that would say so (`agent_watch.py:38`) is not reached. `StatusKept`
  counts a launch ended by a report as settled.
* An agent-only restart cut off by a death after it registered its watch and cleared the
  labels, and before the relaunch, is refused when it is replayed: the entry stays, the old
  agent is reported ready for the refused request, and the child's done state is lost.
  Excused in `AgentIsThisRuns`.
* A recipient destroyed and created again between two listings gets what was parked for its
  predecessor: the parked directory is known by name alone.
* A create job whose container does not exist yet counts against the limit of every
  orchestrator (`slot_breakdown`, `actions.py:552`: `name not in existing`), so a queue can wait
  for a worker of another orchestrator that hangs. `QueueMoves` is checked with one orchestrator.
* A failed release leaves a symlink that the next container of that name takes for its own,
  and a slot that was not wiped; the number of a slot deleted by hand is given out while
  another container's device still names it (`removed` in `PoolSlots`).
* A preflight that reads the root during another command's migration may ask about entries
  that are on their way into `slot-0`, since it takes no lock; nothing is lost
  (`EntriesKept`).
