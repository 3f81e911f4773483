----------------------------- MODULE ChildWatch -----------------------------
(***************************************************************************)
(* What the broker tells an orchestrator about a child it started: whether *)
(* the launch came up, that the agent in it lives, and when it dies.       *)
(* One orchestrator and one child name. A spawn or restart manifest leaves *)
(* a watch entry before anything is launched; each round judges the entry  *)
(* from the worker's job row, the container and a probe of the agent.      *)
(*                                                                         *)
(* Code: orchestration/watch.py (register, cancel, verdict,                *)
(* checked_verdict), agent_watch.py (probe, advance), broker.py            *)
(* (_handle_raw, _settle_watches, _settle_agent_watch), actions.py         *)
(* (start_child, _boot, _restart_agent, handle_stop, handle_destroy) and   *)
(* the two workers of cli.py.                                              *)
(*                                                                         *)
(* Left out: the queue (SpawnQueue), what `done` does to the branch        *)
(* (ChildFinish), idle notices, entries written before supervision, and    *)
(* the display of sessions. A worker deletes its row without an error and  *)
(* outlives the insertion of that row; handlers read live containers.      *)
(***************************************************************************)
EXTENDS Integers, FiniteSets

CONSTANTS
  Refs,        \* the orchestrator's manifests
  Kinds,       \* what they may ask for; "agent" is a restart with agent_only
  UserMoves,   \* what a user does to the container
  MaxMoves,    \* bound on these, and on workers killed
  MaxCrashes,  \* bound on the broker's deaths
  None         \* no entry, row, worker, manifest or answer

Entries == [ref : Refs, ready : BOOLEAN, live : BOOLEAN, confirmed : BOOLEAN]
Rows == [ref : Refs, phase : {"working", "failed"}]

ASSUME WatchAssumption ==
  /\ Kinds \subseteq {"spawn", "restart", "agent", "stop", "destroy"}
  /\ UserMoves \subseteq {"stop", "start", "destroy", "namesake"}
  /\ MaxMoves \in Nat /\ MaxCrashes \in Nat
  /\ None \notin Refs \cup Kinds \cup Entries \cup Rows /\ "done" \notin Refs

VARIABLES
  \* the container and what runs in it
  child,     \* whether it exists and runs, its SPAWNED_BY and its finish labels
  agent,     \* the manifest whose prompt it got, and what its files and process say
  saidDone,  \* its outbox holds a done report
  \* the host
  worker,    \* the live create or boot worker
  row,       \* the container's job row
  entry,     \* the entry of watch.json
  ripe,      \* the entry's delays that have passed
  asks,      \* what each manifest asks for, None before it is written
  outbox,    \* the orchestrator's manifests
  journal,   \* those in journal.jsonl
  \* the broker process
  pc,        \* the step it is at
  cur,       \* the manifest being handled
  say,       \* what it is about to say
  next,      \* the entry it is about to save
  seenRow,   \* the row as this round read it
  seenChild, \* the container as this round listed it
  status,    \* what the probe answered
  \* what bounds the model, and what the properties remember
  crashes, moves,
  worked,    \* manifests whose worker did its work
  started,   \* manifests answered `started`
  finals,    \* how many final statuses a manifest got
  blocked,   \* manifests whose agent's death was reported
  ended,     \* why a manifest's entry went without a word
  excused    \* manifests without a row, or whose handling a death cut off

inside == <<child, agent, saidDone>>
hostFiles == <<row, entry, ripe, asks, outbox, journal>>
memory == <<pc, cur, say, next, seenRow, seenChild, status>>
bounds == <<crashes, moves>>
history == <<worked, started, finals, blocked, ended, excused>>
vars == <<inside, worker, hostFiles, memory, bounds, history>>

absent == [at |-> "absent", mine |-> FALSE, finished |-> FALSE]
noAgent == [run |-> None, at |-> "none"]
\* Mutant: a launch anew takes over what the last entry knew.
NewEntryCarried(r) ==
  IF entry = None THEN [ref |-> r, ready |-> FALSE, live |-> FALSE, confirmed |-> FALSE]
  ELSE [entry EXCEPT !.ref = r]

NewEntry(r) == [ref |-> r, ready |-> FALSE, live |-> FALSE, confirmed |-> FALSE]

\* An entry removed for reason `why`.
Forgotten(why) ==
  IF entry = None THEN ended ELSE [ended EXCEPT ![entry.ref] = why]

-----------------------------------------------------------------------------
\* The handlers of the orchestrator's manifests.

Goto(step) == pc' = step /\ UNCHANGED <<next, seenRow, seenChild, status>>

EndRound ==
  /\ pc' = "idle" /\ cur' = None /\ say' = "nothing" /\ next' = None
  /\ seenRow' = None /\ seenChild' = absent /\ status' = None

Begin ==
  /\ pc = "idle"
  /\ Goto("serve")
  /\ UNCHANGED <<inside, worker, hostFiles, cur, say, bounds, history>>

owned == child.at # "absent" /\ child.mine

\* _restart_agent: the child is finished, or its agent is known to have ended.
agentOver ==
  \/ child.finished
  \/ agent.at \in {"exited", "vanished"}
  \/ agent.at # "alive" /\ entry # None /\ entry.confirmed

accepts(r) ==
  CASE asks[r] = "spawn"   -> child.at = "absent" /\ worker = None
    [] asks[r] = "restart" -> owned /\ child.at = "stopped" /\ worker = None
    [] asks[r] = "agent"   -> owned /\ child.at = "running" /\ worker = None /\ agentOver
    [] OTHER               -> owned

\* The checks left out (the grant, the runner, a probe that fails) may refuse at any time.
Refuse(r) ==
  /\ pc = "serve" /\ r \in outbox \ journal
  /\ cur' = r /\ say' = "refused" /\ Goto("record")
  /\ UNCHANGED <<inside, worker, hostFiles, bounds, history>>

\* A restart clears the labels of the last run before it registers the
\* watch; with agent_only it registers first.
Accept(r) ==
  /\ pc = "serve" /\ r \in outbox \ journal
  /\ asks[r] \in {"spawn", "restart", "agent"} /\ accepts(r)
  /\ cur' = r
  /\ Goto(IF asks[r] = "restart" THEN "unset" ELSE "register")
  /\ UNCHANGED <<inside, worker, hostFiles, say, bounds, history>>

Unset ==
  /\ pc = "unset"
  /\ child' = [child EXCEPT !.finished = FALSE]
  /\ Goto(IF asks[cur] = "agent" THEN "launch" ELSE "register")
  /\ UNCHANGED <<agent, saidDone, worker, hostFiles, cur, say, bounds, history>>

\* Mutant: the delays of the child's last entry count for the new one.
RegisterKeepsDelays ==
  /\ pc = "register"
  /\ entry' = NewEntry(cur)
  /\ ended' = IF entry # None /\ entry.ref = cur THEN ended ELSE Forgotten("superseded")
  /\ Goto(IF asks[cur] = "agent" THEN "unset" ELSE "launch")
  /\ UNCHANGED <<inside, worker, row, ripe, asks, outbox, journal, cur, say, bounds,
                 worked, started, finals, blocked, excused>>

Register ==
  /\ pc = "register"
  /\ entry' = NewEntry(cur) /\ ripe' = {}
  /\ ended' = IF entry # None /\ entry.ref = cur THEN ended ELSE Forgotten("superseded")
  /\ Goto(IF asks[cur] = "agent" THEN "unset" ELSE "launch")
  /\ UNCHANGED <<inside, worker, row, asks, outbox, journal, cur, say, bounds,
                 worked, started, finals, blocked, excused>>

Launch ==
  /\ pc = "launch" /\ asks[cur] # "agent"
  /\ worker' = [ref |-> cur, at |-> IF asks[cur] = "spawn" THEN "create" ELSE "boot"]
  /\ say' = "started" /\ Goto("row")
  /\ UNCHANGED <<inside, hostFiles, cur, bounds, history>>

\* The row is bookkeeping: a failed insert costs only the tracking.
InsertRow ==
  /\ pc = "row"
  /\ \/ row' = [ref |-> cur, phase |-> "working"] /\ UNCHANGED excused
     \/ excused' = excused \cup {cur} /\ UNCHANGED row
  /\ Goto("record")
  /\ UNCHANGED <<inside, worker, entry, ripe, asks, outbox, journal, cur, say, bounds,
                 worked, started, finals, blocked, ended>>

\* Mutant: the files of the last run outlive its prompt.
promptedOver(r) == IF agent.at = "none" THEN [run |-> r, at |-> "prompted"] ELSE agent

\* write_prompt: the pid and exit files of the last run go first.
prompted(r) == [run |-> r, at |-> "prompted"]

Relaunch ==
  /\ pc = "launch" /\ asks[cur] = "agent"
  /\ child.at = "running"
  /\ agent' = prompted(cur)
  /\ say' = "started" /\ Goto("record")
  /\ UNCHANGED <<child, saidDone, worker, hostFiles, cur, bounds, history>>

halted == [agent EXCEPT !.at = IF @ = "alive" THEN "vanished" ELSE @]

\* A call of the handler raises: a watch it registered is dropped. relaunch kills the old
\* agent's window and writes the prompt before it starts the new agent.
LaunchFails ==
  /\ pc \in {"unset", "launch"}
  /\ say' = "refused"
  /\ agent' \in {agent} \cup IF pc = "launch" /\ asks[cur] = "agent" /\ child.at = "running"
                           THEN {halted, prompted(cur)} ELSE {}
  /\ Goto(IF pc = "unset" /\ asks[cur] = "restart" THEN "record" ELSE "drop")
  /\ UNCHANGED <<child, saidDone, worker, hostFiles, cur, bounds, history>>

DropWatch ==
  /\ pc = "drop"
  /\ entry' = None /\ ripe' = {}
  /\ Goto("record")
  /\ UNCHANGED <<inside, worker, row, asks, outbox, journal, cur, say, bounds, history>>

StopChild(r) ==
  /\ pc = "serve" /\ r \in outbox \ journal
  /\ asks[r] = "stop" /\ accepts(r)
  /\ child' = [child EXCEPT !.at = "stopped"] /\ agent' = halted
  /\ cur' = r /\ say' = "answered" /\ Goto("cancel")
  /\ UNCHANGED <<saidDone, worker, hostFiles, bounds, history>>

DestroyChild(r) ==
  /\ pc = "serve" /\ r \in outbox \ journal
  /\ asks[r] = "destroy" /\ accepts(r)
  /\ child' = absent /\ agent' = noAgent /\ saidDone' = FALSE /\ row' = None
  /\ cur' = r /\ say' = "answered" /\ Goto("cancel")
  /\ UNCHANGED <<worker, entry, ripe, asks, outbox, journal, bounds, history>>

\* The child's own report: its label first, then the watch.
TakeDone ==
  /\ pc = "serve" /\ saidDone
  /\ owned /\ child.at = "running"
  /\ child' = [child EXCEPT !.finished = TRUE]
  /\ cur' = "done" /\ Goto("cancel")
  /\ UNCHANGED <<agent, saidDone, worker, hostFiles, say, bounds, history>>

\* watch.cancel; the report's own journal and answer end here.
Cancel ==
  /\ pc = "cancel"
  /\ entry' = None /\ ripe' = {}
  /\ ended' = Forgotten(IF cur = "done" THEN "done" ELSE "stopped")
  /\ saidDone' = (saidDone /\ cur # "done")
  /\ cur' = IF cur = "done" THEN None ELSE cur
  /\ Goto(IF cur = "done" THEN "serve" ELSE "record")
  /\ UNCHANGED <<child, agent, worker, row, asks, outbox, journal, say, bounds,
                 worked, started, finals, blocked, excused>>

Record ==
  /\ pc = "record"
  /\ journal' = journal \cup {cur}
  /\ Goto("reply")
  /\ UNCHANGED <<inside, worker, row, entry, ripe, asks, outbox, cur, say, bounds, history>>

Reply ==
  /\ pc = "reply"
  /\ started' = IF say = "started" THEN started \cup {cur} ELSE started
  /\ finals' = IF say = "started" THEN finals ELSE [finals EXCEPT ![cur] = @ + 1]
  /\ outbox' = outbox \ {cur}
  /\ cur' = None /\ say' = "nothing" /\ Goto("serve")
  /\ UNCHANGED <<inside, worker, row, entry, ripe, asks, journal, bounds,
                 worked, blocked, ended, excused>>

\* Manifests whose handling a death cut off after the journal entry.
DeleteSeen ==
  /\ pc = "serve"
  /\ outbox \cap journal # {}
  /\ outbox' = outbox \ journal
  /\ UNCHANGED <<inside, worker, row, entry, ripe, asks, journal, memory, bounds, history>>

EndServe ==
  /\ pc = "serve" /\ outbox = {}
  /\ ~(saidDone /\ owned /\ child.at = "running")
  /\ IF entry = None THEN EndRound ELSE Goto("jobs") /\ UNCHANGED <<cur, say>>
  /\ UNCHANGED <<inside, worker, hostFiles, bounds, history>>

-----------------------------------------------------------------------------
\* The settlement of the watch entry.

ReadJobs ==
  /\ pc = "jobs"
  /\ seenRow' = row /\ pc' = "nodes"
  /\ UNCHANGED <<inside, worker, hostFiles, cur, say, next, seenChild, status, bounds, history>>

\* The job database cannot be read, or the listing after it fails.
Unreadable ==
  /\ pc \in {"jobs", "reread"}
  /\ EndRound
  /\ UNCHANGED <<inside, worker, hostFiles, bounds, history>>

ListNodes ==
  /\ pc = "nodes"
  /\ seenChild' = child /\ pc' = "judge"
  /\ UNCHANGED <<inside, worker, hostFiles, cur, say, next, seenRow, status, bounds, history>>

working(r) == r # None /\ r.phase = "working"

\* worker_alive(row.pid), now: a row names the worker of the manifest it was inserted for.
alive(r) == worker # None /\ worker.ref = r.ref

\* The container is up, or is one that need not be created.
there == (seenChild.at # "absent" /\ seenChild.mine) \/ asks[entry.ref] # "spawn"

verdict(r) ==
  IF working(r) /\ alive(r) THEN "wait"
  ELSE IF r # None /\ r.ref = entry.ref THEN IF working(r) THEN "died" ELSE "failed"
  ELSE IF there THEN "up"
  ELSE IF "grace" \in ripe THEN "missing" ELSE "wait"

\* _settle_agent_watch: a namesake, or a finished child, is not watched.
over == seenChild.at # "absent" /\ (~seenChild.mine \/ seenChild.finished)

Discard ==
  /\ pc = "judge" /\ over
  /\ entry' = None /\ ripe' = {}
  /\ ended' = Forgotten(IF seenChild.mine THEN "done" ELSE "foreign")
  /\ EndRound
  /\ UNCHANGED <<inside, worker, row, asks, outbox, journal, bounds,
                 worked, started, finals, blocked, excused>>

judged ==
  IF entry.confirmed \/ asks[entry.ref] = "agent" THEN "up" ELSE verdict(seenRow)

\* Where a verdict leads: to a later round, to the probe, or to a final `failed`.
Follow(v) ==
  IF v = "wait"
  THEN EndRound
  ELSE /\ say' = v /\ pc' = IF v = "up" THEN "probe" ELSE "deliver"
       /\ next' = None /\ seenRow' = None /\ UNCHANGED <<cur, seenChild, status>>

\* Mutant: the verdict on the row read before the containers were listed stands.
doubtfulNever == FALSE

\* checked_verdict: a failure no row states is confirmed by a fresh row.
doubtful == judged \in {"died", "missing"} /\ working(seenRow)

Judge ==
  /\ pc = "judge" /\ ~over
  /\ IF doubtful THEN say' = judged /\ Goto("reread") /\ UNCHANGED cur
                 ELSE Follow(judged)
  /\ UNCHANGED <<inside, worker, hostFiles, bounds, history>>

Reread ==
  /\ pc = "reread"
  /\ Follow(IF row = seenRow THEN say ELSE verdict(row))
  /\ UNCHANGED <<inside, worker, hostFiles, bounds, history>>

Probe ==
  /\ pc = "probe"
  /\ status' = IF seenChild.at = "running" /\ child.at = "running" THEN agent ELSE None
  /\ pc' = "advance"
  /\ UNCHANGED <<inside, worker, hostFiles, cur, say, next, seenRow, seenChild, bounds, history>>

ProbeFails ==
  /\ pc = "probe" /\ seenChild.at = "running"
  /\ status' = None
  /\ pc' = "advance"
  /\ UNCHANGED <<inside, worker, hostFiles, cur, say, next, seenRow, seenChild, bounds, history>>

\* Mutant: the 120 seconds for the agent's start never end.
lateNever == FALSE

late == "ready" \in ripe

\* Mutant: an agent that ends after its readiness was reported is no news.
overUnconfirmed(e) == ~e.confirmed /\ (status.at = "exited" \/ e.live \/ late)

\* An agent that does not run has ended, or is not to start any more.
overFor(e) == e.confirmed \/ status.at = "exited" \/ e.live \/ late

\* advance: the entry to save and what to say; `equipped`: the child has the jailbee command.
Advanced(equipped) ==
  LET e == [entry EXCEPT !.ready = TRUE]
      Keep(x) == [entry |-> x, say |-> "nothing"]
      Drop(word) == [entry |-> None, say |-> word]
  IN IF seenChild.at # "absent" /\ seenChild.finished
     THEN IF entry.confirmed THEN Drop("nothing") ELSE Drop("finished")
     ELSE IF seenChild.at # "running" THEN Drop("stopped")
     ELSE IF status = None THEN Keep(entry)
     ELSE IF status.at # "alive" THEN IF overFor(e) THEN Drop("exited") ELSE Keep(e)
     ELSE IF e.confirmed THEN Keep(e)
     ELSE IF ~e.live THEN Keep([e EXCEPT !.live = TRUE])
     ELSE IF "live" \notin ripe THEN Keep(e)
     ELSE IF equipped THEN [entry |-> [e EXCEPT !.confirmed = TRUE], say |-> "ready"]
     ELSE Drop("unequipped")

Advance ==
  /\ pc = "advance"
  /\ \E equipped \in BOOLEAN :
       LET a == Advanced(equipped)
       IN /\ next' = a.entry /\ say' = a.say
          /\ pc' = IF a.say = "nothing" THEN "save" ELSE "deliver"
  /\ UNCHANGED <<inside, worker, hostFiles, cur, seenRow, seenChild, status, bounds, history>>

\* Deliver first, then save: a death in between repeats a status.
Deliver ==
  /\ pc = "deliver"
  /\ IF entry.confirmed
     THEN blocked' = blocked \cup {entry.ref} /\ UNCHANGED finals
     ELSE finals' = [finals EXCEPT ![entry.ref] = @ + 1] /\ UNCHANGED blocked
  /\ Goto("save")
  /\ UNCHANGED <<inside, worker, hostFiles, cur, say, bounds,
                 worked, started, ended, excused>>

Save ==
  /\ pc = "save"
  /\ entry' = next
  /\ ripe' = IF next = None THEN {} ELSE ripe
  /\ EndRound
  /\ UNCHANGED <<inside, worker, row, asks, outbox, journal, bounds, history>>

-----------------------------------------------------------------------------
\* Time, and the broker's death.

\* Delays that run: since the registration, the first probe, the first live probe.
delays == {"grace"} \cup (IF entry.ready THEN {"ready"} ELSE {})
                    \cup (IF entry.live THEN {"live"} ELSE {})

\* A round has one `now`: a delay passes between two rounds.
Ripen ==
  /\ pc = "idle" /\ entry # None
  /\ \E past \in SUBSET (delays \ ripe) : past # {} /\ ripe' = ripe \cup past
  /\ UNCHANGED <<inside, worker, row, entry, asks, outbox, journal, memory, bounds, history>>

\* The broker dies; systemd starts it again.
Die ==
  /\ pc # "idle" /\ crashes < MaxCrashes
  /\ crashes' = crashes + 1
  /\ excused' = IF cur \in Refs /\ pc \in {"unset", "register", "launch", "row", "drop", "record"}
                THEN excused \cup {cur} ELSE excused
  /\ EndRound
  /\ UNCHANGED <<inside, worker, hostFiles, moves,
                 worked, started, finals, blocked, ended>>

-----------------------------------------------------------------------------
\* The workers, which no broker waits for.

WorkerAt(step) == worker # None /\ worker.at = step
WorkerGoes(step) == worker' = [worker EXCEPT !.at = step]

Create ==
  /\ WorkerAt("create") /\ child.at = "absent"
  /\ child' = [at |-> "running", mine |-> TRUE, finished |-> FALSE]
  /\ WorkerGoes("prompt")
  /\ UNCHANGED <<agent, saidDone, hostFiles, memory, bounds, history>>

Boot ==
  /\ WorkerAt("boot") /\ child.at = "stopped"
  /\ child' = [child EXCEPT !.at = "running"]
  /\ WorkerGoes("prompt")
  /\ UNCHANGED <<agent, saidDone, hostFiles, memory, bounds, history>>

WritePrompt ==
  /\ WorkerAt("prompt") /\ child.at = "running"
  /\ agent' = prompted(worker.ref)
  /\ WorkerGoes("finish")
  /\ UNCHANGED <<child, saidDone, hostFiles, memory, bounds, history>>

\* The worker deletes its row and exits, in that order.
FinishWork ==
  /\ WorkerAt("finish") /\ pc # "row"
  /\ row' = None
  /\ worked' = worked \cup {worker.ref}
  /\ WorkerGoes("exit")
  /\ UNCHANGED <<inside, entry, ripe, asks, outbox, journal, memory, bounds,
                 started, finals, blocked, ended, excused>>

Exit ==
  /\ WorkerAt("exit")
  /\ worker' = None
  /\ UNCHANGED <<inside, hostFiles, memory, bounds, history>>

FailWork ==
  /\ worker # None /\ worker.at # "exit" /\ pc # "row"
  /\ row' = IF row = None THEN None ELSE [row EXCEPT !.phase = "failed"]
  /\ worker' = None
  /\ UNCHANGED <<inside, entry, ripe, asks, outbox, journal, memory, bounds, history>>

KillWork ==
  /\ worker # None /\ worker.at # "exit" /\ moves < MaxMoves
  /\ moves' = moves + 1
  /\ worker' = None
  /\ UNCHANGED <<inside, hostFiles, memory, crashes, history>>

-----------------------------------------------------------------------------
\* The agent in the child, and the user.

AgentStarts ==
  /\ agent.at = "prompted" /\ child.at = "running"
  /\ agent' = [agent EXCEPT !.at = "alive"]
  /\ UNCHANGED <<child, saidDone, worker, hostFiles, memory, bounds, history>>

\* It exits, or its wrapper dies with it and leaves no exit status.
AgentEnds ==
  /\ agent.at = "alive"
  /\ \E how \in {"exited", "vanished"} : agent' = [agent EXCEPT !.at = how]
  /\ UNCHANGED <<child, saidDone, worker, hostFiles, memory, bounds, history>>

AgentReports ==
  /\ agent.at = "alive" /\ ~saidDone /\ ~child.finished
  /\ saidDone' = TRUE
  /\ UNCHANGED <<child, agent, worker, hostFiles, memory, bounds, history>>

UserMoved(move) ==
  /\ move \in UserMoves /\ moves < MaxMoves
  /\ moves' = moves + 1
  /\ UNCHANGED <<worker, entry, ripe, asks, outbox, journal, memory, crashes, history>>

UserStops ==
  /\ child.at = "running"
  /\ child' = [child EXCEPT !.at = "stopped"] /\ agent' = halted
  /\ UserMoved("stop") /\ UNCHANGED <<saidDone, row>>

UserStarts ==
  /\ child.at = "stopped"
  /\ child' = [child EXCEPT !.at = "running"]
  /\ UserMoved("start") /\ UNCHANGED <<agent, saidDone, row>>

UserDestroys ==
  /\ child.at # "absent"
  /\ child' = absent /\ agent' = noAgent /\ saidDone' = FALSE /\ row' = None
  /\ UserMoved("destroy")

UserTakesName ==
  /\ child.at = "absent"
  /\ child' = [at |-> "running", mine |-> FALSE, finished |-> FALSE]
  /\ UserMoved("namesake") /\ UNCHANGED <<agent, saidDone, row>>

-----------------------------------------------------------------------------
Init ==
  /\ child = absent /\ agent = noAgent /\ saidDone = FALSE
  /\ worker = None /\ row = None /\ entry = None /\ ripe = {}
  /\ asks = [r \in Refs |-> None] /\ outbox = {} /\ journal = {}
  /\ pc = "idle" /\ cur = None /\ say = "nothing" /\ next = None
  /\ seenRow = None /\ seenChild = absent /\ status = None
  /\ crashes = 0 /\ moves = 0 /\ worked = {} /\ started = {}
  /\ finals = [r \in Refs |-> 0] /\ blocked = {}
  /\ ended = [r \in Refs |-> "no"] /\ excused = {}

\* A manifest sent during a round is as good as sent after it.
Send(r) ==
  /\ pc = "idle" /\ r \notin outbox \cup journal
  /\ \E k \in Kinds : asks' = [asks EXCEPT ![r] = k]
  /\ outbox' = outbox \cup {r}
  /\ UNCHANGED <<inside, worker, row, entry, ripe, journal, memory, bounds, history>>

Settlement ==
  \/ ReadJobs \/ Unreadable \/ ListNodes \/ Discard \/ Judge \/ Reread
  \/ Probe \/ ProbeFails \/ Advance \/ Deliver \/ Save

Broker ==
  \/ Begin \/ EndServe \/ DeleteSeen \/ Settlement
  \/ Unset \/ Register \/ Launch \/ InsertRow \/ Relaunch \/ LaunchFails \/ DropWatch
  \/ TakeDone \/ Cancel \/ Record \/ Reply
  \/ \E r \in Refs : Refuse(r) \/ Accept(r) \/ StopChild(r) \/ DestroyChild(r)

Worker == Create \/ Boot \/ WritePrompt \/ FinishWork \/ Exit \/ FailWork

Next ==
  \/ Broker \/ Worker \/ KillWork \/ Die
  \/ AgentStarts \/ AgentEnds \/ AgentReports
  \/ UserStops \/ UserStarts \/ UserDestroys \/ UserTakesName
  \/ \E r \in Refs : Send(r)
  \/ Ripen

Spec == Init /\ [][Next]_vars

\* Rounds follow each other, workers end, time passes, and now and then the
\* job database and the child can be read.
FairSpec ==
  /\ Spec
  /\ WF_vars(Broker) /\ WF_vars(Worker)
  /\ SF_vars(ReadJobs) /\ SF_vars(Reread) /\ SF_vars(Probe)
  /\ SF_vars(Ripen /\ ripe' = delays)

-----------------------------------------------------------------------------
\* Every variable has its type; an entry's delays run only from what they
\* count from, and a confirmed entry was seen alive before (advance).
TypeOK ==
  /\ child \in [at : {"absent", "stopped", "running"}, mine : BOOLEAN, finished : BOOLEAN]
  /\ agent \in [run : Refs \cup {None},
                at : {"none", "prompted", "alive", "exited", "vanished"}]
  /\ saidDone \in BOOLEAN
  /\ worker \in [ref : Refs, at : {"create", "boot", "prompt", "finish", "exit"}] \cup {None}
  /\ row \in Rows \cup {None} /\ seenRow \in Rows \cup {None}
  /\ {entry, next} \subseteq Entries \cup {None}
  /\ entry = None => ripe = {}
  /\ entry # None => /\ ripe \subseteq delays
                     /\ entry.confirmed => entry.live /\ entry.ready
  /\ asks \in [Refs -> Kinds \cup {None}]
  /\ outbox \cup journal \cup started \cup blocked \cup excused \cup worked \subseteq Refs
  /\ cur \in Refs \cup {None, "done"}
  /\ crashes \in 0..MaxCrashes /\ moves \in 0..MaxMoves
  /\ finals \in [Refs -> Nat]
  /\ ended \in [Refs -> {"no", "superseded", "stopped", "done", "foreign"}]

\* The broker never says that a worker died which did its work: the row it
\* judged by is confirmed once the pid is found gone (checked_verdict).
NoFalseDeath ==
  (pc = "deliver" /\ say = "died" /\ entry.ref \notin excused)
    => entry.ref \notin worked

\* What the broker says of an agent, it says of the agent of this run: files
\* the last run left in the container never speak for the next (write_prompt).
AgentIsThisRuns ==
  (pc = "deliver" /\ say \in {"ready", "exited"} /\ status.run # None)
    => status.run = entry.ref \/ entry.ref \in excused

\* A launch answered `started` is watched, has its final status, or was ended
\* by a stop, a report, a later launch or another owner: no death of the
\* broker loses it (register before launch, deliver before save). No
\* manifest has a second final status, but for one repeated by each death.
StatusKept ==
  /\ \A r \in started :
       \/ finals[r] > 0 \/ ended[r] # "no"
       \/ entry # None /\ entry.ref = r
  /\ \A r \in Refs : finals[r] <= 1 + crashes

\* Every launch is settled: the watch entry is confirmed or goes
\* (_settle_agent_watch, WATCH_GRACE_S, the 120 seconds of advance).
Settles ==
  \A r \in Refs :
    (entry # None /\ entry.ref = r /\ ~entry.confirmed)
      ~> (entry = None \/ entry.ref # r \/ entry.confirmed)

\* The death of an agent reported ready reaches the orchestrator, unless the
\* child reported done, was stopped for it, or was launched anew.
DeathTold ==
  \A r \in Refs :
    (entry # None /\ entry.ref = r /\ entry.confirmed /\ agent.run = r
       /\ agent.at \in {"exited", "vanished"})
      ~> (r \in blocked \/ ended[r] # "no")
=============================================================================
