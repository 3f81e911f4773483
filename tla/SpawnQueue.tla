------------------------------ MODULE SpawnQueue ------------------------------
(***************************************************************************)
(* Spawn and restart requests of orchestrators, as the host broker serves  *)
(* them: the limit on running children, the FIFO queue of requests that    *)
(* wait for a slot, the reservations that stand for detached workers, and  *)
(* the broker round (tick) that works from a listing of the containers     *)
(* while workers, users and the operator go on.                            *)
(*                                                                         *)
(* Code: orchestration/broker.py (tick, _handle_raw, _settle_queue),       *)
(* orchestration/actions.py (handle_spawn, handle_restart, drain_queue),   *)
(* orchestration/state.py (queue.json, reservations.json), adoption.py.    *)
(* Orchestrators are taken to be running all the time: what happens to the *)
(* messages of a stopped one is another module's subject.                  *)
(***************************************************************************)
EXTENDS Integers, Sequences, FiniteSets

CONSTANTS
  Orch,        \* orchestrator containers, all of one repo
  Child,       \* names of child containers
  Req,         \* spawn and restart manifests
  Who,         \* Who[r]: the orchestrator that writes r
  Target,      \* Target[r]: the child r names
  Kind,        \* Kind[r]: "spawn" or "restart"
  Owner,       \* Owner[c]: the parent of c before the first round, or None
  Status,      \* Status[c]: the Incus status of c before the first round
  UserMoves,   \* what users and the operator do besides destroying children
  MaxLimit,    \* bound on max_running_children
  MaxCrashes,  \* bound on the broker's deaths
  None         \* no orchestrator, no request

ASSUME ConstantsAssumption ==
  /\ IsFiniteSet(Child) /\ IsFiniteSet(Req)
  /\ Who \in [Req -> Orch] /\ Target \in [Req -> Child]
  /\ Kind \in [Req -> {"spawn", "restart"}]
  /\ Owner \in [Child -> Orch \cup {None}]
  /\ Status \in [Child -> {"absent", "stopped", "running"}]
  /\ \A c \in Child : Status[c] = "running" => Owner[c] = None
  /\ UserMoves \subseteq {"start", "adopt", "grant"}
  /\ MaxLimit \in Nat \ {0} /\ MaxCrashes \in Nat
  /\ None \notin Orch /\ None \notin Req /\ None \notin Child

\* A detached worker process: the request it serves and which launch for it this is.
Worker == [req : Req, n : 1..(MaxCrashes + 1)]

VARIABLES
  \* Incus, the host's processes and the operator's grants
  status,      \* status[c]: the container's Incus status
  parent,      \* parent[c]: its SPAWNED_BY label
  limit,       \* limit[o]: max_running_children of o's grant label, 0 for no grant
  workers,     \* live create and boot workers; they survive the broker
  made,        \* create workers that created their instance
  jobs,        \* workers with a live row in the job table
  adopting,    \* the adoption between its check and its label, or None
  \* files
  reserved,    \* reservations.json
  queue,       \* queue.json: queue[o] is FIFO
  outbox,      \* manifests still in an orchestrator's outbox
  journal,     \* manifests in journal.jsonl
  \* the broker process
  pc,          \* the step of the round the broker is at
  snap,        \* snap[o]: the listing the round works from when it serves o
  todo,        \* manifests this round read and has still to handle
  toSettle,    \* orchestrators whose queue this round has still to settle
  cur,         \* the request being handled or started
  outcome,     \* the outcome its handler returned
  draining,    \* the orchestrator whose queue is being drained
  free,        \* slots drain_queue may still fill
  results,     \* drained requests and outcomes, reported after the drain
  \* what bounds the model, and what the properties remember
  sent,        \* manifests written so far
  crashes,     \* the broker's deaths so far
  launches,    \* launches[r]: workers launched for r
  told,        \* told[r]: statuses delivered for r
  stamp,       \* stamp[r]: when r was last queued, 0 for never
  peak,        \* peak[o]: the highest limit o ever had
  outside,     \* children running, or about to, that the limit cannot answer for: a
               \* user started or adopted them, or their reservation was lost
  retried,     \* requests acted on but not journalled because the broker died
  dropped      \* requests popped from a queue and lost to a death or an I/O error

labels == <<status, parent>>
processes == <<workers, made, jobs>>
operator == <<limit, peak, adopting>>
files == <<reserved, queue, outbox, journal>>
round == <<snap, todo, toSettle>>
handling == <<cur, outcome>>
drain == <<draining, free, results>>
memory == <<pc, round, handling, drain>>
bounds == <<sent, crashes>>
fate == <<launches, told, stamp, retried, dropped>>
vars == <<labels, processes, operator, files, memory, bounds, fate, outside>>

-----------------------------------------------------------------------------
\* The slot accounting.

childOf(w) == Target[w.req]
ownerOf(w) == Who[w.req]
busyWith(c) == {w \in workers : childOf(w) = c}

\* actions.live_create_jobs: boot rows do not count.
jobNames == {childOf(w) : w \in {x \in jobs : Kind[x.req] = "spawn"}}

\* Mutant: a reservation counts only while its worker lives.
reservedByLive(o) == {childOf(w) : w \in {x \in reserved \cap workers : ownerOf(x) = o}}

\* actions.live_reservations: "even if a worker just exited".
reservedBy(o) == {childOf(w) : w \in {x \in reserved : ownerOf(x) = o}}

\* Mutant: only the job table says which names are taken.
creatingJobs == jobNames

\* actions.creating_children: names that are taken, whoever asked for them.
creating == jobNames \cup {childOf(w) : w \in reserved}

nothingListed == [o \in Orch |-> [status |-> [c \in Child |-> "absent"],
                                  parent |-> [c \in Child |-> None],
                                  limit |-> [p \in Orch |-> 0]]]

listed(lims) == [status |-> status, parent |-> parent, limit |-> lims]
containers == listed(limit)

\* Mutant: running children and create jobs alone.
slotsUnreserved(o, listing) ==
  {c \in Child : listing.status[c] = "running" /\ listing.parent[c] = o}
    \cup {c \in jobNames : listing.parent[c] = o \/ listing.status[c] = "absent"}

\* actions.slot_breakdown over a listing: running children of o, create jobs that are
\* o's or have no container yet, and o's reservations, each name counted once.
slots(o, listing) ==
  {c \in Child : listing.status[c] = "running" /\ listing.parent[c] = o}
    \cup {c \in jobNames : listing.parent[c] = o \/ listing.status[c] = "absent"}
    \cup reservedBy(o)

\* Mutant: a free slot goes to whoever asks.
mayStartAnyway(r) == Cardinality(slots(Who[r], snap[Who[r]])) < snap[Who[r]].limit[Who[r]]

\* handle_spawn: "A non-empty queue goes first: a new spawn never overtakes it."
mayStart(r) ==
  /\ queue[Who[r]] = <<>>
  /\ Cardinality(slots(Who[r], snap[Who[r]])) < snap[Who[r]].limit[Who[r]]

queuedNames(o) == {Target[queue[o][i]] : i \in DOMAIN queue[o]}

\* What the containers must look like for r to start at all.
ready(r) ==
  LET seen == snap[Who[r]] c == Target[r] IN
  /\ c \notin creating
  /\ IF Kind[r] = "spawn"
     THEN seen.status[c] = "absent" /\ status[c] = "absent"
     ELSE seen.parent[c] = Who[r] /\ seen.status[c] = "stopped"

\* Mutant: a name that is already queued is accepted again.
acceptableTwice(r) == snap[Who[r]].limit[Who[r]] # 0 /\ ready(r)

\* plan_spawn and _handle_restart_locked.
acceptable(r) ==
  /\ snap[Who[r]].limit[Who[r]] # 0
  /\ Target[r] \notin queuedNames(Who[r])
  /\ ready(r)

\* Mutant: reservations are never pruned.
allReservations == reserved

\* prune_reservations.
liveReservations == reserved \cap workers

\* Mutant: the pop stays in memory.
afterPopUnsaved(o) == queue[o]

\* drain_queue and drop_queue: what they leave in queue.json.
afterPop(o) == Tail(queue[o])
afterDrop(o) == <<>>

\* Mutant: only starts are reported.
reportedStarts(r) ==
  {"started" : i \in {j \in DOMAIN results : results[j] = <<r, "started">>}}

\* _settle_queue: the statuses a finished drain reports for r.
reported(r) == {results[i][2] : i \in {j \in DOMAIN results : results[j][1] = r}}

lastStamp == CHOOSE s \in {stamp[q] : q \in Req} : \A q \in Req : stamp[q] <= s

popped == ({cur} \cup {results[i][1] : i \in DOMAIN results}) \ {None}

Init ==
  /\ status = Status /\ parent = Owner
  /\ limit \in [Orch -> 1..MaxLimit] /\ peak = limit /\ adopting = None
  /\ workers = {} /\ made = {} /\ jobs = {}
  /\ reserved = {} /\ queue = [o \in Orch |-> <<>>] /\ outbox = {} /\ journal = {}
  /\ pc = "idle" /\ snap = nothingListed /\ todo = {} /\ toSettle = {}
  /\ cur = None /\ outcome = "none" /\ draining = None /\ free = 0 /\ results = <<>>
  /\ sent = {} /\ crashes = 0 /\ outside = {} /\ retried = {} /\ dropped = {}
  /\ launches = [r \in Req |-> 0] /\ told = [r \in Req |-> {}]
  /\ stamp = [r \in Req |-> 0]

-----------------------------------------------------------------------------
\* The broker's round.

\* tick: finished workers leave reservations.json before the listing that shows their
\* containers is taken.
Prune ==
  /\ pc = "idle"
  /\ pc' = "list"
  /\ reserved' = liveReservations
  /\ UNCHANGED <<labels, processes, operator, queue, outbox, journal, round, handling,
                 drain, bounds, fate, outside>>

\* tick: the listing, then the outboxes; one that cannot be read is left for later.
List ==
  /\ pc = "list"
  /\ pc' = "serve"
  /\ snap' = [o \in Orch |-> containers]
  /\ \E served \in SUBSET {o \in Orch : limit[o] # 0} :
       todo' = {r \in outbox : Who[r] \in served}
  /\ UNCHANGED <<labels, processes, operator, files, toSettle, handling, drain, bounds,
                 fate, outside>>

\* _handle_raw: a manifest in the journal is only deleted.
SkipSeen(r) ==
  /\ pc = "serve" /\ r \in todo \cap journal
  /\ outbox' = outbox \ {r}
  /\ todo' = todo \ {r}
  /\ UNCHANGED <<labels, processes, operator, reserved, queue, journal, pc, snap, toSettle,
                 handling, drain, bounds, fate, outside>>

\* start_create and launch_boot_background: the detached worker, then its best-effort
\* job row, which replaces an older one of the same container.
Launch(r) ==
  LET w == [req |-> r, n |-> launches[r] + 1] IN
  /\ w \in Worker
  /\ workers' = workers \cup {w}
  /\ jobs' \in {jobs, {x \in jobs : childOf(x) # Target[r]} \cup {w}}
  /\ launches' = [launches EXCEPT ![r] = @ + 1]
  /\ cur' = r /\ outcome' = "started" /\ pc' = "reserve"
  /\ UNCHANGED <<labels, made, operator, files, round, drain, bounds, told, stamp,
                 retried, dropped, outside>>

\* handle_spawn and handle_restart: a slot is free and nobody waits. A container that
\* has gone cannot be booted.
StartNow(r) ==
  /\ pc = "serve" /\ r \in todo \ journal
  /\ acceptable(r) /\ mayStart(r)
  /\ Kind[r] = "restart" => status[Target[r]] # "absent"
  /\ Launch(r)

\* handle_spawn and handle_restart: the request waits its turn.
Enqueue(r) ==
  /\ pc = "serve" /\ r \in todo \ journal
  /\ acceptable(r) /\ ~mayStart(r)
  /\ queue' = [queue EXCEPT ![Who[r]] = Append(@, r)]
  /\ stamp' = [stamp EXCEPT ![r] = 1 + lastStamp]
  /\ cur' = r /\ outcome' = "queued" /\ pc' = "record"
  /\ UNCHANGED <<labels, processes, operator, reserved, outbox, journal, round, drain,
                 bounds, launches, told, retried, dropped, outside>>

\* The request is refused: it is not acceptable, or a profile, rights, runner, PR, fork
\* or host check of the handler fails, as any may at any time.
Refuse(r) ==
  /\ pc = "serve" /\ r \in todo \ journal
  /\ cur' = r /\ outcome' = "refused" /\ pc' = "record"
  /\ UNCHANGED <<labels, processes, operator, files, round, drain, bounds, fate, outside>>

\* start_child and _boot: the reservation of the launched worker replaces an older one
\* for the same child; an I/O error is only logged.
Reserve ==
  /\ pc = "reserve"
  /\ \/ /\ reserved' = {w \in reserved : ownerOf(w) # Who[cur] \/ childOf(w) # Target[cur]}
                         \cup {[req |-> cur, n |-> launches[cur]]}
        /\ UNCHANGED outside
     \/ /\ outside' = outside \cup {Target[cur]}
        /\ UNCHANGED reserved
  /\ IF draining = None
     THEN pc' = "record" /\ UNCHANGED <<handling, drain>>
     ELSE /\ pc' = "drain" /\ cur' = None /\ outcome' = "none"
          /\ free' = free - 1
          /\ results' = Append(results, <<cur, "started">>)
          /\ UNCHANGED draining
  /\ UNCHANGED <<labels, processes, operator, queue, outbox, journal, round, bounds, fate>>

\* _handle_raw: the journal entry follows the action.
Record ==
  /\ pc = "record"
  /\ journal' = journal \cup {cur}
  /\ pc' = "answer"
  /\ UNCHANGED <<labels, processes, operator, reserved, queue, outbox, round, handling,
                 drain, bounds, fate, outside>>

\* _handle_raw: after a start the orchestrator's listing is taken anew, unless that
\* fails; its grant stays the one of the round. Then the status is delivered and the
\* manifest deleted.
Answer ==
  /\ pc = "answer"
  /\ snap' \in {snap} \cup
       (IF outcome = "started"
        THEN {[snap EXCEPT ![Who[cur]] = listed(snap[Who[cur]].limit)]}
        ELSE {})
  /\ told' = [told EXCEPT ![cur] = @ \cup {outcome}]
  /\ outbox' = outbox \ {cur}
  /\ todo' = todo \ {cur}
  /\ cur' = None /\ outcome' = "none" /\ pc' = "serve"
  /\ UNCHANGED <<labels, processes, operator, reserved, queue, journal, toSettle, drain,
                 bounds, launches, stamp, retried, dropped, outside>>

\* tick: with every outbox handled the containers are listed anew (reservations are not
\* pruned again), and each orchestrator's queue is settled.
Refresh ==
  /\ pc = "serve" /\ todo = {}
  /\ pc' = "settle"
  /\ snap' = [o \in Orch |-> containers]
  /\ toSettle' = Orch
  /\ UNCHANGED <<labels, processes, operator, files, todo, handling, drain, bounds, fate,
                 outside>>

\* _settle_queue: the grant is gone, so the queue is dropped and every entry refused.
DropQueue(o) ==
  /\ pc = "settle" /\ o \in toSettle /\ snap[o].limit[o] = 0
  /\ queue' = [queue EXCEPT ![o] = afterDrop(o)]
  /\ told' = [r \in Req |-> told[r] \cup
                (IF \E i \in DOMAIN queue[o] : queue[o][i] = r THEN {"refused"} ELSE {})]
  /\ toSettle' = toSettle \ {o}
  /\ UNCHANGED <<labels, processes, operator, reserved, outbox, journal, pc, snap, todo,
                 handling, drain, bounds, launches, stamp, retried, dropped, outside>>

\* drain_queue: the free slots are counted once, then counted down.
BeginDrain(o) ==
  /\ pc = "settle" /\ o \in toSettle /\ snap[o].limit[o] # 0
  /\ draining' = o
  /\ free' = snap[o].limit[o] - Cardinality(slots(o, snap[o]))
  /\ toSettle' = toSettle \ {o}
  /\ pc' = "drain"
  /\ UNCHANGED <<labels, processes, operator, files, snap, todo, handling, results, bounds,
                 fate, outside>>

\* drain_queue: the head leaves queue.json before anything starts.
Pop ==
  /\ pc = "drain" /\ queue[draining] # <<>> /\ free > 0
  /\ cur' = Head(queue[draining])
  /\ queue' = [queue EXCEPT ![draining] = afterPop(draining)]
  /\ pc' = "start"
  /\ UNCHANGED <<labels, processes, operator, reserved, outbox, journal, round, outcome,
                 drain, bounds, fate, outside>>

\* _start_spawn and _start_restart: everything is checked again.
StartQueued ==
  /\ pc = "start" /\ ready(cur)
  /\ Kind[cur] = "restart" => status[Target[cur]] # "absent"
  /\ Launch(cur)

RefuseQueued ==
  /\ pc = "start"
  /\ results' = Append(results, <<cur, "refused">>)
  /\ cur' = None /\ pc' = "drain"
  /\ UNCHANGED <<labels, processes, operator, files, round, outcome, draining, free,
                 bounds, fate, outside>>

\* A starter may raise instead (watch.json cannot be written, the DB cannot be read):
\* tick logs it, and what this drain popped is reported to nobody.
StarterRaises ==
  /\ pc = "start"
  /\ dropped' = dropped \cup popped
  /\ results' = <<>> /\ cur' = None /\ draining' = None /\ free' = 0 /\ pc' = "settle"
  /\ UNCHANGED <<labels, processes, operator, files, round, outcome, bounds, launches,
                 told, stamp, retried, outside>>

\* _settle_queue: the outcomes of the whole drain are reported after it.
EndDrain ==
  /\ pc = "drain" /\ (queue[draining] = <<>> \/ free <= 0)
  /\ told' = [r \in Req |-> told[r] \cup reported(r)]
  /\ results' = <<>> /\ draining' = None /\ free' = 0 /\ pc' = "settle"
  /\ UNCHANGED <<labels, processes, operator, files, round, handling, bounds, launches,
                 stamp, retried, dropped, outside>>

EndRound ==
  /\ pc = "settle" /\ toSettle = {}
  /\ pc' = "idle"
  /\ snap' = nothingListed
  /\ UNCHANGED <<labels, processes, operator, files, todo, toSettle, handling, drain,
                 bounds, fate, outside>>

\* The broker dies at any point: its memory goes, files and workers stay
\* (KillMode=process).
Crash ==
  /\ pc # "down" /\ crashes < MaxCrashes
  /\ crashes' = crashes + 1
  /\ pc' = "down"
  /\ retried' = IF draining = None /\ pc \in {"reserve", "record"}
                THEN retried \cup {cur} ELSE retried
  /\ dropped' = IF draining = None THEN dropped ELSE dropped \cup popped
  /\ outside' = IF pc = "reserve" THEN outside \cup {Target[cur]} ELSE outside
  /\ snap' = nothingListed /\ todo' = {} /\ toSettle' = {} /\ cur' = None /\ outcome' = "none"
  /\ draining' = None /\ free' = 0 /\ results' = <<>>
  /\ UNCHANGED <<labels, processes, operator, files, sent, launches, told, stamp>>

\* systemd starts it again.
Restart ==
  /\ pc = "down"
  /\ pc' = "idle"
  /\ UNCHANGED <<labels, processes, operator, files, round, handling, drain, bounds, fate,
                 outside>>

-----------------------------------------------------------------------------
\* The detached workers.

\* _create_instance: the SPAWNED_BY label comes with the instance.
WorkerCreates(w) ==
  /\ w \in workers \ made /\ Kind[w.req] = "spawn" /\ status[childOf(w)] = "absent"
  /\ status' = [status EXCEPT ![childOf(w)] = "stopped"]
  /\ parent' = [parent EXCEPT ![childOf(w)] = ownerOf(w)]
  /\ made' = made \cup {w}
  /\ UNCHANGED <<workers, jobs, operator, files, memory, bounds, fate, outside>>

\* The worker starts whatever container has the name by now; one that is no longer its
\* orchestrator's own is out of the limit's sight.
WorkerBoots(w) ==
  /\ w \in workers /\ (Kind[w.req] = "restart" \/ w \in made)
  /\ status[childOf(w)] = "stopped"
  /\ status' = [status EXCEPT ![childOf(w)] = "running"]
  /\ outside' = IF parent[childOf(w)] = ownerOf(w) THEN outside
                ELSE outside \cup {childOf(w)}
  /\ UNCHANGED <<parent, processes, operator, files, memory, bounds, fate>>

gone(w) ==
  /\ workers' = workers \ {w} /\ made' = made \ {w} /\ jobs' = jobs \ {w}
  /\ UNCHANGED <<operator, files, memory, bounds, fate>>

\* _new_worker and _boot_worker end well: the job row goes.
WorkerEnds(w) ==
  /\ w \in workers /\ (Kind[w.req] = "restart" \/ w \in made)
  /\ status[childOf(w)] = "running"
  /\ gone(w)
  /\ UNCHANGED <<labels, outside>>

\* new_container fails or the worker is killed. An instance it made may be deleted
\* again, or may stay as it is.
WorkerFails(w) ==
  LET c == childOf(w) IN
  /\ w \in workers
  /\ gone(w)
  /\ \/ UNCHANGED labels
     \/ /\ w \in made
        /\ status' = [status EXCEPT ![c] = "absent"]
        /\ parent' = [parent EXCEPT ![c] = None]
  /\ outside' = IF status'[c] # "running" /\ busyWith(c) = {w}
                THEN outside \ {c} ELSE outside

-----------------------------------------------------------------------------
\* Everyone else.

\* An orchestrator writes a manifest.
Submit(r) ==
  /\ r \notin sent
  /\ sent' = sent \cup {r}
  /\ outbox' = outbox \cup {r}
  /\ UNCHANGED <<labels, processes, operator, reserved, queue, journal, memory, crashes,
                 fate, outside>>

\* A child powers off, or a user or its orchestrator stops it.
ChildStops(c) ==
  /\ status[c] = "running"
  /\ status' = [status EXCEPT ![c] = "stopped"]
  /\ outside' = IF busyWith(c) = {} THEN outside \ {c} ELSE outside
  /\ UNCHANGED <<parent, processes, operator, files, memory, bounds, fate>>

\* A child that no worker is busy with is destroyed.
ChildDestroyed(c) ==
  /\ status[c] # "absent" /\ busyWith(c) = {}
  /\ status' = [status EXCEPT ![c] = "absent"]
  /\ parent' = [parent EXCEPT ![c] = None]
  /\ outside' = outside \ {c}
  /\ UNCHANGED <<processes, operator, files, memory, bounds, fate>>

\* A user starts a stopped child by hand.
UserStarts(c) ==
  /\ "start" \in UserMoves
  /\ status[c] = "stopped" /\ busyWith(c) = {}
  /\ status' = [status EXCEPT ![c] = "running"]
  /\ outside' = outside \cup {c}
  /\ UNCHANGED <<parent, processes, operator, files, memory, bounds, fate>>

\* orchestrate grant and revoke: the limit changes or the grant goes.
Regrant(o, l) ==
  /\ "grant" \in UserMoves /\ limit[o] # l
  /\ limit' = [limit EXCEPT ![o] = l]
  /\ peak' = [peak EXCEPT ![o] = IF l > @ THEN l ELSE @]
  /\ UNCHANGED <<labels, processes, adopting, files, memory, bounds, fate, outside>>

\* _adopt_locked: the resulting number of running children is checked against a fresh
\* listing and the reservations of the moment...
AdoptCheck(o, c) ==
  /\ "adopt" \in UserMoves /\ adopting = None
  /\ status[c] # "absent" /\ parent[c] = None /\ limit[o] # 0
  /\ Cardinality(slots(o, [containers EXCEPT !.parent = [parent EXCEPT ![c] = o]]))
       <= limit[o]
  /\ adopting' = [orch |-> o, child |-> c]
  /\ UNCHANGED <<labels, processes, limit, peak, files, memory, bounds, fate, outside>>

\* ...and the label is written some calls later. The locks it holds keep other
\* commands out, not the broker's starts.
AdoptLabel ==
  /\ adopting # None
  /\ adopting' = None
  /\ IF status[adopting.child] = "absent"
     THEN UNCHANGED <<parent, outside>>
     ELSE /\ parent' = [parent EXCEPT ![adopting.child] = adopting.orch]
          /\ outside' = outside \cup {c \in {adopting.child} : status[c] = "running"}
  /\ UNCHANGED <<status, processes, limit, peak, files, memory, bounds, fate>>

Broker ==
  \/ Prune \/ List \/ Reserve \/ Record \/ Answer \/ Refresh \/ Pop \/ StartQueued
  \/ RefuseQueued \/ StarterRaises \/ EndDrain \/ EndRound \/ Restart
  \/ \E r \in Req : SkipSeen(r) \/ StartNow(r) \/ Enqueue(r) \/ Refuse(r)
  \/ \E o \in Orch : DropQueue(o) \/ BeginDrain(o)

Workers ==
  \E w \in workers : WorkerCreates(w) \/ WorkerBoots(w) \/ WorkerEnds(w) \/ WorkerFails(w)

Others ==
  \/ \E r \in Req : Submit(r)
  \/ \E c \in Child : ChildStops(c) \/ ChildDestroyed(c) \/ UserStarts(c)
  \/ \E o \in Orch, l \in 0..MaxLimit : Regrant(o, l)
  \/ \E o \in Orch, c \in Child : AdoptCheck(o, c)
  \/ AdoptLabel

Next == Broker \/ Crash \/ Workers \/ Others

Spec == Init /\ [][Next]_vars

-----------------------------------------------------------------------------
\* Properties.

Listing == [status : [Child -> {"absent", "stopped", "running"}],
            parent : [Child -> Orch \cup {None}],
            limit : [Orch -> 0..MaxLimit]]

\* Every variable has its type, and no queue holds two requests for one child.
TypeOK ==
  /\ status \in [Child -> {"absent", "stopped", "running"}]
  /\ parent \in [Child -> Orch \cup {None}]
  /\ limit \in [Orch -> 0..MaxLimit] /\ peak \in [Orch -> 1..MaxLimit]
  /\ adopting \in [orch : Orch, child : Child] \cup {None}
  /\ workers \subseteq Worker /\ made \subseteq workers /\ jobs \subseteq workers
  /\ reserved \subseteq Worker /\ queue \in [Orch -> Seq(Req)]
  /\ \A o \in Orch : \A i, j \in DOMAIN queue[o] :
       Target[queue[o][i]] = Target[queue[o][j]] => i = j
  /\ outbox \subseteq Req /\ journal \subseteq Req
  /\ pc \in {"down", "idle", "list", "serve", "reserve", "record", "answer", "settle",
             "drain", "start"}
  /\ snap \in [Orch -> Listing]
  /\ todo \subseteq outbox /\ toSettle \subseteq Orch
  /\ cur \in Req \cup {None} /\ outcome \in {"none", "started", "queued", "refused"}
  /\ draining \in Orch \cup {None} /\ free \in Int
  /\ results \in Seq(Req \X {"started", "refused"})
  /\ sent \subseteq Req /\ crashes \in 0..MaxCrashes
  /\ launches \in [Req -> 0..(MaxCrashes + 1)]
  /\ told \in [Req -> SUBSET {"started", "queued", "refused"}]
  /\ stamp \in [Req -> Nat] /\ outside \subseteq Child
  /\ retried \subseteq Req /\ dropped \subseteq Req

\* Children of o that run, or are being created or booted for it.
Busy(o) == {c \in Child : status[c] = "running" /\ parent[c] = o}
             \cup {childOf(w) : w \in {x \in workers : ownerOf(x) = o}}

\* The broker's starts never take an orchestrator over its limit, however stale its
\* listing, whatever workers, users and a crash do meanwhile (docs/orchestration.md: a
\* child counts from `started` until it runs and its create has finished, or failed).
\* Not counted are children a user started or adopted behind the broker's back, and those
\* whose reservation was lost.
LimitHeld == \A o \in Orch : Cardinality(Busy(o) \ outside) <= peak[o]

\* The worker whose reservation is about to be written.
InHand == IF pc = "reserve" THEN {[req |-> cur, n |-> launches[cur]]} ELSE {}

\* Every live worker is in reservations.json from the moment it is started, so a prune
\* never forgets it, unless its reservation was lost.
WorkersReserved ==
  \A w \in workers : w \in reserved \cup InHand \/ childOf(w) \in outside

\* Running children of o in the listing the round works from, and o's reservations.
Seen(o) ==
  {c \in Child : snap[o].status[c] = "running" /\ snap[o].parent[c] = o} \cup reservedBy(o)

\* What keeps the limit: from the listing on, every child the limit must answer for is
\* in that listing or in reservations.json, also when its worker ends after the listing
\* was taken (tick: "Release finished workers before taking the snapshot that replaces
\* their slots").
SlotsSeen ==
  pc \notin {"down", "idle", "list"} =>
    \A o \in Orch : Busy(o) \ outside \subseteq
      Seen(o) \cup {childOf(w) : w \in {x \in InHand : ownerOf(x) = o}}

\* A request starts only when every request still queued by its orchestrator was queued
\* after it: a new spawn never overtakes the queue, and the queue is drained FIFO.
NoOvertaking ==
  [][\A r \in Req : launches'[r] > launches[r] =>
       \A i \in DOMAIN queue[Who[r]] :
         stamp[r] # 0 /\ stamp[r] < stamp[queue[Who[r]][i]]]_vars

\* Two orchestrators, or a manifest and a queue entry, never have two live workers at
\* work on one name: the name is taken by the reservation from the launch on.
NoDoubleStart ==
  \A v, w \in workers : childOf(v) = childOf(w) => v = w \/ childOf(w) \in outside

\* A request starts at most once, also when the broker dies in the middle of a drain, and
\* an orchestrator told `refused` can rely on it: nothing was started for the request and
\* nothing will be. Excused is a request whose handler a broker death cut off from its
\* journal entry.
StartedOnce ==
  \A r \in Req \ retried :
    /\ launches[r] <= 1
    /\ "refused" \in told[r] =>
         launches[r] = 0 /\ \A i \in DOMAIN queue[Who[r]] : queue[Who[r]][i] # r

\* A request that was queued is still queued, in the hands of a drain, answered with
\* what became of it, or lost to a broker death or an error of its starter.
QueuedAccounted ==
  \A r \in Req : stamp[r] # 0 =>
    \/ \E i \in DOMAIN queue[Who[r]] : queue[Who[r]][i] = r
    \/ r \in popped \cup dropped
    \/ told[r] \cap {"started", "refused"} # {}

\* How r stands: what was done for it, or else where it is. Lost is what a death or an
\* error of a starter took; nobody is ever forgotten, which is no standing in a RequestLine.
standingOf(r) ==
  IF r \in retried THEN "excused"
  ELSE IF launches[r] # 0 THEN "started"
  ELSE IF "refused" \in told[r] THEN "refused"
  ELSE IF (\E i \in DOMAIN results : results[i] = <<r, "refused">>)
            \/ (outcome = "refused" /\ cur = r) THEN "declined"
  ELSE IF \E i \in DOMAIN queue[Who[r]] : queue[Who[r]][i] = r THEN "waiting"
  ELSE IF pc = "start" /\ cur = r THEN "next"
  ELSE IF r \notin journal THEN "open"
  ELSE IF stamp[r] = 0 \/ r \in dropped THEN "lost" ELSE "forgotten"

\* The requests of an orchestrator form the line it was promised: each is decided once and
\* for good, those that wait are served from the front, nobody starts past them, and nobody
\* is forgotten (actions.handle_spawn, drain_queue and drop_queue under the broker's rounds
\* and deaths).
Line == INSTANCE RequestLine WITH line <- queue, standing <- [r \in Req |-> standingOf(r)]
LineKept == Line!Spec

\* The broker's loop goes on, and systemd restarts it.
FairSpec == Spec /\ WF_vars(Broker)

\* The head of a queue cannot wait for ever while its orchestrator holds a grant with a
\* slot that nothing occupies.
QueueMoves ==
  \A o \in Orch :
    ~<>[](queue[o] # <<>> /\ Cardinality(Busy(o)) < limit[o])
=============================================================================
