----------------------------- MODULE ParkedDelivery -----------------------------
(***************************************************************************)
(* How the broker gets a message into a container's inbox: written at once *)
(* when the recipient runs and nothing is parked for it, otherwise parked  *)
(* in a host directory under a name that sorts in emission order, and      *)
(* flushed from there at the start of a later round. Host commands (adopt, *)
(* the container refresh worker) deliver to the same directory from other  *)
(* processes. The recipient stops, is destroyed and created again at any   *)
(* time, writes into it fail with or without effect, and the broker dies.  *)
(*                                                                         *)
(* Code: orchestration/outbox.py (deliver, has_pending, flush_pending),    *)
(* protocol.py (inbox_file_name), broker.py (tick, _serve, _reply),        *)
(* state.py (purge_vanished_pending), finishing.py (the directories        *)
(* notify_orphaned_finishes keeps).                                        *)
(*                                                                         *)
(* One recipient. A message is the broker's m-th or a host's h-th; the     *)
(* clock never goes back, and systemd's RestartSec makes a new broker's    *)
(* stamps later than the last one's.                                       *)
(***************************************************************************)
EXTENDS Naturals, Sequences, FiniteSets, Functions

CONSTANTS
  MaxSent,    \* bound on the broker's messages
  MaxHost,    \* bound on the messages of host commands
  MaxTime,    \* bound on the clock's seconds
  MaxInst,    \* bound on the containers of the recipient's name, one after another
  MaxFaults,  \* bound on writes into a running recipient that fail, and on notices
  MaxKills    \* bound on the broker's deaths

ASSUME DeliveryAssumption ==
  /\ {MaxSent, MaxHost, MaxTime, MaxInst, MaxFaults, MaxKills} \subseteq Nat
  /\ MaxInst >= 1

VARIABLES
  \* the recipient
  inst,      \* which container of that name there is, 0 for none
  running,
  created,   \* how many there have been
  inbox,     \* the messages written into its inbox, as written
  \* the parked directory: records [at, seq, msg, to]
  pending,
  \* the broker
  clock,     \* the host's clock, in seconds
  pc,        \* "dead", "pause", "purge", "flush", "unlink", "emit", "write"
  now, seq,  \* the round's time and the process's counter
  seesInst, seesRunning,  \* the round's listing
  file,      \* the file being flushed
  \* a host command delivering
  hostAt, hostSees, hostTime,
  \* bounds and history
  sent, hostSent, faults, kills,
  order,     \* the broker's messages in the order they were first written
  dropped    \* its messages that went with a vanished recipient

recipient == <<inst, running, created, inbox>>
broker == <<clock, pc, now, seq, seesInst, seesRunning, file>>
host == <<hostAt, hostSees, hostTime>>
history == <<sent, hostSent, faults, kills, order, dropped>>
vars == <<recipient, pending, broker, host, history>>

\* A message: who sent it and its number among the sender's.
Msg == ({"broker"} \X (1..MaxSent)) \cup ({"host"} \X (1..MaxHost))
Parked == [at : 0..MaxTime, seq : 0..MaxSent, msg : Msg, to : 0..MaxInst]
NoFile == [at |-> 0, seq |-> 0, msg |-> <<"none", 0>>, to |-> 0]

TypeOK ==
  /\ inst \in 0..MaxInst /\ created \in 0..MaxInst /\ inst <= created
  /\ running \in BOOLEAN /\ (running => inst # 0)
  /\ inbox \in SUBSET Msg /\ pending \in SUBSET Parked
  /\ clock \in 0..MaxTime /\ now \in 0..MaxTime /\ seq \in 0..MaxSent
  /\ pc \in {"dead", "pause", "purge", "flush", "unlink", "emit", "write"}
  /\ seesInst \in 0..MaxInst /\ seesRunning \in BOOLEAN
  /\ file \in Parked \cup {NoFile}
  /\ hostAt \in {"off", "look", "write"} /\ hostSees \in 0..MaxInst /\ hostTime \in 0..MaxTime
  /\ sent \in 0..MaxSent /\ hostSent \in 0..MaxHost
  /\ faults \in 0..MaxFaults /\ kills \in 0..MaxKills
  /\ order \in Seq(1..MaxSent) /\ dropped \subseteq 1..MaxSent

Init ==
  /\ inst = 1 /\ running \in BOOLEAN /\ created = 1 /\ inbox = {} /\ pending = {}
  /\ clock = 0 /\ pc = "pause" /\ now = 0 /\ seq = 0
  /\ seesInst = 0 /\ seesRunning = FALSE /\ file = NoFile
  /\ hostAt = "off" /\ hostSees = 0 /\ hostTime = 0
  /\ sent = 0 /\ hostSent = 0 /\ faults = 0 /\ kills = 0
  /\ order = <<>> /\ dropped = {}

-----------------------------------------------------------------------------
\* Mutant: the counter orders the files before the stamp does.
countFirst(f, g) == f.seq < g.seq \/ (f.seq = g.seq /\ f.at <= g.at)

\* File names sort by stamp, then counter; ids break a tie anyhow.
before(f, g) == f.at < g.at \/ (f.at = g.at /\ f.seq <= g.seq)

\* Mutant: a parked file does not make the next message wait behind it.
neverPending == FALSE

hasPending == pending # {}

ofBroker(msg) == msg[1] = "broker"
firstSeen(msg) ==
  IF ofBroker(msg) /\ msg[2] \notin Range(order) THEN Append(order, msg[2]) ELSE order

\* The message is written into the inbox of the container there is.
Written(msg) == running /\ inbox' = inbox \cup {msg} /\ order' = firstSeen(msg)

\* An exec that fails: the recipient does not run, or a fault, and then the
\* file may be in the inbox all the same.
Failed(msg) ==
  \/ ~running /\ UNCHANGED <<inbox, order, faults>>
  \/ /\ running /\ faults < MaxFaults /\ faults' = faults + 1
     /\ \/ UNCHANGED <<inbox, order>>
        \/ Written(msg)

-----------------------------------------------------------------------------
\* The broker's round.

\* tick lists the containers; the round's messages bear the time it began.
List ==
  /\ pc = "pause" /\ pc' = "purge" /\ now' = clock
  /\ seesInst' = inst /\ seesRunning' = running
  /\ UNCHANGED <<recipient, pending, clock, seq, file, host, history>>

\* Mutant: what is parked for a stopped recipient is dropped as well.
goneOrStopped == ~seesRunning

gone == seesInst = 0

\* The broker's messages parked for a container that is no more.
parkedForNone ==
  {f.msg[2] : f \in {g \in pending : ofBroker(g.msg) /\ (inst = 0 \/ g.to # inst)}}

\* Parked messages of a vanished container are dropped, unless a report of a
\* child that could not be told of it is among them.
Purge ==
  /\ pc = "purge"
  /\ pc' = IF seesRunning THEN "flush" ELSE "emit"
  /\ \/ /\ gone /\ pending' = {} /\ UNCHANGED faults
        /\ dropped' = dropped \cup (parkedForNone \ Range(order))
     \/ /\ gone /\ pending # {} /\ faults < MaxFaults /\ faults' = faults + 1
        /\ UNCHANGED <<pending, dropped>>
     \/ ~gone /\ UNCHANGED <<pending, dropped, faults>>
  /\ UNCHANGED <<recipient, clock, now, seq, seesInst, seesRunning, file, host,
                 sent, hostSent, kills, order>>

Flush ==
  /\ pc = "flush"
  /\ \E f \in pending :
       /\ \A g \in pending : before(f, g)
       /\ \/ /\ Written(f.msg) /\ pc' = "unlink" /\ file' = f /\ UNCHANGED faults
          \/ Failed(f.msg) /\ pc' = "emit" /\ UNCHANGED file
  /\ UNCHANGED <<inst, running, created, pending, clock, now, seq, seesInst, seesRunning, host,
                 sent, hostSent, kills, dropped>>

Flushed ==
  /\ pc = "flush" /\ pending = {} /\ pc' = "emit"
  /\ UNCHANGED <<recipient, pending, clock, now, seq, seesInst, seesRunning, file, host, history>>

\* Mutant: a flushed file stays parked.
flushedKept == pending

unflushed == pending \ {file}

Unlink ==
  /\ pc = "unlink" /\ pc' = "flush" /\ pending' = unflushed /\ file' = NoFile
  /\ UNCHANGED <<recipient, clock, now, seq, seesInst, seesRunning, host, history>>

\* Mutant: a message bears the number of the one before it.
messageBefore == <<"broker", sent>>

message == <<"broker", sent + 1>>
parking(msg, at, n, to) == pending \cup {[at |-> at, seq |-> n, msg |-> msg, to |-> to]}

\* Something to tell the recipient: deliver looks for parked files and then
\* writes or parks.
Emit ==
  /\ pc = "emit" /\ sent < MaxSent
  /\ \/ /\ seesRunning /\ ~hasPending /\ pc' = "write" /\ UNCHANGED <<pending, seq, sent>>
     \/ /\ ~seesRunning \/ hasPending
        /\ pending' = parking(message, now, seq, seesInst)
        /\ seq' = seq + 1 /\ sent' = sent + 1 /\ UNCHANGED pc
  /\ UNCHANGED <<recipient, clock, now, seesInst, seesRunning, file, host,
                 hostSent, faults, kills, order, dropped>>

Write ==
  /\ pc = "write" /\ pc' = "emit" /\ seq' = seq + 1 /\ sent' = sent + 1
  /\ \/ Written(message) /\ UNCHANGED <<pending, faults>>
     \/ Failed(message) /\ pending' = parking(message, now, seq, seesInst)
  /\ UNCHANGED <<inst, running, created, clock, now, seesInst, seesRunning, file, host,
                 hostSent, kills, dropped>>

EndRound ==
  /\ pc = "emit" /\ pc' = "pause"
  /\ UNCHANGED <<recipient, pending, clock, now, seq, seesInst, seesRunning, file, host, history>>

Die ==
  /\ pc # "dead" /\ kills < MaxKills /\ now < MaxTime /\ kills' = kills + 1
  /\ pc' = "dead" /\ file' = NoFile /\ seq' = 0
  /\ UNCHANGED <<recipient, pending, clock, now, seesInst, seesRunning, host,
                 sent, hostSent, faults, order, dropped>>

\* RestartSec=5s.
Restart ==
  /\ pc = "dead" /\ clock > now /\ pc' = "pause"
  /\ UNCHANGED <<recipient, pending, clock, now, seq, seesInst, seesRunning, file, host, history>>

Second ==
  /\ clock < MaxTime /\ clock' = clock + 1
  /\ UNCHANGED <<recipient, pending, pc, now, seq, seesInst, seesRunning, file, host, history>>

-----------------------------------------------------------------------------
\* A host command's deliver: its counter is 0, its time its own.

HostLook ==
  /\ hostAt = "off" /\ hostSent < MaxHost /\ inst # 0
  /\ hostSees' = inst /\ hostTime' = clock /\ hostSent' = hostSent + 1
  /\ hostAt' = IF running /\ ~hasPending THEN "write" ELSE "look"
  /\ UNCHANGED <<recipient, pending, broker, sent, faults, kills, order, dropped>>

hostMessage == <<"host", hostSent>>

HostWrite ==
  /\ hostAt = "write"
  /\ \/ Written(hostMessage) /\ hostAt' = "off" /\ UNCHANGED faults
     \/ Failed(hostMessage) /\ hostAt' = "look"
  /\ UNCHANGED <<inst, running, created, pending, broker, hostSees, hostTime,
                 sent, hostSent, kills, dropped>>

HostPark ==
  /\ hostAt = "look" /\ hostAt' = "off"
  /\ pending' = parking(hostMessage, hostTime, 0, hostSees)
  /\ UNCHANGED <<recipient, broker, hostSees, hostTime, history>>

-----------------------------------------------------------------------------
\* The recipient stops, starts, is destroyed, and another takes its name.

StartStop ==
  /\ inst # 0 /\ running' = ~running
  /\ UNCHANGED <<inst, created, inbox, pending, broker, host, history>>

Destroy ==
  /\ inst # 0 /\ inst' = 0 /\ running' = FALSE /\ inbox' = {}
  /\ UNCHANGED <<created, pending, broker, host, history>>

Create ==
  /\ inst = 0 /\ created < MaxInst /\ created' = created + 1
  /\ inst' = created' /\ running' = TRUE
  /\ UNCHANGED <<inbox, pending, broker, host, history>>

Broker ==
  List \/ Purge \/ Flush \/ Flushed \/ Unlink \/ Emit \/ Write \/ EndRound \/ Restart

Next ==
  \/ Broker \/ Die \/ Second
  \/ HostLook \/ HostWrite \/ HostPark
  \/ StartStop \/ Destroy \/ Create

Spec == Init /\ [][Next]_vars

\* The broker goes on and is restarted, the clock too, and the recipient is
\* started again when it is down.
Fairness ==
  /\ WF_vars(Broker) /\ WF_vars(Second)
  /\ WF_vars(HostWrite) /\ WF_vars(HostPark)

\* From some point on the recipient runs.
Settles == <>[](inst # 0 /\ running)

LiveSpec == Spec /\ Fairness

-----------------------------------------------------------------------------
\* The broker's messages behave as the channel promises.
Promise == INSTANCE Channel WITH sent <- sent, seen <- order, dropped <- dropped
KeepsPromise == Promise!Spec

\* No message the broker parked is lost while its recipient exists: a file
\* goes only when its message is in the inbox.
NothingLost ==
  \A m \in 1..sent :
    m \in Range(order) \cup dropped \/ \E f \in pending : f.msg = <<"broker", m>>

\* What is parked for a recipient that runs is flushed in the end.
ParkedFlushed == Settles => (pending # {} ~> pending = {})
===============================================================================
