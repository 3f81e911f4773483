--------------------------- MODULE SpawnQueueProofs ---------------------------
(***************************************************************************)
(* Every live worker is reserved and every busy child is seen, for any     *)
(* number of orchestrators, children, requests and broker deaths.          *)
(***************************************************************************)
EXTENDS SpawnQueue, TLAPS

\* The types the argument needs.
Types ==
  /\ status \in [Child -> {"absent", "stopped", "running"}]
  /\ parent \in [Child -> Orch \cup {None}]
  /\ workers \subseteq Worker /\ reserved \subseteq Worker
  /\ queue \in [Orch -> Seq(Req)]
  /\ snap \in [Orch -> Listing] /\ limit \in [Orch -> 0..MaxLimit]
  /\ launches \in [Req -> Nat]
  /\ todo \subseteq Req /\ outbox \subseteq Req
  /\ cur \in Req \cup {None} /\ draining \in Orch \cup {None}
  /\ pc \in {"down", "idle", "list", "serve", "reserve", "record", "answer", "settle",
             "drain", "start"}
  /\ pc \in {"reserve", "record", "answer", "start"} => cur \in Req
  /\ pc = "reserve" => launches[cur] \in 1..(MaxCrashes + 1)
  /\ pc \in {"drain", "start"} => draining \in Orch
  /\ adopting \in [orch : Orch, child : Child] \cup {None}

\* A second worker on the name being reserved is one the limit cannot answer for.
LoneInHand ==
  pc = "reserve" =>
    \A w \in workers : childOf(w) = Target[cur] =>
      w = [req |-> cur, n |-> launches[cur]] \/ childOf(w) \in outside

\* The inductive invariant.
Safe == WorkersReserved /\ NoDoubleStart /\ LoneInHand /\ SlotsSeen
IInv == Types /\ Safe

\* Steps that touch neither containers nor workers nor reservations and take no listing.
Quiet ==
  /\ UNCHANGED <<status, parent, workers, reserved, outside, launches>>
  /\ \/ UNCHANGED <<pc, cur, snap>>
     \/ /\ pc # "reserve" /\ pc' # "reserve"
        /\ pc' \notin {"down", "idle", "list"} =>
             pc \notin {"down", "idle", "list"} /\ snap' = snap

USE DEF labels, processes, operator, files, round, handling, drain, memory, bounds, fate

\* Such a step keeps the invariant.
LEMMA QuietStep ==
  ASSUME IInv, Quiet
  PROVE  Safe'
<1>1. CASE UNCHANGED <<pc, cur, snap>>
  BY <1>1 DEF IInv, Safe, Quiet, WorkersReserved, NoDoubleStart, LoneInHand, SlotsSeen,
    InHand, Seen, Busy, reservedBy, childOf, ownerOf
<1>2. CASE ~UNCHANGED <<pc, cur, snap>>
  BY <1>2 DEF IInv, Safe, Quiet, WorkersReserved, NoDoubleStart, LoneInHand, SlotsSeen,
    InHand, Seen, Busy, reservedBy, childOf, ownerOf
<1> QED
  BY <1>1, <1>2

\* The invariant holds before the first round.
LEMMA InitIInv == Init => IInv
<1> SUFFICES ASSUME Init PROVE IInv
  OBVIOUS
<1>1. Types
  BY ConstantsAssumption DEF Init, Types, Listing, nothingListed
<1>2. WorkersReserved /\ NoDoubleStart /\ LoneInHand /\ SlotsSeen
  BY DEF Init, WorkersReserved, NoDoubleStart, LoneInHand, SlotsSeen
<1> QED
  BY <1>1, <1>2 DEF IInv, Safe

\* A launch keeps the types.
LEMMA LaunchTypes == ASSUME NEW r \in Req, Types, Launch(r) PROVE Types'
<1> DEFINE w == [req |-> r, n |-> launches[r] + 1]
<1>1. w \in Worker /\ launches[r] + 1 \in 1..(MaxCrashes + 1)
  BY DEF Launch, Worker
<1>2. workers' \subseteq Worker
  BY <1>1 DEF Types, Launch
<1>3. launches' \in [Req -> Nat] /\ launches'[r] = launches[r] + 1
  BY DEF Types, Launch
<1>4. UNCHANGED <<status, parent, reserved, queue, snap, limit, todo, outbox, draining,
                  adopting>>
  BY DEF Launch
<1>5. cur' = r /\ pc' = "reserve"
  BY DEF Launch
<1> QED
  BY <1>1, <1>2, <1>3, <1>4, <1>5 DEF Types

\* Every step keeps the types.
LEMMA TypesStep == Types /\ [Next]_vars => Types'
<1> SUFFICES ASSUME Types, [Next]_vars PROVE Types'
  OBVIOUS
<1> USE ConstantsAssumption
<1>1. CASE Prune
  BY <1>1 DEF Types, Prune, liveReservations
<1>2. CASE List
  BY <1>2 DEF Types, List, Listing, containers, listed
<1>3. CASE Reserve
  <2>1. [req |-> cur, n |-> launches[cur]] \in Worker
    BY <1>3 DEF Types, Reserve, Worker
  <2>2. reserved' \subseteq Worker
    BY <1>3, <2>1 DEF Types, Reserve
  <2>3. cur' \in Req \cup {None} /\ pc' \in {"record", "drain"}
    BY <1>3 DEF Types, Reserve
  <2>4. pc' = "record" => cur' \in Req
    BY <1>3 DEF Types, Reserve
  <2>5. draining' \in Orch \cup {None} /\ (pc' = "drain" => draining' \in Orch)
    BY <1>3 DEF Types, Reserve
  <2> QED
    BY <1>3, <2>2, <2>3, <2>4, <2>5 DEF Types, Reserve
<1>4. CASE Record
  BY <1>4 DEF Types, Record
<1>5. CASE Answer
  <2>1. cur \in Req /\ Who[cur] \in Orch
    BY <1>5 DEF Types, Answer
  <2>2. snap[Who[cur]].limit \in [Orch -> 0..MaxLimit]
    BY <2>1 DEF Types, Listing
  <2>3. listed(snap[Who[cur]].limit) \in Listing
    BY <2>2 DEF Types, Listing, listed
  <2>4. [snap EXCEPT ![Who[cur]] = listed(snap[Who[cur]].limit)] \in [Orch -> Listing]
    BY <2>3 DEF Types
  <2>5. snap' \in [Orch -> Listing]
    BY <1>5, <2>4 DEF Types, Answer
  <2> QED
    BY <1>5, <2>5 DEF Types, Answer
<1>6. CASE Refresh
  BY <1>6 DEF Types, Refresh, Listing, containers, listed
<1>7. CASE Pop
  <2>1. draining \in Orch /\ queue[draining] \in Seq(Req) /\ queue[draining] # <<>>
    BY <1>7 DEF Types, Pop
  <2>2. Head(queue[draining]) \in Req /\ Tail(queue[draining]) \in Seq(Req)
    BY <2>1
  <2>3. cur' \in Req /\ queue' \in [Orch -> Seq(Req)]
    BY <1>7, <2>1, <2>2 DEF Types, Pop, afterPop
  <2> QED
    BY <1>7, <2>1, <2>3 DEF Types, Pop
<1>8. CASE StartQueued
  BY <1>8, LaunchTypes DEF Types, StartQueued
<1>9. CASE RefuseQueued
  BY <1>9 DEF Types, RefuseQueued
<1>10. CASE StarterRaises
  BY <1>10 DEF Types, StarterRaises
<1>11. CASE EndDrain
  BY <1>11 DEF Types, EndDrain
<1>12. CASE EndRound
  <2>1. snap' \in [Orch -> Listing]
    BY <1>12 DEF EndRound, Listing, nothingListed
  <2>2. UNCHANGED <<status, parent, workers, reserved, queue, limit, launches, todo, outbox,
                    cur, draining, adopting>>
    BY <1>12 DEF EndRound
  <2>3. pc' = "idle"
    BY <1>12 DEF EndRound
  <2> QED
    BY <2>1, <2>2, <2>3 DEF Types
<1>13. CASE Restart
  BY <1>13 DEF Types, Restart
<1>14. ASSUME NEW r \in Req, SkipSeen(r) PROVE Types'
  BY <1>14 DEF Types, SkipSeen
<1>15. ASSUME NEW r \in Req, StartNow(r) PROVE Types'
  BY <1>15, LaunchTypes DEF Types, StartNow
<1>16. ASSUME NEW r \in Req, Enqueue(r) PROVE Types'
  <2>1. queue[Who[r]] \in Seq(Req) /\ Append(queue[Who[r]], r) \in Seq(Req)
    BY ConstantsAssumption DEF Types
  <2>2. queue' \in [Orch -> Seq(Req)]
    BY <1>16, <2>1 DEF Types, Enqueue
  <2>3. UNCHANGED <<status, parent, workers, reserved, snap, limit, launches, todo, outbox,
                    draining, adopting>>
    BY <1>16 DEF Enqueue
  <2>4. cur' \in Req /\ pc' = "record"
    BY <1>16 DEF Enqueue
  <2> QED
    BY <2>2, <2>3, <2>4 DEF Types
<1>17. ASSUME NEW r \in Req, Refuse(r) PROVE Types'
  BY <1>17 DEF Types, Refuse
<1>18. ASSUME NEW o \in Orch, DropQueue(o) PROVE Types'
  <2>1. queue' \in [Orch -> Seq(Req)]
    BY <1>18 DEF Types, DropQueue, afterDrop
  <2>2. UNCHANGED <<status, parent, workers, reserved, snap, limit, launches, todo, outbox,
                    cur, draining, pc, adopting>>
    BY <1>18 DEF DropQueue
  <2> QED
    BY <2>1, <2>2 DEF Types
<1>19. ASSUME NEW o \in Orch, BeginDrain(o) PROVE Types'
  BY <1>19 DEF Types, BeginDrain
<1>20. CASE Crash
  BY <1>20 DEF Types, Crash, Listing, nothingListed
<1>21. ASSUME NEW w \in workers, WorkerCreates(w) PROVE Types'
  <2>1. childOf(w) \in Child /\ ownerOf(w) \in Orch
    BY DEF Types, Worker, childOf, ownerOf
  <2>2. status' = [status EXCEPT ![childOf(w)] = "stopped"]
        /\ parent' = [parent EXCEPT ![childOf(w)] = ownerOf(w)]
    BY <1>21 DEF WorkerCreates
  <2>3. status' \in [Child -> {"absent", "stopped", "running"}]
    BY <2>1, <2>2 DEF Types
  <2>4. parent' \in [Child -> Orch \cup {None}]
    BY <2>1, <2>2 DEF Types
  <2>5. UNCHANGED <<workers, reserved, queue, snap, limit, launches, todo, outbox, cur,
                    draining, pc, adopting>>
    BY <1>21 DEF WorkerCreates
  <2> QED
    BY <2>3, <2>4, <2>5 DEF Types
<1>22. ASSUME NEW w \in workers, WorkerBoots(w) PROVE Types'
  <2>1. status' \in [Child -> {"absent", "stopped", "running"}]
    BY <1>22 DEF Types, WorkerBoots
  <2>2. UNCHANGED <<parent, workers, reserved, queue, snap, limit, launches, todo, outbox, cur,
                    draining, pc, adopting>>
    BY <1>22 DEF WorkerBoots
  <2> QED
    BY <2>1, <2>2 DEF Types
<1>23. ASSUME NEW w \in workers, WorkerEnds(w) PROVE Types'
  BY <1>23 DEF Types, WorkerEnds, Worker, childOf, ownerOf, gone
<1>24. ASSUME NEW w \in workers, WorkerFails(w) PROVE Types'
  <2>1. workers' \subseteq Worker
    BY <1>24 DEF Types, WorkerFails, gone
  <2>2. status' \in [Child -> {"absent", "stopped", "running"}]
    BY <1>24 DEF Types, WorkerFails
  <2>3. parent' \in [Child -> Orch \cup {None}]
    BY <1>24 DEF Types, WorkerFails
  <2>4. UNCHANGED <<reserved, queue, snap, limit, launches, todo, outbox, cur, draining, pc,
                    adopting>>
    BY <1>24 DEF WorkerFails, gone
  <2> QED
    BY <2>1, <2>2, <2>3, <2>4 DEF Types
<1>25. ASSUME NEW r \in Req, Submit(r) PROVE Types'
  BY <1>25 DEF Types, Submit
<1>26. ASSUME NEW c \in Child, ChildStops(c) PROVE Types'
  BY <1>26 DEF Types, ChildStops
<1>27. ASSUME NEW c \in Child, ChildDestroyed(c) PROVE Types'
  BY <1>27 DEF Types, ChildDestroyed
<1>28. ASSUME NEW c \in Child, UserStarts(c) PROVE Types'
  BY <1>28 DEF Types, UserStarts
<1>29. ASSUME NEW o \in Orch, NEW l \in 0..MaxLimit, Regrant(o, l) PROVE Types'
  BY <1>29 DEF Types, Regrant
<1>30. ASSUME NEW o \in Orch, NEW c \in Child, AdoptCheck(o, c) PROVE Types'
  BY <1>30 DEF Types, AdoptCheck
<1>31. CASE AdoptLabel
  <2>1. adopting \in [orch : Orch, child : Child] /\ adopting' = None
    BY <1>31 DEF Types, AdoptLabel
  <2>2. parent' \in [Child -> Orch \cup {None}]
    BY <1>31, <2>1 DEF Types, AdoptLabel
  <2>3. UNCHANGED <<status, workers, reserved, queue, snap, limit, launches, todo, outbox,
                    cur, draining, pc>>
    BY <1>31 DEF AdoptLabel
  <2> QED
    BY <2>1, <2>2, <2>3 DEF Types
<1>32. CASE UNCHANGED vars
  BY <1>32 DEF Types, vars
<1> QED
  BY <1>1, <1>2, <1>3, <1>4, <1>5, <1>6, <1>7, <1>8, <1>9, <1>10, <1>11, <1>12, <1>13,
    <1>14, <1>15, <1>16, <1>17, <1>18, <1>19, <1>20, <1>21, <1>22, <1>23, <1>24, <1>25,
    <1>26, <1>27, <1>28, <1>29, <1>30, <1>31, <1>32 DEF Next, Broker, Workers, Others

\* Pruning takes away reservations of dead workers only, and the listing that shows what
\* they left comes after it.
LEMMA PruneStep == ASSUME IInv, Types', Prune PROVE Safe'
  BY ConstantsAssumption DEF IInv, Safe, Types, Listing, Worker, Prune,
    liveReservations, WorkersReserved, NoDoubleStart, LoneInHand, SlotsSeen, InHand,
    Seen, Busy, reservedBy, childOf, ownerOf

\* A new listing sees every running child; workers still booting are reserved.
LEMMA NewListing ==
  ASSUME IInv, pc # "reserve", pc' # "reserve", snap' = [o \in Orch |-> containers],
         UNCHANGED <<status, parent, workers, reserved, outside, launches>>
  PROVE  Safe'
<1>1. InHand = {} /\ InHand' = {}
  BY DEF InHand
<1>2. WorkersReserved'
  BY <1>1 DEF IInv, Safe, WorkersReserved, childOf
<1>3. NoDoubleStart' /\ LoneInHand'
  BY DEF IInv, Safe, NoDoubleStart, LoneInHand, childOf
<1>4. ASSUME NEW o \in Orch, NEW c \in Busy(o)', c \notin outside'
      PROVE  c \in Seen(o)'
  <2>1. snap'[o].status = status /\ snap'[o].parent = parent
    BY DEF containers, listed
  <2>2. CASE c \in Child /\ status[c] = "running" /\ parent[c] = o
    BY <2>1, <2>2 DEF Seen
  <2>3. ASSUME NEW w \in workers, ownerOf(w) = o, c = childOf(w) PROVE c \in Seen(o)'
    <3>1. w \in reserved
      BY <1>1, <1>4, <2>3 DEF IInv, Safe, WorkersReserved
    <3>2. c \in reservedBy(o)
      BY <2>3, <3>1 DEF reservedBy
    <3>3. reservedBy(o)' = reservedBy(o)
      BY DEF reservedBy, childOf, ownerOf
    <3> QED
      BY <3>2, <3>3 DEF Seen
  <2>4. \/ c \in Child /\ status[c] = "running" /\ parent[c] = o
        \/ \E w \in workers : ownerOf(w) = o /\ c = childOf(w)
    BY <1>4 DEF Busy, childOf, ownerOf
  <2> QED
    BY <2>2, <2>3, <2>4
<1>5. SlotsSeen'
  BY <1>4 DEF SlotsSeen
<1> QED
  BY <1>2, <1>3, <1>5 DEF Safe

LEMMA ListStep == ASSUME IInv, List PROVE Safe'
<1>1. pc # "reserve" /\ pc' # "reserve" /\ snap' = [o \in Orch |-> containers]
  BY DEF List
<1>2. UNCHANGED <<status, parent, workers, reserved, outside, launches>>
  BY DEF List
<1> QED
  BY <1>1, <1>2, NewListing

\* So does the listing before the queues are settled.
LEMMA RefreshStep == ASSUME IInv, Refresh PROVE Safe'
<1>1. pc # "reserve" /\ pc' # "reserve" /\ snap' = [o \in Orch |-> containers]
  BY DEF Refresh
<1>2. UNCHANGED <<status, parent, workers, reserved, outside, launches>>
  BY DEF Refresh
<1> QED
  BY <1>1, <1>2, NewListing

\* What accounts for o's busy children: its part of the listing, its reservations and the
\* reservation being written.
Covers(o) == Seen(o) \cup {childOf(w) : w \in {x \in InHand : ownerOf(x) = o}}

\* A step keeps every busy child seen when nothing that accounted for one is lost and new
\* busy children come accounted for.
LEMMA SlotsSeenStep ==
  ASSUME SlotsSeen,
         pc' \notin {"down", "idle", "list"} => pc \notin {"down", "idle", "list"},
         \A o \in Orch : Covers(o) \subseteq Covers(o)' \cup outside',
         \A o \in Orch : Busy(o)' \subseteq (Busy(o) \ outside) \cup Covers(o)' \cup outside'
  PROVE  SlotsSeen'
  BY DEF SlotsSeen, Covers

\* A death loses at most the reservation in hand.
LEMMA CrashStep == ASSUME IInv, Types', Crash PROVE Safe'
<1>1. WorkersReserved'
  BY DEF IInv, Safe, WorkersReserved, InHand, childOf, Crash
<1>2. NoDoubleStart'
  BY DEF IInv, Safe, NoDoubleStart, childOf, Crash
<1>3. LoneInHand' /\ SlotsSeen'
  BY DEF LoneInHand, SlotsSeen, Crash
<1> QED
  BY <1>1, <1>2, <1>3 DEF Safe

\* The orchestrator's own listing is taken anew after a start, or left as it is.
LEMMA AnswerStep == ASSUME IInv, Types', Answer PROVE Safe'
<1>1. CASE snap' = snap
  <2> Quiet
    BY <1>1 DEF Quiet, Answer
  <2> QED
    BY QuietStep
<1>2. CASE snap' = [snap EXCEPT ![Who[cur]] = listed(snap[Who[cur]].limit)]
  <2>1. InHand = {} /\ InHand' = {}
    BY DEF InHand, Answer
  <2>2. WorkersReserved' /\ NoDoubleStart' /\ LoneInHand'
    BY <2>1 DEF IInv, Safe, WorkersReserved, NoDoubleStart, LoneInHand, childOf, Answer
  <2>3. ASSUME NEW o \in Orch PROVE Busy(o)' \ outside' \subseteq Covers(o)'
    <3>1. Busy(o)' = Busy(o) /\ outside' = outside /\ reservedBy(o)' = reservedBy(o)
      BY DEF Busy, reservedBy, childOf, ownerOf, Answer
    <3>2. Busy(o) \ outside \subseteq Seen(o)
      BY <2>1 DEF IInv, Safe, SlotsSeen, Answer
    <3>3. CASE o = Who[cur]
      <4>1. snap'[o].status = status /\ snap'[o].parent = parent
        BY <1>2, <3>3 DEF IInv, Types, listed
      <4>2. \A x \in workers : ownerOf(x) = o => childOf(x) \in reservedBy(o) \cup outside
        BY <2>1 DEF IInv, Safe, WorkersReserved, reservedBy
      <4> QED
        BY <3>1, <4>1, <4>2 DEF Busy, Covers, Seen, Answer
    <3>4. CASE o # Who[cur]
      <4>1. snap'[o] = snap[o]
        BY <1>2, <3>4 DEF IInv, Types
      <4>2. Seen(o)' = Seen(o)
        BY <3>1, <4>1 DEF Seen
      <4> QED
        BY <3>1, <3>2, <4>2 DEF Covers
    <3> QED
      BY <3>3, <3>4
  <2> QED
    BY <2>2, <2>3 DEF Safe, SlotsSeen, Covers
<1> QED
  BY <1>1, <1>2 DEF Answer

\* A reservation may replace an older one of the same child, never another child's.
LEMMA ReserveStep == ASSUME IInv, Types', Reserve PROVE Safe'
<1> USE ConstantsAssumption
<1>1. WorkersReserved'
  <2>1. CASE outside' = outside \cup {Target[cur]}
    BY <2>1 DEF IInv, Safe, Types, WorkersReserved, LoneInHand, InHand, childOf, Reserve
  <2>2. CASE reserved' = {x \in reserved : ownerOf(x) # Who[cur] \/ childOf(x) # Target[cur]}
                           \cup {[req |-> cur, n |-> launches[cur]]}
    BY <2>2 DEF IInv, Safe, Types, WorkersReserved, LoneInHand, InHand, childOf, ownerOf,
      Reserve
  <2> QED
    BY <2>1, <2>2 DEF Reserve
<1>2. NoDoubleStart'
  BY DEF IInv, Safe, Types, NoDoubleStart, LoneInHand, childOf, Reserve
<1>3. LoneInHand'
  BY DEF IInv, Safe, Types, LoneInHand, NoDoubleStart, childOf, Reserve
<1>4. \A o \in Orch : Covers(o) \subseteq Covers(o)' \cup outside'
  <2> DEFINE w == [req |-> cur, n |-> launches[cur]]
  <2> SUFFICES ASSUME NEW o \in Orch, NEW k \in Covers(o), k \notin outside'
               PROVE  k \in Covers(o)'
    OBVIOUS
  <2>1. CASE outside' = outside \cup {Target[cur]}
    BY <2>1 DEF Covers, Seen, reservedBy, InHand, childOf, ownerOf, Reserve
  <2>2. CASE reserved' = {x \in reserved : ownerOf(x) # Who[cur] \/ childOf(x) # Target[cur]}
                           \cup {w}
    <3>1. w \in reserved' /\ childOf(w) = Target[cur] /\ ownerOf(w) = Who[cur]
      BY <2>2 DEF childOf, ownerOf
    <3>2. \A x \in reserved : x \in reserved'
                                \/ (childOf(x) = childOf(w) /\ ownerOf(x) = ownerOf(w))
      BY <2>2, <3>1
    <3>3. InHand = {w}
      BY DEF InHand, Reserve
    <3>4. reservedBy(o) \cup {childOf(x) : x \in {y \in InHand : ownerOf(y) = o}}
            \subseteq reservedBy(o)'
      BY <3>1, <3>2, <3>3 DEF reservedBy, childOf, ownerOf
    <3> QED
      BY <3>4 DEF Covers, Seen, Reserve
  <2> QED
    BY <2>1, <2>2 DEF Reserve
<1>5. \A o \in Orch : Busy(o)' \subseteq (Busy(o) \ outside) \cup Covers(o)' \cup outside'
  BY DEF IInv, Types, Busy, Covers, childOf, ownerOf, Worker, Reserve
<1>6. SlotsSeen'
  BY <1>4, <1>5, SlotsSeenStep DEF IInv, Safe, Reserve
<1> QED
  BY <1>1, <1>2, <1>3, <1>6 DEF Safe

\* An adopted running child is one the limit cannot answer for.
LEMMA AdoptLabelStep == ASSUME IInv, Types', AdoptLabel PROVE Safe'
<1> USE ConstantsAssumption
<1>1. WorkersReserved'
  BY DEF IInv, Safe, Types, WorkersReserved, InHand, childOf, AdoptLabel
<1>2. NoDoubleStart'
  BY DEF IInv, Safe, Types, NoDoubleStart, LoneInHand, childOf, AdoptLabel
<1>3. LoneInHand'
  BY DEF IInv, Safe, Types, LoneInHand, NoDoubleStart, childOf, AdoptLabel
<1>4. \A o \in Orch : Covers(o) \subseteq Covers(o)' \cup outside'
  BY DEF IInv, Types, Covers, Seen, reservedBy, InHand, childOf, ownerOf, Worker, AdoptLabel
<1>5. \A o \in Orch : Busy(o)' \subseteq (Busy(o) \ outside) \cup Covers(o)' \cup outside'
  BY DEF IInv, Types, Busy, Covers, childOf, ownerOf, Worker, AdoptLabel
<1>6. SlotsSeen'
  BY <1>4, <1>5, SlotsSeenStep DEF IInv, Safe, AdoptLabel
<1> QED
  BY <1>1, <1>2, <1>3, <1>6 DEF Safe

\* Workers move children only between states their reservation covers.
LEMMA WorkerCreatesStep == ASSUME IInv, Types', NEW w \in workers, WorkerCreates(w) PROVE Safe'
<1> USE ConstantsAssumption
<1>1. WorkersReserved'
  BY DEF IInv, Safe, Types, WorkersReserved, InHand, childOf, WorkerCreates
<1>2. NoDoubleStart'
  BY DEF IInv, Safe, Types, NoDoubleStart, LoneInHand, childOf, WorkerCreates
<1>3. LoneInHand'
  BY DEF IInv, Safe, Types, LoneInHand, NoDoubleStart, childOf, WorkerCreates
<1>4. \A o \in Orch : Covers(o) \subseteq Covers(o)' \cup outside'
  BY DEF IInv, Types, Covers, Seen, reservedBy, InHand, childOf, ownerOf, Worker,
    WorkerCreates
<1>5. \A o \in Orch : Busy(o)' \subseteq (Busy(o) \ outside) \cup Covers(o)' \cup outside'
  BY DEF IInv, Types, Busy, Covers, childOf, ownerOf, Worker, WorkerCreates
<1>6. SlotsSeen'
  BY <1>4, <1>5, SlotsSeenStep DEF IInv, Safe, WorkerCreates
<1> QED
  BY <1>1, <1>2, <1>3, <1>6 DEF Safe

\* A booted child is covered by its worker's reservation, or is not its orchestrator's.
LEMMA WorkerBootsStep == ASSUME IInv, Types', NEW w \in workers, WorkerBoots(w) PROVE Safe'
<1> USE ConstantsAssumption
<1>1. WorkersReserved'
  BY DEF IInv, Safe, Types, WorkersReserved, InHand, childOf, WorkerBoots
<1>2. NoDoubleStart'
  BY DEF IInv, Safe, Types, NoDoubleStart, LoneInHand, childOf, WorkerBoots
<1>3. LoneInHand'
  BY DEF IInv, Safe, Types, LoneInHand, NoDoubleStart, childOf, WorkerBoots
<1>4. \A o \in Orch : Covers(o) \subseteq Covers(o)' \cup outside'
  BY DEF IInv, Types, Covers, Seen, reservedBy, InHand, childOf, ownerOf, Worker,
    WorkerBoots
<1>5. \A o \in Orch : Busy(o)' \subseteq (Busy(o) \ outside) \cup Covers(o)' \cup outside'
  <2>1. /\ UNCHANGED <<parent, workers>> /\ outside \subseteq outside'
        /\ parent[childOf(w)] = ownerOf(w) \/ childOf(w) \in outside'
    BY DEF WorkerBoots
  <2>2. \A c \in Child : status'[c] = "running" => status[c] = "running" \/ c = childOf(w)
    BY DEF IInv, Types, WorkerBoots
  <2>3. \A o \in Orch : Busy(o)' \subseteq Busy(o) \cup outside'
    BY <2>1, <2>2 DEF Busy, childOf, ownerOf
  <2> QED
    BY <2>1, <2>3
<1>6. SlotsSeen'
  BY <1>4, <1>5, SlotsSeenStep DEF IInv, Safe, WorkerBoots
<1> QED
  BY <1>1, <1>2, <1>3, <1>6 DEF Safe

\* A worker that ends leaves its reservation behind until the next prune.
LEMMA WorkerEndsStep == ASSUME IInv, Types', NEW w \in workers, WorkerEnds(w) PROVE Safe'
<1> USE ConstantsAssumption
<1>1. WorkersReserved'
  BY DEF IInv, Safe, Types, WorkersReserved, InHand, childOf, WorkerEnds, gone
<1>2. NoDoubleStart'
  BY DEF IInv, Safe, Types, NoDoubleStart, LoneInHand, childOf, WorkerEnds, gone
<1>3. LoneInHand'
  BY DEF IInv, Safe, Types, LoneInHand, NoDoubleStart, childOf, WorkerEnds, gone
<1>4. \A o \in Orch : Covers(o) \subseteq Covers(o)' \cup outside'
  BY DEF IInv, Types, Covers, Seen, reservedBy, InHand, childOf, ownerOf, Worker,
    WorkerEnds, gone
<1>5. \A o \in Orch : Busy(o)' \subseteq (Busy(o) \ outside) \cup Covers(o)' \cup outside'
  BY DEF IInv, Types, Busy, Covers, childOf, ownerOf, Worker, WorkerEnds, gone
<1>6. SlotsSeen'
  BY <1>4, <1>5, SlotsSeenStep DEF IInv, Safe, WorkerEnds, gone
<1> QED
  BY <1>1, <1>2, <1>3, <1>6 DEF Safe

\* So does one that fails; what it made may go.
LEMMA WorkerFailsStep == ASSUME IInv, Types', NEW w \in workers, WorkerFails(w) PROVE Safe'
<1> USE ConstantsAssumption
<1>1. WorkersReserved'
  BY DEF IInv, Safe, Types, WorkersReserved, InHand, childOf, WorkerFails, gone, busyWith
<1>2. NoDoubleStart'
  BY DEF IInv, Safe, Types, NoDoubleStart, LoneInHand, childOf, WorkerFails, gone, busyWith
<1>3. LoneInHand'
  BY DEF IInv, Safe, Types, LoneInHand, NoDoubleStart, childOf, WorkerFails, gone, busyWith
<1>4. \A o \in Orch : Covers(o) \subseteq Covers(o)' \cup outside'
  BY DEF IInv, Types, Covers, Seen, reservedBy, InHand, childOf, ownerOf, Worker,
    WorkerFails, gone, busyWith
<1>5. \A o \in Orch : Busy(o)' \subseteq (Busy(o) \ outside) \cup Covers(o)' \cup outside'
  <2>1. /\ workers' \subseteq workers /\ outside \ outside' \subseteq {childOf(w)}
        /\ \A c \in Child : status'[c] = "running" =>
             status[c] = "running" /\ parent'[c] = parent[c]
        /\ childOf(w) \in outside \ outside' =>
             status'[childOf(w)] # "running" /\ busyWith(childOf(w)) = {w}
    BY DEF IInv, Types, WorkerFails, gone
  <2>2. ASSUME NEW o \in Orch PROVE Busy(o)' \subseteq Busy(o)
    BY <2>1 DEF Busy, childOf, ownerOf
  <2>3. ASSUME NEW o \in Orch, childOf(w) \in outside \ outside'
        PROVE  childOf(w) \notin Busy(o)'
    <3>1. workers' = workers \ {w}
      BY DEF WorkerFails, gone
    <3>2. \A x \in workers' : childOf(x) # childOf(w)
      BY <2>1, <2>3, <3>1 DEF busyWith
    <3> QED
      BY <2>1, <2>3, <3>2 DEF Busy, childOf, ownerOf
  <2> QED
    BY <2>1, <2>2, <2>3
<1>6. SlotsSeen'
  BY <1>4, <1>5, SlotsSeenStep DEF IInv, Safe, WorkerFails, gone, busyWith
<1> QED
  BY <1>1, <1>2, <1>3, <1>6 DEF Safe

\* A child that stops only leaves the set of busy children.
LEMMA ChildStopsStep == ASSUME IInv, Types', NEW c \in Child, ChildStops(c) PROVE Safe'
<1> USE ConstantsAssumption
<1>1. WorkersReserved'
  BY DEF IInv, Safe, Types, WorkersReserved, InHand, childOf, ChildStops, busyWith
<1>2. NoDoubleStart'
  BY DEF IInv, Safe, Types, NoDoubleStart, LoneInHand, childOf, ChildStops, busyWith
<1>3. LoneInHand'
  BY DEF IInv, Safe, Types, LoneInHand, NoDoubleStart, childOf, ChildStops, busyWith
<1>4. \A o \in Orch : Covers(o) \subseteq Covers(o)' \cup outside'
  BY DEF IInv, Types, Covers, Seen, reservedBy, InHand, childOf, ownerOf, Worker,
    ChildStops, busyWith
<1>5. \A o \in Orch : Busy(o)' \subseteq (Busy(o) \ outside) \cup Covers(o)' \cup outside'
  BY DEF IInv, Types, Busy, Covers, childOf, ownerOf, Worker, ChildStops, busyWith
<1>6. SlotsSeen'
  BY <1>4, <1>5, SlotsSeenStep DEF IInv, Safe, ChildStops, busyWith
<1> QED
  BY <1>1, <1>2, <1>3, <1>6 DEF Safe

\* So does one that is destroyed.
LEMMA ChildDestroyedStep == ASSUME IInv, Types', NEW c \in Child, ChildDestroyed(c) PROVE Safe'
<1> USE ConstantsAssumption
<1>1. WorkersReserved'
  BY DEF IInv, Safe, Types, WorkersReserved, InHand, childOf, ChildDestroyed, busyWith
<1>2. NoDoubleStart'
  BY DEF IInv, Safe, Types, NoDoubleStart, LoneInHand, childOf, ChildDestroyed, busyWith
<1>3. LoneInHand'
  BY DEF IInv, Safe, Types, LoneInHand, NoDoubleStart, childOf, ChildDestroyed, busyWith
<1>4. \A o \in Orch : Covers(o) \subseteq Covers(o)' \cup outside'
  BY DEF IInv, Types, Covers, Seen, reservedBy, InHand, childOf, ownerOf, Worker,
    ChildDestroyed, busyWith
<1>5. \A o \in Orch : Busy(o)' \subseteq (Busy(o) \ outside) \cup Covers(o)' \cup outside'
  BY DEF IInv, Types, Busy, Covers, childOf, ownerOf, Worker, ChildDestroyed, busyWith
<1>6. SlotsSeen'
  BY <1>4, <1>5, SlotsSeenStep DEF IInv, Safe, ChildDestroyed, busyWith
<1> QED
  BY <1>1, <1>2, <1>3, <1>6 DEF Safe

\* A child a user starts is one the limit cannot answer for.
LEMMA UserStartsStep == ASSUME IInv, Types', NEW c \in Child, UserStarts(c) PROVE Safe'
<1> USE ConstantsAssumption
<1>1. WorkersReserved'
  BY DEF IInv, Safe, Types, WorkersReserved, InHand, childOf, UserStarts, busyWith
<1>2. NoDoubleStart'
  BY DEF IInv, Safe, Types, NoDoubleStart, LoneInHand, childOf, UserStarts, busyWith
<1>3. LoneInHand'
  BY DEF IInv, Safe, Types, LoneInHand, NoDoubleStart, childOf, UserStarts, busyWith
<1>4. \A o \in Orch : Covers(o) \subseteq Covers(o)' \cup outside'
  BY DEF IInv, Types, Covers, Seen, reservedBy, InHand, childOf, ownerOf, Worker,
    UserStarts, busyWith
<1>5. \A o \in Orch : Busy(o)' \subseteq (Busy(o) \ outside) \cup Covers(o)' \cup outside'
  BY DEF IInv, Types, Busy, Covers, childOf, ownerOf, Worker, UserStarts, busyWith
<1>6. SlotsSeen'
  BY <1>4, <1>5, SlotsSeenStep DEF IInv, Safe, UserStarts, busyWith
<1> QED
  BY <1>1, <1>2, <1>3, <1>6 DEF Safe

\* A launch on a name nobody holds starts the only worker on it.
LEMMA LaunchStep ==
  ASSUME IInv, Types', NEW r \in Req, pc \in {"serve", "start"}, ready(r), Launch(r)
  PROVE  Safe'
<1> USE ConstantsAssumption
<1> DEFINE w == [req |-> r, n |-> launches[r] + 1]
<1>a. workers' = workers \cup {w} /\ InHand = {} /\ InHand' = {w}
  BY DEF Launch, InHand, IInv, Types
<1>b. childOf(w) = Target[r] /\ ownerOf(w) = Who[r]
  BY DEF childOf, ownerOf
<1>c. \A x \in workers : childOf(x) = Target[r] => childOf(x) \in outside
  BY <1>a DEF ready, creating, IInv, Safe, WorkersReserved
<1>d. \A x \in workers \cup {w} : childOf(x)' = childOf(x) /\ ownerOf(x)' = ownerOf(x)
  BY DEF childOf, ownerOf
<1>1. WorkersReserved'
  BY DEF IInv, Safe, Types, WorkersReserved, InHand, childOf, Launch
<1>2. NoDoubleStart'
  BY <1>a, <1>b, <1>c DEF IInv, Safe, NoDoubleStart, childOf, Launch
<1>3. LoneInHand'
  BY <1>a, <1>b, <1>c DEF IInv, Types, LoneInHand, childOf, Launch
<1>4. \A o \in Orch : Covers(o) \subseteq Covers(o)' \cup outside'
  BY DEF IInv, Types, Covers, Seen, reservedBy, InHand, childOf, ownerOf, Worker, Launch
<1>5. \A o \in Orch : Busy(o)' \subseteq (Busy(o) \ outside) \cup Covers(o)' \cup outside'
  <2> SUFFICES ASSUME NEW o \in Orch, NEW k \in Busy(o)', k \notin outside'
               PROVE  k \in Busy(o) \/ k \in Covers(o)'
    BY DEF Launch
  <2>1. k \in Busy(o) \/ (k = childOf(w) /\ ownerOf(w) = o)
    BY <1>a DEF Busy, Launch, childOf, ownerOf
  <2>2. k = childOf(w) /\ ownerOf(w) = o => k \in Covers(o)'
    <3>1. \A x : x \in InHand' /\ ownerOf(x) = o => childOf(x) \in Covers(o)'
      BY DEF Covers, childOf, ownerOf
    <3> QED
      BY <1>a, <3>1
  <2> QED
    BY <2>1, <2>2
<1>6. SlotsSeen'
  BY <1>4, <1>5, SlotsSeenStep DEF IInv, Safe, Launch
<1> QED
  BY <1>1, <1>2, <1>3, <1>6 DEF Safe

\* Every step keeps the safety part of the invariant.
LEMMA SafeStep == IInv /\ [Next]_vars => Safe'
<1> SUFFICES ASSUME IInv, [Next]_vars PROVE Safe'
  OBVIOUS
<1>t. Types'
  BY TypesStep DEF IInv
<1>1. CASE Prune \/ List \/ Refresh
  BY <1>1, <1>t, PruneStep, ListStep, RefreshStep
<1>2. CASE Reserve \/ Answer \/ Crash \/ AdoptLabel
  BY <1>2, <1>t, ReserveStep, AnswerStep, CrashStep, AdoptLabelStep
<1>3. ASSUME NEW r \in Req, StartNow(r) PROVE Safe'
  BY <1>3, <1>t, LaunchStep DEF StartNow, acceptable
<1>4. CASE StartQueued
  BY <1>4, <1>t, LaunchStep DEF StartQueued, IInv, Types
<1>5. CASE Workers
  BY <1>5, <1>t, WorkerCreatesStep, WorkerBootsStep, WorkerEndsStep, WorkerFailsStep
    DEF Workers
<1>6. ASSUME NEW c \in Child, ChildStops(c) \/ ChildDestroyed(c) \/ UserStarts(c)
      PROVE  Safe'
  BY <1>6, <1>t, ChildStopsStep, ChildDestroyedStep, UserStartsStep
<1>7. CASE Record \/ Pop \/ RefuseQueued \/ StarterRaises \/ EndDrain \/ EndRound \/ Restart
  <2> Quiet
    BY <1>7 DEF Quiet, Record, Pop, RefuseQueued, StarterRaises, EndDrain, EndRound, Restart
  <2> QED
    BY QuietStep
<1>8. ASSUME NEW r \in Req, SkipSeen(r) \/ Enqueue(r) \/ Refuse(r) \/ Submit(r) PROVE Safe'
  <2> Quiet
    BY <1>8 DEF Quiet, SkipSeen, Enqueue, Refuse, Submit
  <2> QED
    BY QuietStep
<1>9. ASSUME NEW o \in Orch, DropQueue(o) \/ BeginDrain(o) PROVE Safe'
  <2> Quiet
    BY <1>9 DEF Quiet, DropQueue, BeginDrain
  <2> QED
    BY QuietStep
<1>10. ASSUME NEW o \in Orch, NEW l \in 0..MaxLimit, Regrant(o, l) PROVE Safe'
  <2> Quiet
    BY <1>10 DEF Quiet, Regrant
  <2> QED
    BY QuietStep
<1>11. ASSUME NEW o \in Orch, NEW c \in Child, AdoptCheck(o, c) PROVE Safe'
  <2> Quiet
    BY <1>11 DEF Quiet, AdoptCheck
  <2> QED
    BY QuietStep
<1>12. CASE UNCHANGED vars
  <2> Quiet
    BY <1>12 DEF Quiet, vars
  <2> QED
    BY QuietStep
<1> QED
  BY <1>1, <1>2, <1>3, <1>4, <1>5, <1>6, <1>7, <1>8, <1>9, <1>10, <1>11, <1>12
    DEF Next, Broker, Others

\* The invariant is inductive.
LEMMA IInvAlways == Spec => []IInv
<1>1. IInv /\ [Next]_vars => IInv'
  BY TypesStep, SafeStep DEF IInv
<1> QED
  BY InitIInv, <1>1, PTL DEF Spec

\* For any number of orchestrators, children, requests and broker deaths: every live
\* worker is in reservations.json or about to be, whatever is pruned, replaced, stopped,
\* adopted or restarted, unless its reservation was lost.
THEOREM WorkersReservedAlways == Spec => []WorkersReserved
<1>1. IInv => WorkersReserved
  BY DEF IInv, Safe
<1> QED
  BY IInvAlways, <1>1, PTL

\* Every child the limit must answer for is in the listing the round works from or in
\* reservations.json: the order "prune, then list, then count reservations" never loses a
\* child whose worker ends in between.
THEOREM SlotsSeenAlways == Spec => []SlotsSeen
<1>1. IInv => SlotsSeen
  BY DEF IInv, Safe
<1> QED
  BY IInvAlways, <1>1, PTL

\* No two live workers are ever at work on one name, however many orchestrators ask for
\* it, unless a reservation was lost or the container started behind the broker's back.
THEOREM NoDoubleStartAlways == Spec => []NoDoubleStart
<1>1. IInv => NoDoubleStart
  BY DEF IInv, Safe
<1> QED
  BY IInvAlways, <1>1, PTL
=============================================================================
