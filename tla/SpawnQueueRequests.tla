-------------------------- MODULE SpawnQueueRequests --------------------------
(***************************************************************************)
(* What holds of SpawnQueue for every value of its constants beside the    *)
(* slots being seen: the types, the limit that the broker's starts keep,   *)
(* what becomes of a request (it starts at most once, in its turn, and a   *)
(* queued one is never forgotten), and that all of it implements the line  *)
(* an orchestrator is promised.                                            *)
(***************************************************************************)
EXTENDS SpawnQueueProofs, FiniteSetTheorems

USE DEF labels, processes, operator, files, round, handling, drain, memory, bounds, fate

\* What Types leaves of TypeOK, by what the parts depend on.
Sets ==
  /\ made \subseteq workers /\ jobs \subseteq workers /\ journal \subseteq Req
  /\ todo \subseteq outbox /\ toSettle \subseteq Orch /\ sent \subseteq Req
  /\ outside \subseteq Child

Numbers ==
  /\ peak \in [Orch -> 1..MaxLimit] /\ crashes \in 0..MaxCrashes
  /\ launches \in [Req -> 0..(MaxCrashes + 1)] /\ free \in Int

Answers ==
  /\ outcome \in {"none", "started", "queued", "refused"}
  /\ pc \in {"reserve", "record", "answer"} => outcome # "none"
  /\ results \in Seq(Req \X {"started", "refused"})
  /\ told \in [Req -> SUBSET {"started", "queued", "refused"}]
  /\ retried \subseteq Req /\ dropped \subseteq Req

\* Unless there are no requests one of them was queued last, so that the next stamp is a
\* number.
Stamps ==
  /\ stamp \in [Req -> Nat]
  /\ \A r \in Req : \E q \in Req : \A p \in Req : stamp[p] <= stamp[q]

NamesOf(q) == \A i, j \in DOMAIN q : Target[q[i]] = Target[q[j]] => i = j
Names == \A o \in Orch : NamesOf(queue[o])

TypeInv == Types /\ Sets /\ Numbers /\ Answers /\ Stamps /\ Names

\* The parts are all of TypeOK.
LEMMA TypeParts == TypeInv => TypeOK
  BY DEF TypeInv, TypeOK, Types, Sets, Numbers, Answers, Stamps, Names, NamesOf

\* Every variable has its type before the first round.
LEMMA TypeInit == Init => TypeInv
<1> SUFFICES ASSUME Init PROVE TypeInv
  OBVIOUS
<1> USE ConstantsAssumption
<1>1. Types
  BY InitIInv DEF IInv
<1>2. Sets /\ Numbers /\ Answers
  BY DEF Init, Sets, Numbers, Answers
<1>3. Stamps /\ Names
  BY DEF Init, Stamps, Names, NamesOf
<1> QED
  BY <1>1, <1>2, <1>3 DEF TypeInv

\* Every step keeps the sets.
LEMMA SetsStep == Types /\ Sets /\ [Next]_vars => Sets'
<1> SUFFICES ASSUME Types, Sets, [Next]_vars PROVE Sets'
  OBVIOUS
<1> USE ConstantsAssumption DEF Types, Sets
<1>1. CASE Prune \/ List \/ Record \/ Answer \/ Refresh
  BY <1>1 DEF Prune, List, Record, Answer, Refresh
<1>2. CASE Reserve
  <2>1. Target[cur] \in Child
    BY <1>2 DEF Reserve
  <2> QED
    BY <1>2, <2>1 DEF Reserve
<1>3. ASSUME NEW r \in Req, Launch(r) PROVE Sets'
  BY <1>3 DEF Launch
<1>4. CASE Pop \/ RefuseQueued \/ StarterRaises \/ EndDrain \/ EndRound \/ Restart
  BY <1>4 DEF Pop, RefuseQueued, StarterRaises, EndDrain, EndRound, Restart
<1>5. CASE StartQueued
  BY <1>5, <1>3 DEF StartQueued
<1>6. ASSUME NEW r \in Req, SkipSeen(r) \/ Enqueue(r) \/ Refuse(r) PROVE Sets'
  BY <1>6 DEF SkipSeen, Enqueue, Refuse
<1>7. ASSUME NEW r \in Req, StartNow(r) PROVE Sets'
  BY <1>7, <1>3 DEF StartNow
<1>8. ASSUME NEW o \in Orch, DropQueue(o) \/ BeginDrain(o) PROVE Sets'
  BY <1>8 DEF DropQueue, BeginDrain
<1>9. CASE Crash
  BY <1>9 DEF Crash
<1>10. ASSUME NEW w \in workers,
              WorkerCreates(w) \/ WorkerBoots(w) \/ WorkerEnds(w) \/ WorkerFails(w)
       PROVE  Sets'
  <2>1. childOf(w) \in Child
    BY DEF childOf, Worker
  <2>2. CASE WorkerCreates(w)
    <3>1. made' \subseteq workers /\ UNCHANGED <<workers, jobs, journal, outbox, todo, toSettle,
                                                 sent, outside>>
      BY <2>2 DEF WorkerCreates
    <3> QED
      BY <3>1
  <2>3. CASE WorkerBoots(w)
    <3>1. outside' \subseteq outside \cup {childOf(w)}
      BY <2>3 DEF WorkerBoots
    <3> QED
      BY <2>1, <2>3, <3>1 DEF WorkerBoots
  <2>4. CASE WorkerEnds(w)
    BY <2>4 DEF WorkerEnds, gone
  <2>5. CASE WorkerFails(w)
    <3>1. outside' \subseteq outside
      BY <2>5 DEF WorkerFails
    <3> QED
      BY <2>5, <3>1 DEF WorkerFails, gone
  <2> QED
    BY <1>10, <2>2, <2>3, <2>4, <2>5
<1>11. ASSUME NEW r \in Req, Submit(r) PROVE Sets'
  BY <1>11 DEF Submit
<1>12. ASSUME NEW c \in Child, ChildStops(c) \/ ChildDestroyed(c) \/ UserStarts(c)
       PROVE  Sets'
  BY <1>12 DEF ChildStops, ChildDestroyed, UserStarts
<1>13. ASSUME NEW o \in Orch, NEW l \in 0..MaxLimit, Regrant(o, l) PROVE Sets'
  BY <1>13 DEF Regrant
<1>14. ASSUME NEW o \in Orch, NEW c \in Child, AdoptCheck(o, c) PROVE Sets'
  BY <1>14 DEF AdoptCheck
<1>15. CASE AdoptLabel
  <2>1. UNCHANGED <<workers, made, jobs, journal, outbox, todo, toSettle, sent>>
    BY <1>15 DEF AdoptLabel
  <2>2. adopting.child \in Child
    BY <1>15 DEF AdoptLabel
  <2>3. outside' \subseteq outside \cup {adopting.child}
    BY <1>15 DEF AdoptLabel
  <2> QED
    BY <2>1, <2>2, <2>3
<1>16. CASE UNCHANGED vars
  BY <1>16 DEF vars
<1> QED
  BY <1>1, <1>2, <1>4, <1>5, <1>6, <1>7, <1>8, <1>9, <1>10, <1>11, <1>12, <1>13, <1>14,
    <1>15, <1>16 DEF Next, Broker, Workers, Others

\* What slot_breakdown counts is a finite set of names, so its size is a number.
LEMMA SlotsCounted ==
  ASSUME Types, Sets, NEW o \in Orch, NEW listing PROVE Cardinality(slots(o, listing)) \in Nat
<1>1. slots(o, listing) \subseteq Child
  BY ConstantsAssumption DEF Types, Sets, slots, jobNames, reservedBy, childOf, Worker
<1>2. IsFiniteSet(slots(o, listing))
  BY <1>1, FS_Subset, ConstantsAssumption
<1> QED
  BY <1>2, FS_CardinalityType

\* Every step keeps the numbers.
LEMMA NumbersStep == Types /\ Sets /\ Numbers /\ [Next]_vars => Numbers'
<1> SUFFICES ASSUME Types, Sets, Numbers, [Next]_vars PROVE Numbers'
  OBVIOUS
<1> USE ConstantsAssumption DEF Numbers
<1>1. CASE Prune \/ List \/ Record \/ Answer \/ Refresh \/ Reserve
  BY <1>1 DEF Prune, List, Record, Answer, Refresh, Reserve
<1>2. ASSUME NEW r \in Req, Launch(r) PROVE Numbers'
  <2>1. launches[r] + 1 \in 1..(MaxCrashes + 1)
    BY <1>2 DEF Launch, Worker
  <2> QED
    BY <1>2, <2>1 DEF Launch
<1>3. CASE Pop \/ RefuseQueued \/ StarterRaises \/ EndDrain \/ EndRound \/ Restart
  BY <1>3 DEF Pop, RefuseQueued, StarterRaises, EndDrain, EndRound, Restart
<1>4. CASE StartQueued
  BY <1>2, <1>4 DEF StartQueued, Types
<1>5. ASSUME NEW r \in Req,
             SkipSeen(r) \/ Enqueue(r) \/ Refuse(r) \/ StartNow(r) \/ Submit(r)
      PROVE  Numbers'
  BY <1>2, <1>5 DEF SkipSeen, Enqueue, Refuse, StartNow, Submit
<1>6. ASSUME NEW o \in Orch, DropQueue(o) PROVE Numbers'
  BY <1>6 DEF DropQueue
<1>7. ASSUME NEW o \in Orch, BeginDrain(o) PROVE Numbers'
  <2>1. snap[o].limit[o] \in Int
    BY DEF Types, Listing
  <2> QED
    BY <1>7, <2>1, SlotsCounted DEF BeginDrain
<1>8. CASE Crash
  BY <1>8 DEF Crash
<1>9. ASSUME NEW w \in workers,
             WorkerCreates(w) \/ WorkerBoots(w) \/ WorkerEnds(w) \/ WorkerFails(w)
      PROVE  Numbers'
  BY <1>9 DEF WorkerCreates, WorkerBoots, WorkerEnds, WorkerFails, gone
<1>10. ASSUME NEW c \in Child, ChildStops(c) \/ ChildDestroyed(c) \/ UserStarts(c)
       PROVE  Numbers'
  BY <1>10 DEF ChildStops, ChildDestroyed, UserStarts
<1>11. ASSUME NEW o \in Orch, NEW l \in 0..MaxLimit, Regrant(o, l) PROVE Numbers'
  BY <1>11 DEF Regrant
<1>12. CASE AdoptLabel \/ \E o \in Orch, c \in Child : AdoptCheck(o, c)
  BY <1>12 DEF AdoptLabel, AdoptCheck
<1>13. CASE UNCHANGED vars
  BY <1>13 DEF vars
<1> QED
  BY <1>1, <1>3, <1>4, <1>5, <1>6, <1>7, <1>8, <1>9, <1>10, <1>11, <1>12, <1>13
    DEF Next, Broker, Workers, Others

\* Every step keeps what is answered.
LEMMA AnswersStep == Types /\ Answers /\ [Next]_vars => Answers'
<1> SUFFICES ASSUME Types, Answers, [Next]_vars PROVE Answers'
  OBVIOUS
<1> USE ConstantsAssumption DEF Types, Answers
<1>a. popped \subseteq Req
  BY DEF popped
<1>1. CASE Prune \/ List \/ Record \/ Refresh
  BY <1>1 DEF Prune, List, Record, Refresh
<1>2. CASE Reserve
  <2>1. Append(results, <<cur, "started">>) \in Seq(Req \X {"started", "refused"})
    BY <1>2 DEF Reserve
  <2> QED
    BY <1>2, <2>1 DEF Reserve
<1>3. CASE Answer
  <2>1. cur \in Req /\ outcome \in {"started", "queued", "refused"}
    BY <1>3 DEF Answer
  <2>2. told[cur] \cup {outcome} \in SUBSET {"started", "queued", "refused"}
    BY <2>1
  <2> QED
    BY <1>3, <2>1, <2>2 DEF Answer
<1>4. ASSUME NEW r \in Req, Launch(r) PROVE Answers'
  BY <1>4 DEF Launch
<1>5. CASE Pop \/ EndRound \/ Restart
  BY <1>5 DEF Pop, EndRound, Restart
<1>6. CASE RefuseQueued
  <2>1. Append(results, <<cur, "refused">>) \in Seq(Req \X {"started", "refused"})
    BY <1>6 DEF RefuseQueued
  <2> QED
    BY <1>6, <2>1 DEF RefuseQueued
<1>7. CASE EndDrain
  <2>1. ASSUME NEW r \in Req PROVE reported(r) \subseteq {"started", "refused"}
    <3>1. \A i \in DOMAIN results : results[i] \in Req \X {"started", "refused"}
      OBVIOUS
    <3>2. \A i \in DOMAIN results : results[i][2] \in {"started", "refused"}
      BY <3>1
    <3> QED
      BY <3>2 DEF reported
  <2> QED
    BY <1>7, <2>1 DEF EndDrain
<1>8. CASE StartQueued
  BY <1>4, <1>8 DEF StartQueued
<1>9. ASSUME NEW r \in Req,
             SkipSeen(r) \/ Enqueue(r) \/ Refuse(r) \/ StartNow(r) \/ Submit(r)
      PROVE  Answers'
  BY <1>4, <1>9 DEF SkipSeen, Enqueue, Refuse, StartNow, Submit
<1>10. ASSUME NEW o \in Orch, DropQueue(o) \/ BeginDrain(o) PROVE Answers'
  BY <1>10 DEF DropQueue, BeginDrain
<1>11. CASE Crash
  <2>1. outcome' = "none" /\ pc' = "down" /\ results' = <<>> /\ told' = told
    BY <1>11 DEF Crash
  <2>2. results' \in Seq(Req \X {"started", "refused"})
    BY <2>1
  <2>3. retried' \subseteq Req
    <3>1. draining = None /\ pc \in {"reserve", "record"} => cur \in Req
      OBVIOUS
    <3> QED
      BY <1>11, <3>1 DEF Crash
  <2>4. dropped' \subseteq Req
    BY <1>11, <1>a DEF Crash
  <2> QED
    BY <2>1, <2>2, <2>3, <2>4
<1>12. ASSUME NEW w \in workers,
              WorkerCreates(w) \/ WorkerBoots(w) \/ WorkerEnds(w) \/ WorkerFails(w)
       PROVE  Answers'
  BY <1>12 DEF WorkerCreates, WorkerBoots, WorkerEnds, WorkerFails, gone
<1>13. ASSUME NEW c \in Child, ChildStops(c) \/ ChildDestroyed(c) \/ UserStarts(c)
       PROVE  Answers'
  BY <1>13 DEF ChildStops, ChildDestroyed, UserStarts
<1>14. CASE \/ \E o \in Orch, l \in 0..MaxLimit : Regrant(o, l)
            \/ \E o \in Orch, c \in Child : AdoptCheck(o, c)
            \/ AdoptLabel
  <2>1. UNCHANGED <<outcome, pc, results, told, retried, dropped>>
    BY <1>14 DEF Regrant, AdoptCheck, AdoptLabel
  <2> QED
    BY <2>1
<1>15. CASE UNCHANGED vars
  BY <1>15 DEF vars
<1>16. CASE StarterRaises
  BY <1>16, <1>a DEF StarterRaises
<1> QED
  BY <1>1, <1>2, <1>3, <1>5, <1>6, <1>7, <1>8, <1>9, <1>10, <1>11, <1>12, <1>13, <1>14,
    <1>15, <1>16 DEF Next, Broker, Workers, Others

\* Only a request that has to wait is stamped and enters a queue.
LEMMA QueueMoved ==
  ASSUME Types, [Next]_vars
  PROVE  \/ UNCHANGED <<stamp, queue>>
         \/ \E r \in Req : Enqueue(r)
         \/ \E o \in Orch : DropQueue(o)
         \/ Pop
<1> DEFINE Still == UNCHANGED <<stamp, queue>>
<1>1. Prune \/ List \/ Reserve \/ Record \/ Answer \/ Refresh => Still
  BY DEF Prune, List, Reserve, Record, Answer, Refresh
<1>2. RefuseQueued \/ StarterRaises \/ EndDrain \/ EndRound \/ Restart => Still
  BY DEF RefuseQueued, StarterRaises, EndDrain, EndRound, Restart
<1>3. \A r : Launch(r) => Still
  BY DEF Launch
<1>4. StartQueued => Still
  BY <1>3 DEF StartQueued
<1>5. \A r : SkipSeen(r) \/ StartNow(r) \/ Refuse(r) \/ Submit(r) => Still
  BY <1>3 DEF SkipSeen, StartNow, Refuse, Submit
<1>6. (\A o : BeginDrain(o) => Still) /\ (Crash => Still)
  BY DEF BeginDrain, Crash
<1>7. \A w : WorkerCreates(w) \/ WorkerBoots(w) \/ WorkerEnds(w) \/ WorkerFails(w) => Still
  BY DEF WorkerCreates, WorkerBoots, WorkerEnds, WorkerFails, gone
<1>8. \A c : ChildStops(c) \/ ChildDestroyed(c) \/ UserStarts(c) => Still
  BY DEF ChildStops, ChildDestroyed, UserStarts
<1>9. \A o, l, c : Regrant(o, l) \/ AdoptCheck(o, c) \/ AdoptLabel \/ UNCHANGED vars => Still
  BY DEF Regrant, AdoptCheck, AdoptLabel, vars
<1> QED
  BY <1>1, <1>2, <1>4, <1>5, <1>6, <1>7, <1>8, <1>9 DEF Next, Broker, Workers, Others

\* The stamp of the request queued last is the greatest.
LEMMA StampsStep == Types /\ Stamps /\ [Next]_vars => Stamps'
<1> SUFFICES ASSUME Types, Stamps, [Next]_vars PROVE Stamps'
  OBVIOUS
<1>1. CASE stamp' = stamp
  BY <1>1 DEF Stamps
<1>2. ASSUME NEW r \in Req, Enqueue(r) PROVE Stamps'
  <2>1. PICK q \in Req : \A p \in Req : stamp[p] <= stamp[q]
    BY DEF Stamps
  <2>2. \E s \in {stamp[p] : p \in Req} : \A p \in Req : stamp[p] <= s
    BY <2>1
  <2>3. lastStamp \in {stamp[p] : p \in Req} /\ \A p \in Req : stamp[p] <= lastStamp
    BY <2>2 DEF lastStamp
  <2>4. lastStamp \in Nat
    BY <2>3 DEF Stamps
  <2>5. stamp' = [stamp EXCEPT ![r] = 1 + lastStamp]
    BY <1>2 DEF Enqueue
  <2>6. stamp' \in [Req -> Nat] /\ \A p \in Req : stamp'[p] <= stamp'[r]
    BY <2>3, <2>4, <2>5 DEF Stamps
  <2> QED
    BY <2>6 DEF Stamps
<1> QED
  BY <1>1, <1>2, QueueMoved DEF DropQueue, Pop

\* A name enters a queue once, and leaves it from the front.
LEMMA NamesStep == Types /\ Names /\ [Next]_vars => Names'
<1> SUFFICES ASSUME Types, Names, [Next]_vars, NEW o \in Orch PROVE NamesOf(queue'[o])
  BY DEF Names
<1>a. queue \in [Orch -> Seq(Req)] /\ queue[o] \in Seq(Req) /\ NamesOf(queue[o])
  BY DEF Types, Names
<1>1. CASE queue'[o] = queue[o]
  BY <1>1, <1>a
<1>2. ASSUME NEW r \in Req, Enqueue(r), o = Who[r] PROVE NamesOf(queue'[o])
  <2>1. queue'[o] = Append(queue[o], r)
    BY <1>2, <1>a DEF Enqueue
  <2>2. \A i \in DOMAIN queue[o] : Target[queue[o][i]] # Target[r]
    BY <1>2 DEF Enqueue, acceptable, queuedNames
  <2> QED
    BY <1>a, <2>1, <2>2 DEF NamesOf
<1>3. CASE Pop /\ o = draining
  <2>1. queue[o] # <<>> /\ queue'[o] = Tail(queue[o])
    BY <1>3, <1>a DEF Pop, afterPop
  <2>2. \A i \in DOMAIN queue'[o] : i \in Int /\ i + 1 \in DOMAIN queue[o]
                                   /\ queue'[o][i] = queue[o][i + 1]
    BY <1>a, <2>1
  <2> QED
    BY <1>a, <2>2 DEF NamesOf
<1>4. CASE DropQueue(o)
  <2>1. queue'[o] = <<>>
    BY <1>4, <1>a DEF DropQueue, afterDrop
  <2> QED
    BY <2>1 DEF NamesOf
<1>5. ASSUME NEW r \in Req, Enqueue(r), o # Who[r] PROVE NamesOf(queue'[o])
  BY <1>5, <1>a DEF Enqueue
<1>6. CASE Pop /\ o # draining
  BY <1>6, <1>a DEF Pop
<1>7. ASSUME NEW x \in Orch, DropQueue(x), o # x PROVE NamesOf(queue'[o])
  BY <1>7, <1>a DEF DropQueue
<1> QED
  BY <1>1, <1>2, <1>3, <1>4, <1>5, <1>6, <1>7, QueueMoved

\* Every variable keeps its type: no count of slots, no stamp and no result of a drain is
\* ever anything but what the next step of the broker can use, and no queue ever holds two
\* requests for one child, whatever was popped, lost and asked for again.
THEOREM TypeOKAlways == Spec => []TypeOK
<1>1. TypeInv /\ [Next]_vars => TypeInv'
  BY TypesStep, SetsStep, NumbersStep, AnswersStep, StampsStep, NamesStep DEF TypeInv
<1> QED
  BY TypeInit, <1>1, TypeParts, PTL DEF Spec

-----------------------------------------------------------------------------
\* The limit.

Held(o) == Busy(o) \ outside

\* The limit holds; no listing shows a higher one than there ever was; and a drain has no
\* more slots to fill than the limit leaves over what it sees.
LimitInv ==
  /\ LimitHeld
  /\ \A o \in Orch : limit[o] <= peak[o] /\ snap[o].limit[o] <= peak[o]
  /\ draining # None => Cardinality(Seen(draining)) + free <= peak[draining]
  /\ pc = "start" => draining = Who[cur] /\ free > 0
  /\ draining # None => pc \in {"drain", "start", "reserve"}

\* What the broker's own steps but a launch leave alone.
LEMMA BrokerHolds ==
  ASSUME Types, [Next]_vars
  PROVE  \/ \E r \in Req : Launch(r) /\ (StartNow(r) \/ (StartQueued /\ r = cur))
         \/ UNCHANGED <<status, parent, workers>> /\ outside \subseteq outside'
         \/ UNCHANGED <<reserved, memory>> /\ (Workers \/ Others)
<1>1. Prune \/ List \/ Record \/ Answer \/ Refresh \/ Reserve =>
        UNCHANGED <<status, parent, workers>> /\ outside \subseteq outside'
  BY DEF Prune, List, Record, Answer, Refresh, Reserve
<1>2. Pop \/ RefuseQueued \/ StarterRaises \/ EndDrain \/ EndRound \/ Restart \/ Crash =>
        UNCHANGED <<status, parent, workers>> /\ outside \subseteq outside'
  BY DEF Pop, RefuseQueued, StarterRaises, EndDrain, EndRound, Restart, Crash
<1>3. \A r \in Req : SkipSeen(r) \/ Enqueue(r) \/ Refuse(r) =>
        UNCHANGED <<status, parent, workers>> /\ outside \subseteq outside'
  BY DEF SkipSeen, Enqueue, Refuse
<1>4. \A o \in Orch : DropQueue(o) \/ BeginDrain(o) =>
        UNCHANGED <<status, parent, workers>> /\ outside \subseteq outside'
  BY DEF DropQueue, BeginDrain
<1>5. UNCHANGED vars => UNCHANGED <<status, parent, workers>> /\ outside \subseteq outside'
  BY DEF vars
<1>6. StartQueued => cur \in Req /\ Launch(cur)
  BY DEF StartQueued, Types
<1>7. \A r \in Req : StartNow(r) => Launch(r)
  BY DEF StartNow
<1>8. Workers => UNCHANGED <<reserved, memory>>
  BY DEF Workers, WorkerCreates, WorkerBoots, WorkerEnds, WorkerFails, gone
<1>9. Others => UNCHANGED <<reserved, memory>>
  BY DEF Others, Submit, ChildStops, ChildDestroyed, UserStarts, Regrant, AdoptCheck,
         AdoptLabel
<1> QED
  BY <1>1, <1>2, <1>3, <1>4, <1>5, <1>6, <1>7, <1>8, <1>9 DEF Next, Broker

\* Workers, users and the operator add no child the limit must answer for.
LEMMA OthersHold ==
  ASSUME IInv, Workers \/ Others, NEW o \in Orch
  PROVE  Held(o)' \subseteq Held(o)
<1> USE ConstantsAssumption DEF IInv, Types
<1> SUFFICES ASSUME NEW k \in Held(o)' PROVE k \in Held(o)
  OBVIOUS
<1>1. k \notin outside' /\ ((k \in Child /\ status'[k] = "running" /\ parent'[k] = o)
        \/ \E x \in workers' : ownerOf(x) = o /\ childOf(x) = k)
  BY DEF Held, Busy, ownerOf, childOf
<1>2. ASSUME NEW w \in workers, WorkerCreates(w) PROVE k \in Held(o)
  BY <1>1, <1>2 DEF WorkerCreates, Held, Busy, ownerOf, childOf
<1>3. ASSUME NEW w \in workers, WorkerBoots(w) PROVE k \in Held(o)
  BY <1>1, <1>3 DEF WorkerBoots, Held, Busy, ownerOf, childOf
<1>4. ASSUME NEW w \in workers, WorkerEnds(w) PROVE k \in Held(o)
  BY <1>1, <1>4 DEF WorkerEnds, gone, Held, Busy, ownerOf, childOf
<1>5. ASSUME NEW w \in workers, WorkerFails(w) PROVE k \in Held(o)
  BY <1>1, <1>5 DEF WorkerFails, gone, busyWith, Held, Busy, ownerOf, childOf
<1>6. ASSUME NEW c \in Child, ChildStops(c) \/ ChildDestroyed(c) \/ UserStarts(c)
      PROVE  k \in Held(o)
  BY <1>1, <1>6 DEF ChildStops, ChildDestroyed, UserStarts, busyWith, Held, Busy, ownerOf,
                    childOf
<1>7. CASE AdoptLabel
  BY <1>1, <1>7 DEF AdoptLabel, Held, Busy, ownerOf, childOf
<1>8. CASE UNCHANGED <<status, parent, workers, outside>>
  BY <1>1, <1>8 DEF Held, Busy, ownerOf, childOf
<1> QED
  BY <1>2, <1>3, <1>4, <1>5, <1>6, <1>7, <1>8
     DEF Workers, Others, Submit, Regrant, AdoptCheck

\* The highest limit there ever was only grows, and no other limit exceeds it.
LEMMA PeakGrows ==
  ASSUME TypeInv, LimitInv, [Next]_vars, NEW o \in Orch
  PROVE  peak[o] <= peak'[o] /\ limit'[o] <= peak'[o]
<1>0. peak \in [Orch -> 1..MaxLimit] /\ limit \in [Orch -> 0..MaxLimit] /\ MaxLimit \in Nat
      /\ peak[o] \in Nat /\ limit[o] \in Nat /\ limit[o] <= peak[o]
  BY ConstantsAssumption DEF TypeInv, Types, Numbers, LimitInv
<1>1. CASE UNCHANGED <<peak, limit>>
  BY <1>0, <1>1
<1>2. ASSUME NEW x \in Orch, NEW l \in 0..MaxLimit, Regrant(x, l)
      PROVE  peak[o] <= peak'[o] /\ limit'[o] <= peak'[o]
  <2>1. CASE x = o
    <3>1. limit'[o] = l /\ peak'[o] = IF l > peak[o] THEN l ELSE peak[o]
      BY <1>0, <1>2, <2>1 DEF Regrant
    <3> QED
      BY <1>0, <3>1
  <2>2. CASE x # o
    BY <1>0, <1>2, <2>2 DEF Regrant
  <2> QED
    BY <2>1, <2>2
<1>3. UNCHANGED <<peak, limit>> \/ \E x \in Orch, l \in 0..MaxLimit : Regrant(x, l)
  <2>1. Broker => UNCHANGED <<peak, limit>>
    BY DEF Broker, Prune, List, Reserve, Record, Answer, Refresh, Pop, StartQueued, Launch,
           RefuseQueued, StarterRaises, EndDrain, EndRound, Restart, SkipSeen, StartNow,
           Enqueue, Refuse, DropQueue, BeginDrain
  <2>2. Crash \/ Workers \/ UNCHANGED vars => UNCHANGED <<peak, limit>>
    BY DEF Crash, Workers, WorkerCreates, WorkerBoots, WorkerEnds, WorkerFails, gone, vars
  <2>3. Others => UNCHANGED <<peak, limit>> \/ \E x \in Orch, l \in 0..MaxLimit : Regrant(x, l)
    BY DEF Others, Submit, ChildStops, ChildDestroyed, UserStarts, AdoptCheck, AdoptLabel
  <2> QED
    BY <2>1, <2>2, <2>3 DEF Next
<1> QED
  BY <1>1, <1>2, <1>3

\* What the limit answers for, what is seen and what is counted are sets of children.
LEMMA HeldFinite ==
  ASSUME TypeInv, NEW o \in Orch
  PROVE  /\ Held(o) \in SUBSET Child /\ Seen(o) \in SUBSET Child
         /\ \A S \in SUBSET Child : IsFiniteSet(S) /\ Cardinality(S) \in Nat
<1>1. Held(o) \in SUBSET Child /\ Seen(o) \in SUBSET Child
  BY ConstantsAssumption
     DEF TypeInv, Types, Held, Busy, Seen, reservedBy, childOf, ownerOf, Worker
<1> QED
  BY <1>1, ConstantsAssumption, FS_Subset, FS_CardinalityType

\* A launch fits: the slots that were counted hold whatever the limit answers for.
LEMMA LaunchFits ==
  ASSUME TypeInv, IInv, LimitInv, NEW r \in Req, Launch(r),
         StartNow(r) \/ (StartQueued /\ r = cur), NEW o \in Orch
  PROVE  Cardinality(Held(o)') <= peak[o]
<1>0. /\ Who[r] \in Orch /\ Target[r] \in Child /\ peak[o] \in Nat
      /\ Cardinality(Held(o)) <= peak[o]
      /\ \A S \in SUBSET Child : IsFiniteSet(S) /\ Cardinality(S) \in Nat
      /\ Held(o) \in SUBSET Child
  BY ConstantsAssumption, HeldFinite DEF TypeInv, Numbers, LimitInv, LimitHeld, Held
<1> DEFINE w == [req |-> r, n |-> launches[r] + 1]
<1>1. workers' = workers \cup {w} /\ UNCHANGED <<status, parent, outside, peak>>
      /\ ownerOf(w) = Who[r] /\ childOf(w) = Target[r]
  BY DEF Launch, ownerOf, childOf
<1> HIDE DEF w
<1>2. CASE o # Who[r]
  <2>1. Held(o)' = Held(o)
    BY <1>1, <1>2 DEF Held, Busy, ownerOf, childOf
  <2> QED
    BY <1>0, <2>1
<1>3. CASE o = Who[r]
  <2>1. Held(o)' \in SUBSET (Held(o) \cup {Target[r]})
    BY <1>1, <1>3 DEF Held, Busy, ownerOf, childOf
  <2>2. Held(o) \in SUBSET Seen(o)
    <3>1. pc \in {"serve", "start"} /\ InHand = {}
      BY DEF StartNow, StartQueued, InHand
    <3> QED
      BY <3>1 DEF IInv, Safe, SlotsSeen, Held
  <2>3. Cardinality(Seen(o)) < peak[o]
    <3>1. CASE StartNow(r)
      <4>1. Cardinality(slots(o, snap[o])) < snap[o].limit[o]
        BY <1>3, <3>1 DEF StartNow, mayStart
      <4>2. Seen(o) \in SUBSET slots(o, snap[o]) /\ slots(o, snap[o]) \in SUBSET Child
        BY ConstantsAssumption
           DEF Seen, slots, TypeInv, Types, Sets, jobNames, reservedBy, childOf, Worker
      <4>3. Cardinality(Seen(o)) <= Cardinality(slots(o, snap[o]))
            /\ Cardinality(Seen(o)) \in Nat /\ Cardinality(slots(o, snap[o])) \in Nat
        BY <1>0, <4>2, FS_Subset, HeldFinite
      <4>4. snap[o].limit[o] <= peak[o] /\ snap[o].limit[o] \in Nat
        BY DEF LimitInv, TypeInv, Types, Listing
      <4> QED
        BY <1>0, <4>1, <4>3, <4>4
    <3>2. CASE StartQueued /\ r = cur
      <4>1. draining = o /\ free > 0 /\ free \in Int /\ draining # None
        BY <1>3, <3>2, ConstantsAssumption DEF LimitInv, StartQueued, TypeInv, Numbers
      <4>2. Cardinality(Seen(o)) + free <= peak[o] /\ Cardinality(Seen(o)) \in Nat
        BY <4>1, HeldFinite DEF LimitInv
      <4> QED
        BY <1>0, <4>1, <4>2
    <3> QED
      BY <3>1, <3>2
  <2>4. Held(o) \cup {Target[r]} \in SUBSET Child /\ Seen(o) \in SUBSET Child
    BY <1>0, HeldFinite
  <2>5. /\ Cardinality(Held(o)) <= Cardinality(Seen(o)) /\ Cardinality(Held(o)) \in Nat
        /\ Cardinality(Seen(o)) \in Nat
        /\ Cardinality(Held(o) \cup {Target[r]}) <= Cardinality(Held(o)) + 1
        /\ Cardinality(Held(o) \cup {Target[r]}) \in Nat
    BY <1>0, <2>2, <2>4, FS_Subset, FS_AddElement
  <2>6. Cardinality(Held(o)') <= Cardinality(Held(o) \cup {Target[r]})
        /\ Cardinality(Held(o)') \in Nat
    BY <1>0, <2>1, <2>4, FS_Subset, FS_CardinalityType
  <2> QED
    BY <1>0, <2>3, <2>5, <2>6
<1> QED
  BY <1>2, <1>3

\* Every step keeps the limit itself.
LEMMA LimitHeldStep ==
  ASSUME TypeInv, IInv, LimitInv, [Next]_vars
  PROVE  LimitHeld'
<1> SUFFICES ASSUME NEW o \in Orch PROVE Cardinality(Held(o)') <= peak'[o]
  BY DEF LimitHeld, Held
<1>0. /\ peak[o] \in Nat /\ peak'[o] \in Nat /\ peak[o] <= peak'[o]
      /\ Cardinality(Held(o)) <= peak[o] /\ Held(o) \in SUBSET Child
      /\ \A S \in SUBSET Child : IsFiniteSet(S) /\ Cardinality(S) \in Nat
  <2>1. peak' \in [Orch -> 1..MaxLimit]
    BY NumbersStep DEF TypeInv, Numbers
  <2> QED
    BY <2>1, ConstantsAssumption, PeakGrows, HeldFinite
       DEF TypeInv, Numbers, LimitInv, LimitHeld, Held
<1>1. ASSUME NEW r \in Req, Launch(r), StartNow(r) \/ (StartQueued /\ r = cur)
      PROVE  Cardinality(Held(o)') <= peak'[o]
  <2>1. Cardinality(Held(o)') <= peak[o]
    BY <1>1, LaunchFits
  <2>2. Held(o)' \in SUBSET Child
    BY <1>0, <1>1, ConstantsAssumption DEF Launch, Held, Busy, ownerOf, childOf
  <2> QED
    BY <1>0, <2>1, <2>2
<1>2. CASE Held(o)' \subseteq Held(o)
  <2>1. Cardinality(Held(o)') <= Cardinality(Held(o)) /\ Cardinality(Held(o)') \in Nat
        /\ Cardinality(Held(o)) \in Nat
    BY <1>0, <1>2, FS_Subset
  <2> QED
    BY <1>0, <2>1
<1>3. CASE UNCHANGED <<status, parent, workers>> /\ outside \subseteq outside'
  <2>1. Held(o)' \subseteq Held(o)
    BY <1>3 DEF Held, Busy, ownerOf, childOf
  <2> QED
    BY <1>2, <2>1
<1>4. CASE Workers \/ Others
  BY <1>2, <1>4, OthersHold
<1> QED
  BY <1>1, <1>3, <1>4, BrokerHolds DEF TypeInv

\* A drain fills no more slots than it counted, and what it sees grows by what it starts.
LEMMA DrainStep ==
  ASSUME TypeInv, LimitInv, [Next]_vars, draining' # None
  PROVE  Cardinality(Seen(draining)') + free' <= peak'[draining']
<1>0. /\ draining \in Orch \cup {None} /\ draining' \in Orch /\ free \in Int
      /\ TypeInv'
  BY ConstantsAssumption, TypesStep, SetsStep, NumbersStep, AnswersStep, StampsStep, NamesStep
     DEF TypeInv, Types, Numbers
<1>1. /\ peak[draining'] \in Nat /\ peak'[draining'] \in Nat
      /\ peak[draining'] <= peak'[draining']
      /\ free' \in Int
  BY <1>0, PeakGrows, ConstantsAssumption DEF TypeInv, Numbers
<1>2. CASE UNCHANGED <<reserved, snap, draining, free>>
  <2>1. Seen(draining)' = Seen(draining)
    BY <1>2 DEF Seen, reservedBy, childOf, ownerOf
  <2>2. Cardinality(Seen(draining)) + free <= peak[draining]
        /\ Cardinality(Seen(draining)) \in Nat
    BY <1>0, <1>2, HeldFinite DEF LimitInv
  <2> QED
    BY <1>0, <1>1, <1>2, <2>1, <2>2
<1>3. ASSUME NEW o \in Orch, BeginDrain(o)
      PROVE  Cardinality(Seen(draining)') + free' <= peak'[draining']
  <2>1. /\ draining' = o /\ free' = snap[o].limit[o] - Cardinality(slots(o, snap[o]))
        /\ UNCHANGED <<reserved, snap, peak>>
    BY <1>3 DEF BeginDrain
  <2>2. Seen(draining)' = Seen(o)
    BY <2>1 DEF Seen, reservedBy, childOf, ownerOf
  <2>3. Seen(o) \in SUBSET slots(o, snap[o]) /\ slots(o, snap[o]) \in SUBSET Child
    BY ConstantsAssumption
       DEF Seen, slots, TypeInv, Types, Sets, jobNames, reservedBy, childOf, Worker
  <2>4. Cardinality(Seen(o)) <= Cardinality(slots(o, snap[o]))
        /\ Cardinality(Seen(o)) \in Nat /\ Cardinality(slots(o, snap[o])) \in Nat
    BY <2>3, FS_Subset, HeldFinite
  <2>5. snap[o].limit[o] <= peak[o] /\ snap[o].limit[o] \in Nat
    BY DEF LimitInv, TypeInv, Types, Listing
  <2> QED
    BY <1>0, <1>1, <2>1, <2>2, <2>4, <2>5
<1>4. CASE Reserve
  <2>1. /\ draining' = draining /\ free' = free - 1 /\ UNCHANGED <<snap, peak>>
        /\ cur \in Req /\ Target[cur] \in Child /\ draining # None
    BY <1>0, <1>4, ConstantsAssumption DEF Reserve, TypeInv, Types
  <2>2. Seen(draining)' \in SUBSET (Seen(draining) \cup {Target[cur]})
    <3>1. reserved' \subseteq reserved \cup {[req |-> cur, n |-> launches[cur]]}
      BY <1>4 DEF Reserve
    <3>2. childOf([req |-> cur, n |-> launches[cur]]) = Target[cur]
      BY DEF childOf
    <3> QED
      BY <2>1, <3>1, <3>2 DEF Seen, reservedBy, childOf, ownerOf
  <2>3. Seen(draining) \in SUBSET Child /\ Seen(draining) \cup {Target[cur]} \in SUBSET Child
    BY <1>0, <2>1, HeldFinite
  <2>4. \A S \in SUBSET Child : IsFiniteSet(S) /\ Cardinality(S) \in Nat
    BY <1>0, HeldFinite
  <2>5. /\ Cardinality(Seen(draining) \cup {Target[cur]}) <= Cardinality(Seen(draining)) + 1
        /\ Cardinality(Seen(draining)) \in Nat
        /\ Cardinality(Seen(draining) \cup {Target[cur]}) \in Nat
    BY <2>3, <2>4, FS_AddElement
  <2>6. Cardinality(Seen(draining)') <= Cardinality(Seen(draining) \cup {Target[cur]})
        /\ Cardinality(Seen(draining)') \in Nat
    BY <2>2, <2>3, <2>4, FS_Subset, FS_CardinalityType
  <2>7. Cardinality(Seen(draining)) + free <= peak[draining]
    BY <2>1 DEF LimitInv
  <2> QED
    BY <1>0, <1>1, <2>1, <2>5, <2>6, <2>7
<1>5. \/ UNCHANGED <<reserved, snap, draining, free>> \/ draining' = None \/ Reserve
      \/ \E o \in Orch : BeginDrain(o)
  <2>1. Workers \/ Others \/ UNCHANGED vars => UNCHANGED <<reserved, snap, draining, free>>
    BY BrokerHolds
       DEF Workers, WorkerCreates, WorkerBoots, WorkerEnds, WorkerFails, gone, Others, Submit,
           ChildStops, ChildDestroyed, UserStarts, Regrant, AdoptCheck, AdoptLabel, vars
  <2>2. Prune \/ List \/ Record \/ Answer \/ Refresh \/ EndRound \/ StarterRaises \/ EndDrain
        \/ Crash => draining' = None
    BY DEF LimitInv, Prune, List, Record, Answer, Refresh, EndRound, StarterRaises, EndDrain,
           Crash
  <2>3. Pop \/ StartQueued \/ RefuseQueued \/ Restart =>
          UNCHANGED <<reserved, snap, draining, free>>
    BY DEF Pop, StartQueued, Launch, RefuseQueued, Restart
  <2>4. \A r \in Req : SkipSeen(r) \/ StartNow(r) \/ Enqueue(r) \/ Refuse(r) =>
          UNCHANGED <<reserved, snap, draining, free>>
    BY DEF SkipSeen, StartNow, Launch, Enqueue, Refuse
  <2>5. \A o \in Orch : DropQueue(o) => UNCHANGED <<reserved, snap, draining, free>>
    BY DEF DropQueue
  <2> QED
    BY <2>1, <2>2, <2>3, <2>4, <2>5 DEF Next, Broker
<1> QED
  BY <1>2, <1>3, <1>4, <1>5

\* No listing shows a limit there never was.
LEMMA SnapLimitStep ==
  ASSUME TypeInv, LimitInv, [Next]_vars, NEW o \in Orch
  PROVE  snap'[o].limit[o] <= peak'[o]
<1>0. /\ snap \in [Orch -> Listing] /\ snap[o].limit[o] \in Nat /\ snap[o].limit[o] <= peak[o]
      /\ limit \in [Orch -> 0..MaxLimit] /\ limit[o] <= peak[o] /\ peak[o] \in Nat
      /\ peak'[o] \in Nat /\ peak[o] <= peak'[o]
  <2>1. peak' \in [Orch -> 1..MaxLimit]
    BY NumbersStep DEF TypeInv, Numbers
  <2>2. peak \in [Orch -> 1..MaxLimit] /\ \A n \in 1..MaxLimit : n \in Nat
    BY ConstantsAssumption DEF TypeInv, Numbers
  <2>3. /\ snap \in [Orch -> Listing] /\ snap[o].limit[o] \in Nat
        /\ limit \in [Orch -> 0..MaxLimit]
    <3>1. snap \in [Orch -> Listing] /\ limit \in [Orch -> 0..MaxLimit]
      BY DEF TypeInv, Types
    <3>2. snap[o].limit \in [Orch -> 0..MaxLimit]
      BY <3>1 DEF Listing
    <3> QED
      BY <3>1, <3>2
  <2>4. peak[o] \in Nat /\ peak'[o] \in Nat
    BY <2>1, <2>2
  <2> QED
    BY <2>3, <2>4, PeakGrows DEF LimitInv
<1>1. CASE snap' = snap
  BY <1>0, <1>1
<1>2. CASE snap' = [x \in Orch |-> containers]
  BY <1>0, <1>2 DEF containers, listed
<1>3. CASE snap' = nothingListed
  BY <1>0, <1>3 DEF nothingListed
<1>4. CASE snap' = [snap EXCEPT ![Who[cur]] = listed(snap[Who[cur]].limit)]
  <2>1. snap'[o].limit = snap[o].limit
    BY <1>0, <1>4 DEF listed
  <2> QED
    BY <1>0, <2>1
<1>5. Workers \/ Others \/ UNCHANGED vars => snap' = snap
  BY DEF Workers, WorkerCreates, WorkerBoots, WorkerEnds, WorkerFails, gone, Others, Submit,
         ChildStops, ChildDestroyed, UserStarts, Regrant, AdoptCheck, AdoptLabel, vars
<1>6. Prune \/ Record \/ Reserve \/ Pop \/ StartQueued \/ RefuseQueued \/ StarterRaises
      \/ EndDrain \/ Restart => snap' = snap
  BY DEF Prune, Record, Reserve, Pop, StartQueued, Launch, RefuseQueued, StarterRaises,
         EndDrain, Restart
<1>7. \A r \in Req : SkipSeen(r) \/ StartNow(r) \/ Enqueue(r) \/ Refuse(r) => snap' = snap
  BY DEF SkipSeen, StartNow, Launch, Enqueue, Refuse
<1>8. \A x \in Orch : DropQueue(x) \/ BeginDrain(x) => snap' = snap
  BY DEF DropQueue, BeginDrain
<1>9. /\ List \/ Refresh => snap' = [x \in Orch |-> containers]
      /\ EndRound \/ Crash => snap' = nothingListed
      /\ Answer => snap' = snap
                   \/ snap' = [snap EXCEPT ![Who[cur]] = listed(snap[Who[cur]].limit)]
  BY DEF List, Refresh, EndRound, Crash, Answer
<1> QED
  BY <1>1, <1>2, <1>3, <1>4, <1>5, <1>6, <1>7, <1>8, <1>9 DEF Next, Broker

\* Every request is in the queue of the orchestrator that wrote it.
Own == \A o \in Orch : \A i \in DOMAIN queue[o] : Who[queue[o][i]] = o

LEMMA OwnStep ==
  ASSUME TypeInv, Own, [Next]_vars
  PROVE  Own'
<1> SUFFICES ASSUME NEW o \in Orch, NEW i \in DOMAIN queue'[o] PROVE Who[queue'[o][i]] = o
  BY DEF Own
<1>a. queue \in [Orch -> Seq(Req)] /\ queue[o] \in Seq(Req)
      /\ \A j \in DOMAIN queue[o] : Who[queue[o][j]] = o
  BY DEF TypeInv, Types, Own
<1>1. CASE queue'[o] = queue[o]
  BY <1>1, <1>a
<1>2. ASSUME NEW r \in Req, Enqueue(r) PROVE Who[queue'[o][i]] = o
  <2>1. queue'[o] = queue[o] \/ (queue'[o] = Append(queue[o], r) /\ o = Who[r])
    BY <1>2, <1>a DEF Enqueue
  <2>2. CASE queue'[o] = Append(queue[o], r) /\ o = Who[r]
    <3>1. queue'[o][i] = r \/ (i \in DOMAIN queue[o] /\ queue'[o][i] = queue[o][i])
      BY <1>a, <2>2
    <3> QED
      BY <1>a, <2>2, <3>1
  <2> QED
    BY <1>1, <2>1, <2>2
<1>3. CASE Pop
  <2>1. queue'[o] = queue[o] \/ (queue'[o] = Tail(queue[o]) /\ queue[o] # <<>>)
    BY <1>3, <1>a DEF Pop, afterPop
  <2>2. CASE queue'[o] = Tail(queue[o]) /\ queue[o] # <<>>
    <3>1. i + 1 \in DOMAIN queue[o] /\ queue'[o][i] = queue[o][i + 1]
      BY <1>a, <2>2
    <3> QED
      BY <1>a, <3>1
  <2> QED
    BY <1>1, <2>1, <2>2
<1>4. ASSUME NEW x \in Orch, DropQueue(x) PROVE Who[queue'[o][i]] = o
  <2>1. queue'[o] = queue[o] \/ queue'[o] = <<>>
    BY <1>4, <1>a DEF DropQueue, afterDrop
  <2> QED
    BY <1>a, <2>1
<1> QED
  BY <1>1, <1>2, <1>3, <1>4, QueueMoved DEF TypeInv

\* Every step keeps what the limit rests on.
LEMMA LimitStep ==
  ASSUME TypeInv, IInv, LimitInv, Own, [Next]_vars
  PROVE  LimitInv'
<1>1. LimitHeld'
  BY LimitHeldStep
<1>2. \A o \in Orch : limit'[o] <= peak'[o] /\ snap'[o].limit[o] <= peak'[o]
  BY PeakGrows, SnapLimitStep
<1>3. draining' # None => Cardinality(Seen(draining)') + free' <= peak'[draining']
  BY DrainStep
<1> USE DEF LimitInv
<1>4. /\ pc' = "start" => draining' = Who[cur'] /\ free' > 0
      /\ draining' # None => pc' \in {"drain", "start", "reserve"}
  <2>1. CASE Pop
    <3>1. queue[draining] \in Seq(Req) /\ queue[draining] # <<>> /\ draining \in Orch
      BY <2>1 DEF Pop, TypeInv, Types
    <3>2. Who[Head(queue[draining])] = draining
      BY <3>1 DEF Own
    <3> QED
      BY <2>1, <3>1, <3>2 DEF Pop
  <2>2. CASE UNCHANGED <<pc, draining, free, cur>>
    BY <2>2
  <2>3. CASE draining' = None /\ pc' # "start"
    BY <2>3
  <2>4. CASE StartQueued \/ RefuseQueued \/ Reserve \/ \E o \in Orch : BeginDrain(o)
    BY <2>4, ConstantsAssumption DEF StartQueued, Launch, RefuseQueued, Reserve, BeginDrain
  <2>5. Workers \/ Others \/ UNCHANGED vars => UNCHANGED <<pc, draining, free, cur>>
    BY DEF Workers, WorkerCreates, WorkerBoots, WorkerEnds, WorkerFails, gone, Others, Submit,
           ChildStops, ChildDestroyed, UserStarts, Regrant, AdoptCheck, AdoptLabel, vars
  <2>6. Prune \/ List \/ Record \/ Answer \/ Refresh \/ EndRound \/ StarterRaises \/ EndDrain
        \/ Crash \/ Restart => draining' = None /\ pc' # "start"
    BY DEF Prune, List, Record, Answer, Refresh, EndRound, StarterRaises, EndDrain, Crash,
           Restart
  <2>7. \A r \in Req : SkipSeen(r) \/ StartNow(r) \/ Enqueue(r) \/ Refuse(r) =>
          draining' = None /\ pc' # "start"
    BY DEF SkipSeen, StartNow, Launch, Enqueue, Refuse
  <2>8. \A o \in Orch : DropQueue(o) => draining' = None /\ pc' # "start"
    BY DEF DropQueue
  <2> QED
    BY <2>1, <2>2, <2>3, <2>4, <2>5, <2>6, <2>7, <2>8 DEF Next, Broker
<1> QED
  BY <1>1, <1>2, <1>3, <1>4

\* Nothing is busy beyond the limit at first: what runs then is nobody's child.
LEMMA LimitInit == Init => LimitInv /\ Own
<1> SUFFICES ASSUME Init PROVE LimitInv /\ Own
  OBVIOUS
<1>1. limit \in [Orch -> 1..MaxLimit] /\ peak = limit
  BY DEF Init
<1>2. LimitHeld
  <2> SUFFICES ASSUME NEW o \in Orch PROVE Cardinality(Busy(o) \ outside) <= peak[o]
    BY DEF LimitHeld
  <2>1. Busy(o) \ outside = {}
    BY ConstantsAssumption DEF Init, Busy
  <2> QED
    BY <1>1, <2>1, FS_EmptySet
<1>3. \A o \in Orch : limit[o] <= peak[o] /\ snap[o].limit[o] <= peak[o]
  BY <1>1 DEF Init, nothingListed
<1> QED
  BY <1>2, <1>3 DEF Init, LimitInv, Own

LEMMA LimitAlways == Spec => [](TypeInv /\ IInv /\ LimitInv /\ Own)
<1>1. TypeInv /\ [Next]_vars => TypeInv'
  BY TypesStep, SetsStep, NumbersStep, AnswersStep, StampsStep, NamesStep DEF TypeInv
<1>2. LimitInv /\ Own /\ TypeInv /\ IInv /\ [Next]_vars => (LimitInv /\ Own)'
  BY LimitStep, OwnStep
<1> QED
  BY TypeInit, LimitInit, IInvAlways, <1>1, <1>2, PTL DEF Spec

\* The broker's starts never take an orchestrator over its limit, however stale its
\* listing, whatever workers, users and a crash do meanwhile.
THEOREM LimitHeldAlways == Spec => []LimitHeld
<1>1. LimitInv => LimitHeld
  BY DEF LimitInv
<1> QED
  BY <1>1, LimitAlways, PTL

-----------------------------------------------------------------------------
\* What becomes of a request.

Started == {r \in Req : launches[r] # 0}
Queued == {r \in Req : \E i \in DOMAIN queue[Who[r]] : queue[Who[r]][i] = r}
Starting == IF pc = "start" THEN {cur} ELSE {}

\* Requests that were told a refusal, or will be: by the drain or by their handler.
ToldRefused == {r \in Req : "refused" \in told[r]}
DrainRefused == {r \in Req : \E i \in DOMAIN results : results[i] = <<r, "refused">>}
HandRefused == IF outcome = "refused" THEN {cur} ELSE {}
Refused == ToldRefused \cup DrainRefused \cup HandRefused

\* The request whose handler has acted and whose journal entry is not written yet.
Unrecorded == IF draining = None /\ pc \in {"reserve", "record"} THEN {cur} ELSE {}

\* Whatever was done for a request it is in the journal, and of a start, a wait and a refusal
\* there is one at a time, and the refusal and the start are for ever.
OnceInv ==
  /\ Started \cup Refused \cup Queued \cup Starting \subseteq journal \cup retried \cup Unrecorded
  /\ \A r \in Req \ retried : launches[r] <= 1
  /\ Started \cap (Refused \cup Queued \cup Starting) \subseteq retried
  /\ (Refused \cup Starting) \cap Queued \subseteq retried
  /\ Refused \cap Starting \subseteq retried
  /\ pc \notin {"reserve", "record", "answer"} => outcome = "none"
  /\ pc \notin {"reserve", "record", "answer", "start"} => cur = None
  /\ draining = None => results = <<>>

\* What the sets depend on.
LEMMA SameFate ==
  /\ launches' = launches => Started' = Started
  /\ queue' = queue => Queued' = Queued
  /\ told' = told => ToldRefused' = ToldRefused
  /\ results' = results => DrainRefused' = DrainRefused
  /\ results' = <<>> => DrainRefused' = {}
  /\ UNCHANGED <<pc, cur>> => Starting' = Starting
  /\ UNCHANGED <<outcome, cur>> => HandRefused' = HandRefused
  /\ UNCHANGED <<draining, pc, cur>> => Unrecorded' = Unrecorded
<1>1. /\ launches' = launches => Started' = Started
      /\ told' = told => ToldRefused' = ToldRefused
  BY DEF Started, ToldRefused
<1>2. queue' = queue => Queued' = Queued
  BY DEF Queued
<1>3. results' = results => DrainRefused' = DrainRefused
  BY DEF DrainRefused
<1>4. results' = <<>> => DrainRefused' = {}
  <2>1. DOMAIN <<>> = {}
    OBVIOUS
  <2> QED
    BY <2>1 DEF DrainRefused
<1>5. /\ UNCHANGED <<pc, cur>> => Starting' = Starting
      /\ UNCHANGED <<outcome, cur>> => HandRefused' = HandRefused
      /\ UNCHANGED <<draining, pc, cur>> => Unrecorded' = Unrecorded
  BY DEF Starting, HandRefused, Unrecorded
<1> QED
  BY <1>1, <1>2, <1>3, <1>4, <1>5

\* A request enters its queue once, leaves it alone from the front, or with all the others.
LEMMA QueuedMoves ==
  ASSUME TypeInv, Own
  PROVE  /\ \A r \in Req : Enqueue(r) => Queued' = Queued \cup {r} /\ r \notin Queued
         /\ Pop => cur' \in Queued /\ Queued' = Queued \ {cur'}
         /\ \A o \in Orch : DropQueue(o) =>
              /\ Queued' = {r \in Queued : Who[r] # o}
              /\ ToldRefused' = ToldRefused \cup {r \in Queued : Who[r] = o}
<1>a. /\ queue \in [Orch -> Seq(Req)] /\ \A r \in Req : Who[r] \in Orch
      /\ \A o \in Orch : NamesOf(queue[o]) /\ \A i \in DOMAIN queue[o] : Who[queue[o][i]] = o
      /\ told \in [Req -> SUBSET {"started", "queued", "refused"}]
  BY ConstantsAssumption DEF TypeInv, Types, Own, Names, Answers
<1>1. ASSUME NEW r \in Req, Enqueue(r) PROVE Queued' = Queued \cup {r} /\ r \notin Queued
  <2>1. \A i \in DOMAIN queue[Who[r]] : queue[Who[r]][i] # r
    BY <1>1 DEF Enqueue, acceptable, queuedNames
  <2>2. /\ queue'[Who[r]] = Append(queue[Who[r]], r)
        /\ \A o \in Orch \ {Who[r]} : queue'[o] = queue[o]
    BY <1>1, <1>a DEF Enqueue
  <2>3. ASSUME NEW q \in Req PROVE q \in Queued' <=> q \in Queued \/ q = r
    <3>1. CASE Who[q] # Who[r]
      BY <1>a, <2>2, <3>1 DEF Queued
    <3>2. CASE Who[q] = Who[r]
      <4> DEFINE s == queue[Who[r]]
      <4>1. s \in Seq(Req) /\ queue'[Who[q]] = Append(s, r) /\ queue[Who[q]] = s
        BY <1>a, <2>2, <3>2
      <4> HIDE DEF s
      <4>2. (\E i \in DOMAIN Append(s, r) : Append(s, r)[i] = q)
              <=> (\E i \in DOMAIN s : s[i] = q) \/ q = r
        <5>1. DOMAIN Append(s, r) = 1..(Len(s) + 1) /\ DOMAIN s = 1..Len(s) /\ Len(s) \in Nat
              /\ Append(s, r)[Len(s) + 1] = r /\ \A i \in 1..Len(s) : Append(s, r)[i] = s[i]
          BY <4>1
        <5> QED
          BY <5>1
      <4> QED
        BY <4>1, <4>2 DEF Queued
    <3> QED
      BY <3>1, <3>2
  <2> QED
    BY <2>1, <2>3 DEF Queued
<1>2. ASSUME Pop PROVE cur' \in Queued /\ Queued' = Queued \ {cur'}
  <2> DEFINE s == queue[draining]
  <2>1. /\ draining \in Orch /\ s \in Seq(Req) /\ s # <<>> /\ cur' = Head(s)
        /\ queue'[draining] = Tail(s) /\ \A o \in Orch \ {draining} : queue'[o] = queue[o]
    BY <1>2, <1>a DEF Pop, afterPop, TypeInv, Types
  <2>2. NamesOf(s) /\ \A i \in DOMAIN s : Who[s[i]] = draining
    BY <1>a, <2>1
  <2> HIDE DEF s
  <2>3. /\ DOMAIN s = 1..Len(s) /\ Len(s) \in Nat \ {0} /\ cur' = s[1] /\ cur' \in Req
        /\ DOMAIN Tail(s) = 1..(Len(s) - 1) /\ \A i \in 1..(Len(s) - 1) : Tail(s)[i] = s[i + 1]
    BY <2>1
  <2>4. \A i \in 2..Len(s) : s[i] # cur'
    BY <2>2, <2>3 DEF NamesOf
  <2>5. ASSUME NEW q \in Req PROVE q \in Queued' <=> q \in Queued /\ q # cur'
    <3>1. CASE Who[q] # draining
      <4>1. Who[cur'] = draining
        BY <2>2, <2>3
      <4>2. Who[q] \in Orch \ {draining}
        BY <3>1, ConstantsAssumption
      <4>3. queue'[Who[q]] = queue[Who[q]]
        BY <2>1, <4>2
      <4> QED
        BY <3>1, <4>1, <4>3 DEF Queued
    <3>2. CASE Who[q] = draining
      <4>1. (\E i \in DOMAIN Tail(s) : Tail(s)[i] = q) <=>
              (\E i \in DOMAIN s : s[i] = q) /\ q # cur'
        <5>1. ASSUME NEW i \in DOMAIN Tail(s), Tail(s)[i] = q
              PROVE  i + 1 \in 2..Len(s) /\ s[i + 1] = q
          BY <2>3, <5>1
        <5>2. ASSUME NEW i \in DOMAIN s, s[i] = q, q # cur'
              PROVE  i - 1 \in DOMAIN Tail(s) /\ Tail(s)[i - 1] = q
          BY <2>3, <5>2
        <5>3. ASSUME NEW i \in DOMAIN Tail(s), Tail(s)[i] = q
              PROVE  (\E j \in DOMAIN s : s[j] = q) /\ q # cur'
          <6>1. i + 1 \in 2..Len(s) /\ s[i + 1] = q
            BY <5>1, <5>3
          <6> QED
            BY <2>3, <2>4, <6>1
        <5> QED
          BY <5>2, <5>3
      <4> QED
        BY <2>1, <3>2, <4>1 DEF Queued, s
    <3> QED
      BY <3>1, <3>2
  <2>6. cur' \in Queued
    BY <2>1, <2>2, <2>3 DEF Queued, s
  <2> QED
    BY <2>5, <2>6 DEF Queued
<1>3. ASSUME NEW o \in Orch, DropQueue(o)
      PROVE  /\ Queued' = {r \in Queued : Who[r] # o}
             /\ ToldRefused' = ToldRefused \cup {r \in Queued : Who[r] = o}
  <2>1. /\ queue'[o] = <<>> /\ \A x \in Orch \ {o} : queue'[x] = queue[x]
        /\ told' = [r \in Req |-> told[r] \cup
                     (IF \E i \in DOMAIN queue[o] : queue[o][i] = r THEN {"refused"} ELSE {})]
    BY <1>3, <1>a DEF DropQueue, afterDrop
  <2>2. Queued' = {r \in Queued : Who[r] # o}
    <3>1. \A q \in Req : Who[q] = o => q \notin Queued'
      BY <1>a, <2>1 DEF Queued
    <3>2. \A q \in Req : Who[q] # o => (q \in Queued' <=> q \in Queued)
      BY <1>a, <2>1 DEF Queued
    <3> QED
      BY <3>1, <3>2 DEF Queued
  <2>3. \A r \in Req : (\E i \in DOMAIN queue[o] : queue[o][i] = r) <=> r \in Queued /\ Who[r] = o
    BY <1>a DEF Queued
  <2>4. ToldRefused' = ToldRefused \cup {r \in Queued : Who[r] = o}
    BY <1>a, <2>1, <2>3 DEF ToldRefused, Queued
  <2> QED
    BY <2>2, <2>4
<1> QED
  BY <1>1, <1>2, <1>3

\* A drain notes what became of each request it popped...
LEMMA ResultsMove ==
  ASSUME TypeInv, NEW x, cur \in Req, results' = Append(results, <<cur, x>>), NEW r \in Req
  PROVE  r \in DrainRefused' <=> r \in DrainRefused \/ (r = cur /\ x = "refused")
<1>1. /\ DOMAIN results' = 1..(Len(results) + 1) /\ DOMAIN results = 1..Len(results)
      /\ Len(results) \in Nat /\ results'[Len(results) + 1] = <<cur, x>>
      /\ \A i \in 1..Len(results) : results'[i] = results[i]
  BY DEF TypeInv, Answers
<1>2. r \in DrainRefused' <=> \E i \in DOMAIN results' : results'[i] = <<r, "refused">>
  BY DEF DrainRefused
<1>3. r \in DrainRefused <=> \E i \in DOMAIN results : results[i] = <<r, "refused">>
  BY DEF DrainRefused
<1>4. (r = cur /\ x = "refused") <=> <<cur, x>> = <<r, "refused">>
  OBVIOUS
<1> QED
  BY <1>1, <1>2, <1>3, <1>4

\* ...and reports it at its end.
LEMMA DrainReports ==
  ASSUME TypeInv, EndDrain
  PROVE  ToldRefused' = ToldRefused \cup DrainRefused
<1>1. ASSUME NEW r \in Req PROVE "refused" \in reported(r) <=> r \in DrainRefused
  <2>1. \A i \in DOMAIN results : results[i] \in Req \X {"started", "refused"}
    BY DEF TypeInv, Answers
  <2>2. \A i \in DOMAIN results :
         results[i] = <<r, "refused">> <=> results[i][1] = r /\ results[i][2] = "refused"
    BY <2>1
  <2>3. "refused" \in reported(r) <=>
         \E i \in DOMAIN results : results[i][1] = r /\ results[i][2] = "refused"
    BY DEF reported
  <2> QED
    BY <2>2, <2>3 DEF DrainRefused
<1>2. \A r \in Req : told'[r] = told[r] \cup reported(r)
  BY DEF EndDrain
<1> QED
  BY <1>1, <1>2 DEF ToldRefused, DrainRefused

\* What a launch, wherever it happens, does to the requests.
LEMMA LaunchedOnce ==
  ASSUME TypeInv, OnceInv, NEW r \in Req, Launch(r),
         r \in retried \/ r \notin Started \cup Refused \cup Queued,
         \A q \in Starting : q = r,
         r \in journal \/ draining = None \/ r \in retried,
         Unrecorded = {}
  PROVE  OnceInv'
<1> USE SameFate
<1>1. /\ launches' = [launches EXCEPT ![r] = @ + 1] /\ launches \in [Req -> 0..(MaxCrashes + 1)]
      /\ UNCHANGED <<queue, told, results, draining, journal, retried>>
      /\ cur' = r /\ outcome' = "started" /\ pc' = "reserve"
  BY DEF Launch, TypeInv, Numbers
<1>2. Started' \subseteq Started \cup {r} /\ \A q \in Req \ retried : launches'[q] <= 1
  BY <1>1 DEF Started, OnceInv
<1>3. /\ Queued' = Queued /\ ToldRefused' = ToldRefused /\ DrainRefused' = DrainRefused
      /\ Starting' = {} /\ HandRefused' = {}
      /\ Unrecorded' = IF draining = None THEN {r} ELSE {}
  BY <1>1 DEF Starting, HandRefused, Unrecorded
<1>4. Refused' \subseteq Refused
  BY <1>3 DEF Refused
<1> QED
  BY <1>1, <1>2, <1>3, <1>4 DEF OnceInv

\* A step that touches nothing a request's fate depends on.
LEMMA NothingDone ==
  ASSUME OnceInv,
         UNCHANGED <<launches, queue, told, results, cur, outcome, journal, retried>>,
         pc' \notin {"reserve", "record", "answer", "start"},
         pc \notin {"reserve", "record", "answer", "start"},
         draining' = None => results = <<>>
  PROVE  OnceInv'
<1>1. /\ Started' = Started /\ Queued' = Queued /\ ToldRefused' = ToldRefused
      /\ DrainRefused' = DrainRefused /\ HandRefused' = HandRefused
  BY SameFate
<1>2. Starting = {} /\ Starting' = {} /\ Unrecorded = {} /\ Unrecorded' = {}
  BY DEF Starting, Unrecorded
<1> QED
  BY <1>1, <1>2 DEF OnceInv, Refused

\* Between rounds nothing is at hand, and every step of the round finds its request where
\* the step before left it.
LEMMA OnceStep ==
  ASSUME TypeInv, LimitInv, Own, OnceInv, [Next]_vars
  PROVE  OnceInv'
<1> USE SameFate
<1>a. /\ launches \in [Req -> 0..(MaxCrashes + 1)] /\ draining \in Orch \cup {None}
      /\ pc \in {"reserve", "record", "answer", "start"} => cur \in Req
      /\ told \in [Req -> SUBSET {"started", "queued", "refused"}]
  BY DEF TypeInv, Types, Numbers, Answers
<1>b. draining # None => pc \in {"drain", "start", "reserve"}
  BY DEF LimitInv
<1>c. pc = "start" => draining # None
  BY <1>a, ConstantsAssumption DEF LimitInv
<1>1. CASE Prune \/ List \/ Refresh \/ EndRound \/ Restart
  BY <1>1, NothingDone DEF Prune, List, Refresh, EndRound, Restart, OnceInv
<1>2. ASSUME NEW o \in Orch, BeginDrain(o) PROVE OnceInv'
  BY <1>2, NothingDone, ConstantsAssumption DEF BeginDrain
<1>3. ASSUME NEW r \in Req, SkipSeen(r) PROVE OnceInv'
  BY <1>3, NothingDone DEF SkipSeen, OnceInv
<1>4. CASE Reserve
  <2>1. /\ Started' = Started /\ Queued' = Queued /\ ToldRefused' = ToldRefused
        /\ journal' = journal /\ retried' = retried /\ launches' = launches
    BY <1>4 DEF Reserve
  <2>2. Starting = {} /\ Starting' = {}
    BY <1>4 DEF Reserve, Starting
  <2>3. CASE draining = None
    <3>1. UNCHANGED <<results, cur, outcome, draining>> /\ pc' = "record" /\ pc = "reserve"
      BY <1>4, <2>3 DEF Reserve
    <3>2. /\ DrainRefused' = DrainRefused /\ HandRefused' = HandRefused
          /\ Unrecorded' = Unrecorded
      BY <3>1 DEF Unrecorded
    <3> QED
      BY <2>1, <2>2, <3>1, <3>2 DEF OnceInv, Refused
  <2>4. CASE draining # None
    <3>1. /\ results' = Append(results, <<cur, "started">>) /\ draining' = draining
          /\ cur' = None /\ outcome' = "none" /\ pc' = "drain" /\ pc = "reserve"
      BY <1>4, <2>4 DEF Reserve
    <3>2. DrainRefused' = DrainRefused
      <4>1. ASSUME NEW r \in Req PROVE r \in DrainRefused' <=> r \in DrainRefused
        BY <1>a, <3>1, ResultsMove
      <4> QED
        BY <4>1 DEF DrainRefused
    <3>3. HandRefused' = {} /\ Unrecorded = {} /\ Unrecorded' = {}
      BY <2>4, <3>1 DEF HandRefused, Unrecorded
    <3> QED
      BY <2>1, <2>2, <2>4, <3>1, <3>2, <3>3 DEF OnceInv, Refused
  <2> QED
    BY <2>3, <2>4
<1>5. CASE Record
  <2>1. /\ Started' = Started /\ Queued' = Queued /\ ToldRefused' = ToldRefused
        /\ DrainRefused' = DrainRefused /\ HandRefused' = HandRefused
        /\ journal' = journal \cup {cur}
        /\ UNCHANGED <<launches, retried, results, draining, outcome, cur>>
        /\ pc' = "answer" /\ pc = "record"
    BY <1>5 DEF Record
  <2>2. Starting = {} /\ Starting' = {} /\ Unrecorded \subseteq {cur}
    BY <2>1 DEF Starting, Unrecorded
  <2> QED
    BY <2>1, <2>2 DEF OnceInv, Refused
<1>6. CASE Answer
  <2>1. /\ Started' = Started /\ Queued' = Queued /\ DrainRefused' = DrainRefused
        /\ UNCHANGED <<launches, retried, results, draining, journal>>
        /\ told' = [told EXCEPT ![cur] = @ \cup {outcome}]
        /\ cur' = None /\ outcome' = "none" /\ pc' = "serve" /\ pc = "answer"
    BY <1>6 DEF Answer
  <2>2. ToldRefused' = ToldRefused \cup HandRefused
    <3>1. \A r \in Req : "refused" \in told'[r]
                           <=> "refused" \in told[r] \/ (r = cur /\ outcome = "refused")
      BY <1>a, <2>1
    <3>2. HandRefused \subseteq Req
      BY <1>a, <2>1 DEF HandRefused
    <3>3. \A r \in Req : r \in HandRefused <=> (r = cur /\ outcome = "refused")
      BY DEF HandRefused
    <3>4. /\ \A r \in Req : r \in ToldRefused' <=> r \in ToldRefused \/ r \in HandRefused
          /\ ToldRefused \subseteq Req /\ ToldRefused' \subseteq Req
      BY <3>1, <3>3 DEF ToldRefused
    <3> QED
      BY <3>2, <3>4
  <2>3. HandRefused' = {}
    BY <2>1 DEF HandRefused
  <2>4. Starting = {} /\ Starting' = {} /\ Unrecorded = {} /\ Unrecorded' = {}
    BY <2>1 DEF Starting, Unrecorded
  <2> QED
    BY <2>1, <2>2, <2>3, <2>4 DEF OnceInv, Refused
<1>7. ASSUME NEW r \in Req, StartNow(r) PROVE OnceInv'
  <2>1. pc = "serve" /\ r \notin journal /\ Launch(r)
    BY <1>7 DEF StartNow
  <2>2. draining = None /\ Starting = {} /\ Unrecorded = {}
    BY <1>b, <2>1 DEF Starting, Unrecorded
  <2>3. r \in retried \/ r \notin Started \cup Refused \cup Queued
    BY <2>1, <2>2 DEF OnceInv
  <2> QED
    BY <2>1, <2>2, <2>3, LaunchedOnce
<1>8. CASE StartQueued
  <2>1. pc = "start" /\ cur \in Req /\ Launch(cur)
    BY <1>8, <1>a DEF StartQueued
  <2>2. Starting = {cur} /\ Unrecorded = {}
    BY <2>1 DEF Starting, Unrecorded
  <2>3. /\ cur \in journal \/ cur \in retried
        /\ cur \in retried \/ cur \notin Started \cup Refused \cup Queued
    BY <2>2 DEF OnceInv
  <2>4. \A q \in Starting : q = cur
    BY <2>2
  <2> QED
    BY <2>1, <2>2, <2>3, <2>4, LaunchedOnce
<1>9. ASSUME NEW r \in Req, Enqueue(r) PROVE OnceInv'
  <2>1. /\ pc = "serve" /\ r \notin journal /\ cur' = r /\ outcome' = "queued"
        /\ pc' = "record"
        /\ UNCHANGED <<launches, told, results, draining, journal, retried>>
    BY <1>9 DEF Enqueue
  <2>2. /\ Started' = Started /\ ToldRefused' = ToldRefused /\ DrainRefused' = DrainRefused
        /\ Queued' = Queued \cup {r}
    BY <1>9, <2>1, QueuedMoves
  <2>3. /\ Starting = {} /\ Starting' = {} /\ HandRefused' = {}
        /\ Unrecorded = {} /\ Unrecorded' = {r}
    BY <1>b, <2>1 DEF Starting, HandRefused, Unrecorded
  <2>4. Refused' \subseteq Refused
    BY <2>2, <2>3 DEF Refused
  <2>5. r \in retried \/ r \notin Started \cup Refused \cup Queued
    BY <2>1, <2>3 DEF OnceInv
  <2> QED
    BY <2>1, <2>2, <2>3, <2>4, <2>5 DEF OnceInv
<1>10. ASSUME NEW r \in Req, Refuse(r) PROVE OnceInv'
  <2>1. /\ pc = "serve" /\ r \notin journal /\ cur' = r /\ outcome' = "refused"
        /\ pc' = "record"
        /\ UNCHANGED <<launches, queue, told, results, draining, journal, retried>>
    BY <1>10 DEF Refuse
  <2>2. /\ Started' = Started /\ ToldRefused' = ToldRefused /\ DrainRefused' = DrainRefused
        /\ Queued' = Queued
    BY <2>1
  <2>3. /\ Starting = {} /\ Starting' = {} /\ HandRefused' = {r}
        /\ Unrecorded = {} /\ Unrecorded' = {r}
    BY <1>b, <2>1 DEF Starting, HandRefused, Unrecorded
  <2>4. Refused' \subseteq Refused \cup {r}
    BY <2>2, <2>3 DEF Refused
  <2>5. r \in retried \/ r \notin Started \cup Refused \cup Queued
    BY <2>1, <2>3 DEF OnceInv
  <2> QED
    BY <2>1, <2>2, <2>3, <2>4, <2>5 DEF OnceInv
<1>11. ASSUME NEW o \in Orch, DropQueue(o) PROVE OnceInv'
  <2>1. /\ pc = "settle" /\ pc' = pc
        /\ UNCHANGED <<launches, results, cur, outcome, draining, journal, retried>>
    BY <1>11 DEF DropQueue
  <2>2. /\ Started' = Started /\ DrainRefused' = DrainRefused /\ HandRefused' = HandRefused
        /\ Starting' = Starting /\ Unrecorded' = Unrecorded
    BY <2>1
  <2>3. /\ Queued' = {r \in Queued : Who[r] # o}
        /\ ToldRefused' = ToldRefused \cup {r \in Queued : Who[r] = o}
    BY <1>11, QueuedMoves
  <2>4. /\ Refused' \subseteq Refused \cup Queued /\ Queued' \subseteq Queued
        /\ Refused' \cap Queued' \subseteq Refused
    BY <2>2, <2>3 DEF Refused
  <2>5. Starting = {} /\ Unrecorded = {}
    BY <2>1 DEF Starting, Unrecorded
  <2> QED
    BY <2>1, <2>2, <2>4, <2>5 DEF OnceInv
<1>12. CASE Pop
  <2>1. /\ pc = "drain" /\ pc' = "start"
        /\ UNCHANGED <<launches, told, results, outcome, draining, journal, retried>>
    BY <1>12 DEF Pop
  <2>2. outcome = "none"
    BY <2>1 DEF OnceInv
  <2>3. /\ Started' = Started /\ DrainRefused' = DrainRefused /\ ToldRefused' = ToldRefused
        /\ cur' \in Queued /\ Queued' = Queued \ {cur'}
    BY <1>12, <2>1, QueuedMoves
  <2>4. /\ Starting = {} /\ Starting' = {cur'} /\ HandRefused' = {}
        /\ Unrecorded = {} /\ Unrecorded' = {}
    BY <2>1, <2>2 DEF Starting, HandRefused, Unrecorded
  <2>5. Refused' \subseteq Refused
    BY <2>3, <2>4 DEF Refused
  <2> QED
    BY <2>1, <2>2, <2>3, <2>4, <2>5 DEF OnceInv
<1>13. CASE RefuseQueued
  <2>1. /\ pc = "start" /\ pc' = "drain" /\ results' = Append(results, <<cur, "refused">>)
        /\ cur \in Req /\ cur' = None /\ draining # None
        /\ UNCHANGED <<launches, queue, told, outcome, draining, journal, retried>>
    BY <1>13, <1>a, <1>c DEF RefuseQueued
  <2>2. outcome = "none"
    BY <2>1 DEF OnceInv
  <2>3. /\ Started' = Started /\ ToldRefused' = ToldRefused /\ Queued' = Queued
        /\ DrainRefused' \subseteq DrainRefused \cup {cur}
    BY <2>1, ResultsMove DEF DrainRefused
  <2>4. /\ Starting = {cur} /\ Starting' = {} /\ HandRefused' = {}
        /\ Unrecorded = {} /\ Unrecorded' = {}
    BY <2>1, <2>2 DEF Starting, HandRefused, Unrecorded
  <2>5. Refused' \subseteq Refused \cup {cur}
    BY <2>3, <2>4 DEF Refused
  <2> QED
    BY <2>1, <2>2, <2>3, <2>4, <2>5 DEF OnceInv
<1>14. CASE StarterRaises
  <2>1. /\ pc = "start" /\ pc' = "settle" /\ results' = <<>> /\ cur' = None
        /\ UNCHANGED <<launches, queue, told, outcome, journal, retried>>
    BY <1>14 DEF StarterRaises
  <2>2. outcome = "none"
    BY <2>1 DEF OnceInv
  <2>3. /\ Started' = Started /\ ToldRefused' = ToldRefused /\ Queued' = Queued
        /\ DrainRefused' = {}
    BY <2>1
  <2>4. /\ Starting' = {} /\ HandRefused' = {} /\ Unrecorded = {} /\ Unrecorded' = {}
    BY <2>1, <2>2 DEF Starting, HandRefused, Unrecorded
  <2>5. Refused' \subseteq Refused
    BY <2>3, <2>4 DEF Refused
  <2> QED
    BY <2>1, <2>2, <2>3, <2>4, <2>5 DEF OnceInv
<1>15. CASE EndDrain
  <2>1. /\ pc = "drain" /\ pc' = "settle" /\ results' = <<>>
        /\ UNCHANGED <<launches, queue, outcome, cur, journal, retried>>
    BY <1>15 DEF EndDrain
  <2>2. /\ Started' = Started /\ Queued' = Queued /\ DrainRefused' = {}
        /\ ToldRefused' = ToldRefused \cup DrainRefused /\ HandRefused' = HandRefused
    BY <1>15, <2>1, DrainReports
  <2>3. Starting = {} /\ Starting' = {} /\ Unrecorded = {} /\ Unrecorded' = {}
    BY <2>1 DEF Starting, Unrecorded
  <2>4. Refused' \subseteq Refused
    BY <2>2 DEF Refused
  <2> QED
    BY <2>1, <2>2, <2>3, <2>4 DEF OnceInv
<1>16. CASE Crash
  <2>1. /\ pc' = "down" /\ results' = <<>> /\ cur' = None /\ outcome' = "none"
        /\ retried' = retried \cup Unrecorded /\ UNCHANGED <<launches, queue, told, journal>>
    BY <1>16 DEF Crash, Unrecorded
  <2>2. /\ Started' = Started /\ Queued' = Queued /\ DrainRefused' = {}
        /\ ToldRefused' = ToldRefused
    BY <2>1
  <2>3. Starting' = {} /\ HandRefused' = {} /\ Unrecorded' = {}
    BY <2>1 DEF Starting, HandRefused, Unrecorded
  <2>4. Refused' \subseteq Refused
    BY <2>2, <2>3 DEF Refused
  <2> QED
    BY <2>1, <2>2, <2>3, <2>4 DEF OnceInv
<1>17. CASE Workers \/ Others \/ UNCHANGED vars
  <2>1. UNCHANGED <<launches, queue, told, results, pc, cur, outcome, draining, journal,
                    retried>>
    BY <1>17 DEF Workers, WorkerCreates, WorkerBoots, WorkerEnds, WorkerFails, gone, Others,
         Submit, ChildStops, ChildDestroyed, UserStarts, Regrant, AdoptCheck, AdoptLabel, vars
  <2>2. Refused' = Refused
    BY <2>1 DEF Refused
  <2> QED
    BY <2>1, <2>2 DEF OnceInv
<1> QED
  BY <1>1, <1>2, <1>3, <1>4, <1>5, <1>6, <1>7, <1>8, <1>9, <1>10, <1>11, <1>12, <1>13,
     <1>14, <1>15, <1>16, <1>17 DEF Next, Broker

\* Nothing was asked for yet.
LEMMA OnceInit == Init => OnceInv
<1> SUFFICES ASSUME Init PROVE OnceInv
  OBVIOUS
<1>1. \A r \in Req : launches[r] = 0 /\ told[r] = {} /\ queue[Who[r]] = <<>>
  BY ConstantsAssumption DEF Init
<1>2. results = <<>> /\ DOMAIN <<>> = {} /\ pc = "idle" /\ outcome = "none" /\ cur = None
  BY DEF Init
<1>3. /\ Started = {} /\ ToldRefused = {} /\ HandRefused = {} /\ Starting = {}
      /\ Unrecorded = {}
  BY <1>1, <1>2 DEF Started, ToldRefused, HandRefused, Starting, Unrecorded
<1>4. Queued = {} /\ DrainRefused = {}
  BY <1>1, <1>2 DEF Queued, DrainRefused
<1> QED
  BY <1>1, <1>2, <1>3, <1>4 DEF OnceInv, Refused

LEMMA OnceAlways == Spec => [](TypeInv /\ LimitInv /\ Own /\ OnceInv)
  BY LimitAlways, OnceInit, OnceStep, PTL DEF Spec

\* A request starts at most once, also when the broker dies in the middle of a drain, and
\* one refused never starts, unless a death cut its handler off from its journal entry.
THEOREM StartedOnceAlways == Spec => []StartedOnce
<1>1. OnceInv => StartedOnce
  <2> SUFFICES ASSUME OnceInv, NEW r \in Req \ retried, "refused" \in told[r]
               PROVE  launches[r] = 0 /\ \A i \in DOMAIN queue[Who[r]] : queue[Who[r]][i] # r
    BY DEF StartedOnce, OnceInv
  <2>1. r \in Refused
    BY DEF Refused, ToldRefused
  <2>2. r \notin Started /\ r \notin Queued
    BY <2>1 DEF OnceInv
  <2> QED
    BY <2>2 DEF Started, Queued
<1> QED
  BY <1>1, OnceAlways, PTL

-----------------------------------------------------------------------------
\* What a request waits for.

Waited == {r \in Req : stamp[r] # 0}
Answered == {r \in Req : told[r] \cap {"started", "refused"} # {}}
InDrain == IF draining = None THEN {} ELSE popped

\* A request that waited is in one of the places where it is not forgotten.
AccInv == Waited \subseteq Queued \cup InDrain \cup Answered \cup dropped

\* What was answered stays answered, and what was lost is known to be.
LEMMA ToldGrows ==
  ASSUME TypeInv, [Next]_vars
  PROVE  Answered \subseteq Answered' /\ dropped \subseteq dropped'
<1> DEFINE Untold == UNCHANGED <<told, dropped>>
<1>a. told \in [Req -> SUBSET {"started", "queued", "refused"}]
  BY DEF TypeInv, Answers
<1>1. \/ Untold \/ Answer \/ EndDrain \/ (\E o \in Orch : DropQueue(o))
      \/ ((StarterRaises \/ Crash) /\ told' = told)
  <2>1. Prune \/ List \/ Reserve \/ Record \/ Refresh \/ Pop \/ RefuseQueued \/ EndRound
        \/ Restart => Untold
    BY DEF Prune, List, Reserve, Record, Refresh, Pop, RefuseQueued, EndRound, Restart
  <2>2. \A r \in Req : SkipSeen(r) \/ StartNow(r) \/ Enqueue(r) \/ Refuse(r) => Untold
    BY DEF SkipSeen, StartNow, Launch, Enqueue, Refuse
  <2>3. StartQueued \/ (\E o \in Orch : BeginDrain(o)) => Untold
    BY DEF StartQueued, Launch, BeginDrain
  <2>4. Workers \/ Others \/ UNCHANGED vars => Untold
    BY DEF Workers, WorkerCreates, WorkerBoots, WorkerEnds, WorkerFails, gone, Others,
         Submit, ChildStops, ChildDestroyed, UserStarts, Regrant, AdoptCheck, AdoptLabel, vars
  <2>5. StarterRaises \/ Crash => told' = told
    BY DEF StarterRaises, Crash
  <2> QED
    BY <2>1, <2>2, <2>3, <2>4, <2>5 DEF Next, Broker
<1>2. \A r \in Req : told[r] \subseteq told'[r]
  BY <1>1, <1>a DEF Answer, EndDrain, DropQueue
<1>3. dropped \subseteq dropped'
  BY <1>1 DEF Answer, EndDrain, DropQueue, StarterRaises, Crash
<1> QED
  BY <1>2, <1>3 DEF Answered

\* What a drain has popped stays in its hands, is reported, or is lost.
LEMMA DrainKeeps ==
  ASSUME TypeInv, LimitInv, OnceInv, [Next]_vars
  PROVE  InDrain \subseteq InDrain' \cup Answered' \cup dropped'
<1>a. /\ results \in Seq(Req \X {"started", "refused"}) /\ draining' \in Orch \cup {None}
      /\ pc \in {"reserve", "record", "answer", "start"} => cur \in Req
      /\ cur \in Req \cup {None}
  BY TypesStep DEF TypeInv, Types, Answers
<1>b. draining # None => pc \in {"drain", "start", "reserve"}
  BY DEF LimitInv
<1>c. popped = ({cur} \cup {results[i][1] : i \in DOMAIN results}) \ {None}
  BY DEF popped
<1>d. popped' = ({cur'} \cup {results'[i][1] : i \in DOMAIN results'}) \ {None}
  BY DEF popped
<1>1. CASE draining = None
  BY <1>1 DEF InDrain
<1>2. CASE UNCHANGED <<cur, results, draining>>
  BY <1>2 DEF InDrain, popped
<1>3. ASSUME draining # None, draining' = draining, cur \in Req, NEW x,
             results' = Append(results, <<cur, x>>)
      PROVE  popped \subseteq InDrain'
  <2>1. /\ DOMAIN results = 1..Len(results) /\ Len(results) \in Nat
        /\ DOMAIN results' = 1..(Len(results) + 1) /\ results'[Len(results) + 1] = <<cur, x>>
        /\ \A i \in DOMAIN results : results'[i] = results[i]
    BY <1>a, <1>3
  <2>2. cur \in {results'[i][1] : i \in DOMAIN results'}
    <3>1. Len(results) + 1 \in DOMAIN results' /\ results'[Len(results) + 1][1] = cur
      BY <2>1
    <3> QED
      BY <3>1
  <2>3. {results[i][1] : i \in DOMAIN results} \subseteq {results'[i][1] : i \in DOMAIN results'}
    BY <2>1
  <2> QED
    BY <1>3, <1>c, <1>d, <2>2, <2>3 DEF InDrain
<1>4. CASE draining # None /\ Reserve
  BY <1>3, <1>4, <1>a DEF Reserve, InDrain
<1>5. CASE RefuseQueued
  BY <1>1, <1>3, <1>5, <1>a DEF RefuseQueued, InDrain
<1>6. CASE Pop
  <2>1. cur = None /\ results' = results /\ draining' = draining
    BY <1>6 DEF Pop, OnceInv
  <2> QED
    BY <2>1, <1>c, <1>d DEF InDrain
<1>7. CASE StartQueued
  BY <1>2, <1>7 DEF StartQueued, Launch
<1>8. CASE StarterRaises \/ Crash
  <2>1. draining = None \/ popped \subseteq dropped'
    BY <1>8 DEF StarterRaises, Crash
  <2> QED
    BY <2>1 DEF InDrain
<1>9. CASE EndDrain
  <2>1. cur = None
    BY <1>9 DEF EndDrain, OnceInv
  <2>2. ASSUME NEW i \in DOMAIN results PROVE results[i][1] \in Answered'
    <3>1. results[i] \in Req \X {"started", "refused"}
      BY <1>a
    <3>2. results[i][2] \in told'[results[i][1]]
      BY <1>9, <3>1 DEF EndDrain, reported
    <3> QED
      BY <3>1, <3>2 DEF Answered
  <2> QED
    BY <2>1, <2>2, <1>c DEF InDrain
<1>10. CASE Workers \/ Others \/ UNCHANGED vars
  <2>1. UNCHANGED <<cur, results, draining>>
    BY <1>10 DEF Workers, WorkerCreates, WorkerBoots, WorkerEnds, WorkerFails, gone, Others,
         Submit, ChildStops, ChildDestroyed, UserStarts, Regrant, AdoptCheck, AdoptLabel, vars
  <2> QED
    BY <2>1, <1>2
<1>11. ~(pc \in {"drain", "start", "reserve"}) => draining = None
  BY <1>b
<1>12. CASE Prune \/ List \/ Record \/ Answer \/ Refresh \/ EndRound \/ Restart
  BY <1>12, <1>11, <1>1 DEF Prune, List, Record, Answer, Refresh, EndRound, Restart
<1>13. CASE \E r \in Req : SkipSeen(r) \/ StartNow(r) \/ Enqueue(r) \/ Refuse(r)
  BY <1>13, <1>11, <1>1 DEF SkipSeen, StartNow, Enqueue, Refuse
<1>14. CASE \E o \in Orch : DropQueue(o) \/ BeginDrain(o)
  BY <1>14, <1>11, <1>1 DEF DropQueue, BeginDrain
<1> QED
  BY <1>1, <1>4, <1>5, <1>6, <1>7, <1>8, <1>9, <1>10, <1>12, <1>13, <1>14 DEF Next, Broker

\* A queued request leaves its queue for a drain's hands or with a refusal.
LEMMA AccStep ==
  ASSUME TypeInv, LimitInv, Own, OnceInv, AccInv, [Next]_vars
  PROVE  AccInv'
<1>a. stamp \in [Req -> Nat] /\ ConstantsAssumption
  BY ConstantsAssumption DEF TypeInv, Stamps
<1>1. ASSUME stamp' = stamp, Queued \subseteq Queued' \cup InDrain' \cup Answered'
      PROVE  AccInv'
  <2>1. Waited' = Waited
    BY <1>1 DEF Waited
  <2> QED
    BY <1>1, <2>1, ToldGrows, DrainKeeps DEF AccInv
<1>2. CASE UNCHANGED <<stamp, queue>>
  BY <1>1, <1>2, SameFate
<1>3. ASSUME NEW r \in Req, Enqueue(r) PROVE AccInv'
  <2>1. Queued' = Queued \cup {r}
    BY <1>3, QueuedMoves
  <2>2. Waited' \subseteq Waited \cup {r}
    BY <1>3, <1>a DEF Enqueue, Waited
  <2> QED
    BY <2>1, <2>2, ToldGrows, DrainKeeps DEF AccInv
<1>4. ASSUME NEW o \in Orch, DropQueue(o) PROVE AccInv'
  <2>1. /\ Queued' = {r \in Queued : Who[r] # o}
        /\ ToldRefused' = ToldRefused \cup {r \in Queued : Who[r] = o}
    BY <1>4, QueuedMoves
  <2>2. ToldRefused' \subseteq Answered'
    BY DEF ToldRefused, Answered
  <2> QED
    BY <1>1, <1>4, <2>1, <2>2 DEF DropQueue
<1>5. CASE Pop
  <2>1. cur' \in Queued /\ Queued' = Queued \ {cur'} /\ Queued \subseteq Req
    BY <1>5, QueuedMoves DEF Queued
  <2>2. draining' # None
    BY <1>5, <1>a DEF Pop, LimitInv, TypeInv, Types
  <2>3. cur' \in InDrain'
    BY <2>1, <2>2, <1>a DEF InDrain, popped, ConstantsAssumption
  <2> QED
    BY <1>1, <1>5, <2>1, <2>3 DEF Pop
<1>6. Types
  BY DEF TypeInv
<1> QED
  BY <1>2, <1>3, <1>4, <1>5, <1>6, QueueMoved

\* A request that was queued is still queued, in the hands of a drain, answered with what
\* became of it, or lost to a broker death or an error of its starter.
THEOREM QueuedAccountedAlways == Spec => []QueuedAccounted
<1>1. Init => AccInv
  BY DEF Init, AccInv, Waited
<1>2. AccInv => QueuedAccounted
  <2> SUFFICES ASSUME AccInv, NEW r \in Req, r \in Waited
               PROVE  \/ \E i \in DOMAIN queue[Who[r]] : queue[Who[r]][i] = r
                      \/ r \in popped \cup dropped
                      \/ told[r] \cap {"started", "refused"} # {}
    BY DEF QueuedAccounted, Waited
  <2> QED
    BY DEF AccInv, Queued, InDrain, Answered
<1> QED
  BY <1>1, <1>2, OnceAlways, AccStep, PTL DEF Spec

-----------------------------------------------------------------------------
\* The order of the starts.

InOrder(q) == \A i, j \in DOMAIN q : i < j => stamp[q[i]] < stamp[q[j]]

\* A queue is sorted by the stamps of its requests, and the one a drain is about to start
\* was queued before all that are still there.
OrderInv ==
  /\ \A o \in Orch : InOrder(queue[o])
  /\ \A o \in Orch : \A i \in DOMAIN queue[o] : stamp[queue[o][i]] # 0
  /\ pc = "start" => /\ stamp[cur] # 0
                     /\ \A i \in DOMAIN queue[draining] : stamp[cur] < stamp[queue[draining][i]]

\* Whatever is queued gets the greatest stamp.
LEMMA LastIsLast ==
  ASSUME Stamps, Req # {}
  PROVE  lastStamp \in Nat /\ \A r \in Req : stamp[r] <= lastStamp
<1>1. PICK q \in Req : \A p \in Req : stamp[p] <= stamp[q]
  BY DEF Stamps
<1>2. \E s \in {stamp[p] : p \in Req} : \A p \in Req : stamp[p] <= s
  BY <1>1
<1>3. lastStamp \in {stamp[p] : p \in Req} /\ \A p \in Req : stamp[p] <= lastStamp
  BY <1>2 DEF lastStamp
<1> QED
  BY <1>3 DEF Stamps

\* A step that queues, pops and drops nothing leaves the order alone.
LEMMA OrderStill ==
  ASSUME OrderInv, UNCHANGED <<stamp, queue>>,
         pc' = "start" => pc = "start" /\ cur' = cur /\ draining' = draining
  PROVE  OrderInv'
  BY DEF OrderInv, InOrder

\* Queueing appends the greatest stamp, and a pop takes the least.
LEMMA OrderStep ==
  ASSUME TypeInv, LimitInv, Own, OrderInv, [Next]_vars
  PROVE  OrderInv'
<1>a. /\ queue \in [Orch -> Seq(Req)] /\ stamp \in [Req -> Nat]
      /\ \A r \in Req : Who[r] \in Orch
  BY ConstantsAssumption DEF TypeInv, Types, Stamps
<1>1. ASSUME NEW r \in Req, Enqueue(r) PROVE OrderInv'
  <2>1. /\ stamp' = [stamp EXCEPT ![r] = 1 + lastStamp] /\ pc' = "record"
        /\ queue'[Who[r]] = Append(queue[Who[r]], r)
        /\ \A o \in Orch \ {Who[r]} : queue'[o] = queue[o]
    BY <1>1, <1>a DEF Enqueue
  <2>2. lastStamp \in Nat /\ \A q \in Req : stamp[q] <= lastStamp
    BY LastIsLast DEF TypeInv
  <2>3. \A i \in DOMAIN queue[Who[r]] : queue[Who[r]][i] # r
    BY <1>1 DEF Enqueue, acceptable, queuedNames
  <2>4. ASSUME NEW o \in Orch, NEW i \in DOMAIN queue[o]
        PROVE  queue[o][i] \in Req /\ queue[o][i] # r /\ stamp'[queue[o][i]] = stamp[queue[o][i]]
    <3>1. queue[o][i] \in Req /\ Who[queue[o][i]] = o
      BY <1>a DEF Own
    <3>2. queue[o][i] # r
      BY <2>3, <3>1
    <3> QED
      BY <1>a, <2>1, <3>1, <3>2
  <2>5. ASSUME NEW o \in Orch
        PROVE  InOrder(queue[o])' /\ \A i \in DOMAIN queue'[o] : stamp'[queue'[o][i]] # 0
    <3>1. CASE o # Who[r]
      BY <2>1, <2>4, <3>1 DEF OrderInv, InOrder
    <3>2. CASE o = Who[r]
      <4> DEFINE s == queue[o]
      <4>1. /\ DOMAIN queue'[o] = 1..(Len(s) + 1) /\ DOMAIN s = 1..Len(s) /\ Len(s) \in Nat
            /\ queue'[o][Len(s) + 1] = r /\ \A i \in 1..Len(s) : queue'[o][i] = s[i]
        BY <1>a, <2>1, <3>2
      <4>2. stamp'[r] = 1 + lastStamp
        BY <1>a, <2>1
      <4>3. \A i \in 1..Len(s) : s[i] \in Req /\ stamp'[s[i]] = stamp[s[i]] /\ stamp[s[i]] # 0
                                   /\ stamp[s[i]] \in Nat /\ stamp[s[i]] <= lastStamp
        <5> SUFFICES ASSUME NEW i \in DOMAIN s
                     PROVE  /\ s[i] \in Req /\ stamp'[s[i]] = stamp[s[i]] /\ stamp[s[i]] # 0
                            /\ stamp[s[i]] \in Nat /\ stamp[s[i]] <= lastStamp
          BY <4>1
        <5>1. s[i] \in Req /\ stamp'[s[i]] = stamp[s[i]]
          BY <2>4
        <5>2. stamp[s[i]] # 0
          BY DEF OrderInv
        <5>3. stamp[s[i]] \in Nat /\ stamp[s[i]] <= lastStamp
          BY <1>a, <2>2, <5>1
        <5> QED
          BY <5>1, <5>2, <5>3
      <4>4. \A i, j \in 1..Len(s) : i < j => stamp[s[i]] < stamp[s[j]]
        BY <4>1 DEF OrderInv, InOrder
      <4> HIDE DEF s
      <4>5. \A i \in DOMAIN queue'[o] : stamp'[queue'[o][i]] # 0
        BY <2>2, <4>1, <4>2, <4>3
      <4>6. ASSUME NEW i \in DOMAIN queue'[o], NEW j \in DOMAIN queue'[o], i < j
            PROVE  stamp'[queue'[o][i]] < stamp'[queue'[o][j]]
        <5>1. CASE j = Len(s) + 1
          BY <2>2, <4>1, <4>2, <4>3, <4>6, <5>1
        <5>2. CASE j # Len(s) + 1
          BY <4>1, <4>3, <4>4, <4>6, <5>2
        <5> QED
          BY <5>1, <5>2
      <4> QED
        BY <4>5, <4>6 DEF InOrder
    <3> QED
      BY <3>1, <3>2
  <2> QED
    BY <2>1, <2>5 DEF OrderInv
<1>2. CASE Pop
  <2> DEFINE s == queue[draining]
  <2>1. /\ draining \in Orch /\ s \in Seq(Req) /\ s # <<>> /\ cur' = Head(s)
        /\ queue'[draining] = Tail(s) /\ \A o \in Orch \ {draining} : queue'[o] = queue[o]
        /\ UNCHANGED <<stamp, draining>>
    BY <1>2, <1>a DEF Pop, afterPop, TypeInv, Types
  <2>2. /\ \A i, j \in DOMAIN s : i < j => stamp[s[i]] < stamp[s[j]]
        /\ \A i \in DOMAIN s : stamp[s[i]] # 0
    BY <2>1 DEF OrderInv, InOrder
  <2> HIDE DEF s
  <2>3. /\ DOMAIN s = 1..Len(s) /\ Len(s) \in Nat \ {0} /\ cur' = s[1]
        /\ DOMAIN Tail(s) = 1..(Len(s) - 1) /\ \A i \in 1..(Len(s) - 1) : Tail(s)[i] = s[i + 1]
    BY <2>1
  <2>4. /\ stamp'[cur'] # 0
        /\ \A i \in DOMAIN queue'[draining'] : stamp'[cur'] < stamp'[queue'[draining'][i]]
    BY <2>1, <2>2, <2>3
  <2>5. ASSUME NEW o \in Orch
        PROVE  InOrder(queue[o])' /\ \A i \in DOMAIN queue'[o] : stamp'[queue'[o][i]] # 0
    <3>1. CASE o # draining
      BY <2>1, <3>1 DEF OrderInv, InOrder
    <3>2. CASE o = draining
      <4>1. stamp' = stamp /\ queue'[o] = Tail(s)
        BY <2>1, <3>2
      <4>2. ASSUME NEW i \in DOMAIN Tail(s)
            PROVE  Tail(s)[i] = s[i + 1] /\ i \in Int /\ i + 1 \in DOMAIN s
        BY <2>3
      <4>3. \A i \in DOMAIN Tail(s) : stamp[Tail(s)[i]] # 0
        BY <2>2, <4>2
      <4>4. ASSUME NEW i \in DOMAIN Tail(s), NEW j \in DOMAIN Tail(s), i < j
            PROVE  stamp[Tail(s)[i]] < stamp[Tail(s)[j]]
        <5>1. i + 1 < j + 1
          BY <4>2, <4>4
        <5> QED
          BY <2>2, <4>2, <5>1
      <4> QED
        BY <4>1, <4>3, <4>4 DEF InOrder
    <3> QED
      BY <3>1, <3>2
  <2> QED
    BY <2>4, <2>5 DEF OrderInv
<1>3. ASSUME NEW o \in Orch, DropQueue(o) PROVE OrderInv'
  <2>1. /\ queue'[o] = <<>> /\ \A x \in Orch \ {o} : queue'[x] = queue[x]
        /\ stamp' = stamp /\ pc' = "settle" /\ DOMAIN <<>> = {}
    BY <1>3, <1>a DEF DropQueue, afterDrop
  <2>2. ASSUME NEW x \in Orch
        PROVE  InOrder(queue[x])' /\ \A i \in DOMAIN queue'[x] : stamp'[queue'[x][i]] # 0
    BY <2>1 DEF OrderInv, InOrder
  <2> QED
    BY <2>1, <2>2 DEF OrderInv
<1>4. CASE UNCHANGED <<stamp, queue>>
  <2>1. Pop \/ (pc' = "start" => pc = "start" /\ cur' = cur /\ draining' = draining)
    <3>1. Workers \/ Others \/ UNCHANGED vars => UNCHANGED <<pc, cur, draining>>
      BY DEF Workers, WorkerCreates, WorkerBoots, WorkerEnds, WorkerFails, gone, Others,
           Submit, ChildStops, ChildDestroyed, UserStarts, Regrant, AdoptCheck, AdoptLabel, vars
    <3>2. Broker \/ Crash => Pop \/ pc' # "start"
      <4>1. Prune \/ List \/ Reserve \/ Record \/ Answer \/ Refresh \/ RefuseQueued
            \/ StarterRaises \/ EndDrain \/ EndRound \/ Restart \/ Crash => pc' # "start"
        BY DEF Prune, List, Reserve, Record, Answer, Refresh, RefuseQueued, StarterRaises,
             EndDrain, EndRound, Restart, Crash
      <4>2. \A r \in Req : SkipSeen(r) \/ StartNow(r) \/ Enqueue(r) \/ Refuse(r) => pc' # "start"
        BY DEF SkipSeen, StartNow, Launch, Enqueue, Refuse
      <4>3. StartQueued \/ (\E o \in Orch : DropQueue(o) \/ BeginDrain(o)) => pc' # "start"
        BY DEF StartQueued, Launch, DropQueue, BeginDrain
      <4> QED
        BY <4>1, <4>2, <4>3 DEF Broker
    <3> QED
      BY <3>1, <3>2 DEF Next
  <2> QED
    BY <1>2, <1>4, <2>1, OrderStill
<1>5. Types
  BY DEF TypeInv
<1> QED
  BY <1>1, <1>2, <1>3, <1>4, <1>5, QueueMoved

\* A request is launched at once, with nobody waiting, or at the head of its queue.
LEMMA LaunchedHow ==
  ASSUME TypeInv, [Next]_vars, NEW r \in Req, launches'[r] > launches[r]
  PROVE  StartNow(r) \/ (StartQueued /\ r = cur)
<1>a. launches \in [Req -> 0..(MaxCrashes + 1)] /\ launches[r] \in Int
  BY ConstantsAssumption DEF TypeInv, Numbers
<1>b. launches' # launches
  BY <1>a
<1>1. ASSUME NEW q \in Req, Launch(q) PROVE q = r
  BY <1>1, <1>a DEF Launch
<1>2. ~(Prune \/ List \/ Reserve \/ Record \/ Answer \/ Refresh \/ Pop \/ RefuseQueued
        \/ StarterRaises \/ EndDrain \/ EndRound \/ Restart \/ Crash)
  BY <1>b DEF Prune, List, Reserve, Record, Answer, Refresh, Pop, RefuseQueued, StarterRaises,
       EndDrain, EndRound, Restart, Crash
<1>3. \A q \in Req : ~(SkipSeen(q) \/ Enqueue(q) \/ Refuse(q))
  BY <1>b DEF SkipSeen, Enqueue, Refuse
<1>4. \A o \in Orch : ~(DropQueue(o) \/ BeginDrain(o))
  BY <1>b DEF DropQueue, BeginDrain
<1>5. ~(Workers \/ Others \/ UNCHANGED vars)
  BY <1>b DEF Workers, WorkerCreates, WorkerBoots, WorkerEnds, WorkerFails, gone, Others,
       Submit, ChildStops, ChildDestroyed, UserStarts, Regrant, AdoptCheck, AdoptLabel, vars
<1>6. StartQueued \/ \E q \in Req : StartNow(q)
  BY <1>2, <1>3, <1>4, <1>5 DEF Next, Broker
<1>7. StartQueued => r = cur
  BY <1>1 DEF StartQueued, TypeInv, Types
<1>8. \A q \in Req : StartNow(q) => q = r
  BY <1>1 DEF StartNow
<1> QED
  BY <1>6, <1>7, <1>8

\* A request starts only when every request still queued by its orchestrator was queued
\* after it: a new one never overtakes the queue, and the queue is drained FIFO.
THEOREM NoOvertakingAlways == Spec => NoOvertaking
<1>1. Init => OrderInv
  BY ConstantsAssumption DEF Init, OrderInv, InOrder
<1>2. ASSUME TypeInv, LimitInv, OrderInv, [Next]_vars
      PROVE  [\A r \in Req : launches'[r] > launches[r] =>
                \A i \in DOMAIN queue[Who[r]] :
                  stamp[r] # 0 /\ stamp[r] < stamp[queue[Who[r]][i]]]_vars
  <2> SUFFICES ASSUME NEW r \in Req, launches'[r] > launches[r],
                      NEW i \in DOMAIN queue[Who[r]]
               PROVE  stamp[r] # 0 /\ stamp[r] < stamp[queue[Who[r]][i]]
    OBVIOUS
  <2>1. CASE StartNow(r)
    <3>1. queue[Who[r]] = <<>> /\ DOMAIN <<>> = {}
      BY <2>1 DEF StartNow, mayStart
    <3> QED
      BY <3>1
  <2>2. CASE StartQueued /\ r = cur
    <3>1. pc = "start" /\ draining = Who[r]
      BY <1>2, <2>2 DEF StartQueued, LimitInv
    <3> QED
      BY <1>2, <2>2, <3>1 DEF OrderInv
  <2> QED
    BY <1>2, <2>1, <2>2, LaunchedHow
<1> QED
  BY <1>1, <1>2, LimitAlways, OrderStep, PTL DEF Spec, NoOvertaking
-----------------------------------------------------------------------------
\* The line of an orchestrator.

Declined == DrainRefused \cup HandRefused

\* Of these a death or an error of a starter may take the last trace.
Losable == {r \in Req : stamp[r] = 0 \/ r \in dropped}

\* How a request stands, by the sets it is in.
LEMMA Stands ==
  ASSUME NEW r \in Req
  PROVE  /\ standingOf(r) =
              IF r \in retried THEN "excused"
              ELSE IF r \in Started THEN "started"
              ELSE IF r \in ToldRefused THEN "refused"
              ELSE IF r \in Declined THEN "declined"
              ELSE IF r \in Queued THEN "waiting"
              ELSE IF r \in Starting THEN "next"
              ELSE IF r \notin journal THEN "open"
              ELSE IF r \in Losable THEN "lost" ELSE "forgotten"
         /\ standingOf(r)' =
              IF r \in retried' THEN "excused"
              ELSE IF r \in Started' THEN "started"
              ELSE IF r \in ToldRefused' THEN "refused"
              ELSE IF r \in Declined' THEN "declined"
              ELSE IF r \in Queued' THEN "waiting"
              ELSE IF r \in Starting' THEN "next"
              ELSE IF r \notin journal' THEN "open"
              ELSE IF r \in Losable' THEN "lost" ELSE "forgotten"
<1>1. /\ r \in Started <=> launches[r] # 0
      /\ r \in ToldRefused <=> "refused" \in told[r]
      /\ r \in Declined <=> \/ \E i \in DOMAIN results : results[i] = <<r, "refused">>
                            \/ outcome = "refused" /\ cur = r
      /\ r \in Queued <=> \E i \in DOMAIN queue[Who[r]] : queue[Who[r]][i] = r
      /\ r \in Starting <=> pc = "start" /\ cur = r
      /\ r \in Losable <=> stamp[r] = 0 \/ r \in dropped
  BY DEF Started, ToldRefused, Declined, DrainRefused, HandRefused, Queued, Starting, Losable
<1>2. /\ r \in Started' <=> launches'[r] # 0
      /\ r \in ToldRefused' <=> "refused" \in told'[r]
      /\ r \in Declined' <=> \/ \E i \in DOMAIN results' : results'[i] = <<r, "refused">>
                             \/ outcome' = "refused" /\ cur' = r
      /\ r \in Queued' <=> \E i \in DOMAIN queue'[Who[r]] : queue'[Who[r]][i] = r
      /\ r \in Starting' <=> pc' = "start" /\ cur' = r
      /\ r \in Losable' <=> stamp'[r] = 0 \/ r \in dropped'
  BY DEF Started, ToldRefused, Declined, DrainRefused, HandRefused, Queued, Starting, Losable
<1>3. standingOf(r) =
        IF r \in retried THEN "excused"
        ELSE IF r \in Started THEN "started"
        ELSE IF r \in ToldRefused THEN "refused"
        ELSE IF r \in Declined THEN "declined"
        ELSE IF r \in Queued THEN "waiting"
        ELSE IF r \in Starting THEN "next"
        ELSE IF r \notin journal THEN "open"
        ELSE IF r \in Losable THEN "lost" ELSE "forgotten"
  BY <1>1 DEF standingOf
<1>4. standingOf(r)' =
        IF r \in retried' THEN "excused"
        ELSE IF r \in Started' THEN "started"
        ELSE IF r \in ToldRefused' THEN "refused"
        ELSE IF r \in Declined' THEN "declined"
        ELSE IF r \in Queued' THEN "waiting"
        ELSE IF r \in Starting' THEN "next"
        ELSE IF r \notin journal' THEN "open"
        ELSE IF r \in Losable' THEN "lost" ELSE "forgotten"
  BY <1>2 DEF standingOf
<1> QED
  BY <1>3, <1>4

\* A step after which everyone is where they were is no step of the line.
LEMMA StandStill ==
  ASSUME queue' = queue, \A r \in Req : standingOf(r)' = standingOf(r)
  PROVE  UNCHANGED Line!promise
  BY DEF Line!promise

\* A step that moves one request alone.
LEMMA TurnsInto ==
  ASSUME NEW r \in Req, NEW s, standingOf(r)' = s,
         \A q \in Req \ {r} : standingOf(q)' = standingOf(q)
  PROVE  Line!becomes(r, s)
  BY DEF Line!becomes

\* Nobody is next but the request a drain is about to start.
LEMMA NobodyNext ==
  ASSUME Starting = {}
  PROVE  Line!nobodyNext
<1>1. \A r \in Req : standingOf(r) # "next"
  BY Stands
<1> QED
  BY <1>1 DEF Line!nobodyNext

\* What a handler did is on file, or in its hands, when it is journalled: a start, a wait
\* or a refusal.
HandInv == pc = "record" => cur \in Started \cup Refused \cup Queued

\* A drain notes a start for what it started. A request waits after it is journalled, or
\* about to be: one whose handler refuses it has never waited.
WaitInv ==
  /\ \A i \in DOMAIN results : results[i][2] = "started" => results[i][1] \in Started
  /\ HandRefused \cap Waited \subseteq retried
  /\ Waited \subseteq journal \cup retried \cup Unrecorded

LEMMA SameLosable == UNCHANGED <<stamp, dropped>> => Losable' = Losable
  BY DEF Losable
LEMMA HandStep ==
  ASSUME TypeInv, Own, HandInv, [Next]_vars
  PROVE  HandInv'
<1> USE SameFate
<1>a. launches \in [Req -> 0..(MaxCrashes + 1)]
  BY DEF TypeInv, Numbers
<1>1. CASE pc' # "record"
  BY <1>1 DEF HandInv
<1>2. CASE Reserve
  <2>1. /\ launches' = launches /\ pc = "reserve" /\ cur \in Req
        /\ launches[cur] \in 1..(MaxCrashes + 1)
    BY <1>2 DEF Reserve, TypeInv, Types
  <2>2. cur \in Started'
    BY <2>1 DEF Started
  <2>3. pc' = "record" => cur' = cur
    BY <1>2 DEF Reserve
  <2> QED
    BY <2>2, <2>3 DEF HandInv
<1>3. ASSUME NEW r \in Req, Enqueue(r) PROVE HandInv'
  <2>1. cur' = r /\ Queued' = Queued \cup {r}
    BY <1>3, QueuedMoves DEF Enqueue
  <2> QED
    BY <2>1 DEF HandInv
<1>4. ASSUME NEW r \in Req, Refuse(r) PROVE HandInv'
  <2>1. cur' = r /\ outcome' = "refused"
    BY <1>4 DEF Refuse
  <2> QED
    BY <2>1 DEF HandInv, Refused, HandRefused
<1>5. CASE Workers \/ Others \/ UNCHANGED vars
  <2>1. UNCHANGED <<launches, queue, told, results, pc, cur, outcome>>
    BY <1>5 DEF Workers, WorkerCreates, WorkerBoots, WorkerEnds, WorkerFails, gone, Others,
         Submit, ChildStops, ChildDestroyed, UserStarts, Regrant, AdoptCheck, AdoptLabel, vars
  <2>2. Refused' = Refused
    BY <2>1 DEF Refused
  <2> QED
    BY <2>1, <2>2 DEF HandInv
<1>6. Prune \/ List \/ Record \/ Answer \/ Refresh \/ Pop \/ RefuseQueued \/ StarterRaises
        \/ EndDrain \/ EndRound \/ Restart \/ Crash => pc' # "record"
  BY DEF Prune, List, Record, Answer, Refresh, Pop, RefuseQueued, StarterRaises, EndDrain,
       EndRound, Restart, Crash
<1>7. \A r \in Req : SkipSeen(r) \/ StartNow(r) => pc' # "record"
  BY DEF SkipSeen, StartNow, Launch
<1>8. StartQueued \/ (\E o \in Orch : DropQueue(o) \/ BeginDrain(o)) => pc' # "record"
  BY DEF StartQueued, Launch, DropQueue, BeginDrain
<1> QED
  BY <1>1, <1>2, <1>3, <1>4, <1>5, <1>6, <1>7, <1>8 DEF Next, Broker

LEMMA WaitStep ==
  ASSUME TypeInv, LimitInv, OnceInv, WaitInv, [Next]_vars
  PROVE  WaitInv'
<1> USE SameFate
<1>a. /\ pc \in {"reserve", "record", "answer", "start"} => cur \in Req
      /\ results \in Seq(Req \X {"started", "refused"}) /\ stamp \in [Req -> Nat]
      /\ draining # None => pc \in {"drain", "start", "reserve"}
      /\ pc \notin {"reserve", "record", "answer"} => outcome = "none"
  BY DEF TypeInv, Types, Answers, Stamps, LimitInv, OnceInv
<1>b. stamp' = stamp => Waited' = Waited
  BY DEF Waited
<1>c. ASSUME results' = results \/ results' = <<>>, Started \subseteq Started'
      PROVE  \A i \in DOMAIN results' : results'[i][2] = "started" => results'[i][1] \in Started'
  <2>1. DOMAIN <<>> = {}
    OBVIOUS
  <2> QED
    BY <1>c, <2>1 DEF WaitInv
<1>d. ASSUME NEW x, cur \in Req, results' = Append(results, <<cur, x>>), Started' = Started,
             x = "started" => cur \in Started
      PROVE  \A i \in DOMAIN results' : results'[i][2] = "started" => results'[i][1] \in Started'
  <2>1. /\ DOMAIN results' = 1..(Len(results) + 1) /\ DOMAIN results = 1..Len(results)
        /\ Len(results) \in Nat /\ results'[Len(results) + 1] = <<cur, x>>
        /\ \A i \in 1..Len(results) : results'[i] = results[i]
    BY <1>a, <1>d
  <2>2. \A i \in DOMAIN results : results[i][2] = "started" => results[i][1] \in Started
    BY DEF WaitInv
  <2>3. ASSUME NEW i \in DOMAIN results', results'[i][2] = "started"
        PROVE  results'[i][1] \in Started
    <3>1. CASE i = Len(results) + 1
      <4>1. results'[i] = <<cur, x>>
        BY <2>1, <3>1
      <4>2. results'[i][1] = cur /\ results'[i][2] = x
        BY <4>1
      <4> QED
        BY <1>d, <2>3, <4>2
    <3>2. CASE i # Len(results) + 1
      <4>1. i \in DOMAIN results /\ results'[i] = results[i]
        BY <2>1, <3>2
      <4> QED
        BY <2>2, <2>3, <4>1
    <3> QED
      BY <3>1, <3>2
  <2> QED
    BY <1>d, <2>3
<1>1. CASE \/ Prune \/ List \/ Refresh \/ EndRound \/ Restart
           \/ (\E o \in Orch : DropQueue(o) \/ BeginDrain(o)) \/ \E r \in Req : SkipSeen(r)
  <2>1. /\ UNCHANGED <<launches, results, cur, outcome, journal, retried, stamp>>
        /\ pc \notin {"reserve", "record"}
    BY <1>1 DEF Prune, List, Refresh, EndRound, Restart, BeginDrain, DropQueue, SkipSeen
  <2>2. Unrecorded = {}
    BY <2>1 DEF Unrecorded
  <2> QED
    BY <1>b, <1>c, <2>1, <2>2 DEF WaitInv
<1>2. CASE Reserve
  <2>1. /\ UNCHANGED <<launches, journal, retried, stamp>> /\ pc = "reserve"
        /\ cur \in Req /\ cur \in Started
    BY <1>2, <1>a DEF Reserve, Started, TypeInv, Types
  <2>2. CASE draining = None
    <3>1. UNCHANGED <<results, cur, outcome, draining>> /\ pc' = "record"
      BY <1>2, <2>2 DEF Reserve
    <3>2. Unrecorded' = Unrecorded
      BY <2>1, <3>1 DEF Unrecorded
    <3> QED
      BY <1>b, <1>c, <2>1, <3>1, <3>2 DEF WaitInv
  <2>3. CASE draining # None
    <3>1. results' = Append(results, <<cur, "started">>) /\ outcome' = "none"
      BY <1>2, <2>3 DEF Reserve
    <3>2. Unrecorded = {} /\ HandRefused' = {}
      BY <2>3, <3>1 DEF Unrecorded, HandRefused
    <3> QED
      BY <1>b, <1>d, <2>1, <3>1, <3>2 DEF WaitInv
  <2> QED
    BY <2>2, <2>3
<1>3. CASE Record
  <2>1. /\ UNCHANGED <<launches, results, cur, outcome, retried, stamp>>
        /\ journal' = journal \cup {cur}
    BY <1>3 DEF Record
  <2>2. Unrecorded \subseteq {cur}
    BY DEF Unrecorded
  <2> QED
    BY <1>b, <1>c, <2>1, <2>2 DEF WaitInv
<1>4. CASE Answer
  <2>1. /\ UNCHANGED <<launches, results, journal, retried, stamp>>
        /\ pc = "answer" /\ outcome' = "none"
    BY <1>4 DEF Answer
  <2>2. Unrecorded = {} /\ HandRefused' = {}
    BY <2>1 DEF Unrecorded, HandRefused
  <2> QED
    BY <1>b, <1>c, <2>1, <2>2 DEF WaitInv
<1>5. ASSUME NEW r \in Req, Launch(r), pc \in {"serve", "start"} PROVE WaitInv'
  <2>1. /\ launches' = [launches EXCEPT ![r] = @ + 1] /\ launches \in [Req -> 0..(MaxCrashes + 1)]
        /\ UNCHANGED <<results, journal, retried, stamp>> /\ outcome' = "started"
    BY <1>5 DEF Launch, TypeInv, Numbers
  <2>2. Started \subseteq Started'
    BY <2>1 DEF Started
  <2>3. Unrecorded = {} /\ HandRefused' = {}
    BY <1>5, <2>1 DEF Unrecorded, HandRefused
  <2> QED
    BY <1>b, <1>c, <2>1, <2>2, <2>3 DEF WaitInv
<1>6. ASSUME NEW r \in Req, StartNow(r) PROVE WaitInv'
  BY <1>5, <1>6 DEF StartNow
<1>7. CASE StartQueued
  BY <1>5, <1>7, <1>a DEF StartQueued
<1>8. ASSUME NEW r \in Req, Enqueue(r) PROVE WaitInv'
  <2>1. /\ UNCHANGED <<launches, results, draining, journal, retried>> /\ pc = "serve"
        /\ pc' = "record" /\ cur' = r /\ outcome' = "queued"
        /\ stamp' = [stamp EXCEPT ![r] = 1 + lastStamp]
    BY <1>8 DEF Enqueue
  <2>2. Unrecorded = {} /\ Unrecorded' = {r} /\ HandRefused' = {}
    BY <1>a, <2>1 DEF Unrecorded, HandRefused
  <2>3. Waited' \subseteq Waited \cup {r}
    BY <1>a, <2>1 DEF Waited
  <2> QED
    BY <1>c, <2>1, <2>2, <2>3 DEF WaitInv
<1>9. ASSUME NEW r \in Req, Refuse(r) PROVE WaitInv'
  <2>1. /\ UNCHANGED <<launches, results, draining, journal, retried, stamp>> /\ pc = "serve"
        /\ pc' = "record" /\ cur' = r /\ outcome' = "refused" /\ r \notin journal
    BY <1>9 DEF Refuse
  <2>2. Unrecorded = {} /\ Unrecorded' = {r} /\ HandRefused' = {r}
    BY <1>a, <2>1 DEF Unrecorded, HandRefused
  <2> QED
    BY <1>b, <1>c, <2>1, <2>2 DEF WaitInv
<1>10. CASE Pop \/ StarterRaises \/ EndDrain
  <2>1. /\ UNCHANGED <<launches, outcome, journal, retried, stamp>>
        /\ results' = results \/ results' = <<>>
        /\ pc \in {"drain", "start"}
    BY <1>10 DEF Pop, StarterRaises, EndDrain
  <2>2. Unrecorded = {} /\ HandRefused' = {}
    BY <1>a, <2>1 DEF Unrecorded, HandRefused
  <2> QED
    BY <1>b, <1>c, <2>1, <2>2 DEF WaitInv
<1>11. CASE RefuseQueued
  <2>1. /\ UNCHANGED <<launches, outcome, journal, retried, stamp>> /\ cur \in Req
        /\ pc = "start" /\ results' = Append(results, <<cur, "refused">>)
    BY <1>11, <1>a DEF RefuseQueued
  <2>2. Unrecorded = {} /\ HandRefused' = {}
    BY <1>a, <2>1 DEF Unrecorded, HandRefused
  <2> QED
    BY <1>b, <1>d, <2>1, <2>2 DEF WaitInv
<1>12. CASE Crash
  <2>1. /\ UNCHANGED <<launches, journal, stamp>> /\ results' = <<>> /\ outcome' = "none"
        /\ retried' = retried \cup Unrecorded
    BY <1>12 DEF Crash, Unrecorded
  <2>2. HandRefused' = {}
    BY <2>1 DEF HandRefused
  <2> QED
    BY <1>b, <1>c, <2>1, <2>2 DEF WaitInv
<1>13. CASE Workers \/ Others \/ UNCHANGED vars
  <2>1. UNCHANGED <<launches, results, pc, cur, outcome, draining, journal, retried, stamp>>
    BY <1>13 DEF Workers, WorkerCreates, WorkerBoots, WorkerEnds, WorkerFails, gone, Others,
         Submit, ChildStops, ChildDestroyed, UserStarts, Regrant, AdoptCheck, AdoptLabel, vars
  <2> QED
    BY <1>b, <1>c, <2>1 DEF WaitInv
<1> QED
  BY <1>1, <1>2, <1>3, <1>4, <1>6, <1>7, <1>8, <1>9, <1>10, <1>11, <1>12, <1>13
    DEF Next, Broker

\* A launch, wherever it happens, starts what is next, or a new request when nobody waits;
\* for one that is excused it promises nothing.
LEMMA LaunchInLine ==
  ASSUME TypeInv, OnceInv, NEW r \in Req, Launch(r), outcome = "none",
         r \notin retried => r \notin Started \cup Refused \cup Queued,
         \/ Starting = {r}
         \/ Starting = {} /\ queue[Who[r]] = <<>> /\ r \notin journal
  PROVE  Line!Next \/ UNCHANGED Line!promise
<1> USE SameFate
<1>1. /\ launches' = [launches EXCEPT ![r] = @ + 1] /\ launches \in [Req -> 0..(MaxCrashes + 1)]
      /\ UNCHANGED <<queue, told, results, journal, retried, stamp, dropped>>
      /\ cur' = r /\ outcome' = "started" /\ pc' = "reserve"
  BY DEF Launch, TypeInv, Numbers
<1>2. \A q \in Req : q \in Started' <=> q \in Started \/ q = r
  BY <1>1 DEF Started
<1>3. /\ Queued' = Queued /\ ToldRefused' = ToldRefused /\ Declined' = Declined
      /\ Starting' = {} /\ Losable' = Losable
  BY <1>1, SameLosable DEF Starting, HandRefused, Declined
<1>4. Starting \subseteq {r}
  OBVIOUS
<1>5. ASSUME NEW q \in Req, q # r \/ r \in retried PROVE standingOf(q)' = standingOf(q)
  BY <1>1, <1>2, <1>3, <1>4, <1>5, Stands
<1>6. CASE r \in retried
  BY <1>1, <1>5, <1>6, StandStill
<1>7. CASE r \notin retried
  <2>1. standingOf(r)' = "started"
    BY <1>1, <1>2, <1>7, Stands
  <2>2. r \notin Started \cup ToldRefused \cup Declined \cup Queued
    BY <1>7 DEF Refused, Declined
  <2>3. Line!becomes(r, "started")
    BY <1>5, <2>1, TurnsInto
  <2>4. CASE Starting = {r}
    <3>1. standingOf(r) = "next"
      BY <1>7, <2>2, <2>4, Stands
    <3> QED
      BY <1>1, <2>3, <3>1 DEF Line!Start, Line!Next
  <2>5. CASE Starting = {} /\ queue[Who[r]] = <<>> /\ r \notin journal
    <3>1. standingOf(r) = "open"
      BY <1>7, <2>2, <2>5, Stands
    <3>2. Line!nobodyNext
      BY <2>5, NobodyNext
    <3> QED
      BY <1>1, <2>3, <2>5, <3>1, <3>2 DEF Line!Start, Line!Next
  <2> QED
    BY <2>4, <2>5
<1> QED
  BY <1>6, <1>7
\* The orchestrator is told of everything declined so far.
LEMMA TellsAll ==
  ASSUME Declined \cap Started \subseteq retried, Declined' = {},
         ToldRefused' = ToldRefused \cup Declined,
         Started' = Started, Queued' = Queued, Starting = {}, Starting' = {},
         Losable' = Losable, UNCHANGED <<queue, retried, journal>>
  PROVE  Line!Next \/ UNCHANGED Line!promise
<1>1. ASSUME NEW r \in Req
      PROVE  standingOf(r)' = IF standingOf(r) = "declined" THEN "refused" ELSE standingOf(r)
  BY <1>1, Stands
<1>2. CASE \E r \in Req : standingOf(r) = "declined"
  BY <1>1, <1>2 DEF Line!Tell, Line!Next
<1>3. CASE ~\E r \in Req : standingOf(r) = "declined"
  BY <1>1, <1>3, StandStill
<1> QED
  BY <1>2, <1>3

\* What was next or declined is in the journal, so that nobody asks for it again.
LEMMA LosesAll ==
  ASSUME Declined \cup Starting \subseteq journal \cup retried,
         (Declined \cup Starting) \cap Queued \subseteq retried,
         Declined' = {}, Starting' = {},
         Declined \cup Starting \subseteq Losable' \cup retried, Losable \subseteq Losable',
         Losable' \subseteq Losable \cup Started \cup Declined \cup Starting,
         ToldRefused' = ToldRefused, Started' = Started, Queued' = Queued,
         UNCHANGED <<queue, retried, journal>>
  PROVE  Line!Next \/ UNCHANGED Line!promise
<1>1. ASSUME NEW r \in Req
      PROVE  standingOf(r)' = IF standingOf(r) \in {"next", "declined"} THEN "lost"
                              ELSE standingOf(r)
  BY <1>1, Stands
<1>2. CASE \E r \in Req : standingOf(r) \in {"next", "declined"}
  BY <1>1, <1>2 DEF Line!Lose, Line!Next
<1>3. CASE ~\E r \in Req : standingOf(r) \in {"next", "declined"}
  BY <1>1, <1>3, StandStill
<1> QED
  BY <1>2, <1>3

\* A request is declined by its handler, or by the drain that took it from the line.
LEMMA DeclinesOne ==
  ASSUME NEW r \in Req,
         r \notin retried => r \notin Started \cup Refused \cup Queued,
         Starting = {r} \/ (Starting = {} /\ r \notin journal),
         Starting' = {}, \A q \in Req : q \in Declined' <=> q \in Declined \/ q = r,
         ToldRefused' = ToldRefused, Started' = Started, Queued' = Queued,
         Losable' = Losable, UNCHANGED <<queue, retried, journal>>
  PROVE  Line!Next \/ UNCHANGED Line!promise
<1>1. Starting \subseteq {r}
  OBVIOUS
<1>2. ASSUME NEW q \in Req, q # r \/ r \in retried PROVE standingOf(q)' = standingOf(q)
  BY <1>1, <1>2, Stands
<1>3. CASE r \in retried
  BY <1>2, <1>3, StandStill
<1>4. CASE r \notin retried
  <2>1. r \notin Started \cup ToldRefused \cup Declined \cup Queued
    BY <1>4 DEF Refused, Declined
  <2>2. standingOf(r)' = "declined"
    BY <1>4, <2>1, Stands
  <2>3. standingOf(r) \in {"open", "next"}
    BY <1>4, <2>1, Stands
  <2>4. Line!becomes(r, "declined")
    BY <1>2, <2>2, TurnsInto
  <2> QED
    BY <2>3, <2>4 DEF Line!Decline, Line!Next
<1> QED
  BY <1>3, <1>4

\* A step that leaves every request where it is.
LEMMA NoneMoves ==
  ASSUME Started' = Started, ToldRefused' = ToldRefused, Declined' = Declined,
         Queued' = Queued, Starting' = Starting, Losable' = Losable,
         UNCHANGED <<queue, retried, journal>>
  PROVE  UNCHANGED Line!promise
<1>1. \A r \in Req : standingOf(r)' = standingOf(r)
  BY Stands
<1> QED
  BY <1>1, StandStill

\* A new request goes to the end of the line, an excused one too.
LEMMA WaitsInLine ==
  ASSUME TypeInv, LimitInv, Own, OnceInv, NEW r \in Req, Enqueue(r)
  PROVE  Line!Next
<1> USE SameFate
<1>1. /\ pc = "serve" /\ r \notin journal /\ cur' = r /\ outcome' = "queued" /\ pc' = "record"
      /\ queue' = [queue EXCEPT ![Who[r]] = Append(@, r)]
      /\ UNCHANGED <<launches, told, results, draining, journal, retried, dropped>>
      /\ \A q \in Req \ {r} : stamp'[q] = stamp[q]
  BY DEF Enqueue, TypeInv, Stamps
<1>2. draining = None /\ outcome = "none"
  BY <1>1 DEF LimitInv, OnceInv
<1>3. /\ Started' = Started /\ ToldRefused' = ToldRefused
      /\ Declined' = Declined /\ Starting = {} /\ Starting' = {} /\ Unrecorded = {}
  BY <1>1, <1>2 DEF Starting, HandRefused, Declined, Unrecorded
<1>4. Queued' = Queued \cup {r}
  BY QueuedMoves
<1>5. r \in retried \/ r \notin Started \cup Refused \cup Queued
  BY <1>1, <1>3 DEF OnceInv
<1>a. \A q \in Req \ {r} : q \in Losable' <=> q \in Losable
  BY <1>1 DEF Losable
<1>6. ASSUME NEW q \in Req, q # r \/ r \in retried PROVE standingOf(q)' = standingOf(q)
  BY <1>1, <1>3, <1>4, <1>6, <1>a, Stands
<1>7. \A i \in DOMAIN queue[Who[r]] : queue[Who[r]][i] # r
  BY DEF Enqueue, acceptable, queuedNames
<1>8. CASE r \in retried
  <2>1. standingOf(r) = "excused"
    BY <1>8, Stands
  <2>2. UNCHANGED [q \in Req |-> standingOf(q)]
    BY <1>6, <1>8
  <2> QED
    BY <1>1, <1>7, <2>1, <2>2 DEF Line!Wait, Line!Next
<1>9. CASE r \notin retried
  <2>1. r \notin Started \cup ToldRefused \cup Declined \cup Queued
    BY <1>5, <1>9 DEF Refused, Declined
  <2>2. standingOf(r) = "open" /\ standingOf(r)' = "waiting"
    BY <1>1, <1>3, <1>4, <1>9, <2>1, Stands
  <2>3. Line!becomes(r, "waiting")
    BY <1>6, <2>2, TurnsInto
  <2> QED
    BY <1>1, <1>7, <2>2, <2>3 DEF Line!Wait, Line!Next
<1> QED
  BY <1>8, <1>9

\* A drain takes the front of its line while nobody else is next.
LEMMA TakesFront ==
  ASSUME TypeInv, LimitInv, Own, OnceInv, Pop
  PROVE  Line!Next
<1> USE SameFate
<1>1. /\ pc = "drain" /\ pc' = "start" /\ queue[draining] # <<>> /\ cur' = Head(queue[draining])
      /\ queue' = [queue EXCEPT ![draining] = Tail(@)] /\ draining \in Orch
      /\ UNCHANGED <<launches, told, results, outcome, journal, retried, stamp, dropped>>
  BY DEF Pop, afterPop, TypeInv, Types
<1>2. cur' \in Queued /\ Queued' = Queued \ {cur'}
  BY QueuedMoves
<1>3. PICK h \in Req : h = cur'
  BY <1>2 DEF Queued
<1>4. outcome = "none"
  BY <1>1 DEF OnceInv
<1>5. /\ Started' = Started /\ ToldRefused' = ToldRefused /\ Declined' = Declined
      /\ Starting = {} /\ Starting' = {h} /\ Losable' = Losable
  BY <1>1, <1>3, <1>4, SameLosable DEF Starting, HandRefused, Declined
<1>6. Line!nobodyNext
  BY <1>5, NobodyNext
<1>7. ASSUME NEW q \in Req, q # h \/ h \in retried PROVE standingOf(q)' = standingOf(q)
  BY <1>1, <1>2, <1>3, <1>5, <1>7, Stands
<1>8. CASE h \in retried
  <2>1. standingOf(h) = "excused"
    BY <1>8, Stands
  <2>2. UNCHANGED [q \in Req |-> standingOf(q)]
    BY <1>7, <1>8
  <2> QED
    BY <1>1, <1>3, <1>6, <2>1, <2>2 DEF Line!Take, Line!Next
<1>9. CASE h \notin retried
  <2>1. h \in Queued /\ h \notin Started \cup ToldRefused \cup Declined
    BY <1>2, <1>3, <1>9 DEF OnceInv, Refused, Declined
  <2>2. standingOf(h) = "waiting"
    BY <1>9, <2>1, Stands
  <2>3. standingOf(h)' = "next"
    BY <1>1, <1>2, <1>3, <1>5, <1>9, <2>1, Stands
  <2>4. Line!becomes(h, "next")
    BY <1>7, <2>3, TurnsInto
  <2> QED
    BY <1>1, <1>3, <1>6, <2>2, <2>4 DEF Line!Take, Line!Next
<1> QED
  BY <1>8, <1>9

\* A dropped queue refuses everyone in the line at once.
LEMMA ClearsLine ==
  ASSUME TypeInv, LimitInv, Own, OnceInv, NEW o \in Orch, DropQueue(o)
  PROVE  Line!Next \/ UNCHANGED Line!promise
<1> USE SameFate
<1>1. /\ pc = "settle" /\ queue' = [queue EXCEPT ![o] = <<>>] /\ queue \in [Orch -> Seq(Req)]
      /\ UNCHANGED <<pc, launches, results, cur, outcome, draining, journal, retried, stamp,
                     dropped>>
  BY DEF DropQueue, afterDrop, TypeInv, Types
<1>2. /\ Queued' = {r \in Queued : Who[r] # o}
      /\ ToldRefused' = ToldRefused \cup {r \in Queued : Who[r] = o}
  BY QueuedMoves
<1>3. draining = None /\ results = <<>> /\ outcome = "none"
  BY <1>1 DEF LimitInv, OnceInv
<1>4. /\ Declined = {} /\ Declined' = {} /\ Starting = {} /\ Starting' = {}
      /\ Started' = Started /\ Losable' = Losable
  <2>1. DOMAIN <<>> = {}
    OBVIOUS
  <2> QED
    BY <1>1, <1>3, <2>1, SameLosable DEF Declined, DrainRefused, HandRefused, Starting
<1>5. Queued \cap (Started \cup ToldRefused) \subseteq retried
  BY DEF OnceInv, Refused
<1>6. ASSUME NEW r \in Req
      PROVE  standingOf(r)' = IF standingOf(r) = "waiting" /\ Who[r] = o THEN "refused"
                              ELSE standingOf(r)
  BY <1>1, <1>2, <1>4, <1>5, Stands
<1>7. CASE queue[o] = <<>>
  <2>1. queue' = queue
    BY <1>1, <1>7
  <2>2. \A r \in Req : Who[r] = o => r \notin Queued
    BY <1>7 DEF Queued
  <2>3. \A r \in Req : standingOf(r) = "waiting" => r \in Queued
    BY Stands
  <2> QED
    BY <1>6, <2>1, <2>2, <2>3, StandStill
<1>8. CASE queue[o] # <<>>
  BY <1>1, <1>6, <1>8 DEF Line!Clear, Line!Next
<1> QED
  BY <1>7, <1>8

\* What a drain has popped it started, refused or is about to start, and a drain that is cut
\* off drops it all.
LEMMA DrainLoses ==
  ASSUME TypeInv, LimitInv, OnceInv, WaitInv, draining # None,
         stamp' = stamp, dropped' = dropped \cup popped
  PROVE  /\ Declined \cup Starting \subseteq Losable' \cup retried /\ Losable \subseteq Losable'
         /\ Losable' \subseteq Losable \cup Started \cup Declined \cup Starting
<1>a. /\ pc \in {"drain", "start", "reserve"} /\ cur \in Req \cup {None}
      /\ pc = "drain" => cur = None
      /\ pc \in {"start", "reserve"} => cur \in Req
      /\ \A i \in DOMAIN results : results[i] \in Req \X {"started", "refused"}
  BY DEF LimitInv, OnceInv, TypeInv, Types, Answers
<1>b. pc = "reserve" => launches[cur] # 0
  BY DEF TypeInv, Types
<1>1. popped \subseteq Req /\ \A r \in Req : r \in Losable' <=> r \in Losable \/ r \in popped
  BY <1>a DEF popped, Losable
<1>2. cur \in Req => cur \in popped
  BY ConstantsAssumption DEF popped
<1>3. ASSUME NEW r \in DrainRefused PROVE r \in popped
  <2>1. PICK i \in DOMAIN results : results[i] = <<r, "refused">>
    BY DEF DrainRefused
  <2>2. r = results[i][1] /\ r \in Req
    BY <2>1 DEF DrainRefused
  <2> QED
    BY <2>2, ConstantsAssumption DEF popped
<1>4. HandRefused \subseteq {cur}
  BY DEF HandRefused
<1>5. Declined \cup Starting \subseteq Losable' \cup retried
  <2>1. ASSUME NEW r \in Declined \cup Starting, r \in Req PROVE r \in Losable'
    <3>1. r \in popped
      BY <1>2, <1>3, <1>4, <2>1 DEF Declined, Starting
    <3> QED
      BY <1>1, <2>1, <3>1
  <2>2. HandRefused \subseteq Req
    BY <1>a DEF HandRefused, OnceInv
  <2>3. Declined \cup Starting \subseteq Req
    BY <1>a, <2>2 DEF Declined, DrainRefused, Starting
  <2> QED
    BY <2>1, <2>3
<1>6. ASSUME NEW r \in popped PROVE r \in Started \cup Declined \cup Starting
  <2>1. CASE r = cur
    BY <1>1, <1>a, <1>b, <2>1, ConstantsAssumption DEF Started, Starting, popped
  <2>2. CASE r # cur
    <3>1. PICK i \in DOMAIN results : r = results[i][1]
      BY <2>2 DEF popped
    <3>2. results[i] = <<r, results[i][2]>> /\ results[i][2] \in {"started", "refused"}
      BY <1>a, <3>1
    <3>3. CASE results[i][2] = "started"
      BY <3>1, <3>3 DEF WaitInv
    <3>4. CASE results[i][2] = "refused"
      BY <1>1, <3>2, <3>4 DEF Declined, DrainRefused
    <3> QED
      BY <3>2, <3>3, <3>4
  <2> QED
    BY <2>1, <2>2
<1>7. Losable \subseteq Req /\ Losable' \subseteq Req
  BY DEF Losable
<1> QED
  BY <1>1, <1>5, <1>6, <1>7

\* A death excuses the one request acted on and not journalled, or else loses what was in
\* hand.
LEMMA DeathInLine ==
  ASSUME TypeInv, LimitInv, OnceInv, WaitInv, Crash
  PROVE  Line!Next \/ UNCHANGED Line!promise
<1> USE SameFate
<1>1. /\ pc' = "down" /\ results' = <<>> /\ cur' = None /\ outcome' = "none"
      /\ retried' = retried \cup Unrecorded
      /\ UNCHANGED <<launches, queue, told, journal, stamp>>
  BY DEF Crash, Unrecorded
<1>2. /\ Started' = Started /\ Queued' = Queued /\ ToldRefused' = ToldRefused
      /\ Declined' = {} /\ Starting' = {}
  BY <1>1 DEF Declined, HandRefused, Starting
<1>3. CASE Unrecorded = {}
  <2>1. /\ Declined \cup Starting \subseteq journal \cup retried
        /\ (Declined \cup Starting) \cap Queued \subseteq retried
    BY <1>3 DEF OnceInv, Refused, Declined
  <2>2. retried' = retried
    BY <1>1, <1>3
  <2>3. CASE draining # None
    <3>1. dropped' = dropped \cup popped
      BY <2>3 DEF Crash
    <3>2. /\ Declined \cup Starting \subseteq Losable' \cup retried /\ Losable \subseteq Losable'
          /\ Losable' \subseteq Losable \cup Started \cup Declined \cup Starting
      BY <1>1, <2>3, <3>1, DrainLoses
    <3> QED
      BY <1>1, <1>2, <2>1, <2>2, <3>2, LosesAll
  <2>4. CASE draining = None
    <3>1. dropped' = dropped /\ results = <<>> /\ Starting = {}
      BY <2>4, ConstantsAssumption DEF Crash, OnceInv, Starting, LimitInv, TypeInv, Types
    <3>2. Losable' = Losable
      BY <1>1, <3>1, SameLosable
    <3>3. Declined \subseteq HandRefused
      <4>1. DOMAIN <<>> = {}
        OBVIOUS
      <4> QED
        BY <3>1, <4>1 DEF Declined, DrainRefused
    <3>4. Declined \cup Starting \subseteq Losable \cup retried
      BY <3>1, <3>3 DEF WaitInv, Waited, Losable, HandRefused, OnceInv, TypeInv, Types
    <3> QED
      BY <1>1, <1>2, <2>1, <2>2, <3>2, <3>4, LosesAll
  <2> QED
    BY <2>3, <2>4
<1>4. CASE Unrecorded # {}
  <2>1. draining = None /\ pc \in {"reserve", "record"} /\ Unrecorded = {cur}
    BY <1>4 DEF Unrecorded
  <2>2. PICK r \in Req : r = cur
    BY <2>1 DEF TypeInv, Types
  <2>3. results = <<>> /\ Starting = {}
    BY <2>1 DEF OnceInv, Starting
  <2>4. Declined \subseteq {r}
    <3>1. DOMAIN <<>> = {}
      OBVIOUS
    <3> QED
      BY <2>2, <2>3, <3>1 DEF Declined, DrainRefused, HandRefused
  <2>5. retried' = retried \cup {r} /\ Losable' = Losable
    BY <1>1, <2>1, <2>2, SameLosable DEF Crash
  <2>6. ASSUME NEW q \in Req \ {r} PROVE standingOf(q)' = standingOf(q)
    BY <1>1, <1>2, <2>3, <2>4, <2>5, Stands
  <2>7. standingOf(r)' = "excused"
    BY <2>5, Stands
  <2>8. Line!becomes(r, "excused") /\ Line!nobodyNext
    BY <2>3, <2>6, <2>7, TurnsInto, NobodyNext
  <2> QED
    BY <1>1, <2>8 DEF Line!Excuse, Line!Next
<1> QED
  BY <1>3, <1>4
\* Every step of the broker, the workers and everyone else is one of the line's, or none.
LEMMA LineStep ==
  ASSUME TypeInv, LimitInv, Own, OnceInv, HandInv, WaitInv, [Next]_vars
  PROVE  Line!Next \/ UNCHANGED Line!promise
<1> USE SameFate
<1>a. /\ draining \in Orch \cup {None}
      /\ pc \in {"reserve", "record", "answer", "start"} => cur \in Req
      /\ draining # None => pc \in {"drain", "start", "reserve"}
      /\ pc \notin {"reserve", "record", "answer"} => outcome = "none"
  BY DEF TypeInv, Types, LimitInv, OnceInv
<1>b. DOMAIN <<>> = {}
  OBVIOUS
<1>1. CASE \/ Prune \/ List \/ Refresh \/ EndRound \/ Restart
           \/ (\E o \in Orch : BeginDrain(o)) \/ \E r \in Req : SkipSeen(r)
  <2>1. /\ UNCHANGED <<launches, queue, told, results, cur, outcome, journal, retried, stamp,
                       dropped>>
        /\ pc # "start" /\ pc' # "start"
    BY <1>1 DEF Prune, List, Refresh, EndRound, Restart, BeginDrain, SkipSeen
  <2>2. Declined' = Declined /\ Starting = {} /\ Starting' = {}
    BY <2>1 DEF Declined, Starting
  <2> QED
    BY <2>1, <2>2, SameLosable, NoneMoves
<1>2. CASE Reserve
  <2>1. /\ UNCHANGED <<launches, queue, told, journal, retried, stamp, dropped>>
        /\ pc = "reserve" /\ pc' # "start"
    BY <1>2 DEF Reserve
  <2>2. PICK r \in Req : r = cur
    BY <1>a, <2>1
  <2>3. r \in Started /\ Started' = Started
    BY <2>1, <2>2 DEF Started, TypeInv, Types
  <2>4. ASSUME NEW q \in Req \ {r} PROVE q \in Declined' <=> q \in Declined
    <3>1. CASE draining = None
      BY <1>2, <2>1, <3>1 DEF Reserve, Declined
    <3>2. CASE draining # None
      <4>1. results' = Append(results, <<cur, "started">>) /\ outcome' = "none"
        BY <1>2, <3>2 DEF Reserve
      <4>2. q \in DrainRefused' <=> q \in DrainRefused
        BY <1>a, <2>1, <4>1, ResultsMove
      <4>3. q \notin HandRefused /\ q \notin HandRefused'
        BY <2>2, <4>1 DEF HandRefused
      <4> QED
        BY <4>2, <4>3 DEF Declined
    <3> QED
      BY <3>1, <3>2
  <2>5. Starting = {} /\ Starting' = {}
    BY <2>1 DEF Starting
  <2>6. ASSUME NEW q \in Req PROVE standingOf(q)' = standingOf(q)
    BY <2>1, <2>3, <2>4, <2>5, SameLosable, Stands
  <2> QED
    BY <2>1, <2>6, StandStill
<1>3. CASE Record
  <2>1. /\ UNCHANGED <<launches, queue, told, results, cur, outcome, retried, stamp, dropped>>
        /\ pc = "record" /\ pc' = "answer" /\ journal' = journal \cup {cur}
    BY <1>3 DEF Record
  <2>2. Declined' = Declined /\ Starting = {} /\ Starting' = {}
    BY <2>1 DEF Declined, Starting
  <2>3. cur \in Started \cup ToldRefused \cup Declined \cup Queued
    BY <2>1 DEF HandInv, Refused, Declined
  <2>4. ASSUME NEW q \in Req PROVE standingOf(q)' = standingOf(q)
    BY <2>1, <2>2, <2>3, SameLosable, Stands
  <2> QED
    BY <2>1, <2>4, StandStill
<1>4. CASE Answer
  <2>1. /\ UNCHANGED <<launches, queue, results, journal, retried, stamp, dropped>>
        /\ told' = [told EXCEPT ![cur] = @ \cup {outcome}] /\ cur \in Req
        /\ told \in [Req -> SUBSET {"started", "queued", "refused"}]
        /\ outcome' = "none" /\ pc = "answer" /\ pc' = "serve"
    BY <1>4, <1>a DEF Answer, TypeInv, Answers
  <2>2. results = <<>>
    BY <1>a, <2>1 DEF OnceInv
  <2>3. DrainRefused = {} /\ DrainRefused' = {}
    BY <1>b, <2>1, <2>2 DEF DrainRefused
  <2>4. Declined = HandRefused /\ Declined' = {} /\ Starting = {} /\ Starting' = {}
    BY <2>1, <2>3 DEF Declined, HandRefused, Starting
  <2>5. ToldRefused' = ToldRefused \cup Declined
    <3>1. \A r \in Req : "refused" \in told'[r]
                           <=> "refused" \in told[r] \/ (r = cur /\ outcome = "refused")
      BY <2>1
    <3>2. /\ Declined \subseteq Req
          /\ \A r \in Req : r \in Declined <=> r = cur /\ outcome = "refused"
      BY <2>1, <2>4 DEF HandRefused
    <3> QED
      BY <3>1, <3>2 DEF ToldRefused
  <2>6. Declined \cap Started \subseteq retried
    BY DEF OnceInv, Refused, Declined
  <2> QED
    BY <2>1, <2>4, <2>5, <2>6, SameLosable, TellsAll
<1>5. ASSUME NEW r \in Req, StartNow(r) PROVE Line!Next \/ UNCHANGED Line!promise
  <2>1. pc = "serve" /\ r \notin journal /\ Launch(r) /\ queue[Who[r]] = <<>>
    BY <1>5 DEF StartNow, mayStart
  <2>2. outcome = "none" /\ Starting = {} /\ Unrecorded = {}
    BY <1>a, <2>1 DEF Starting, Unrecorded
  <2>3. r \notin retried => r \notin Started \cup Refused \cup Queued
    BY <2>1, <2>2 DEF OnceInv
  <2> QED
    BY <2>1, <2>2, <2>3, LaunchInLine
<1>6. CASE StartQueued
  <2>1. pc = "start" /\ cur \in Req /\ Launch(cur)
    BY <1>6, <1>a DEF StartQueued
  <2>2. outcome = "none" /\ Starting = {cur}
    BY <1>a, <2>1 DEF Starting
  <2>3. cur \notin retried => cur \notin Started \cup Refused \cup Queued
    BY <2>2 DEF OnceInv
  <2>4. PICK r \in Req : r = cur
    BY <2>1
  <2> QED
    BY <2>1, <2>2, <2>3, <2>4, LaunchInLine
<1>7. ASSUME NEW r \in Req, Enqueue(r) PROVE Line!Next \/ UNCHANGED Line!promise
  BY <1>7, WaitsInLine
<1>8. ASSUME NEW r \in Req, Refuse(r) PROVE Line!Next \/ UNCHANGED Line!promise
  <2>1. /\ UNCHANGED <<launches, queue, told, results, journal, retried, stamp, dropped>>
        /\ pc = "serve" /\ pc' = "record" /\ cur' = r /\ outcome' = "refused" /\ r \notin journal
    BY <1>8 DEF Refuse
  <2>2. outcome = "none" /\ Starting = {} /\ Starting' = {} /\ Unrecorded = {}
    BY <1>a, <2>1 DEF Starting, Unrecorded
  <2>3. r \notin retried => r \notin Started \cup Refused \cup Queued
    BY <2>1, <2>2 DEF OnceInv
  <2>4. \A q \in Req : q \in Declined' <=> q \in Declined \/ q = r
    BY <2>1, <2>2 DEF Declined, HandRefused
  <2> QED
    BY <2>1, <2>2, <2>3, <2>4, SameLosable, DeclinesOne
<1>9. ASSUME NEW o \in Orch, DropQueue(o) PROVE Line!Next \/ UNCHANGED Line!promise
  BY <1>9, ClearsLine
<1>10. CASE Pop
  BY <1>10, TakesFront
<1>11. CASE RefuseQueued
  <2>1. /\ UNCHANGED <<launches, queue, told, outcome, journal, retried, stamp, dropped>>
        /\ cur \in Req /\ pc = "start" /\ pc' = "drain"
        /\ results' = Append(results, <<cur, "refused">>)
    BY <1>11, <1>a DEF RefuseQueued
  <2>2. PICK r \in Req : r = cur
    BY <2>1
  <2>3. outcome = "none" /\ Starting = {r} /\ Starting' = {}
    BY <1>a, <2>1, <2>2 DEF Starting
  <2>4. r \notin retried => r \notin Started \cup Refused \cup Queued
    BY <2>3 DEF OnceInv
  <2>5. \A q \in Req : q \in DrainRefused' <=> q \in DrainRefused \/ q = r
    BY <2>1, <2>2, ResultsMove
  <2>6. \A q \in Req : q \in Declined' <=> q \in Declined \/ q = r
    BY <2>1, <2>3, <2>5 DEF Declined, HandRefused
  <2> QED
    BY <2>1, <2>3, <2>4, <2>6, SameLosable, DeclinesOne
<1>12. CASE StarterRaises
  <2>1. /\ UNCHANGED <<launches, queue, told, outcome, journal, retried, stamp>>
        /\ pc = "start" /\ pc' = "settle" /\ results' = <<>>
        /\ dropped' = dropped \cup popped /\ draining # None
    BY <1>12, ConstantsAssumption DEF StarterRaises, TypeInv, Types
  <2>2. outcome = "none" /\ Unrecorded = {} /\ Starting' = {}
    BY <1>a, <2>1 DEF Unrecorded, Starting
  <2>3. Declined' = {}
    BY <2>1, <2>2 DEF Declined, HandRefused
  <2>4. /\ Declined \cup Starting \subseteq journal \cup retried
        /\ (Declined \cup Starting) \cap Queued \subseteq retried
    BY <2>2 DEF OnceInv, Refused, Declined
  <2>5. /\ Declined \cup Starting \subseteq Losable' \cup retried /\ Losable \subseteq Losable'
        /\ Losable' \subseteq Losable \cup Started \cup Declined \cup Starting
    BY <2>1, DrainLoses
  <2> QED
    BY <2>1, <2>2, <2>3, <2>4, <2>5, LosesAll
<1>13. CASE EndDrain
  <2>1. /\ UNCHANGED <<launches, queue, cur, outcome, journal, retried, stamp, dropped>>
        /\ pc = "drain" /\ pc' = "settle" /\ results' = <<>>
    BY <1>13 DEF EndDrain
  <2>2. outcome = "none" /\ Starting = {} /\ Starting' = {}
    BY <1>a, <2>1 DEF Starting
  <2>3. Declined = DrainRefused /\ Declined' = {}
    BY <2>1, <2>2 DEF Declined, HandRefused
  <2>4. ToldRefused' = ToldRefused \cup Declined
    BY <1>13, <2>3, DrainReports
  <2>5. Declined \cap Started \subseteq retried
    BY DEF OnceInv, Refused, Declined
  <2> QED
    BY <2>1, <2>2, <2>3, <2>4, <2>5, SameLosable, TellsAll
<1>14. CASE Crash
  BY <1>14, DeathInLine
<1>15. CASE Workers \/ Others \/ UNCHANGED vars
  <2>1. UNCHANGED <<launches, queue, told, results, pc, cur, outcome, journal, retried, stamp,
                    dropped>>
    BY <1>15 DEF Workers, WorkerCreates, WorkerBoots, WorkerEnds, WorkerFails, gone, Others,
         Submit, ChildStops, ChildDestroyed, UserStarts, Regrant, AdoptCheck, AdoptLabel, vars
  <2>2. Declined' = Declined
    BY <2>1 DEF Declined
  <2> QED
    BY <2>1, <2>2, SameLosable, NoneMoves
<1> QED
  BY <1>1, <1>2, <1>3, <1>4, <1>5, <1>6, <1>7, <1>8, <1>9, <1>10, <1>11, <1>12, <1>13,
     <1>14, <1>15 DEF Next, Broker

\* Before the first round nobody asked for anything.
LEMMA LineInit == Init => Line!Init /\ HandInv /\ WaitInv
<1> SUFFICES ASSUME Init PROVE Line!Init /\ HandInv /\ WaitInv
  OBVIOUS
<1>1. /\ pc = "idle" /\ outcome = "none" /\ results = <<>> /\ journal = {} /\ retried = {}
      /\ queue = [o \in Orch |-> <<>>] /\ DOMAIN <<>> = {}
  BY DEF Init
<1>2. \A r \in Req : launches[r] = 0 /\ told[r] = {} /\ queue[Who[r]] = <<>>
  BY ConstantsAssumption DEF Init
<1>3. \A r \in Req : standingOf(r) = "open"
  BY <1>1, <1>2 DEF standingOf
<1>4. Waited = {}
  BY DEF Init, Waited
<1> QED
  BY <1>1, <1>3, <1>4 DEF Line!Init, HandInv, WaitInv

\* The queue implements the line an orchestrator is promised: each request is decided once and
\* for good, those that wait are served from the front, and nobody starts past them; a death
\* loses only what was in hand, excuses only the request being handled, and no request is
\* forgotten
\* (actions.handle_spawn, drain_queue and drop_queue under broker.py's rounds).
THEOREM LineKeptAlways == Spec => LineKept
<1>1. TypeInv /\ LimitInv /\ Own /\ OnceInv /\ HandInv /\ WaitInv /\ [Next]_vars
        => [Line!Next]_(Line!promise)
  BY LineStep
<1>2. TypeInv /\ Own /\ HandInv /\ [Next]_vars => HandInv'
  BY HandStep
<1>3. TypeInv /\ LimitInv /\ OnceInv /\ WaitInv /\ [Next]_vars => WaitInv'
  BY WaitStep
<1> QED
  BY LineInit, OnceAlways, <1>1, <1>2, <1>3, PTL DEF Spec, LineKept, Line!Spec
=============================================================================
