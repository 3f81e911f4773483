---------------------------- MODULE ChildWatchProofs ----------------------------
(***************************************************************************)
(* What the broker tells an orchestrator about a child it launched is true *)
(* of this launch, and no launch is forgotten, for any number of           *)
(* manifests, moves of users and deaths of the broker and of workers.      *)
(***************************************************************************)
EXTENDS ChildWatch, TLAPS

USE DEF inside, hostFiles, memory, bounds, history, Goto, EndRound

-----------------------------------------------------------------------------
\* The types.

Handling == {"unset", "register", "launch", "row", "drop", "record"}
Settling == {"jobs", "nodes", "judge", "reread", "probe", "advance", "deliver", "save"}
ChildType == [at : {"absent", "stopped", "running"}, mine : BOOLEAN, finished : BOOLEAN]
AgentType == [run : Refs \cup {None}, at : {"none", "prompted", "alive", "exited", "vanished"}]

\* The entry to be saved continues the one there is.
Extends(x, e) ==
  /\ x.ref = e.ref /\ (x.confirmed => x.live /\ x.ready)
  /\ (e.ready => x.ready) /\ (e.live => x.live)

\* The types, with those of the broker's memory: a manifest is at hand while one is handled,
\* an entry while one is settled.
TypeInv ==
  /\ TypeOK
  /\ pc \in {"idle", "serve", "reply", "cancel"} \cup Handling \cup Settling
  /\ seenChild \in ChildType /\ status \in AgentType \cup {None}
  /\ pc \in Handling \cup {"reply"} => cur \in Refs
  /\ pc = "cancel" => cur \in Refs \cup {"done"}
  /\ pc \in Settling => entry # None
  /\ pc \in {"deliver", "save"} /\ next # None => Extends(next, entry)

\* Between two rounds the broker remembers nothing.
LEMMA Ended ==
  ASSUME EndRound
  PROVE  /\ pc' = "idle" /\ cur' = None /\ next' = None /\ seenRow' = None /\ status' = None
         /\ seenChild' \in ChildType
  BY DEF ChildType, absent

\* What advance makes of an entry: it is confirmed with the word `ready` and in no other way,
\* and goes without a word only when it is confirmed.
LEMMA AdvancedEntry ==
  ASSUME entry \in Entries, entry.confirmed => entry.live /\ entry.ready,
         NEW equipped \in BOOLEAN
  PROVE  LET a == Advanced(equipped)
         IN /\ a.entry \in Entries \cup {None}
            /\ a.entry # None => Extends(a.entry, entry)
            /\ a.say = "nothing" =>
                 IF a.entry = None THEN entry.confirmed ELSE a.entry.confirmed = entry.confirmed
            /\ a.say # "nothing" /\ a.entry # None => a.entry.confirmed
<1> USE WatchAssumption DEF Entries, Extends
<1> DEFINE e == [entry EXCEPT !.ready = TRUE]
           x == [e EXCEPT !.live = TRUE]
           y == [e EXCEPT !.confirmed = TRUE]
           Good(f) == f \in Entries /\ f # None /\ Extends(f, entry)
           Kept(f) == Good(f) /\ f.confirmed = entry.confirmed
<1>1. Kept(entry) /\ Kept(e) /\ Kept(x) /\ (e.live => Good(y) /\ y.confirmed) OBVIOUS
<1>2. e.confirmed = entry.confirmed OBVIOUS
<1>3. PICK a : a = Advanced(equipped) OBVIOUS
<1> DEFINE unfinished == ~(seenChild.at # "absent" /\ seenChild.finished)
           probed == unfinished /\ seenChild.at = "running" /\ status # None
           Silent == a.say = "nothing" /\ a.entry # None /\ Kept(a.entry)
           Gone == a.entry = None /\ (a.say = "nothing" => entry.confirmed)
           Ready == a.say # "nothing" /\ Good(a.entry) /\ a.entry.confirmed
<1>4. CASE ~probed
  <2>1. CASE ~unfinished
    BY <1>3, <2>1 DEF Advanced
  <2>2. CASE unfinished /\ seenChild.at # "running"
    BY <1>3, <2>2 DEF Advanced
  <2>3. CASE unfinished /\ seenChild.at = "running" /\ status = None
    <3>1. a = [entry |-> entry, say |-> "nothing"] BY <1>3, <2>3 DEF Advanced
    <3> QED BY <1>1, <1>3, <3>1
  <2> QED BY <1>4, <2>1, <2>2, <2>3
<1>5. CASE probed
  <2>1. \/ a = [entry |-> None, say |-> "exited"]
        \/ a = [entry |-> None, say |-> "unequipped"]
        \/ a = [entry |-> e, say |-> "nothing"]
        \/ a = [entry |-> x, say |-> "nothing"]
        \/ e.live /\ a = [entry |-> y, say |-> "ready"]
    BY <1>3, <1>5 DEF Advanced
  <2> HIDE DEF e, x, y, Good, Kept
  <2>2. Silent \/ Gone \/ Ready
    <3>1. Kept(e) /\ Kept(x) /\ (e.live => Good(y) /\ y.confirmed) BY <1>1
    <3>2. e # None /\ x # None /\ (e.live => y # None) BY <3>1 DEF Good, Kept
    <3> QED BY <2>1, <3>1, <3>2
  <2>3. /\ a.entry \in Entries \cup {None}
        /\ a.entry # None => Extends(a.entry, entry)
        /\ a.say = "nothing" =>
             IF a.entry = None THEN entry.confirmed ELSE a.entry.confirmed = entry.confirmed
        /\ a.say # "nothing" /\ a.entry # None => a.entry.confirmed
    BY <2>2 DEF Good, Kept
  <2> QED BY <1>3, <2>3
<1> QED BY <1>4, <1>5

\* Every step keeps the types.
LEMMA TypeStep ==
  ASSUME TypeInv, [Next]_vars
  PROVE  TypeInv'
<1> USE WatchAssumption
    DEF TypeInv, TypeOK, Handling, Settling, ChildType, AgentType, Extends, delays, Entries, Rows
<1>1. CASE Begin
  BY <1>1 DEF Begin
<1>2. ASSUME NEW r \in Refs, Refuse(r) PROVE TypeInv'
  BY <1>2 DEF Refuse
<1>3. ASSUME NEW r \in Refs, Accept(r) PROVE TypeInv'
  BY <1>3 DEF Accept
<1>4. CASE Unset
  <2>1. child' \in ChildType BY <1>4 DEF Unset
  <2>2. pc' \in {"launch", "register"} BY <1>4 DEF Unset
  <2> QED BY <1>4, <2>1, <2>2 DEF Unset
<1>5. CASE Register
  BY <1>5 DEF Register, NewEntry, Forgotten
<1>6. CASE Launch
  BY <1>6 DEF Launch
<1>7. CASE InsertRow
  BY <1>7 DEF InsertRow
<1>8. CASE Relaunch
  BY <1>8 DEF Relaunch, prompted
<1>9. CASE LaunchFails
  BY <1>9 DEF LaunchFails, halted, prompted
<1>10. CASE DropWatch
  BY <1>10 DEF DropWatch
<1>11. ASSUME NEW r \in Refs, StopChild(r) PROVE TypeInv'
  BY <1>11 DEF StopChild, halted
<1>12. ASSUME NEW r \in Refs, DestroyChild(r) PROVE TypeInv'
  <2>1. child' \in ChildType /\ agent' \in AgentType /\ saidDone' \in BOOLEAN
    BY <1>12 DEF DestroyChild, absent, noAgent
  <2> QED BY <1>12, <2>1 DEF DestroyChild
<1>13. CASE TakeDone
  <2>1. child' \in ChildType BY <1>13 DEF TakeDone
  <2> QED BY <1>13, <2>1 DEF TakeDone
<1>14. CASE Cancel
  BY <1>14 DEF Cancel, Forgotten
<1>15. CASE Record
  BY <1>15 DEF Record
<1>16. CASE Reply
  BY <1>16 DEF Reply
<1>17. CASE DeleteSeen
  BY <1>17 DEF DeleteSeen
<1>18. CASE EndServe
  <2>1. CASE entry = None BY <1>18, <2>1, Ended DEF EndServe
  <2>2. CASE entry # None BY <1>18, <2>2 DEF EndServe
  <2> QED BY <2>1, <2>2
<1>19. CASE ReadJobs
  BY <1>19 DEF ReadJobs
<1>20. CASE Unreadable
  BY <1>20 DEF Unreadable, absent
<1>21. CASE ListNodes
  BY <1>21 DEF ListNodes
<1>22. CASE Discard
  BY <1>22 DEF Discard, Forgotten, over, absent
<1>23. CASE Judge
  <2>1. UNCHANGED <<inside, worker, hostFiles, bounds, history>> /\ pc \in {"judge", "reread"}
    BY <1>23 DEF Judge
  <2>2. \/ EndRound
        \/ /\ pc' \in {"reread", "probe", "deliver"} /\ UNCHANGED <<cur, seenChild, status>>
           /\ next' \in {None, next} /\ seenRow' \in {None, seenRow}
           /\ pc' = "deliver" => next' = None
    BY <1>23 DEF Judge, Follow
  <2>3. CASE EndRound BY <2>1, <2>3, Ended
  <2> QED BY <2>1, <2>2, <2>3
<1>24. CASE Reread
  <2>1. UNCHANGED <<inside, worker, hostFiles, bounds, history>> /\ pc \in {"judge", "reread"}
    BY <1>24 DEF Reread
  <2>2. \/ EndRound
        \/ /\ pc' \in {"reread", "probe", "deliver"} /\ UNCHANGED <<cur, seenChild, status>>
           /\ next' \in {None, next} /\ seenRow' \in {None, seenRow}
           /\ pc' = "deliver" => next' = None
    BY <1>24 DEF Reread, Follow
  <2>3. CASE EndRound BY <2>1, <2>3, Ended
  <2> QED BY <2>1, <2>2, <2>3
<1>25. CASE Probe
  BY <1>25 DEF Probe
<1>26. CASE ProbeFails
  BY <1>26 DEF ProbeFails
<1>27. CASE Advance
  <2>1. PICK equipped \in BOOLEAN :
          /\ next' = Advanced(equipped).entry /\ pc' \in {"save", "deliver"}
          /\ pc = "advance"
          /\ UNCHANGED <<inside, worker, hostFiles, cur, seenRow,
                         seenChild, status, bounds, history>>
    BY <1>27 DEF Advance
  <2>2. next' \in Entries \cup {None} /\ (next' # None => Extends(next', entry))
    BY <2>1, AdvancedEntry
  <2> QED BY <2>1, <2>2
<1>28. CASE Deliver
  BY <1>28 DEF Deliver
<1>29. CASE Save
  BY <1>29 DEF Save, absent
<1>30. CASE Ripen
  BY <1>30 DEF Ripen
<1>31. CASE Die
  BY <1>31 DEF Die, absent
<1>32. CASE Create
  BY <1>32 DEF Create, WorkerAt, WorkerGoes
<1>33. CASE Boot
  BY <1>33 DEF Boot, WorkerAt, WorkerGoes
<1>34. CASE WritePrompt
  BY <1>34 DEF WritePrompt, WorkerAt, WorkerGoes, prompted
<1>35. CASE FinishWork
  BY <1>35 DEF FinishWork, WorkerAt, WorkerGoes
<1>36. CASE Exit
  BY <1>36 DEF Exit, WorkerAt
<1>37. CASE FailWork
  BY <1>37 DEF FailWork
<1>38. CASE KillWork
  BY <1>38 DEF KillWork
<1>39. CASE AgentStarts
  BY <1>39 DEF AgentStarts
<1>40. CASE AgentEnds
  BY <1>40 DEF AgentEnds
<1>41. CASE AgentReports
  BY <1>41 DEF AgentReports
<1>42. CASE UserStops
  BY <1>42 DEF UserStops, UserMoved, halted
<1>43. CASE UserStarts
  BY <1>43 DEF UserStarts, UserMoved
<1>44. CASE UserDestroys
  <2>1. child' \in ChildType /\ agent' \in AgentType /\ saidDone' \in BOOLEAN
    BY <1>44 DEF UserDestroys, absent, noAgent
  <2> QED BY <1>44, <2>1 DEF UserDestroys, UserMoved
<1>45. CASE UserTakesName
  BY <1>45 DEF UserTakesName, UserMoved
<1>46. ASSUME NEW r \in Refs, Send(r) PROVE TypeInv'
  BY <1>46 DEF Send
<1>47. CASE UNCHANGED vars
  BY <1>47 DEF vars
<1> QED
  BY <1>1, <1>2, <1>3, <1>4, <1>5, <1>6, <1>7, <1>8, <1>9, <1>10, <1>11, <1>12, <1>13,
     <1>14, <1>15, <1>16, <1>17, <1>18, <1>19, <1>20, <1>21, <1>22, <1>23, <1>24, <1>25,
     <1>26, <1>27, <1>28, <1>29, <1>30, <1>31, <1>32, <1>33, <1>34, <1>35, <1>36, <1>37,
     <1>38, <1>39, <1>40, <1>41, <1>42, <1>43, <1>44, <1>45, <1>46, <1>47
  DEF Next, Broker, Worker, Settlement

-----------------------------------------------------------------------------
\* What a manifest at hand has to do with the entry and the worker.

\* The manifest at hand has registered its entry.
Registered ==
  \/ pc \in {"launch", "row", "drop"}
  \/ pc = "unset" /\ asks[cur] = "agent"
  \/ pc \in {"record", "reply"} /\ say = "started"

\* A manifest is handled once, with no other worker alive. What is watched is what the
\* worker works for: a manifest at hand, one handled, or one whose handling a death cut off.
HandlingInv ==
  /\ pc \in Handling => cur \in outbox \ journal
  /\ pc = "cancel" /\ cur # "done" => cur \in outbox \ journal /\ say = "answered"
  /\ pc = "reply" => cur \in journal
  /\ pc = "unset" => asks[cur] \in {"restart", "agent"}
  /\ pc = "drop" => say = "refused"
  /\ pc \in {"unset", "register", "launch", "drop"} => worker = None
  /\ pc = "row" => asks[cur] # "agent" /\ say = "started"
  /\ Registered => entry # None /\ entry.ref = cur
  /\ entry # None => \/ entry.ref \in journal \cup (outbox \cap excused)
                     \/ Registered /\ cur = entry.ref
  /\ worker # None /\ entry # None => worker.ref = entry.ref

\* Every step keeps it so.
LEMMA HandlingStep ==
  ASSUME TypeInv, TypeInv', HandlingInv, [Next]_vars
  PROVE  HandlingInv'
<1> USE WatchAssumption
    DEF TypeInv, TypeOK, HandlingInv, Registered, Handling, Settling, Entries, Extends
<1>1. CASE Begin \/ Reply \/ DeleteSeen \/ EndServe
  BY <1>1 DEF Begin, Reply, DeleteSeen, EndServe
<1>2. ASSUME NEW r \in Refs, Refuse(r) PROVE HandlingInv'
  BY <1>2 DEF Refuse
<1>3. ASSUME NEW r \in Refs, Accept(r) PROVE HandlingInv'
  BY <1>3 DEF Accept, accepts
<1>4. CASE Unset
  BY <1>4 DEF Unset
<1>5. CASE Register
  <2>1. entry' = [ref |-> cur, ready |-> FALSE, live |-> FALSE, confirmed |-> FALSE]
    BY <1>5 DEF Register, NewEntry
  <2>2. pc = "register" /\ cur \in Refs BY <1>5 DEF Register
  <2>3. entry' \in Entries /\ entry'.ref = cur BY <2>1, <2>2
  <2>4. entry' # None BY <2>3
  <2> QED BY <1>5, <2>3, <2>4 DEF Register
<1>6. CASE Launch
  BY <1>6 DEF Launch
<1>7. CASE InsertRow
  BY <1>7 DEF InsertRow
<1>8. CASE Relaunch
  BY <1>8 DEF Relaunch, prompted
<1>9. CASE LaunchFails
  BY <1>9 DEF LaunchFails, halted, prompted
<1>10. CASE DropWatch
  BY <1>10 DEF DropWatch
<1>11. ASSUME NEW r \in Refs, StopChild(r) \/ DestroyChild(r) PROVE HandlingInv'
  BY <1>11 DEF StopChild, DestroyChild, halted, noAgent
<1>12. CASE TakeDone
  BY <1>12 DEF TakeDone
<1>13. CASE Cancel
  BY <1>13 DEF Cancel, Forgotten
<1>14. CASE Record
  BY <1>14 DEF Record
<1>15. CASE ReadJobs \/ Unreadable \/ ListNodes \/ Discard
  BY <1>15 DEF ReadJobs, Unreadable, ListNodes, Discard, Forgotten
<1>16. CASE Judge \/ Reread
  BY <1>16 DEF Judge, Reread, Follow
<1>17. CASE Probe \/ ProbeFails \/ Advance \/ Deliver
  BY <1>17 DEF Probe, ProbeFails, Advance, Deliver
<1>18. CASE Save
  BY <1>18 DEF Save
<1>19. CASE Ripen \/ Die
  BY <1>19 DEF Ripen, Die
<1>20. CASE Create \/ Boot \/ WritePrompt
  BY <1>20 DEF Create, Boot, WritePrompt, WorkerAt, WorkerGoes, prompted
<1>21. CASE FinishWork \/ Exit \/ FailWork \/ KillWork
  BY <1>21 DEF FinishWork, Exit, FailWork, KillWork, WorkerAt, WorkerGoes
<1>22. CASE AgentStarts \/ AgentEnds \/ AgentReports
  BY <1>22 DEF AgentStarts, AgentEnds, AgentReports
<1>23. CASE UserStops \/ UserStarts \/ UserDestroys \/ UserTakesName
  BY <1>23 DEF UserStops, UserStarts, UserDestroys, UserTakesName, UserMoved, halted, noAgent
<1>24. ASSUME NEW r \in Refs, Send(r) PROVE HandlingInv'
  BY <1>24 DEF Send
<1>25. CASE UNCHANGED vars BY <1>25 DEF vars
<1> QED
  BY <1>1, <1>2, <1>3, <1>4, <1>5, <1>6, <1>7, <1>8, <1>9, <1>10, <1>11, <1>12, <1>13,
     <1>14, <1>15, <1>16, <1>17, <1>18, <1>19, <1>20, <1>21, <1>22, <1>23, <1>24, <1>25
  DEF Next, Broker, Worker, Settlement

-----------------------------------------------------------------------------
\* No worker that did its work is said to have died.

Working(r) == worker # None /\ worker.ref = r

\* A worker has its row, or its manifest is excused, from its launch on; it deletes the row
\* once it did its work. A doubt about a worker is about the one of this entry, gone by then.
DeathInv ==
  /\ \A r \in Refs : r \in worked \/ Working(r) =>
       r \in excused \cup journal \/ (cur = r /\ pc \in {"row", "record"})
  /\ pc = "row" /\ cur \notin excused => cur \notin worked
  /\ row # None => row.ref \notin worked \ excused
  /\ pc = "reread" => say \in {"died", "missing"}
  /\ pc = "reread" /\ say = "died" =>
       seenRow # None /\ seenRow.ref = entry.ref /\ ~Working(entry.ref)
  /\ pc = "deliver" /\ say = "died" =>
       ~Working(entry.ref) /\ entry.ref \notin worked \ excused

\* Every step keeps it so.
LEMMA DeathStep ==
  ASSUME TypeInv, HandlingInv, DeathInv, [Next]_vars
  PROVE  DeathInv'
<1> USE WatchAssumption
    DEF TypeInv, TypeOK, HandlingInv, Registered, Handling, Settling, Entries, Rows, DeathInv,
        Working
<1>1. CASE Begin \/ Reply \/ DeleteSeen \/ EndServe
  BY <1>1 DEF Begin, Reply, DeleteSeen, EndServe
<1>2. ASSUME NEW r \in Refs, Refuse(r) PROVE DeathInv'
  BY <1>2 DEF Refuse
<1>3. ASSUME NEW r \in Refs, Accept(r) PROVE DeathInv'
  BY <1>3 DEF Accept
<1>4. CASE Unset
  BY <1>4 DEF Unset
<1>5. CASE Register
  BY <1>5 DEF Register, NewEntry, Forgotten
<1>6. CASE Launch
  BY <1>6 DEF Launch
<1>7. CASE InsertRow
  BY <1>7 DEF InsertRow
<1>8. CASE Relaunch
  BY <1>8 DEF Relaunch, prompted
<1>9. CASE LaunchFails
  BY <1>9 DEF LaunchFails, halted, prompted
<1>10. CASE DropWatch
  BY <1>10 DEF DropWatch
<1>11. ASSUME NEW r \in Refs, StopChild(r) \/ DestroyChild(r) PROVE DeathInv'
  BY <1>11 DEF StopChild, DestroyChild, halted, noAgent
<1>12. CASE TakeDone
  BY <1>12 DEF TakeDone
<1>13. CASE Cancel
  BY <1>13 DEF Cancel, Forgotten
<1>14. CASE Record
  BY <1>14 DEF Record
<1>15. CASE ReadJobs \/ Unreadable \/ ListNodes \/ Discard
  BY <1>15 DEF ReadJobs, Unreadable, ListNodes, Discard, Forgotten
<1>16. CASE Judge
  BY <1>16 DEF Judge, Follow, judged, verdict, working, alive, doubtful
<1>17. CASE Reread
  BY <1>17 DEF Reread, Follow, verdict, working, alive
<1>18. CASE Probe \/ ProbeFails
  BY <1>18 DEF Probe, ProbeFails
<1>19. CASE Advance
  BY <1>19 DEF Advance, Advanced
<1>20. CASE Deliver
  BY <1>20 DEF Deliver
<1>21. CASE Save
  BY <1>21 DEF Save
<1>22. CASE Ripen
  BY <1>22 DEF Ripen
<1>23. CASE Die
  BY <1>23 DEF Die
<1>24. CASE Create \/ Boot \/ WritePrompt
  BY <1>24 DEF Create, Boot, WritePrompt, WorkerAt, WorkerGoes, prompted
<1>25. CASE FinishWork
  BY <1>25 DEF FinishWork, WorkerAt, WorkerGoes
<1>26. CASE Exit \/ FailWork \/ KillWork
  BY <1>26 DEF Exit, FailWork, KillWork, WorkerAt
<1>27. CASE AgentStarts \/ AgentEnds \/ AgentReports
  BY <1>27 DEF AgentStarts, AgentEnds, AgentReports
<1>28. CASE UserStops \/ UserStarts \/ UserDestroys \/ UserTakesName
  BY <1>28 DEF UserStops, UserStarts, UserDestroys, UserTakesName, UserMoved, halted, noAgent
<1>29. ASSUME NEW r \in Refs, Send(r) PROVE DeathInv'
  BY <1>29 DEF Send
<1>30. CASE UNCHANGED vars BY <1>30 DEF vars
<1> QED
  BY <1>1, <1>2, <1>3, <1>4, <1>5, <1>6, <1>7, <1>8, <1>9, <1>10, <1>11, <1>12, <1>13,
     <1>14, <1>15, <1>16, <1>17, <1>18, <1>19, <1>20, <1>21, <1>22, <1>23, <1>24, <1>25,
     <1>26, <1>27, <1>28, <1>29, <1>30
  DEF Next, Broker, Worker, Settlement

-----------------------------------------------------------------------------
\* What is said of an agent is said of this run's.

\* The container holds no run's files, or those of the entry's run.
OwnRun == agent.run \in {None, entry.ref} \/ entry.ref \in excused

\* A row r shows that the entry's worker has not written its prompt yet, or failed.
OwnRow(r) == asks[entry.ref] # "agent" /\ r # None /\ r.ref = entry.ref

BeingLaunched == cur = entry.ref /\ pc \in {"unset", "register", "launch", "row", "drop"}

\* The files of an earlier run stay until the prompt is written: until then the entry's
\* manifest is at hand, or its row keeps the entry from the probe.
AgentInv ==
  /\ worker # None /\ worker.at \in {"finish", "exit"} => agent.run \in {None, worker.ref}
  /\ entry # None => BeingLaunched \/ OwnRun \/ OwnRow(row)
  /\ entry # None /\ entry.confirmed => OwnRun
  /\ pc \in {"nodes", "judge", "reread"} => OwnRun \/ OwnRow(seenRow)
  /\ pc \in {"probe", "advance"} => OwnRun
  /\ pc \in {"deliver", "save"} /\ next # None => OwnRun
  /\ pc = "advance" /\ status # None => status.run \in {None, entry.ref} \/ entry.ref \in excused
  /\ pc = "deliver" /\ say \in {"ready", "exited"} =>
       status # None /\ (status.run \in {None, entry.ref} \/ entry.ref \in excused)

\* Every step keeps it so.
LEMMA AgentStep ==
  ASSUME TypeInv, HandlingInv, DeathInv, AgentInv, [Next]_vars
  PROVE  AgentInv'
<1> USE WatchAssumption
    DEF TypeInv, TypeOK, HandlingInv, Registered, Handling, Settling, Entries, Rows, ChildType,
        AgentType, AgentInv, OwnRun, OwnRow, BeingLaunched
<1>1. CASE Begin \/ Reply \/ DeleteSeen \/ EndServe
  BY <1>1 DEF Begin, Reply, DeleteSeen, EndServe
<1>2. ASSUME NEW r \in Refs, Refuse(r) PROVE AgentInv'
  BY <1>2 DEF Refuse
<1>3. ASSUME NEW r \in Refs, Accept(r) PROVE AgentInv'
  BY <1>3 DEF Accept
<1>4. CASE Unset
  BY <1>4 DEF Unset
<1>5. CASE Register
  BY <1>5 DEF Register, NewEntry, Forgotten
<1>6. CASE Launch
  BY <1>6 DEF Launch
<1>7. CASE InsertRow
  BY <1>7 DEF InsertRow
<1>8. CASE Relaunch
  BY <1>8 DEF Relaunch, prompted
<1>9. CASE LaunchFails
  BY <1>9 DEF LaunchFails, halted, prompted
<1>10. CASE DropWatch
  BY <1>10 DEF DropWatch
<1>11. ASSUME NEW r \in Refs, StopChild(r) PROVE AgentInv'
  BY <1>11 DEF StopChild, halted
<1>12. ASSUME NEW r \in Refs, DestroyChild(r) PROVE AgentInv'
  BY <1>12 DEF DestroyChild, noAgent
<1>13. CASE TakeDone
  BY <1>13 DEF TakeDone
<1>14. CASE Cancel
  BY <1>14 DEF Cancel, Forgotten
<1>15. CASE Record
  BY <1>15 DEF Record
<1>16. CASE ReadJobs
  BY <1>16 DEF ReadJobs
<1>17. CASE Unreadable \/ ListNodes \/ Discard
  BY <1>17 DEF Unreadable, ListNodes, Discard, Forgotten
<1>18. CASE Judge
  BY <1>18 DEF Judge, Follow, judged, verdict, working, alive, doubtful
<1>19. CASE Reread
  BY <1>19 DEF Reread, Follow, verdict, working, alive, DeathInv
<1>20. CASE Probe \/ ProbeFails
  BY <1>20 DEF Probe, ProbeFails
<1>21. CASE Advance
  BY <1>21 DEF Advance, Advanced
<1>22. CASE Deliver
  BY <1>22 DEF Deliver
<1>23. CASE Save
  BY <1>23 DEF Save, Extends
<1>24. CASE Ripen
  BY <1>24 DEF Ripen
<1>25. CASE Die
  BY <1>25 DEF Die
<1>26. CASE Create \/ Boot
  BY <1>26 DEF Create, Boot, WorkerAt, WorkerGoes
<1>27. CASE WritePrompt
  BY <1>27 DEF WritePrompt, WorkerAt, WorkerGoes, prompted
<1>28. CASE FinishWork
  BY <1>28 DEF FinishWork, WorkerAt, WorkerGoes
<1>29. CASE Exit \/ FailWork \/ KillWork
  BY <1>29 DEF Exit, FailWork, KillWork, WorkerAt
<1>30. CASE AgentStarts \/ AgentEnds \/ AgentReports
  BY <1>30 DEF AgentStarts, AgentEnds, AgentReports
<1>31. CASE UserStops \/ UserStarts
  BY <1>31 DEF UserStops, UserStarts, UserMoved, halted
<1>32. CASE UserDestroys
  BY <1>32 DEF UserDestroys, UserMoved, noAgent
<1>33. CASE UserTakesName
  BY <1>33 DEF UserTakesName, UserMoved
<1>34. ASSUME NEW r \in Refs, Send(r) PROVE AgentInv'
  BY <1>34 DEF Send
<1>35. CASE UNCHANGED vars BY <1>35 DEF vars
<1> QED
  BY <1>1, <1>2, <1>3, <1>4, <1>5, <1>6, <1>7, <1>8, <1>9, <1>10, <1>11, <1>12, <1>13,
     <1>14, <1>15, <1>16, <1>17, <1>18, <1>19, <1>20, <1>21, <1>22, <1>23, <1>24, <1>25,
     <1>26, <1>27, <1>28, <1>29, <1>30, <1>31, <1>32, <1>33, <1>34, <1>35
  DEF Next, Broker, Worker, Settlement

-----------------------------------------------------------------------------
\* No launch is forgotten, and none is settled twice but for a death.

Count(b) == IF b THEN 1 ELSE 0

\* The entry, or the one to be saved, owes its manifest a final status.
Owed(r) ==
  /\ entry # None /\ entry.ref = r
  /\ IF pc = "save" THEN next # None /\ ~next.confirmed ELSE ~entry.confirmed

\* The manifest's handler may still refuse or answer it.
Unanswered(r) == r \notin journal \/ (cur = r /\ pc = "reply" /\ say # "started")

\* The final statuses that r may still get if the broker does not die: one is owed by the
\* entry or by the handler, and from the registration on by one of them only.
Outstanding(r) ==
  IF Registered /\ cur = r THEN 1 ELSE Count(Owed(r)) + Count(Unanswered(r))

StatusInv ==
  /\ started \subseteq journal
  /\ \A r \in started : finals[r] > 0 \/ ended[r] # "no" \/ (entry # None /\ entry.ref = r)
  /\ entry # None /\ entry.confirmed => finals[entry.ref] > 0
  /\ pc = "deliver" /\ next # None => next.confirmed
  /\ pc = "save" /\ (next = None \/ next.confirmed) => finals[entry.ref] > 0
  /\ \A r \in Refs : finals[r] + Outstanding(r) <= 1 + crashes

\* Every step keeps it so.
LEMMA StatusStep ==
  ASSUME TypeInv, TypeInv', HandlingInv, StatusInv, [Next]_vars
  PROVE  StatusInv'
<1> USE WatchAssumption
    DEF TypeInv, TypeOK, HandlingInv, Registered, Handling, Settling, Entries,
        StatusInv, Count, Owed, Unanswered, Outstanding
<1>1. CASE Begin
  BY <1>1 DEF Begin
<1>2. CASE EndServe
  BY <1>2 DEF EndServe
<1>3. CASE DeleteSeen
  BY <1>3 DEF DeleteSeen
<1>4. ASSUME NEW r \in Refs, Refuse(r) PROVE StatusInv'
  BY <1>4 DEF Refuse
<1>5. ASSUME NEW r \in Refs, Accept(r) PROVE StatusInv'
  BY <1>5 DEF Accept
<1>6. CASE Unset
  BY <1>6 DEF Unset
<1>7. CASE Register
  BY <1>7 DEF Register, NewEntry, Forgotten
<1>8. CASE Launch
  BY <1>8 DEF Launch
<1>9. CASE InsertRow
  BY <1>9 DEF InsertRow
<1>10. CASE Relaunch
  BY <1>10 DEF Relaunch, prompted
<1>11. CASE LaunchFails
  BY <1>11 DEF LaunchFails, halted, prompted
<1>12. CASE DropWatch
  BY <1>12 DEF DropWatch
<1>13. ASSUME NEW r \in Refs, StopChild(r) PROVE StatusInv'
  BY <1>13 DEF StopChild, halted
<1>14. ASSUME NEW r \in Refs, DestroyChild(r) PROVE StatusInv'
  BY <1>14 DEF DestroyChild, noAgent
<1>15. CASE TakeDone
  BY <1>15 DEF TakeDone
<1>16. CASE Cancel
  BY <1>16 DEF Cancel, Forgotten
<1>17. CASE Record
  BY <1>17 DEF Record
<1>18. CASE Reply
  BY <1>18 DEF Reply
<1>19. CASE ReadJobs
  BY <1>19 DEF ReadJobs
<1>20. CASE Unreadable \/ ListNodes
  BY <1>20 DEF Unreadable, ListNodes
<1>21. CASE Discard
  BY <1>21 DEF Discard, Forgotten
<1>22. CASE Judge
  BY <1>22 DEF Judge, Follow
<1>23. CASE Reread
  BY <1>23 DEF Reread, Follow
<1>24. CASE Probe \/ ProbeFails
  BY <1>24 DEF Probe, ProbeFails
<1>25. CASE Advance
  <2>1. PICK equipped \in BOOLEAN :
          /\ pc' = IF Advanced(equipped).say = "nothing" THEN "save" ELSE "deliver"
          /\ next' = Advanced(equipped).entry
    BY <1>25 DEF Advance
  <2>2. /\ next' = None \/ next'.confirmed \/ pc' = "save"
        /\ pc' = "save" => IF next' = None THEN entry.confirmed
                           ELSE next'.confirmed = entry.confirmed
    BY <1>25, <2>1, AdvancedEntry DEF Advance
  <2>3. pc = "advance" /\ pc' \in {"save", "deliver"}
        /\ UNCHANGED <<cur, worker, hostFiles, bounds, history>>
    BY <1>25, <2>1 DEF Advance
  <2> QED BY <1>25, <2>1, <2>2, <2>3
<1>26. CASE Deliver
  BY <1>26 DEF Deliver
<1>27. CASE Save
  BY <1>27 DEF Save, Extends
<1>28. CASE Ripen
  BY <1>28 DEF Ripen
<1>29. CASE Die
  BY <1>29 DEF Die
<1>30. CASE Create \/ Boot \/ WritePrompt
  BY <1>30 DEF Create, Boot, WritePrompt, WorkerAt, WorkerGoes, prompted
<1>31. CASE FinishWork \/ Exit \/ FailWork \/ KillWork
  BY <1>31 DEF FinishWork, Exit, FailWork, KillWork, WorkerAt, WorkerGoes
<1>32. CASE AgentStarts \/ AgentEnds \/ AgentReports
  BY <1>32 DEF AgentStarts, AgentEnds, AgentReports
<1>33. CASE UserStops \/ UserStarts \/ UserDestroys \/ UserTakesName
  BY <1>33 DEF UserStops, UserStarts, UserDestroys, UserTakesName, UserMoved, halted, noAgent
<1>34. ASSUME NEW r \in Refs, Send(r) PROVE StatusInv'
  BY <1>34 DEF Send
<1>35. CASE UNCHANGED vars BY <1>35 DEF vars
<1> QED
  BY <1>1, <1>2, <1>3, <1>4, <1>5, <1>6, <1>7, <1>8, <1>9, <1>10, <1>11, <1>12, <1>13,
     <1>14, <1>15, <1>16, <1>17, <1>18, <1>19, <1>20, <1>21, <1>22, <1>23, <1>24, <1>25,
     <1>26, <1>27, <1>28, <1>29, <1>30, <1>31, <1>32, <1>33, <1>34, <1>35
  DEF Next, Broker, Worker, Settlement

-----------------------------------------------------------------------------
\* The inductive invariant, and what follows from it.

WatchInv == TypeInv /\ HandlingInv /\ DeathInv /\ AgentInv /\ StatusInv

\* It holds before anything was sent.
LEMMA WatchInit == Init => WatchInv
<1> SUFFICES ASSUME Init PROVE WatchInv OBVIOUS
<1> USE WatchAssumption DEF Init
<1>1. TypeInv
  <2>1. child \in ChildType /\ seenChild \in ChildType /\ agent \in AgentType
    BY DEF ChildType, AgentType, absent, noAgent
  <2>2. crashes \in 0..MaxCrashes /\ moves \in 0..MaxMoves OBVIOUS
  <2>3. asks \in [Refs -> Kinds \cup {None}] /\ finals \in [Refs -> Nat]
        /\ ended \in [Refs -> {"no", "superseded", "stopped", "done", "foreign"}]
    OBVIOUS
  <2>4. TypeOK BY <2>1, <2>2, <2>3 DEF TypeOK, ChildType, AgentType
  <2> QED BY <2>1, <2>4 DEF TypeInv, Handling, Settling
<1>2. HandlingInv BY DEF HandlingInv, Handling, Registered
<1>3. DeathInv BY DEF DeathInv, Working
<1>4. AgentInv BY DEF AgentInv, OwnRun
<1>5. StatusInv BY DEF StatusInv, Outstanding, Registered, Owed, Unanswered, Count
<1> QED BY <1>1, <1>2, <1>3, <1>4, <1>5 DEF WatchInv

\* Every step keeps it.
LEMMA WatchStep == WatchInv /\ [Next]_vars => WatchInv'
<1> SUFFICES ASSUME WatchInv, [Next]_vars PROVE WatchInv' OBVIOUS
<1>1. TypeInv' BY TypeStep DEF WatchInv
<1> QED BY <1>1, HandlingStep, DeathStep, AgentStep, StatusStep DEF WatchInv

\* What the broker may say follows from it.
LEMMA WatchImplies == WatchInv => TypeOK /\ NoFalseDeath /\ AgentIsThisRuns /\ StatusKept
<1> SUFFICES ASSUME WatchInv PROVE TypeOK /\ NoFalseDeath /\ AgentIsThisRuns /\ StatusKept
  OBVIOUS
<1>1. TypeOK BY DEF WatchInv, TypeInv
<1>2. NoFalseDeath BY DEF WatchInv, DeathInv, NoFalseDeath
<1>3. AgentIsThisRuns BY DEF WatchInv, AgentInv, AgentIsThisRuns
<1>4. StatusKept
  <2>1. ASSUME NEW r \in Refs PROVE finals[r] <= 1 + crashes
    <3>1. finals[r] \in Nat /\ crashes \in Nat /\ Outstanding(r) \in {0, 1, 2}
      BY <1>1, WatchAssumption DEF TypeOK, Outstanding, Count
    <3>2. finals[r] + Outstanding(r) <= 1 + crashes BY DEF WatchInv, StatusInv
    <3> QED BY <3>1, <3>2
  <2> QED BY <2>1 DEF WatchInv, StatusInv, StatusKept
<1> QED BY <1>1, <1>2, <1>3, <1>4

\* Every variable keeps its type; the delays of an entry run only from what they count from,
\* and an agent is reported ready only after it was seen alive (advance).
THEOREM TypeOKAlways == Spec => []TypeOK
  BY WatchInit, WatchStep, WatchImplies, PTL DEF Spec

\* The broker never reports the death of a worker that did its work: the row it judges by is
\* read again once the pid is found gone (checked_verdict).
THEOREM NoFalseDeathAlways == Spec => []NoFalseDeath
  BY WatchInit, WatchStep, WatchImplies, PTL DEF Spec

\* What the broker says of an agent comes from the run the entry watches, unless the launch
\* has no job row or a death of the broker cut it off (write_prompt, verdict).
THEOREM AgentIsThisRunsAlways == Spec => []AgentIsThisRuns
  BY WatchInit, WatchStep, WatchImplies, PTL DEF Spec

\* A launch answered `started` is watched until it has its final status or was ended for a
\* reason, and no manifest has two of them, but for one repeated by each death of the broker.
THEOREM StatusKeptAlways == Spec => []StatusKept
  BY WatchInit, WatchStep, WatchImplies, PTL DEF Spec
================================================================================
