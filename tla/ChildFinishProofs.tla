--------------------------- MODULE ChildFinishProofs ---------------------------
(***************************************************************************)
(* The labels of a child never claim an import that did not happen, a done *)
(* that was acted on is always reported and answered, and no work goes     *)
(* with the child, for any number of manifests, commits and broker deaths. *)
(***************************************************************************)
EXTENDS ChildFinish, SequenceTheorems, TLAPS

USE DEF work, child, parent, files, task, memory, truth, history

-----------------------------------------------------------------------------
\* LAST_IMPORT and the destroy marker.

\* The orchestrator's ref never runs ahead of the child, and an import that succeeded has
\* brought the commit that is about to be marked.
ImportInv ==
  /\ head \in Nat /\ ref \in Nat /\ ref <= head
  /\ label.import \in Nat /\ label.import <= ref
  /\ label.marker # None => label.marker \in Nat /\ label.marker <= ref
  /\ pc = "mark" /\ good => item \in Nat /\ item <= ref
  /\ pc = "transport" => ~good
  /\ label = [import |-> label.import, marker |-> label.marker, stop |-> label.stop]

\* Nothing is imported or marked at first.
LEMMA ImportInit == Init => ImportInv
  BY DEF Init, ImportInv, fresh

\* Every step keeps the imports real.
LEMMA ImportStep == ImportInv /\ [Next]_vars => ImportInv'
<1> SUFFICES ASSUME ImportInv, [Next]_vars PROVE ImportInv'
  OBVIOUS
<1> USE DEF ImportInv
<1>1. CASE List \/ FlushParent \/ FlushChild \/ Replay \/ EndServe \/ Fetch \/ Park
  BY <1>1 DEF List, FlushParent, FlushChild, Replay, Tell, EndServe, Fetch, Park
<1>2. CASE ClearStale
  BY <1>2 DEF ClearStale, withoutStop
<1>3. CASE Check
  BY <1>3 DEF Check
<1>4. CASE Transport
  BY <1>4 DEF Transport
<1>5. CASE Label
  <2>1. label' \in {label, [label EXCEPT !.import = ref]}
    BY <1>5 DEF Label, transported
  <2>2. label'.import \in {label.import, ref} /\ label'.marker = label.marker
        /\ label' = [import |-> label'.import, marker |-> label'.marker, stop |-> label'.stop]
    BY <2>1
  <2>3. ref' = ref /\ head' = head /\ item' = item /\ pc' # "transport"
        /\ (good' => item = ref)
    BY <1>5 DEF Label, transported
  <2> QED
    BY <2>2, <2>3
<1>6. CASE Mark
  BY <1>6 DEF Mark
<1>7. CASE Report \/ Unlink \/ Answer \/ Record \/ TellDone \/ DropReply \/ Delete \/ StopNow
  BY <1>7 DEF Report, Unlink, Answer, Record, TellDone, Tell, DropReply, Delete, StopNow
<1>8. CASE Refresh \/ Settle \/ GuardHead \/ GuardTree \/ Destroy \/ RestartBroker \/ Crash
  BY <1>8 DEF Refresh, Settle, GuardHead, GuardTree, Destroy, RestartBroker, Crash
<1>9. CASE Keep
  BY <1>9 DEF Keep
<1>10. ASSUME NEW x \in {"parent", "child"}, Serve(x) PROVE ImportInv'
  BY <1>10 DEF Serve
<1>11. ASSUME NEW d \in Dones, SkipSeen(d) \/ RefuseDone(d) \/ CheckDone(d)
       PROVE  ImportInv'
  BY <1>11 DEF SkipSeen, RefuseDone, CheckDone
<1>12. ASSUME NEW o \in Orders,
              SkipSeen(o) \/ RefuseOrder(o) \/ ImportOrder(o) \/ DestroyOrder(o)
       PROVE  ImportInv'
  BY <1>12 DEF SkipSeen, RefuseOrder, ImportOrder, DestroyOrder, Take
<1>13. ASSUME NEW o \in Orders, StopOrder(o) \/ RestartOrder(o) PROVE ImportInv'
  BY <1>13 DEF StopOrder, RestartOrder, Take
<1>14. CASE Commits
  BY <1>14 DEF Commits, Changed
<1>15. CASE Edits \/ Stages \/ Starts \/ Stops \/ ParentFlips
  BY <1>15 DEF Edits, Stages, Changed, Starts, Stops, ParentFlips
<1>16. ASSUME NEW m \in Dones \cup Orders, Sends(m) PROVE ImportInv'
  BY <1>16 DEF Sends
<1>17. CASE UNCHANGED vars
  BY <1>17 DEF vars
<1> QED
  BY <1>1, <1>2, <1>3, <1>4, <1>5, <1>6, <1>7, <1>8, <1>9, <1>10, <1>11, <1>12, <1>13,
    <1>14, <1>15, <1>16, <1>17 DEF Next, Broker, Others

\* LAST_IMPORT and the destroy marker only ever name commits that the orchestrator has,
\* whatever the child commits meanwhile and wherever the broker dies.
THEOREM ImportsRealAlways == Spec => []ImportsReal
<1>1. ImportInv => ImportsReal
  BY DEF ImportInv, ImportsReal
<1> QED
  BY ImportInit, ImportStep, <1>1, PTL DEF Spec

-----------------------------------------------------------------------------
\* The answer to a done.

Completing == {"check", "transport", "label", "mark", "report", "unlink"}

\* Who is being served, and for what, at the steps that lead to an answer.
Roles ==
  /\ pc \in {"fetch", "park", "answer"} => who = "child" /\ cur \in Dones
  /\ pc \in Completing =>
       \/ purpose = "done" /\ who = "child" /\ cur \in Dones
       \/ purpose = "flush" /\ who = "parent"
       \/ /\ purpose = "order" /\ who = "parent" /\ cur \in Orders
          /\ pc \in {"transport", "label"}
  /\ pc \in {"guard", "guardTree", "destroy"} /\ purpose = "order" =>
       cur \in Orders /\ who = "parent"
  /\ pc = "stop" => cur \in Orders /\ who = "parent"
  /\ pc = "record" =>
       (cur \in Dones /\ who = "child") \/ (cur \in Orders /\ who = "parent")
  /\ pc = "settle" => purpose = "settle"
  /\ pc \in {"tell", "drop"} => cur \in Dones
  /\ pc \in {"tell", "drop", "replay", "replayed"} => who = "child"

\* A recorded status is replayed before another done can replace it, and its file goes
\* only when it is delivered or parked.
ReplyInv ==
  /\ Roles
  /\ ReplyKept
  /\ who = "child" /\ pc \in Completing \cup {"read", "fetch", "park", "answer", "delete"} =>
       reply \notin Dones
  /\ pc = "record" /\ cur \in Dones => reply = cur
  /\ pc \in {"tell", "drop"} => reply = cur
  /\ pc \in {"drop", "replayed"} /\ status # "gone" => reply \in told \cup parkedReply

\* Nothing is to be answered at first.
LEMMA ReplyInit == Init => ReplyInv
  BY DEF Init, ReplyInv, Roles, ReplyKept, Completing

\* Every step keeps the answers.
LEMMA ReplyStep == ReplyInv /\ [Next]_vars => ReplyInv'
<1> SUFFICES ASSUME ReplyInv, [Next]_vars PROVE ReplyInv'
  OBVIOUS
<1> USE ConstantsAssumption DEF ReplyInv, Roles, ReplyKept, Completing
<1>1. CASE List \/ ClearStale \/ EndServe \/ Refresh \/ Settle \/ RestartBroker \/ Crash
  <2>1. CASE List \/ EndServe \/ Refresh \/ RestartBroker \/ Crash
    BY <2>1 DEF List, EndServe, Refresh, RestartBroker, Crash
  <2>2. CASE ClearStale
    BY <2>2 DEF ClearStale
  <2>3. CASE Settle
    BY <2>3 DEF Settle
  <2> QED
    BY <1>1, <2>1, <2>2, <2>3
<1>2. ASSUME NEW x \in {"parent", "child"}, Serve(x) PROVE ReplyInv'
  BY <1>2 DEF Serve
<1>3. CASE FlushParent
  BY <1>3 DEF FlushParent
<1>4. CASE FlushChild
  BY <1>4 DEF FlushChild
<1>5. CASE Replay
  BY <1>5 DEF Replay, Tell, unanswered
<1>6. CASE Fetch
  BY <1>6 DEF Fetch
<1>7. CASE Park \/ Check \/ Transport \/ Label \/ Mark
  BY <1>7 DEF Park, Check, Transport, Label, Mark
<1>8. CASE Report \/ Unlink
  BY <1>8 DEF Report, Unlink
<1>9. CASE Answer \/ Record
  <2>1. CASE Answer
    BY <2>1 DEF Answer, recorded
  <2>2. CASE Record
    BY <2>2 DEF Record
  <2> QED
    BY <1>9, <2>1, <2>2
<1>10. CASE TellDone
  BY <1>10 DEF TellDone, Tell
<1>11. CASE DropReply
  BY <1>11 DEF DropReply, answered
<1>12. CASE Delete
  BY <1>12 DEF Delete
<1>13. CASE StopNow \/ GuardHead \/ GuardTree \/ Keep
  <2>1. CASE StopNow
    BY <2>1 DEF StopNow, running
  <2>2. CASE GuardHead
    BY <2>2 DEF GuardHead
  <2>3. CASE GuardTree \/ Keep
    BY <2>3 DEF GuardTree, Keep
  <2> QED
    BY <1>13, <2>1, <2>2, <2>3
<1>14. CASE Destroy
  BY <1>14 DEF Destroy
<1>15. ASSUME NEW m \in Dones \cup Orders, SkipSeen(m) PROVE ReplyInv'
  BY <1>15 DEF SkipSeen
<1>16. ASSUME NEW d \in Dones, RefuseDone(d) \/ CheckDone(d) PROVE ReplyInv'
  BY <1>16 DEF RefuseDone, CheckDone
<1>17. ASSUME NEW o \in Orders,
              RefuseOrder(o) \/ ImportOrder(o) \/ StopOrder(o) \/ RestartOrder(o)
                \/ DestroyOrder(o)
       PROVE  ReplyInv'
  BY <1>17 DEF RefuseOrder, ImportOrder, StopOrder, RestartOrder, DestroyOrder, Take
<1>18. CASE Commits \/ Edits \/ Stages \/ Starts \/ Stops \/ ParentFlips
  BY <1>18 DEF Commits, Edits, Stages, Changed, Starts, Stops, ParentFlips, running
<1>19. ASSUME NEW m \in Dones \cup Orders, Sends(m) PROVE ReplyInv'
  BY <1>19 DEF Sends
<1>20. CASE UNCHANGED vars
  BY <1>20 DEF vars
<1> QED
  BY <1>1, <1>2, <1>3, <1>4, <1>5, <1>6, <1>7, <1>8, <1>9, <1>10, <1>11, <1>12, <1>13,
    <1>14, <1>15, <1>16, <1>17, <1>18, <1>19, <1>20 DEF Next, Broker, Others

\* However many dones a child sends and wherever the broker dies, the status of a
\* journalled done has reached the child, waits for it, or is on file to be replayed.
THEOREM ReplyKeptAlways == Spec => []ReplyKept
<1>1. ReplyInv => ReplyKept
  BY DEF ReplyInv
<1> QED
  BY ReplyInit, ReplyStep, <1>1, PTL DEF Spec

-----------------------------------------------------------------------------
\* The types.

\* TypeOK in two parts: variables that are true or false, and the others.
Flags ==
  /\ dirty \in BOOLEAN /\ staged \in BOOLEAN /\ booting \in BOOLEAN /\ up \in BOOLEAN
  /\ good \in BOOLEAN /\ late \in BOOLEAN /\ stale \in BOOLEAN

Values ==
  /\ status \in {"running", "stopped", "gone"} /\ head \in Commit
  /\ label \in Labels /\ ref \in Commit
  /\ inbox \subseteq Item /\ told \subseteq Dones
  /\ parked \in Seq(Item) /\ (pc \in {"mark", "report"} => parked # <<>>)
  /\ parkedReply \subseteq Dones
  /\ reply \in Dones \cup {None, "open"}
  /\ outbox \subseteq Dones \cup Orders /\ journal \subseteq Dones \cup Orders
  /\ seen \in [{"parent", "child"} -> Listing]
  /\ todo \subseteq {"parent", "child"} /\ who \in {"parent", "child"}
  /\ cur \in Dones \cup Orders \cup {None}
  /\ purpose \in {"done", "flush", "order", "settle"}
  /\ item \in Commit \cup {None}
  /\ crashes \in 0..MaxCrashes /\ accepted \in [Dones -> Commit \cup {None}]
  /\ stopper \in {"broker", "other"}
  /\ pc \in {"down", "idle", "clear", "serve", "flush", "replay", "replayed", "read",
             "fetch", "park", "check", "transport", "label", "mark", "report", "unlink",
             "answer", "record", "tell", "drop", "delete", "stop", "settle", "guard",
             "guardTree", "destroy", "keep"}
  /\ end \in [how : {"alive", "forced", "guarded", "finished"},
              by : {"running", "stopped", "gone"}]

\* While a report is made its finish item is on file.
OnFile ==
  /\ pc = "check" => parked # <<>>
  /\ pc \in {"transport", "label"} => parked # <<>> \/ purpose = "order"

\* The types alone do not bear themselves out: what is recorded as an answer is a manifest
\* only because of the roles, and a report has its item on file because the check had.
TypeInv == Flags /\ Values /\ OnFile /\ ReplyInv

LEMMA TypeParts == TypeOK <=> Flags /\ Values
  BY DEF TypeOK, Flags, Values

\* What the listings and labels of the first round are.
LEMMA NothingListed ==
  /\ fresh \in Labels /\ noStop \in StopLabels
  /\ nothingListed \in [{"parent", "child"} -> Listing]
<1>1. noStop \in StopLabels
  BY DEF noStop, StopLabels
<1>2. fresh \in Labels
  BY <1>1, ConstantsAssumption DEF fresh, Labels, Commit
<1> QED
  BY <1>1, <1>2 DEF nothingListed, Listing

\* Every variable has its type at first.
LEMMA TypeInit == Init => Flags /\ Values /\ OnFile
<1> SUFFICES ASSUME Init PROVE Flags /\ Values /\ OnFile
  OBVIOUS
<1>1. Flags
  BY Zenon DEF Init, Flags
<1>2. Values /\ OnFile
  BY NothingListed, ConstantsAssumption DEF Init, Values, OnFile, Commit
<1> QED
  BY <1>1, <1>2

\* Every step keeps the flags.
LEMMA FlagsStep == Flags /\ [Next]_vars => Flags'
<1> SUFFICES ASSUME Flags, [Next]_vars PROVE Flags'
  OBVIOUS
<1> USE DEF Flags
<1>1. CASE List \/ Refresh
  BY <1>1, Zenon DEF List, Refresh, forgiven
<1>2. CASE ClearStale
  BY <1>2, Zenon DEF ClearStale
<1>3. CASE FlushParent \/ FlushChild \/ Replay \/ EndServe \/ Fetch \/ Park
  BY <1>3 DEF FlushParent, FlushChild, Replay, EndServe, Fetch, Park
<1>4. CASE Check
  BY <1>4, Zenon DEF Check
<1>5. CASE Transport
  BY <1>5 DEF Transport
<1>6. CASE Label
  <2>1. (ref = item) \in BOOLEAN
    BY Zenon
  <2> QED
    BY <1>6, <2>1, Zenon DEF Label
<1>7. CASE Mark \/ Report \/ Unlink \/ Answer \/ Record \/ TellDone \/ DropReply
  BY <1>7 DEF Mark, Report, Unlink, Answer, Record, TellDone, DropReply
<1>8. CASE Delete
  BY <1>8, Zenon DEF Delete, forgiven
<1>9. CASE StopNow
  BY <1>9, Zenon DEF StopNow
<1>10. CASE GuardHead
  BY <1>10, Zenon DEF GuardHead
<1>11. CASE Settle \/ GuardTree \/ Keep \/ RestartBroker
  BY <1>11 DEF Settle, GuardTree, Keep, RestartBroker
<1>12. CASE Destroy
  BY <1>12, Zenon DEF Destroy
<1>13. CASE Crash
  BY <1>13, Zenon DEF Crash
<1>14. ASSUME NEW x \in {"parent", "child"}, Serve(x) PROVE Flags'
  BY <1>14 DEF Serve
<1>15. ASSUME NEW m \in Dones \cup Orders, SkipSeen(m) \/ Sends(m) PROVE Flags'
  BY <1>15 DEF SkipSeen, Sends
<1>16. ASSUME NEW d \in Dones, RefuseDone(d) \/ CheckDone(d) PROVE Flags'
  BY <1>16 DEF RefuseDone, CheckDone
<1>17. ASSUME NEW o \in Orders, RefuseOrder(o) \/ ImportOrder(o) \/ DestroyOrder(o)
       PROVE  Flags'
  BY <1>17, Zenon DEF RefuseOrder, ImportOrder, DestroyOrder, Take
<1>18. ASSUME NEW o \in Orders, StopOrder(o) \/ RestartOrder(o) PROVE Flags'
  BY <1>18, Zenon DEF StopOrder, RestartOrder, Take
<1>19. CASE Commits \/ Edits \/ Stages
  <2>1. (late \/ pc \in {"guardTree", "destroy"} \/ seen["parent"].status = "stopped")
          \in BOOLEAN
        /\ (stale \/ label.stop.head # None) \in BOOLEAN /\ (~staged) \in BOOLEAN
    BY Zenon
  <2> QED
    BY <1>19, <2>1, Zenon DEF Commits, Edits, Stages, Changed
<1>20. CASE Starts \/ Stops
  BY <1>20, Zenon DEF Starts, Stops
<1>21. CASE ParentFlips
  BY <1>21, Zenon DEF ParentFlips
<1>22. CASE UNCHANGED vars
  BY <1>22 DEF vars
<1> QED
  BY <1>1, <1>2, <1>3, <1>4, <1>5, <1>6, <1>7, <1>8, <1>9, <1>10, <1>11, <1>12, <1>13,
    <1>14, <1>15, <1>16, <1>17, <1>18, <1>19, <1>20, <1>21, <1>22 DEF Next, Broker, Others

\* What a step may take from the world has its type.
LEMMA Records ==
  ASSUME TypeInv
  PROVE  /\ containers \in Listing /\ view \in Listing
         /\ finish(item) \in Item /\ report(item, good) \in Item /\ note \in Item
         /\ stopRecord \in StopLabels
         /\ \A c \in Commit : [label EXCEPT !.import = c] \in Labels
         /\ \A c \in Commit \cup {None} : [label EXCEPT !.marker = c] \in Labels
         /\ \A x \in StopLabels : [label EXCEPT !.stop = x] \in Labels
<1> USE DEF TypeInv
<1>1. containers \in Listing /\ view \in Listing
  BY DEF Values, Flags, containers, view, Listing
<1>2. finish(item) \in Item /\ note \in Item
  BY DEF Values, finish, note, Item
<1>3. report(item, good) \in Item
  BY DEF Values, Flags, report, Item
<1>4. stopRecord \in StopLabels
  BY DEF Values, Flags, stopRecord, StopLabels
<1>5. label = [import |-> label.import, marker |-> label.marker, stop |-> label.stop]
      /\ label.import \in Commit /\ label.marker \in Commit \cup {None}
      /\ label.stop \in StopLabels
  BY DEF Values, Labels
<1> QED
  BY <1>1, <1>2, <1>3, <1>4, <1>5 DEF Labels

\* Every step keeps the other types.
LEMMA ValuesStep == TypeInv /\ [Next]_vars => Values' /\ OnFile'
<1> SUFFICES ASSUME TypeInv, [Next]_vars PROVE Values' /\ OnFile'
  OBVIOUS
<1>a. Values /\ OnFile /\ Roles
  BY DEF TypeInv, ReplyInv
<1> USE <1>a, ConstantsAssumption, NothingListed, Records DEF Values, OnFile
<1>1. CASE List
  BY <1>1 DEF List
<1>2. CASE ClearStale
  <2>1. withoutStop(label) \in Labels
    BY DEF withoutStop
  <2> QED
    BY <1>2, <2>1 DEF ClearStale
<1>3. CASE FlushParent
  <2>1. parked # <<>> => Head(parked) \in Item
    OBVIOUS
  <2>2. inbox' \subseteq Item /\ item' \in Commit \cup {None}
    BY <1>3, <2>1 DEF FlushParent, Item
  <2> QED
    BY <1>3, <2>2 DEF FlushParent
<1>4. CASE FlushChild
  BY <1>4 DEF FlushChild
<1>5. CASE Replay
  BY <1>5 DEF Replay, Tell, unanswered
<1>6. CASE EndServe
  BY <1>6 DEF EndServe
<1>7. CASE Fetch
  BY <1>7 DEF Fetch
<1>8. CASE Park
  <2>1. parked' \in Seq(Item) /\ parked' # <<>>
    BY <1>8 DEF Park, intent
  <2> QED
    BY <1>8, <2>1 DEF Park
<1>9. CASE Check
  BY <1>9 DEF Check
<1>10. CASE Transport
  BY <1>10 DEF Transport
<1>11. CASE Label
  BY <1>11 DEF Label, transported
<1>12. CASE Mark
  BY <1>12 DEF Mark
<1>13. CASE Report
  <2> DEFINE made == report(item, good)
  <2>1. inbox' \in {inbox, inbox \cup {made}} /\ parked' \in {parked, Append(parked, made)}
    BY <1>13 DEF Report, undelivered
  <2>2. made \in Item
    OBVIOUS
  <2> HIDE DEF made
  <2>3. inbox' \subseteq Item
    BY <2>1, <2>2
  <2>4. parked \in Seq(Item) /\ Append(parked, made) \in Seq(Item)
    BY <2>2
  <2>5. parked' \in Seq(Item)
    BY <2>1, <2>4
  <2> QED
    BY <1>13, <2>3, <2>5 DEF Report
<1>14. CASE Unlink
  <2>1. parked' \in Seq(Item)
    BY <1>14 DEF Unlink, unlinked
  <2> QED
    BY <1>14, <2>1 DEF Unlink
<1>15. CASE Answer
  BY <1>15 DEF Answer, recorded, Roles
<1>16. CASE Record
  BY <1>16 DEF Record, Roles
<1>17. CASE TellDone
  BY <1>17 DEF TellDone, Tell, Roles
<1>18. CASE DropReply
  BY <1>18 DEF DropReply, answered
<1>19. CASE Delete
  BY <1>19 DEF Delete
<1>20. CASE StopNow
  BY <1>20 DEF StopNow
<1>21. CASE Refresh
  BY <1>21 DEF Refresh
<1>22. CASE Settle
  <2>1. [seen["parent"] EXCEPT !.label = label] \in Listing
    BY DEF Listing
  <2>2. seen' \in [{"parent", "child"} -> Listing]
    <3>1. [seen EXCEPT !["parent"].label = label] \in [{"parent", "child"} -> Listing]
      BY <2>1
    <3>2. nothingListed \in [{"parent", "child"} -> Listing]
      BY NothingListed
    <3>3. seen' \in {[seen EXCEPT !["parent"].label = label], nothingListed}
      BY <1>22 DEF Settle
    <3> QED
      BY <3>1, <3>2, <3>3
  <2>3. UNCHANGED <<child, parent, told, files, todo, task, history>>
        /\ pc' \in {"guard", "keep", "idle"}
    BY <1>22 DEF Settle
  <2> QED
    BY <2>2, <2>3
<1>23. CASE GuardHead
  BY <1>23 DEF GuardHead
<1>24. CASE GuardTree
  BY <1>24 DEF GuardTree
<1>25. CASE Destroy
  <2>1. view.status \in {"running", "stopped", "gone"}
    BY DEF Listing
  <2> QED
    BY <1>25, <2>1 DEF Destroy
<1>26. CASE Keep
  <2>1. parked' \in Seq(Item)
    BY <1>26 DEF Keep
  <2>2. label' \in Labels
    BY <1>26 DEF Keep, Labels
  <2>3. /\ UNCHANGED <<status, booting, work, parent, told, parkedReply, reply, outbox,
                       journal, todo, task, history>>
        /\ pc' = "idle" /\ seen' = nothingListed
    BY <1>26 DEF Keep
  <2> QED
    BY <2>1, <2>2, <2>3
<1>27. CASE RestartBroker
  BY <1>27 DEF RestartBroker
<1>28. CASE Crash
  BY <1>28 DEF Crash
<1>29. ASSUME NEW x \in {"parent", "child"}, Serve(x) PROVE Values' /\ OnFile'
  BY <1>29 DEF Serve
<1>30. ASSUME NEW d \in Dones, SkipSeen(d) \/ RefuseDone(d) \/ CheckDone(d)
       PROVE  Values' /\ OnFile'
  BY <1>30 DEF SkipSeen, RefuseDone, CheckDone
<1>31. ASSUME NEW o \in Orders,
              SkipSeen(o) \/ RefuseOrder(o) \/ ImportOrder(o) \/ DestroyOrder(o)
       PROVE  Values' /\ OnFile'
  BY <1>31 DEF SkipSeen, RefuseOrder, ImportOrder, DestroyOrder, Take
<1>32. ASSUME NEW o \in Orders, StopOrder(o) PROVE Values' /\ OnFile'
  BY <1>32 DEF StopOrder, Take
<1>33. ASSUME NEW o \in Orders, RestartOrder(o) PROVE Values' /\ OnFile'
  <2>1. [label EXCEPT !.stop = noStop, !.marker = None] \in Labels
    BY DEF Labels
  <2> QED
    BY <1>33, <2>1 DEF RestartOrder, Take
<1>34. CASE Commits \/ Edits \/ Stages
  BY <1>34 DEF Commits, Edits, Stages, Changed, Commit
<1>35. CASE Starts \/ Stops \/ ParentFlips
  BY <1>35 DEF Starts, Stops, ParentFlips
<1>36. ASSUME NEW m \in Dones \cup Orders, Sends(m) PROVE Values' /\ OnFile'
  BY <1>36 DEF Sends
<1>37. CASE UNCHANGED vars
  BY <1>37 DEF vars
<1> QED
  BY <1>1, <1>2, <1>3, <1>4, <1>5, <1>6, <1>7, <1>8, <1>9, <1>10, <1>11, <1>12, <1>13,
    <1>14, <1>15, <1>16, <1>17, <1>18, <1>19, <1>20, <1>21, <1>22, <1>23, <1>24, <1>25,
    <1>26, <1>27, <1>28, <1>29, <1>30, <1>31, <1>32, <1>33, <1>34, <1>35, <1>36, <1>37
    DEF Next, Broker, Others

\* Every variable keeps its type, and a child is never marked, nor its report made, without
\* the finish item that a crash would leave to complete.
THEOREM TypeOKAlways == Spec => []TypeOK
<1>1. Init => TypeInv
  BY TypeInit, ReplyInit DEF TypeInv
<1>2. TypeInv /\ [Next]_vars => TypeInv'
  BY FlagsStep, ValuesStep, ReplyStep DEF TypeInv
<1>3. TypeInv => TypeOK
  BY TypeParts DEF TypeInv
<1> QED
  BY <1>1, <1>2, <1>3, PTL DEF Spec

-----------------------------------------------------------------------------
\* What is reported, or on its way to be.

OnQueue(q, c) == \E i \in DOMAIN q : q[i].commit = c

\* A queue that grows loses nothing, and keeps its head.
LEMMA QueueGrows ==
  ASSUME NEW q \in Seq(Item), NEW x \in Item
  PROVE  /\ \A c : OnQueue(q, c) \/ x.commit = c => OnQueue(Append(q, x), c)
         /\ Append(q, x) \in Seq(Item) /\ Append(q, x) # <<>>
         /\ Head(Append(q, x)) = IF q = <<>> THEN x ELSE Head(q)
         /\ \A i \in DOMAIN Append(q, x) :
              Append(q, x)[i] = x \/ (i \in DOMAIN q /\ Append(q, x)[i] = q[i])
<1> DEFINE a == Append(q, x)
<1>1. /\ a \in Seq(Item) /\ a # <<>> /\ DOMAIN a = 1..(Len(q) + 1)
      /\ a[Len(q) + 1] = x /\ \A i \in 1..Len(q) : a[i] = q[i]
  BY AppendProperties, LenProperties
<1>2. DOMAIN q = 1..Len(q) /\ Len(q) \in Nat
  BY LenProperties
<1>3. Head(a) = IF q = <<>> THEN x ELSE Head(q)
  BY HeadTailAppend
<1> HIDE DEF a
<1>4. ASSUME NEW c, OnQueue(q, c) \/ x.commit = c PROVE OnQueue(a, c)
  <2>1. CASE x.commit = c
    <3>1. Len(q) + 1 \in DOMAIN a BY <1>1, <1>2
    <3> QED BY <1>1, <2>1, <3>1 DEF OnQueue
  <2>2. CASE OnQueue(q, c)
    <3>1. PICK i \in 1..Len(q) : q[i].commit = c BY <1>2, <2>2 DEF OnQueue
    <3>2. i \in DOMAIN a /\ a[i] = q[i] BY <1>1, <1>2, <3>1
    <3> QED BY <3>1, <3>2 DEF OnQueue
  <2> QED BY <1>4, <2>1, <2>2
<1>5. \A i \in DOMAIN a : a[i] = x \/ (i \in DOMAIN q /\ a[i] = q[i])
  BY <1>1, <1>2
<1> QED BY <1>1, <1>3, <1>4, <1>5 DEF a

\* A queue whose head goes loses nothing but it.
LEMMA QueueShrinks ==
  ASSUME NEW q \in Seq(Item), q # <<>>
  PROVE  /\ \A c : OnQueue(q, c) /\ c # Head(q).commit => OnQueue(Tail(q), c)
         /\ \A c : (\E i \in 2..Len(q) : q[i].commit = c) => OnQueue(Tail(q), c)
         /\ \A i \in DOMAIN Tail(q) : i + 1 \in DOMAIN q /\ Tail(q)[i] = q[i + 1]
<1>1. /\ DOMAIN q = 1..Len(q) /\ Len(q) \in Nat \ {0} /\ Head(q) = q[1]
      /\ DOMAIN Tail(q) = 1..(Len(q) - 1)
      /\ \A i \in 1..(Len(q) - 1) : Tail(q)[i] = q[i + 1]
  BY EmptySeq, LenProperties, HeadTailProperties
<1>2. ASSUME NEW c, \E i \in 2..Len(q) : q[i].commit = c PROVE OnQueue(Tail(q), c)
  <2>1. PICK i \in 2..Len(q) : q[i].commit = c BY <1>2
  <2>2. i - 1 \in 1..(Len(q) - 1) /\ Tail(q)[i - 1] = q[i] BY <1>1, <2>1
  <2> QED BY <1>1, <2>1, <2>2 DEF OnQueue
<1>3. ASSUME NEW c, OnQueue(q, c), c # Head(q).commit PROVE OnQueue(Tail(q), c)
  <2>1. PICK i \in 1..Len(q) : q[i].commit = c BY <1>1, <1>3 DEF OnQueue
  <2>2. i \in 2..Len(q) BY <1>1, <1>3, <2>1
  <2> QED BY <1>2, <2>1, <2>2
<1> QED BY <1>1, <1>2, <1>3

Arrives(c) == Reported(c) \/ OnItsWay(c)

\* The steps that complete the finish item at the head of the queue.
CompletingItem ==
  \/ pc \in {"check", "mark", "report"}
  \/ pc \in {"transport", "label"} /\ purpose # "order"

\* The item being completed stays at the head until it is reported, or a report that could not
\* be written is behind it.
ReportInv ==
  /\ \A d \in Dones : accepted[d] # None => Arrives(accepted[d])
  /\ label.marker # None => Arrives(label.marker)
  /\ \A i \in DOMAIN parked : parked[i].kind = "note" => parked[i].commit = None
  /\ CompletingItem => parked # <<>> /\ Head(parked).commit = item
  /\ pc = "unlink" =>
       /\ parked # <<>>
       /\ \/ Head(parked).commit = None \/ Reported(Head(parked).commit)
          \/ \E i \in 2..Len(parked) : parked[i].commit = Head(parked).commit
       /\ purpose = "done" => item = Head(parked).commit
  /\ pc \in {"answer", "record"} /\ cur \in Dones /\ item # None => Arrives(item)

\* Every step keeps the reports coming.
LEMMA ReportStep ==
  ASSUME TypeInv, ReportInv, [Next]_vars
  PROVE  ReportInv'
<1>a. /\ Roles /\ parked \in Seq(Item) /\ item \in Commit \cup {None} /\ label \in Labels
      /\ accepted \in [Dones -> Commit \cup {None}]
      /\ pc \in {"mark", "report"} => parked # <<>>
  BY DEF TypeInv, Values, ReplyInv
<1>b. \A c : /\ Arrives(c) <=> Reported(c) \/ OnQueue(parked, c)
             /\ Arrives(c)' <=> Reported(c)' \/ OnQueue(parked', c)
  BY DEF Arrives, OnItsWay, OnQueue
<1>c. inbox \subseteq inbox' => \A c : Reported(c) => Reported(c)'
  BY DEF Reported
<1>d. UNCHANGED <<parked, inbox>> =>
        /\ \A c : Arrives(c)' <=> Arrives(c)
        /\ \A c : Reported(c)' <=> Reported(c)
  BY DEF Arrives, Reported, OnItsWay
<1> USE <1>a, ConstantsAssumption DEF ReportInv, CompletingItem
<1>1. CASE List \/ Refresh \/ Settle \/ RestartBroker \/ Crash
  BY <1>1, <1>d DEF List, Refresh, Settle, RestartBroker, Crash
<1>2. CASE ClearStale
  <2>1. label'.marker = label.marker BY <1>2 DEF ClearStale, withoutStop, Labels
  <2> QED BY <1>2, <1>d, <2>1 DEF ClearStale
<1>3. ASSUME NEW x \in {"parent", "child"}, Serve(x) PROVE ReportInv'
  BY <1>3, <1>d DEF Serve
<1>4. CASE FlushParent
  <2>1. parked # <<>> => Head(parked) = parked[1] /\ 1 \in DOMAIN parked /\ Head(parked) \in Item
    BY LenProperties, EmptySeq, HeadTailProperties
  <2>2. CASE pc' # "unlink"
    BY <1>4, <1>d, <2>2 DEF FlushParent
  <2>3. CASE /\ parked # <<>> /\ Head(parked).kind # "finish"
             /\ inbox' = inbox \cup {Head(parked)} /\ pc' = "unlink"
    <3>1. UNCHANGED <<parked, label, accepted, cur>> /\ purpose' = "flush"
      BY <1>4, <2>3 DEF FlushParent
    <3>2. \A c : Arrives(c) => Arrives(c)' BY <1>b, <1>c, <2>3, <3>1
    <3>3. CASE Head(parked).kind = "report"
      <4>1. Reported(Head(parked).commit)' BY <2>3, <3>1, <3>3 DEF Reported
      <4> QED BY <2>3, <3>1, <3>2, <4>1
    <3>4. CASE Head(parked).kind = "note"
      BY <2>1, <2>3, <3>1, <3>2, <3>4
    <3> QED BY <2>1, <2>3, <3>3, <3>4 DEF Item
  <2> QED BY <1>4, <2>2, <2>3 DEF FlushParent
<1>5. CASE FlushChild \/ Replay \/ EndServe \/ TellDone \/ DropReply \/ StopNow
  BY <1>5, <1>d DEF FlushChild, Replay, EndServe, TellDone, DropReply, StopNow, Roles
<1>6. CASE Fetch
  BY <1>6, <1>d DEF Fetch
<1>7. CASE Park
  <2>1. parked' = Append(parked, finish(item)) /\ finish(item) \in Item
    BY <1>7, Records DEF Park, intent
  <2>2. /\ pc = "park" /\ pc' \in {"check", "answer"} /\ (pc' = "check" => parked = <<>>)
        /\ UNCHANGED <<label, inbox, accepted, cur, item>> /\ purpose' = "done"
    BY <1>7 DEF Park
  <2>3. \A c : Arrives(c) => Arrives(c)'
    BY <2>1, <2>2, <1>b, <1>c, QueueGrows
  <2>4. Arrives(item)' /\ (pc' = "check" => Head(parked').commit = item')
    <3>1. /\ OnQueue(parked', item)
          /\ Head(parked') = IF parked = <<>> THEN finish(item) ELSE Head(parked)
      BY <2>1, QueueGrows DEF finish
    <3>2. OnQueue(parked', item') BY <2>2, <3>1
    <3>3. Arrives(item)' BY <3>2 DEF Arrives, OnItsWay, OnQueue
    <3> QED BY <2>2, <3>1, <3>3 DEF finish
  <2>5. \A i \in DOMAIN parked' : parked'[i].kind = "note" => parked'[i].commit = None
    BY <2>1, QueueGrows DEF finish
  <2>6. parked' # <<>> BY <2>1, QueueGrows
  <2> QED BY <2>2, <2>3, <2>4, <2>5, <2>6 DEF finish
<1>8. CASE Check
  BY <1>8, <1>d DEF Check
<1>9. CASE Transport
  BY <1>9, <1>d DEF Transport, Roles, Completing
<1>10. CASE Label
  <2>1. label'.marker = label.marker /\ UNCHANGED <<parked, inbox, accepted, item, purpose>>
    BY <1>10, <1>d DEF Label, Labels
  <2> QED BY <1>10, <1>d, <2>1 DEF Label, Roles, Completing
<1>11. CASE Mark
  <2>1. Arrives(item)
    BY <1>11, <1>b, LenProperties, EmptySeq, HeadTailProperties DEF Mark, OnQueue
  <2>2. label'.marker \in {label.marker, item} BY <1>11 DEF Mark, Labels
  <2> QED BY <1>11, <1>d, <2>1, <2>2 DEF Mark
<1>12. CASE Report
  <2> DEFINE made == report(item, good)
  <2>1. made \in Item /\ made.kind = "report" /\ made.commit = item
    BY Records DEF report
  <2>2. pc = "report" /\ parked # <<>> /\ Head(parked).commit = item BY <1>12 DEF Report
  <2>3. CASE up
    <3>1. inbox' = inbox \cup {made} /\ pc' = "unlink" /\ UNCHANGED <<parked, item>>
      BY <1>12, <2>3 DEF Report
    <3> HIDE DEF made
    <3>2. Reported(item)' BY <2>1, <3>1 DEF Reported
    <3>3. \A c : Arrives(c) => Arrives(c)' BY <1>b, <1>c, <3>1
    <3> QED BY <1>12, <1>d, <2>2, <3>1, <3>2, <3>3 DEF Report
  <2>4. CASE ~up /\ purpose = "done"
    <3>1. parked' = Append(parked, made) /\ pc' = "unlink" /\ UNCHANGED <<inbox, item>>
      BY <1>12, <2>4 DEF Report, undelivered
    <3> HIDE DEF made
    <3>2. /\ parked' # <<>> /\ Head(parked') = Head(parked)
          /\ \A c : Arrives(c) => Arrives(c)'
          /\ \A i \in DOMAIN parked' :
               parked'[i] = made \/ (i \in DOMAIN parked /\ parked'[i] = parked[i])
      BY <2>1, <2>2, <3>1, <1>b, <1>c, QueueGrows
    <3>3. \E i \in 2..Len(parked') : parked'[i].commit = item
      <4>1. Len(parked') = Len(parked) + 1 /\ parked'[Len(parked) + 1] = made
        BY <2>1, <3>1, AppendProperties
      <4>2. Len(parked) \in Nat \ {0} BY <2>2, EmptySeq
      <4>3. Len(parked) + 1 \in 2..Len(parked') BY <4>1, <4>2
      <4> QED BY <2>1, <4>1, <4>3
    <3> QED BY <1>12, <1>d, <2>1, <2>2, <3>1, <3>2, <3>3 DEF Report
  <2>5. CASE ~up /\ purpose # "done" BY <1>12, <1>d, <2>5 DEF Report
  <2> QED BY <2>3, <2>4, <2>5
<1>13. CASE Unlink
  <2>1. parked # <<>> /\ parked' = Tail(parked) /\ UNCHANGED <<inbox, label, accepted, cur, item>>
    BY <1>13 DEF Unlink, unlinked
  <2>2. ASSUME NEW c, Arrives(c), c # None PROVE Arrives(c)'
    <3>1. CASE c # Head(parked).commit BY <2>1, <2>2, <3>1, <1>b, <1>c, QueueShrinks
    <3>2. CASE c = Head(parked).commit
      BY <1>13, <2>1, <2>2, <3>2, <1>b, <1>c, QueueShrinks DEF Unlink
    <3> QED BY <3>1, <3>2
  <2>3. \A i \in DOMAIN parked' : parked'[i].kind = "note" => parked'[i].commit = None
    BY <2>1, QueueShrinks
  <2>4. pc' = "answer" /\ item # None => Arrives(item)'
    <3>1. Arrives(Head(parked).commit)
      BY <2>1, <1>b, LenProperties, EmptySeq, HeadTailProperties DEF OnQueue
    <3> QED BY <1>13, <2>2, <3>1 DEF Unlink, Roles, Completing
  <2> QED BY <1>13, <2>1, <2>2, <2>3, <2>4 DEF Unlink
<1>14. CASE Answer
  BY <1>14, <1>d DEF Answer
<1>15. CASE Record
  BY <1>15, <1>d DEF Record
<1>16. CASE Delete
  BY <1>16, <1>d DEF Delete
<1>17. CASE GuardHead \/ GuardTree \/ Destroy
  BY <1>17, <1>d DEF GuardHead, GuardTree, Destroy, Roles
<1>18. CASE Keep
  <2>1. parked' \in {parked, Append(parked, note)} /\ note \in Item /\ note.commit = None
    BY <1>18, Records DEF Keep, note
  <2>2. UNCHANGED <<inbox, accepted>> /\ pc' = "idle" /\ label'.marker = None
    BY <1>18 DEF Keep, Labels
  <2>3. /\ \A c : Arrives(c) => Arrives(c)'
        /\ \A i \in DOMAIN parked' : parked'[i].kind = "note" => parked'[i].commit = None
    <3>1. CASE parked' = parked BY <1>d, <2>2, <3>1
    <3>2. CASE parked' = Append(parked, note) BY <1>b, <1>c, <2>1, <2>2, <3>2, QueueGrows
    <3> QED BY <2>1, <3>1, <3>2
  <2> QED BY <2>2, <2>3
<1>19. ASSUME NEW d \in Dones, SkipSeen(d) \/ RefuseDone(d) \/ CheckDone(d)
       PROVE  ReportInv'
  BY <1>19, <1>d DEF SkipSeen, RefuseDone, CheckDone
<1>20. ASSUME NEW o \in Orders,
              SkipSeen(o) \/ RefuseOrder(o) \/ ImportOrder(o) \/ DestroyOrder(o)
       PROVE  ReportInv'
  BY <1>20, <1>d DEF SkipSeen, RefuseOrder, ImportOrder, DestroyOrder, Take
<1>21. ASSUME NEW o \in Orders, StopOrder(o) \/ RestartOrder(o) PROVE ReportInv'
  <2>1. label'.marker \in {label.marker, None} BY <1>21 DEF StopOrder, RestartOrder, Labels
  <2> QED BY <1>21, <1>d, <2>1 DEF StopOrder, RestartOrder, Take
<1>22. CASE Commits \/ Edits \/ Stages \/ Starts \/ Stops \/ ParentFlips
  BY <1>22, <1>d DEF Commits, Edits, Stages, Changed, Starts, Stops, ParentFlips
<1>23. ASSUME NEW m \in Dones \cup Orders, Sends(m) PROVE ReportInv'
  BY <1>23, <1>d DEF Sends
<1>24. CASE UNCHANGED vars
  BY <1>24, <1>d DEF vars
<1> QED
  BY <1>1, <1>d, <1>2, <1>3, <1>4, <1>5, <1>6, <1>7, <1>8, <1>9, <1>10, <1>11, <1>12, <1>13,
    <1>14, <1>15, <1>16, <1>17, <1>18, <1>19, <1>20, <1>21, <1>22, <1>23, <1>24
    DEF Next, Broker, Others

-----------------------------------------------------------------------------
\* How a child goes.

Parting == {"guard", "guardTree", "destroy"}

\* A child that is parted with is listed and has not gone; one that has finished, was reported
\* and answered before, and no broker serves it again.
PartingInv ==
  /\ pc \in Parting => status # "gone" /\ who = "parent" /\ view.status # "gone"
  /\ pc \in {"clear", "settle"} /\ status = "gone" => seen["parent"].status = "gone"
  /\ pc = "settle" => who = "parent" /\ purpose = "settle" /\ todo = {}
  /\ pc \in Parting /\ purpose = "settle" => delivered /\ label.marker # None /\ todo = {}
  /\ end.how # "alive" => status = "gone"

FinishedInv ==
  end.how = "finished" =>
    /\ Reported(label.marker) /\ journal \cap Dones \subseteq told /\ parked = <<>>
    /\ \A x \in {"parent", "child"} : seen[x].status = "gone"
    /\ "child" \notin todo
    /\ pc \in {"idle", "clear", "serve", "flush", "read", "record", "delete", "settle", "down"}
    /\ pc \in {"flush", "read", "record", "delete"} => who = "parent"
    /\ pc = "record" => cur \notin Dones

\* Every step keeps it so.
LEMMA PartingStep ==
  ASSUME TypeInv, PartingInv, [Next]_vars
  PROVE  PartingInv'
<1>a. Roles /\ label \in Labels /\ seen \in [{"parent", "child"} -> Listing]
  BY DEF TypeInv, Values, ReplyInv
<1> USE <1>a, ConstantsAssumption DEF PartingInv, Parting, view, delivered
<1>1. CASE List \/ Refresh
  BY <1>1 DEF List, Refresh, containers
<1>2. CASE ClearStale
  BY <1>2 DEF ClearStale, withoutStop
<1>3. ASSUME NEW x \in {"parent", "child"}, Serve(x) PROVE PartingInv'
  BY <1>3 DEF Serve
<1>4. CASE FlushParent
  BY <1>4 DEF FlushParent
<1>5. CASE FlushChild \/ Replay \/ EndServe \/ TellDone \/ DropReply
  BY <1>5 DEF FlushChild, Replay, EndServe, TellDone, DropReply
<1>6. CASE Fetch \/ Park \/ Check \/ Transport \/ Label \/ Mark \/ Report
  BY <1>6 DEF Fetch, Park, Check, Transport, Label, Mark, Report
<1>7. CASE Unlink \/ Answer \/ Record
  BY <1>7 DEF Unlink, Answer, Record
<1>8. CASE Delete
  BY <1>8 DEF Delete
<1>9. CASE StopNow
  BY <1>9 DEF StopNow, running
<1>10. CASE Settle
  <2>1. CASE pc' = "idle" BY <1>10, <2>1 DEF Settle
  <2>2. CASE pc' # "idle"
    <3>1. /\ pc = "settle" /\ delivered /\ view.status # "gone" /\ label.marker # None
          /\ seen'["parent"].status = seen["parent"].status
          /\ UNCHANGED <<child, parent, told, files, todo, task, history>>
          /\ pc' \in {"guard", "keep"}
      BY <1>10, <2>2 DEF Settle, Listing
    <3> QED BY <3>1
  <2> QED BY <2>1, <2>2
<1>11. CASE GuardHead \/ GuardTree
  BY <1>11 DEF GuardHead, GuardTree
<1>12. CASE Destroy
  BY <1>12 DEF Destroy
<1>13. CASE Keep
  BY <1>13 DEF Keep
<1>14. CASE Crash \/ RestartBroker
  BY <1>14 DEF Crash, RestartBroker
<1>15. ASSUME NEW d \in Dones, SkipSeen(d) \/ RefuseDone(d) \/ CheckDone(d)
       PROVE  PartingInv'
  BY <1>15 DEF SkipSeen, RefuseDone, CheckDone
<1>16. ASSUME NEW o \in Orders, SkipSeen(o) \/ RefuseOrder(o) \/ ImportOrder(o)
       PROVE  PartingInv'
  BY <1>16 DEF SkipSeen, RefuseOrder, ImportOrder, Take
<1>17. ASSUME NEW o \in Orders, StopOrder(o) \/ RestartOrder(o) \/ DestroyOrder(o)
       PROVE  PartingInv'
  BY <1>17 DEF StopOrder, RestartOrder, DestroyOrder, Take
<1>18. CASE Commits \/ Edits \/ Stages \/ Starts \/ Stops \/ ParentFlips
  BY <1>18 DEF Commits, Edits, Stages, Changed, Starts, Stops, ParentFlips, running
<1>19. ASSUME NEW m \in Dones \cup Orders, Sends(m) PROVE PartingInv'
  BY <1>19 DEF Sends
<1>20. CASE UNCHANGED vars
  BY <1>20 DEF vars
<1> QED
  BY <1>1, <1>2, <1>3, <1>4, <1>5, <1>6, <1>7, <1>8, <1>9, <1>10, <1>11, <1>12, <1>13,
    <1>14, <1>15, <1>16, <1>17, <1>18, <1>19, <1>20 DEF Next, Broker, Others

\* Every step keeps it so.
LEMMA FinishedStep ==
  ASSUME TypeInv, ReportInv, PartingInv, FinishedInv, [Next]_vars
  PROVE  FinishedInv'
<1>a. /\ Roles /\ label \in Labels /\ seen \in [{"parent", "child"} -> Listing]
      /\ status \in {"running", "stopped", "gone"}
  BY DEF TypeInv, Values, ReplyInv
<1>b. inbox \subseteq inbox' => \A c : Reported(c) => Reported(c)'
  BY DEF Reported
<1>c. label'.marker = label.marker /\ inbox \subseteq inbox' =>
        (Reported(label.marker) => Reported(label.marker)')
  BY DEF Reported
<1> USE <1>a, <1>c, ConstantsAssumption DEF FinishedInv, PartingInv, Parting, view
<1>1. CASE List \/ Refresh
  BY <1>1 DEF List, Refresh, containers
<1>2. CASE ClearStale
  <2>1. label'.marker = label.marker BY <1>2 DEF ClearStale, withoutStop, Labels
  <2> QED BY <1>2, <2>1 DEF ClearStale
<1>3. ASSUME NEW x \in {"parent", "child"}, Serve(x) PROVE FinishedInv'
  BY <1>3 DEF Serve
<1>4. CASE FlushParent
  BY <1>4 DEF FlushParent
<1>5. CASE FlushChild \/ Replay \/ EndServe \/ TellDone \/ DropReply
  BY <1>5 DEF FlushChild, Replay, EndServe, TellDone, DropReply
<1>6. CASE Fetch \/ Park \/ Check \/ Transport \/ Label \/ Mark \/ Report
  BY <1>6 DEF Fetch, Park, Check, Transport, Label, Mark, Report
<1>7. CASE Unlink \/ Answer
  BY <1>7 DEF Unlink, Answer
<1>8. CASE Record
  BY <1>8 DEF Record
<1>9. CASE Delete
  <2>1. end.how = "finished" => \A x \in {"parent", "child"} : seen'[x].status = "gone"
    BY <1>9 DEF Delete, containers
  <2>2. UNCHANGED <<child, parent, told, parked, parkedReply, reply, journal, todo, who, end>>
        /\ pc = "delete" /\ pc' = "read"
    BY <1>9 DEF Delete
  <2>3. end.how = "finished" => who = "parent" BY <2>2
  <2> QED BY <2>1, <2>2, <2>3
<1>10. CASE StopNow \/ GuardHead \/ GuardTree \/ Keep
  BY <1>10 DEF StopNow, GuardHead, GuardTree, Keep
<1>11. CASE Settle
  BY <1>11 DEF Settle, nothingListed
<1>12. CASE Destroy
  <2>1. CASE UNCHANGED end BY <1>12, <2>1 DEF Destroy
  <2>2. CASE end'.how = "finished" /\ ~UNCHANGED end
    <3>1. /\ pc = "destroy" /\ purpose = "settle" /\ pc' = "idle" /\ seen' = nothingListed
          /\ UNCHANGED <<label, parent, told, parked, reply, outbox, journal, todo, who, cur>>
      BY <1>12, <2>2 DEF Destroy
    <3>2. delivered /\ label.marker # None BY <3>1
    <3>3. Reported(label.marker)
      <4>1. Arrives(label.marker) BY <3>2 DEF ReportInv
      <4> QED BY <3>2, <4>1 DEF Arrives, OnItsWay, delivered
    <3>4. journal \cap Dones \subseteq told
      BY <3>1, <3>2 DEF TypeInv, ReplyInv, ReplyKept, delivered
    <3>5. "child" \notin todo BY <3>1
    <3> QED BY <3>1, <3>2, <3>3, <3>4, <3>5 DEF delivered, nothingListed
  <2>3. CASE end'.how # "finished" BY <2>3
  <2> QED BY <2>1, <2>2, <2>3
<1>13. CASE Crash \/ RestartBroker
  BY <1>13 DEF Crash, RestartBroker, nothingListed
<1>14. ASSUME NEW d \in Dones, SkipSeen(d) \/ RefuseDone(d) \/ CheckDone(d)
       PROVE  FinishedInv'
  BY <1>14 DEF SkipSeen, RefuseDone, CheckDone
<1>15. ASSUME NEW o \in Orders, SkipSeen(o) \/ RefuseOrder(o) PROVE FinishedInv'
  BY <1>15 DEF SkipSeen, RefuseOrder, Take
<1>16. ASSUME NEW o \in Orders,
              ImportOrder(o) \/ StopOrder(o) \/ RestartOrder(o) \/ DestroyOrder(o)
       PROVE  FinishedInv'
  BY <1>16 DEF ImportOrder, StopOrder, RestartOrder, DestroyOrder, Take
<1>17. CASE Commits \/ Edits \/ Stages \/ Starts \/ Stops \/ ParentFlips
  BY <1>17 DEF Commits, Edits, Stages, Changed, Starts, Stops, ParentFlips, running
<1>18. ASSUME NEW m \in Dones \cup Orders, Sends(m) PROVE FinishedInv'
  BY <1>18 DEF Sends
<1>19. CASE UNCHANGED vars
  BY <1>19 DEF vars
<1> QED
  BY <1>1, <1>2, <1>3, <1>4, <1>5, <1>6, <1>7, <1>8, <1>9, <1>10, <1>11, <1>12, <1>13,
    <1>14, <1>15, <1>16, <1>17, <1>18, <1>19 DEF Next, Broker, Others

-----------------------------------------------------------------------------
\* What is lost with a child.

\* What a stop recorded is how the child is.
StopTrue(lb) ==
  lb.stop.head # None =>
    head = lb.stop.head /\ dirty = lb.stop.dirty /\ (lb.stop.staged = "no" => ~staged)

Forced == purpose = "order" /\ Asks[cur] = "force"
Excused == late \/ (view.status = "stopped" /\ stale)

\* The labels, and the labels as listed, tell of the child as it is, but for changes that the
\* property excuses; each read of the guard holds until then.
LossInv ==
  /\ \A x \in {"parent", "child"} : seen[x].label.import <= ref
  /\ ~stale => StopTrue(label)
  /\ seen["parent"].status = "stopped" /\ ~late /\ ~stale => StopTrue(seen["parent"].label)
  /\ pc = "guardTree" /\ view.status # "running" => view.label.stop.head = view.label.import
  /\ pc \in {"guardTree", "destroy"} /\ ~Forced /\ ~Excused => head <= ref
  /\ pc = "destroy" /\ ~Forced /\ ~Excused => ~dirty /\ ~staged
  /\ NoWorkLost

\* Every step keeps it so.
LEMMA LossStep ==
  ASSUME TypeInv, ImportInv, PartingInv, LossInv, [Next]_vars
  PROVE  LossInv'
<1>a. /\ Roles /\ label \in Labels /\ seen \in [{"parent", "child"} -> Listing]
      /\ status \in {"running", "stopped", "gone"} /\ head \in Nat /\ ref \in Nat /\ ref <= head
      /\ label.import \in Nat /\ label.import <= ref /\ None \notin Nat
      /\ late \in BOOLEAN /\ stale \in BOOLEAN /\ dirty \in BOOLEAN /\ staged \in BOOLEAN
      /\ \A x \in {"parent", "child"} : seen[x].label \in Labels /\ seen[x].label.import \in Nat
  BY ConstantsAssumption DEF TypeInv, Flags, Values, ReplyInv, ImportInv, Listing, Labels, Commit
<1>b. nothingListed["parent"].status = "gone" /\ nothingListed["parent"].label.import = 0
      /\ nothingListed["child"].label.import = 0
  BY DEF nothingListed, fresh
<1>c. end.how \in {"alive", "forced", "guarded", "finished"}
  BY DEF TypeInv, Values
<1> USE <1>a
    DEF LossInv, PartingInv, Parting, Excused, Forced, view, StopTrue, NoWorkLost, Unforced
<1>1. CASE List \/ Refresh
  <2>1. UNCHANGED <<child, ref, stale, end>> /\ pc' \in {"clear", "settle"}
    BY <1>1 DEF List, Refresh
  <2>2. \A x \in {"parent", "child"} : seen'[x].label = label /\ seen'[x].status = status
    BY <1>1 DEF List, Refresh, containers
  <2>3. late' = IF status = "gone" THEN late ELSE FALSE
    BY <1>1 DEF List, Refresh, forgiven
  <2> QED BY <2>1, <2>2, <2>3
<1>2. CASE ClearStale
  BY <1>2 DEF ClearStale, withoutStop, noStop, Labels
<1>3. ASSUME NEW x \in {"parent", "child"}, Serve(x) PROVE LossInv'
  BY <1>3 DEF Serve
<1>4. CASE FlushParent
  BY <1>4 DEF FlushParent
<1>5. CASE FlushChild \/ Replay \/ EndServe \/ TellDone \/ DropReply
  BY <1>5 DEF FlushChild, Replay, EndServe, TellDone, DropReply
<1>6. CASE Fetch \/ Park \/ Check \/ Report
  BY <1>6 DEF Fetch, Park, Check, Report
<1>7. CASE Transport
  BY <1>7 DEF Transport, running
<1>8. CASE Label \/ Mark
  BY <1>8 DEF Label, Mark, Labels
<1>9. CASE Unlink \/ Answer \/ Record
  BY <1>9 DEF Unlink, Answer, Record
<1>10. CASE Delete
  <2>1. UNCHANGED <<child, ref, stale, end, who>> /\ pc' = "read" BY <1>10 DEF Delete
  <2>2. CASE UNCHANGED <<seen, late>> BY <2>1, <2>2
  <2>3. CASE seen' = [seen EXCEPT !["parent"] = containers] /\ late' = forgiven
    <3>1. /\ seen'["parent"].label = label /\ seen'["parent"].status = status
          /\ seen'["child"] = seen["child"] /\ (status = "gone" => late' = late)
      BY <2>3 DEF containers, forgiven
    <3> QED BY <2>1, <3>1
  <2> QED BY <1>10, <2>2, <2>3 DEF Delete
<1>11. CASE StopNow
  BY <1>11 DEF StopNow
<1>12. CASE Settle
  <2>1. UNCHANGED <<child, ref, late, stale, end, task>> BY <1>12 DEF Settle
  <2>2. CASE pc' = "idle" /\ seen' = nothingListed BY <1>b, <2>1, <2>2
  <2>3. CASE pc' \in {"guard", "keep"} /\ seen' = [seen EXCEPT !["parent"].label = label]
    <3>1. /\ seen'["parent"].label = label /\ seen'["parent"].status = seen["parent"].status
          /\ seen'["child"] = seen["child"]
      BY <2>3 DEF Listing
    <3> QED BY <2>1, <2>3, <3>1
  <2> QED BY <1>12, <2>2, <2>3 DEF Settle
<1>13. CASE GuardHead
  <2>1. /\ pc = "guard" /\ who = "parent" /\ status # "gone" /\ end.how = "alive"
        /\ UNCHANGED <<child, ref, stale, end, seen, task>>
    BY <1>13, <1>c DEF GuardHead
  <2>2. CASE pc' # "guardTree"
    <3>1. pc' \in {"record", "keep"} /\ late' \in {late, FALSE}
          /\ (seen["parent"].status = "stopped" => late' = late)
      BY <1>13, <2>1, <2>2 DEF GuardHead
    <3> QED BY <2>1, <3>1
  <2>3. CASE pc' = "guardTree"
    <3>1. guardHead = view.label.import BY <1>13, <2>3 DEF GuardHead
    <3>2. CASE view.status = "running"
      <4>1. head = view.label.import BY <2>1, <3>1, <3>2 DEF guardHead
      <4> QED BY <2>1, <2>3, <3>2, <4>1
    <3>3. CASE view.status # "running"
      <4>1. view.label.stop.head = view.label.import /\ late' = late /\ view.status = "stopped"
        BY <1>13, <2>1, <3>1, <3>3 DEF guardHead, GuardHead, Listing
      <4> QED BY <2>1, <2>3, <3>3, <4>1
    <3> QED BY <3>2, <3>3
  <2> QED BY <2>2, <2>3
<1>14. CASE GuardTree
  <2>1. /\ pc = "guardTree" /\ who = "parent" /\ status # "gone" /\ end.how = "alive"
        /\ UNCHANGED <<child, ref, late, stale, end, seen, task>>
    BY <1>14, <1>c DEF GuardTree
  <2>2. CASE pc' # "destroy"
    <3>1. pc' \in {"record", "keep"} BY <1>14, <2>2 DEF GuardTree
    <3> QED BY <2>1, <3>1
  <2>3. CASE pc' = "destroy"
    <3>1. guardTree BY <1>14, <2>3 DEF GuardTree
    <3>2. CASE view.status = "running"
      <4>1. ~dirty /\ ~staged BY <3>1, <3>2 DEF guardTree
      <4> QED BY <2>1, <2>3, <3>2, <4>1
    <3>3. CASE view.status # "running"
      <4>1. ~view.label.stop.dirty /\ view.label.stop.staged = "no" /\ view.status = "stopped"
            /\ view.label.stop.head # None
        BY <2>1, <3>1, <3>3 DEF guardTree, Listing
      <4> QED BY <2>1, <2>3, <3>3, <4>1
    <3> QED BY <3>2, <3>3
  <2> QED BY <2>2, <2>3
<1>15. CASE Destroy
  BY <1>15, <1>b DEF Destroy
<1>16. CASE Keep
  BY <1>16, <1>b DEF Keep, Labels
<1>17. CASE Crash \/ RestartBroker
  BY <1>17, <1>b DEF Crash, RestartBroker
<1>18. ASSUME NEW d \in Dones, SkipSeen(d) \/ RefuseDone(d) \/ CheckDone(d)
       PROVE  LossInv'
  BY <1>18 DEF SkipSeen, RefuseDone, CheckDone
<1>19. ASSUME NEW o \in Orders,
              SkipSeen(o) \/ RefuseOrder(o) \/ ImportOrder(o) \/ DestroyOrder(o)
       PROVE  LossInv'
  BY <1>19 DEF SkipSeen, RefuseOrder, ImportOrder, DestroyOrder, Take
<1>20. ASSUME NEW o \in Orders, StopOrder(o) PROVE LossInv'
  BY <1>20 DEF StopOrder, Take, stopRecord
<1>21. ASSUME NEW o \in Orders, RestartOrder(o) PROVE LossInv'
  BY <1>21 DEF RestartOrder, Take, noStop, Labels
<1>22. CASE Commits \/ Edits \/ Stages
  BY <1>22 DEF Commits, Edits, Stages, Changed, running
<1>23. CASE Starts \/ Stops \/ ParentFlips
  BY <1>23 DEF Starts, Stops, ParentFlips
<1>24. ASSUME NEW m \in Dones \cup Orders, Sends(m) PROVE LossInv'
  BY <1>24 DEF Sends
<1>25. CASE UNCHANGED vars
  BY <1>25 DEF vars
<1> QED
  BY <1>1, <1>2, <1>3, <1>4, <1>5, <1>6, <1>7, <1>8, <1>9, <1>10, <1>11, <1>12, <1>13,
    <1>14, <1>15, <1>16, <1>17, <1>18, <1>19, <1>20, <1>21, <1>22, <1>23, <1>24, <1>25
    DEF Next, Broker, Others

-----------------------------------------------------------------------------
\* The inductive invariant, and what follows from it.

FinishInv ==
  TypeInv /\ ImportInv /\ ReportInv /\ PartingInv /\ FinishedInv /\ LossInv

\* It holds before anything was sent.
LEMMA FinishInit == Init => FinishInv
<1> SUFFICES ASSUME Init PROVE FinishInv
  OBVIOUS
<1>1. TypeInv
  BY TypeInit, ReplyInit DEF TypeInv
<1>2. ImportInv
  BY ImportInit
<1>3. ReportInv
  BY DEF Init, ReportInv, CompletingItem, fresh
<1>4. PartingInv
  BY DEF Init, PartingInv, Parting
<1>5. FinishedInv
  BY DEF Init, FinishedInv
<1>6. LossInv
  <2>1. \A x \in {"parent", "child"} :
          seen[x].label.import = 0 /\ seen[x].status = "gone" /\ ref = 0
    BY DEF Init, nothingListed, fresh
  <2> QED
    BY <2>1 DEF Init, LossInv, StopTrue, NoWorkLost, Unforced, fresh, noStop
<1> QED
  BY <1>1, <1>2, <1>3, <1>4, <1>5, <1>6 DEF FinishInv

\* Every step keeps it.
LEMMA FinishStep == FinishInv /\ [Next]_vars => FinishInv'
<1> SUFFICES ASSUME FinishInv, [Next]_vars PROVE FinishInv'
  OBVIOUS
<1>1. TypeInv'
  BY FlagsStep, ValuesStep, ReplyStep DEF FinishInv, TypeInv
<1> QED
  BY <1>1, ImportStep, ReportStep, PartingStep, FinishedStep, LossStep DEF FinishInv

\* A done that was accepted reaches the orchestrator as a report or an import error, or is
\* queued for it: no broker death and no failed write loses it.
THEOREM DoneKeptAlways == Spec => []DoneKept
<1>1. FinishInv => DoneKept
  BY DEF FinishInv, ReportInv, Arrives, DoneKept
<1> QED
  BY FinishInit, FinishStep, <1>1, PTL DEF Spec

\* No child is marked for destruction without its report made or queued, and none that is
\* destroyed because it finished goes unreported or without the answers to its dones.
THEOREM ReportedFirstAlways == Spec => []ReportedFirst
<1>1. FinishInv => ReportedFirst
  BY DEF FinishInv, ReportInv, FinishedInv, Arrives, ReportedFirst
<1> QED
  BY FinishInit, FinishStep, <1>1, PTL DEF Spec

\* Without `force` no child is destroyed with a commit the orchestrator lacks, an uncommitted
\* change or a staged GitHub write, but for changes after the reads that decide about it.
THEOREM NoWorkLostAlways == Spec => []NoWorkLost
<1>1. FinishInv => NoWorkLost
  BY DEF FinishInv, LossInv
<1> QED
  BY FinishInit, FinishStep, <1>1, PTL DEF Spec
================================================================================
