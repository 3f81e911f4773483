----------------------------- MODULE ChildFinish -----------------------------
(***************************************************************************)
(* From a child's `done` report to its end: the broker imports the child's *)
(* branch into its orchestrator, reports it there, answers the child and   *)
(* then destroys it, never with work the orchestrator does not have.       *)
(* One orchestrator, one of its children with `on_done: destroy`, and the  *)
(* orchestrator's own stop, import, restart and destroy manifests.         *)
(*                                                                         *)
(* Code: orchestration/messages.py (handle_done), finishing.py (complete,  *)
(* park, settle_destroys), importing.py (import_child), actions.py         *)
(* (handle_stop, handle_destroy, destroy_guard, _boot), outbox.py          *)
(* (deliver, flush_pending), broker.py (tick, _serve, _handle_raw, _reply).*)
(*                                                                         *)
(* The child's history is linear: commit n contains commits 0..n, and 0 is *)
(* where its branch started. DONE_SHA and STATE, which only displays read, *)
(* are left out, as are the statuses the orchestrator gets.                *)
(***************************************************************************)
EXTENDS Integers, Sequences

CONSTANTS
  Dones,       \* the child's done manifests
  Orders,      \* the orchestrator's manifests
  Asks,        \* Asks[m]: what order m asks for
  UserMoves,   \* what a user does behind the broker's back
  MaxCommits,  \* bound on the child's commits
  MaxCrashes,  \* bound on the broker's deaths
  None         \* no commit, no manifest

ASSUME ConstantsAssumption ==
  /\ Dones \cap Orders = {}
  /\ Asks \in [Orders -> {"import", "stop", "restart", "destroy", "force"}]
  /\ UserMoves \subseteq {"start", "stop", "parent"}
  /\ MaxCommits \in Nat /\ MaxCrashes \in Nat
  /\ None \notin Nat /\ None \notin Dones \cup Orders /\ "open" \notin Dones

VARIABLES
  \* the child and the orchestrator
  status,      \* the child: "running", "stopped" or "gone"
  head,        \* the commit at the child's HEAD
  dirty,       \* its work tree has uncommitted changes
  staged,      \* its outbox holds GitHub writes that nobody has released
  booting,     \* a restart's worker has still to boot the child
  label,       \* the child's labels: LAST_IMPORT, PENDING_DESTROY and STOPPED_*
  up,          \* the orchestrator runs
  ref,         \* the commit at its refs/jailbee/from/<child>/<branch>
  inbox,       \* the done reports in its inbox
  told,        \* done manifests whose status is in the child's inbox
  \* files of the broker, and outboxes
  parked,      \* pending/<orchestrator>: finish items, reports and notes, in order
  parkedReply, \* pending/<child>: done manifests whose status waits
  reply,       \* done-replies/<child>.json: None, "open" ({}) or the manifest answered
  outbox,      \* manifests in the two outboxes
  journal,     \* manifests in journal.jsonl
  \* the broker process
  pc,          \* the step it is at
  seen,        \* seen[x]: the listing used while x is served
  todo,        \* containers this round has still to serve
  who,         \* the container being served
  cur,         \* the manifest being handled
  purpose,     \* what the steps are for: "done", "flush", "order" or "settle"
  item,        \* the commit of the finish item being completed
  good,        \* the import, or the order, succeeded
  \* what bounds the model, and what the properties remember
  crashes,     \* the broker's deaths so far
  accepted,    \* accepted[d]: the commit a journalled done was accepted for
  late,        \* the child changed after the reads its destruction rests on
  stale,       \* the child changed after STOPPED_HEAD was recorded
  stopper,     \* who stopped the child last: "broker" or "other"
  end          \* how the child was destroyed, and what the listing said of it

work == <<head, dirty, staged>>
child == <<status, booting, work, label>>
parent == <<up, ref, inbox>>
files == <<parked, parkedReply, reply, outbox, journal>>
task == <<who, cur, purpose, item, good>>
memory == <<pc, seen, todo, task>>
truth == <<late, stale, stopper, end>>
history == <<crashes, accepted, truth>>
vars == <<child, parent, told, files, memory, history>>

-----------------------------------------------------------------------------
\* Labels, listings and files.

noStop == [head |-> None, dirty |-> FALSE, staged |-> "unread"]
fresh == [import |-> 0, marker |-> None, stop |-> noStop]

\* Mutant: a child listed as running keeps the labels of its last stop.
stopKept(lb) == lb

\* _clear_stale_stop_labels.
withoutStop(lb) == [lb EXCEPT !.stop = noStop]

containers == [status |-> status, up |-> up, label |-> label]
nothingListed == [x \in {"parent", "child"} |->
                    [status |-> "gone", up |-> FALSE, label |-> fresh]]
view == seen[who]

running == status = "running"

\* handle_stop: what it records of the child before it stops it.
stopRecord ==
  IF running
  THEN [head |-> head, dirty |-> dirty, staged |-> IF staged THEN "yes" ELSE "no"]
  ELSE [head |-> None, dirty |-> TRUE, staged |-> "unread"]

\* destroy_guard: the HEAD that must equal LAST_IMPORT; None when it cannot be read.
guardHead ==
  IF view.status = "running" THEN IF running THEN head ELSE None
  ELSE view.label.stop.head

\* destroy_guard: a clean tree and no staged GitHub writes.
guardTree ==
  IF view.status = "running"
  THEN running /\ ~dirty /\ ~staged
  ELSE ~view.label.stop.dirty /\ view.label.stop.staged = "no"

\* complete: GitHub writes may still be staged.
maybeStaged ==
  IF view.status = "running" THEN ~running \/ staged ELSE view.label.stop.staged # "no"

finish(c) == [kind |-> "finish", commit |-> c, good |-> FALSE]
report(c, g) == [kind |-> "report", commit |-> c, good |-> g]
note == [kind |-> "note", commit |-> None, good |-> FALSE]

\* Mutant: the intent is parked only when the report cannot be made now.
intentWhenBusy(c) ==
  IF seen["child"].up /\ parked = <<>> THEN parked ELSE Append(parked, finish(c))

\* handle_done: the finish item is parked before any destroy marker can exist.
intent(c) == Append(parked, finish(c))

\* Mutant: a report that cannot be written is given up.
undeliveredLost(c) == parked

\* handle_done: a report that cannot be written is parked behind its finish item.
undelivered(c) == Append(parked, report(c, good))

\* Mutant: what was delivered stays in the queue.
unlinkedNot == parked

\* pending.unlink(missing_ok=True).
unlinked == IF parked = <<>> THEN parked ELSE Tail(parked)

\* Mutant: the child's HEAD, read again, is recorded as imported.
transportedHead == IF running THEN head ELSE ref

\* import_child: the commit the transport reported.
transported == ref

\* _serve: a recorded status that has not reached the child.
unanswered == reply \in Dones

\* Mutant: the outcome is not recorded before the journal entry.
recordedNot == reply

\* _handle_raw: done-replies names the manifest and its outcome.
recorded == cur

\* Mutant: the file stays.
answeredKept == reply

\* _reply: done-replies once the status is delivered or parked.
answered == None

\* Mutant: the report may still be on its way.
deliveredStatus == reply = None /\ parkedReply = {}

\* settle_destroys: the report, the status and everything before them have arrived.
delivered == parked = <<>> /\ reply = None /\ parkedReply = {}

Init ==
  /\ status = "running" /\ head = 0 /\ dirty = FALSE /\ staged = FALSE /\ booting = FALSE
  /\ label = fresh /\ up = TRUE /\ ref = 0 /\ inbox = {} /\ told = {}
  /\ parked = <<>> /\ parkedReply = {} /\ reply = None /\ outbox = {} /\ journal = {}
  /\ pc = "idle" /\ seen = nothingListed /\ todo = {} /\ who = "parent" /\ cur = None
  /\ purpose = "order" /\ item = None /\ good = FALSE
  /\ crashes = 0 /\ accepted = [d \in Dones |-> None]
  /\ late = FALSE /\ stale = FALSE /\ stopper = "other"
  /\ end = [how |-> "alive", by |-> "gone"]

-----------------------------------------------------------------------------
\* The round.

\* A new listing forgives what happened before it, unless the child is gone.
forgiven == IF status = "gone" THEN late ELSE FALSE

List ==
  /\ pc = "idle"
  /\ pc' = "clear"
  /\ seen' = [x \in {"parent", "child"} |-> containers]
  /\ late' = forgiven
  /\ UNCHANGED <<child, parent, told, files, todo, task, crashes, accepted, stale, stopper,
                 end>>

\* tick: the stop labels of a child listed as running are stale; unsetting may fail.
ClearStale ==
  /\ pc = "clear"
  /\ pc' = "serve"
  /\ todo' = {x \in {"parent", "child"} :
                IF x = "parent" THEN seen[x].up ELSE seen[x].status = "running"}
  /\ \/ /\ seen["parent"].status = "running"
        /\ label' = withoutStop(label)
        /\ stale' = FALSE
     \/ UNCHANGED <<label, stale>>
  /\ UNCHANGED <<status, booting, work, parent, told, files, seen, task, crashes, accepted,
                 late, stopper, end>>

Serve(x) ==
  /\ pc = "serve" /\ x \in todo
  /\ todo' = todo \ {x}
  /\ who' = x
  /\ pc' = "flush"
  /\ UNCHANGED <<child, parent, told, files, seen, cur, purpose, item, good, history>>

\* flush_pending for the orchestrator: a finish item is completed first.
FlushParent ==
  /\ pc = "flush" /\ who = "parent"
  /\ purpose' = "flush"
  /\ \/ /\ parked = <<>>
        /\ pc' = "read"
        /\ UNCHANGED <<inbox, item>>
     \/ /\ parked # <<>> /\ Head(parked).kind = "finish"
        /\ item' = Head(parked).commit
        /\ pc' = "check"
        /\ UNCHANGED inbox
     \/ /\ parked # <<>> /\ Head(parked).kind # "finish"
        /\ IF up
           THEN inbox' = inbox \cup {Head(parked)} /\ pc' = "unlink"
           ELSE pc' = "read" /\ UNCHANGED inbox
        /\ UNCHANGED item
  /\ UNCHANGED <<child, up, ref, told, files, seen, todo, who, cur, good, history>>

\* flush_pending for the child.
FlushChild ==
  /\ pc = "flush" /\ who = "child"
  /\ pc' = "replay"
  /\ IF running
     THEN told' = told \cup parkedReply /\ parkedReply' = {}
     ELSE UNCHANGED <<told, parkedReply>>
  /\ UNCHANGED <<child, parent, parked, reply, outbox, journal, seen, todo, task, history>>

\* deliver, to the child.
Tell(d) ==
  IF running /\ parkedReply = {}
  THEN told' = told \cup {d} /\ UNCHANGED parkedReply
  ELSE parkedReply' = parkedReply \cup {d} /\ UNCHANGED told

\* _serve: the status of a done that was recorded and not delivered.
Replay ==
  /\ pc = "replay"
  /\ IF unanswered
     THEN Tell(reply) /\ pc' = "replayed"
     ELSE pc' = "read" /\ UNCHANGED <<told, parkedReply>>
  /\ UNCHANGED <<child, parent, parked, reply, outbox, journal, seen, todo, task, history>>

\* _handle_raw: a manifest in the journal is only deleted.
SkipSeen(m) ==
  /\ pc = "read" /\ m \in outbox \cap journal
  /\ IF who = "child" THEN m \in Dones /\ running ELSE m \in Orders /\ up
  /\ outbox' = outbox \ {m}
  /\ UNCHANGED <<child, parent, told, parked, parkedReply, reply, journal, memory, history>>

\* The outbox is read empty, or cannot be read.
EndServe ==
  /\ pc = "read"
  /\ IF who = "child" THEN ~running \/ outbox \cap Dones = {}
                      ELSE ~up \/ outbox \cap Orders = {}
  /\ pc' = "serve"
  /\ UNCHANGED <<child, parent, told, files, seen, todo, task, history>>

-----------------------------------------------------------------------------
\* A child's done.

\* handle_done: the tree is dirty, HEAD is detached or something cannot be read.
RefuseDone(d) ==
  /\ pc = "read" /\ who = "child" /\ d \in outbox \ journal
  /\ cur' = d /\ item' = None
  /\ pc' = "answer"
  /\ UNCHANGED <<child, parent, told, files, seen, todo, who, purpose, good, history>>

CheckDone(d) ==
  /\ pc = "read" /\ who = "child" /\ d \in outbox \ journal
  /\ running /\ ~dirty
  /\ cur' = d
  /\ pc' = "fetch"
  /\ UNCHANGED <<child, parent, told, files, seen, todo, who, purpose, item, good, history>>

\* handle_done: the branch, as it is by now, is fetched to the host; then the gate that
\* keeps the child until its status has reached it.
Fetch ==
  /\ pc = "fetch"
  /\ IF running
     THEN item' = head /\ reply' = "open" /\ pc' = "park"
     ELSE item' = None /\ pc' = "answer" /\ UNCHANGED reply
  /\ UNCHANGED <<child, parent, told, parked, parkedReply, outbox, journal, seen, todo, who,
                 cur, purpose, good, history>>

\* handle_done: with nothing before it the item is completed at once.
Park ==
  /\ pc = "park"
  /\ parked' = intent(item)
  /\ purpose' = "done"
  /\ pc' = IF view.up /\ parked = <<>> THEN "check" ELSE "answer"
  /\ UNCHANGED <<child, parent, told, parkedReply, reply, outbox, journal, seen, todo, who,
                 cur, item, good, history>>

\* complete: imported already, or the child is still where it was.
Check ==
  /\ pc = "check"
  /\ \/ /\ view.label.import = item /\ up /\ ref = item
        /\ good' = TRUE /\ pc' = "mark"
     \/ /\ view.status = "running" /\ running /\ head = item
        /\ ~(view.label.import = item /\ up /\ ref = item)
        /\ good' = FALSE /\ pc' = "transport"
     \/ good' = FALSE /\ pc' = "mark"
  /\ UNCHANGED <<child, parent, told, files, seen, todo, who, cur, purpose, item, history>>

\* import_child: the transport brings whatever the branch is by now.
Transport ==
  /\ pc = "transport"
  /\ \/ /\ running /\ up
        /\ ref' = head
        /\ pc' = "label"
     \/ /\ pc' = IF purpose = "order" THEN "record" ELSE "mark"
        /\ UNCHANGED ref
  /\ UNCHANGED <<child, up, inbox, told, files, seen, todo, task, history>>

\* import_child: LAST_IMPORT follows the transport.
Label ==
  /\ pc = "label"
  /\ \/ /\ label' = [label EXCEPT !.import = transported]
        /\ good' = (ref = item)
     \/ good' = FALSE /\ UNCHANGED label
  /\ pc' = IF purpose = "order" THEN "record" ELSE "mark"
  /\ UNCHANGED <<status, booting, work, parent, told, files, seen, todo, who, cur, purpose,
                 item, history>>

\* complete: the destroy marker, unless something is staged, the grant lost `destroy` or
\* the label cannot be set.
Mark ==
  /\ pc = "mark"
  /\ \/ /\ good /\ ~maybeStaged
        /\ label' = [label EXCEPT !.marker = item]
     \/ UNCHANGED label
  /\ pc' = "report"
  /\ UNCHANGED <<status, booting, work, parent, told, files, seen, todo, task, history>>

\* write_inbox, in handle_done and in flush_pending.
Report ==
  /\ pc = "report"
  /\ \/ /\ up
        /\ inbox' = inbox \cup {report(item, good)}
        /\ pc' = "unlink"
        /\ UNCHANGED parked
     \/ /\ ~up /\ purpose = "done"
        /\ parked' = undelivered(item)
        /\ pc' = "unlink"
        /\ UNCHANGED inbox
     \/ /\ ~up /\ purpose = "flush"
        /\ pc' = "read"
        /\ UNCHANGED <<inbox, parked>>
  /\ UNCHANGED <<child, up, ref, told, parkedReply, reply, outbox, journal, seen, todo, task,
                 history>>

Unlink ==
  /\ pc = "unlink"
  /\ parked' = unlinked
  /\ pc' = IF purpose = "flush" THEN "flush" ELSE "answer"
  /\ UNCHANGED <<child, parent, told, parkedReply, reply, outbox, journal, seen, todo, task,
                 history>>

\* _handle_raw: the outcome of a done goes to done-replies first...
Answer ==
  /\ pc = "answer"
  /\ reply' = recorded
  /\ pc' = "record"
  /\ UNCHANGED <<child, parent, told, parked, parkedReply, outbox, journal, seen, todo, task,
                 history>>

\* ...then the journal, for every manifest...
Record ==
  /\ pc = "record"
  /\ journal' = journal \cup {cur}
  /\ accepted' = [d \in Dones |-> IF d = cur THEN item ELSE accepted[d]]
  /\ pc' = IF cur \in Dones THEN "tell" ELSE "delete"
  /\ UNCHANGED <<child, parent, told, parked, parkedReply, reply, outbox, seen, todo, task,
                 crashes, truth>>

\* ...then the child's inbox...
TellDone ==
  /\ pc = "tell"
  /\ Tell(cur)
  /\ pc' = "drop"
  /\ UNCHANGED <<child, parent, parked, reply, outbox, journal, seen, todo, task, history>>

\* ...and the file goes when the status is delivered or parked.
DropReply ==
  /\ pc \in {"drop", "replayed"}
  /\ reply' = answered
  /\ pc' = IF pc = "drop" THEN "delete" ELSE "read"
  /\ UNCHANGED <<child, parent, told, parked, parkedReply, outbox, journal, seen, todo, task,
                 history>>

\* _handle_raw: the manifest is deleted, which fails when its container has stopped.
\* Before that an order that changed the child's state has the children listed anew.
Delete ==
  /\ pc = "delete"
  /\ outbox' = IF (cur \in Dones /\ running) \/ (cur \in Orders /\ up)
               THEN outbox \ {cur} ELSE outbox
  /\ \/ /\ cur \in Orders /\ Asks[cur] # "import" /\ good
        /\ seen' = [seen EXCEPT !["parent"] = containers]
        /\ late' = forgiven
     \/ UNCHANGED <<seen, late>>
  /\ cur' = None /\ item' = None /\ good' = FALSE
  /\ pc' = "read"
  /\ UNCHANGED <<child, parent, told, parked, parkedReply, reply, journal, todo, who, purpose,
                 crashes, accepted, stale, stopper, end>>

-----------------------------------------------------------------------------
\* The orchestrator's orders.

Take(o) ==
  /\ pc = "read" /\ who = "parent" /\ o \in outbox \ journal
  /\ cur' = o /\ purpose' = "order" /\ item' = None
  /\ UNCHANGED <<parent, told, files, seen, todo, who, crashes, accepted>>

\* Not a child any more, not in the grant, a refresh is running, an error.
RefuseOrder(o) ==
  /\ Take(o)
  /\ good' = FALSE /\ pc' = "record"
  /\ UNCHANGED <<child, truth>>

ImportOrder(o) ==
  /\ Take(o) /\ Asks[o] = "import" /\ view.status = "running"
  /\ good' = FALSE /\ pc' = "transport"
  /\ UNCHANGED <<child, truth>>

\* handle_stop: what a stopped child will be judged by is recorded while it runs...
StopOrder(o) ==
  /\ Take(o) /\ Asks[o] = "stop" /\ view.status = "running" /\ status # "gone"
  /\ label' = [label EXCEPT !.stop = stopRecord]
  /\ stale' = FALSE
  /\ good' = FALSE /\ pc' = "stop"
  /\ UNCHANGED <<status, booting, work, late, stopper, end>>

\* ...and then it is stopped, unless that fails.
StopNow ==
  /\ pc = "stop"
  /\ \/ /\ running
        /\ status' = "stopped" /\ stopper' = "broker" /\ good' = TRUE
     \/ UNCHANGED <<status, stopper, good>>
  /\ pc' = "record"
  /\ UNCHANGED <<booting, work, label, parent, told, files, seen, todo, who, cur, purpose,
                 item, crashes, accepted, late, stale, end>>

\* handle_restart and _boot: the labels of the last run go before the worker starts.
RestartOrder(o) ==
  /\ Take(o) /\ Asks[o] = "restart" /\ view.status = "stopped" /\ status # "gone"
  /\ ~booting
  /\ label' = [label EXCEPT !.stop = noStop, !.marker = None]
  /\ booting' = TRUE /\ good' = TRUE
  /\ pc' = "record"
  /\ UNCHANGED <<status, work, truth>>

\* handle_destroy: `force: true` overrides the guard.
DestroyOrder(o) ==
  /\ Take(o) /\ Asks[o] \in {"destroy", "force"} /\ view.status # "gone" /\ status # "gone"
  /\ good' = FALSE
  /\ pc' = IF Asks[o] = "force" THEN "destroy" ELSE "guard"
  /\ UNCHANGED <<child, truth>>

-----------------------------------------------------------------------------
\* The end of a child.

\* tick: when everyone is served the containers are listed anew for settle_destroys.
Refresh ==
  /\ pc = "serve" /\ todo = {}
  /\ pc' = "settle" /\ who' = "parent" /\ purpose' = "settle"
  /\ seen' = [x \in {"parent", "child"} |-> containers]
  /\ late' = forgiven
  /\ UNCHANGED <<child, parent, told, files, todo, cur, item, good, crashes, accepted, stale,
                 stopper, end>>

\* settle_destroys: a marked child whose report and status have arrived. The labels are
\* read once more, the status is not.
Settle ==
  /\ pc = "settle"
  /\ IF view.up /\ view.label.marker # None /\ view.status # "gone"
          /\ label.marker = view.label.marker /\ delivered
     THEN /\ seen' = [seen EXCEPT !["parent"].label = label]
          /\ \/ label.import = label.marker /\ pc' = "guard"
             \/ pc' = "keep"
     ELSE pc' = "idle" /\ seen' = nothingListed
  /\ UNCHANGED <<child, parent, told, files, todo, task, history>>

\* destroy_guard reads HEAD, or takes the recorded one...
GuardHead ==
  /\ pc = "guard"
  /\ pc' = IF guardHead = view.label.import THEN "guardTree"
           ELSE IF purpose = "order" THEN "record" ELSE "keep"
  /\ late' = IF view.status = "running" THEN FALSE ELSE late
  /\ UNCHANGED <<child, parent, told, files, seen, todo, task, crashes, accepted, stale,
                 stopper, end>>

\* ...then the tree and the staged writes.
GuardTree ==
  /\ pc = "guardTree"
  /\ pc' = IF guardTree THEN "destroy"
           ELSE IF purpose = "order" THEN "record" ELSE "keep"
  /\ UNCHANGED <<child, parent, told, files, seen, todo, task, history>>

\* destroy_container, and what was parked for the child; or it fails.
Destroy ==
  /\ pc = "destroy"
  /\ \/ /\ status' = "gone" /\ booting' = FALSE /\ parkedReply' = {}
        /\ end' = [how |-> IF purpose = "settle" THEN "finished"
                           ELSE IF Asks[cur] = "force" THEN "forced" ELSE "guarded",
                   by |-> view.status]
        /\ good' = TRUE
        /\ pc' = IF purpose = "order" THEN "record" ELSE "idle"
        /\ seen' = IF purpose = "order" THEN seen ELSE nothingListed
     \/ /\ pc' = IF purpose = "order" THEN "record" ELSE "keep"
        /\ UNCHANGED <<status, booting, parkedReply, end, good, seen>>
  /\ UNCHANGED <<work, label, parent, told, parked, reply, outbox, journal, todo, who, cur,
                 purpose, item, crashes, accepted, late, stale, stopper>>

\* settle_destroys: kept, with a note to the orchestrator.
Keep ==
  /\ pc = "keep"
  /\ label' = [label EXCEPT !.marker = None]
  /\ parked' = IF up THEN parked ELSE Append(parked, note)
  /\ pc' = "idle" /\ seen' = nothingListed
  /\ UNCHANGED <<status, booting, work, parent, told, parkedReply, reply, outbox, journal,
                 todo, task, history>>

Crash ==
  /\ pc # "down" /\ crashes < MaxCrashes
  /\ crashes' = crashes + 1
  /\ pc' = "down"
  /\ seen' = nothingListed /\ todo' = {} /\ who' = "parent" /\ cur' = None
  /\ purpose' = "order" /\ item' = None /\ good' = FALSE
  /\ UNCHANGED <<child, parent, told, files, accepted, truth>>

RestartBroker ==
  /\ pc = "down"
  /\ pc' = "idle"
  /\ UNCHANGED <<child, parent, told, files, seen, todo, task, history>>

-----------------------------------------------------------------------------
\* The child, the orchestrator and the user.

\* The child's work goes on after the reads that decide about it.
Changed ==
  /\ running
  /\ late' = (late \/ pc \in {"guardTree", "destroy"} \/ seen["parent"].status = "stopped")
  /\ stale' = (stale \/ label.stop.head # None)
  /\ UNCHANGED <<status, booting, label, parent, told, files, memory, crashes, accepted,
                 stopper, end>>

Commits ==
  /\ Changed /\ head < MaxCommits
  /\ head' = head + 1 /\ dirty' = FALSE
  /\ UNCHANGED staged

Edits ==
  /\ Changed /\ ~dirty
  /\ dirty' = TRUE
  /\ UNCHANGED <<head, staged>>

\* It stages a GitHub write, or the staged ones are released.
Stages ==
  /\ Changed
  /\ staged' = ~staged
  /\ UNCHANGED <<head, dirty>>

Sends(m) ==
  /\ m \notin outbox \cup journal
  /\ IF m \in Dones THEN running ELSE up
  /\ outbox' = outbox \cup {m}
  /\ UNCHANGED <<child, parent, told, parked, parkedReply, reply, journal, memory, history>>

\* The restart's worker, or a user, starts the child.
Starts ==
  /\ status = "stopped" /\ (booting \/ "start" \in UserMoves)
  /\ status' = "running" /\ booting' = FALSE
  /\ UNCHANGED <<work, label, parent, told, files, memory, history>>

\* A user stops the child, or it powers off.
Stops ==
  /\ "stop" \in UserMoves /\ running
  /\ status' = "stopped" /\ stopper' = "other"
  /\ UNCHANGED <<booting, work, label, parent, told, files, memory, crashes, accepted, late,
                 stale, end>>

ParentFlips ==
  /\ "parent" \in UserMoves
  /\ up' = ~up
  /\ UNCHANGED <<child, ref, inbox, told, files, memory, history>>

Broker ==
  \/ List \/ ClearStale \/ FlushParent \/ FlushChild \/ Replay \/ EndServe
  \/ Fetch \/ Park \/ Check \/ Transport \/ Label \/ Mark \/ Report \/ Unlink
  \/ Answer \/ Record \/ TellDone \/ DropReply \/ Delete \/ StopNow
  \/ Refresh \/ Settle \/ GuardHead \/ GuardTree \/ Destroy \/ Keep \/ RestartBroker
  \/ \E x \in {"parent", "child"} : Serve(x)
  \/ \E d \in Dones : SkipSeen(d) \/ RefuseDone(d) \/ CheckDone(d)
  \/ \E o \in Orders : SkipSeen(o) \/ RefuseOrder(o) \/ ImportOrder(o) \/ StopOrder(o)
                       \/ RestartOrder(o) \/ DestroyOrder(o)

Others ==
  \/ Commits \/ Edits \/ Stages \/ Starts \/ Stops \/ ParentFlips
  \/ \E m \in Dones \cup Orders : Sends(m)

Next == Broker \/ Crash \/ Others

Spec == Init /\ [][Next]_vars

-----------------------------------------------------------------------------
\* Properties.

Commit == 0..MaxCommits
StopLabels == [head : Commit \cup {None}, dirty : BOOLEAN, staged : {"yes", "no", "unread"}]
Labels == [import : Commit, marker : Commit \cup {None}, stop : StopLabels]
Listing == [status : {"running", "stopped", "gone"}, up : BOOLEAN, label : Labels]
Item == [kind : {"finish", "report", "note"}, commit : Commit \cup {None}, good : BOOLEAN]

\* Every variable has its type, and a report is made with its finish item on file.
TypeOK ==
  /\ status \in {"running", "stopped", "gone"}
  /\ head \in Commit /\ dirty \in BOOLEAN /\ staged \in BOOLEAN /\ booting \in BOOLEAN
  /\ label \in Labels /\ up \in BOOLEAN /\ ref \in Commit
  /\ inbox \subseteq Item /\ told \subseteq Dones
  /\ parked \in Seq(Item) /\ (pc \in {"mark", "report"} => parked # <<>>)
  /\ parkedReply \subseteq Dones
  /\ reply \in Dones \cup {None, "open"}
  /\ outbox \subseteq Dones \cup Orders /\ journal \subseteq Dones \cup Orders
  /\ seen \in [{"parent", "child"} -> Listing]
  /\ todo \subseteq {"parent", "child"} /\ who \in {"parent", "child"}
  /\ cur \in Dones \cup Orders \cup {None}
  /\ purpose \in {"done", "flush", "order", "settle"}
  /\ item \in Commit \cup {None} /\ good \in BOOLEAN
  /\ crashes \in 0..MaxCrashes /\ accepted \in [Dones -> Commit \cup {None}]
  /\ late \in BOOLEAN /\ stale \in BOOLEAN /\ stopper \in {"broker", "other"}
  /\ pc \in {"down", "idle", "clear", "serve", "flush", "replay", "replayed", "read",
             "fetch", "park", "check", "transport", "label", "mark", "report", "unlink",
             "answer", "record", "tell", "drop", "delete", "stop", "settle", "guard",
             "guardTree", "destroy", "keep"}
  /\ end \in [how : {"alive", "forced", "guarded", "finished"},
              by : {"running", "stopped", "gone"}]

\* What LAST_IMPORT and the destroy marker name is in the orchestrator: the labels follow
\* the transport, whatever the child commits and wherever the broker dies in between.
ImportsReal ==
  /\ label.import <= ref
  /\ label.marker # None => label.marker <= ref

Unforced == end.how \in {"guarded", "finished"}

\* The broker destroys a child without `force` only when every commit is in the
\* orchestrator, the tree is clean and no GitHub write is staged. Excused are changes
\* made after the guard's own reads, and after the reads of a stop whose labels no later
\* listing of the child as running has cleared.
NoWorkLost ==
  Unforced /\ ~late /\ (end.by = "stopped" => ~stale) =>
    head <= ref /\ ~dirty /\ ~staged

Reported(c) == \E m \in inbox : m.kind = "report" /\ m.commit = c
OnItsWay(c) == \E i \in DOMAIN parked : parked[i].commit = c

\* A child never carries a destroy marker without a report of that commit in the
\* orchestrator's inbox, or in its queue to be made or delivered after a crash. One that
\* is destroyed because it finished was reported first, and had the status of every done
\* that was acted on (settle_destroys: "only after delivery, reply, journal and outbox
\* cleanup finished").
ReportedFirst ==
  /\ label.marker # None => Reported(label.marker) \/ OnItsWay(label.marker)
  /\ end.how = "finished" => Reported(label.marker) /\ journal \cap Dones \subseteq told

\* A done that was accepted reaches the orchestrator's inbox, as a report or an import
\* error, or is still queued for it: no broker death and no failed write loses it.
DoneKept ==
  \A d \in Dones : accepted[d] # None =>
    Reported(accepted[d]) \/ OnItsWay(accepted[d])

\* The status of a journalled done reaches the child, also when the broker dies between
\* the journal and the reply, and when another done follows.
ReplyKept ==
  status # "gone" =>
    \A d \in journal \cap Dones : d \in told \cup parkedReply \/ reply = d

\* The broker's loop goes on, and systemd restarts it.
FairSpec == Spec /\ WF_vars(Broker)

\* What is parked for an orchestrator that runs again for good is delivered: a finish item
\* is completed or reported as an import error, and never holds up the queue.
ParkedDelivered == <>[]up => []<>(parked = <<>>)

\* With orchestrator and child running for good, a marked child is destroyed or unmarked.
MarkerSettled ==
  <>[](up /\ status # "stopped") => []<>(label.marker = None \/ status = "gone")

\* docs/orchestration.md: "A stopped child's HEAD is the one recorded when the broker
\* stopped it; a child stopped any other way is refused until restarted."
OnlyBrokerStops == Unforced /\ end.by = "stopped" => stopper = "broker"
=============================================================================
