------------------------------- MODULE Publishing -------------------------------
(***************************************************************************)
(* Publishing for an orchestrator: a `publish` request makes the broker    *)
(* apply the issue manifest in the orchestrator's own outbox to GitHub, in *)
(* a thread, from an hourly budget, and reply with the result in a later   *)
(* round. The manifest's host journal decides what may still be sent; the  *)
(* same manifest may be applied by a user on the host, and a human settles *)
(* what a death left uncertain.                                            *)
(*                                                                         *)
(* Code: orchestration/publishing.py, broker.py (_handle_raw, _serve),     *)
(* outbox/publish.py (publish_selected), issue_outbox.py (apply_batch,     *)
(* reconcile_action), outbox_io.py (JournalStore).                         *)
(*                                                                         *)
(* One orchestrator, running all the time, and one manifest of it, of      *)
(* kind issue. A proposal is known by its number of actions, so what the   *)
(* digest of a manifest tells apart is that number.                        *)
(***************************************************************************)
EXTENDS Integers, FiniteSets

CONSTANTS
  Req,         \* the orchestrator's publish requests
  MaxSize,     \* bound on the actions of a manifest
  Cap,         \* max_actions_per_hour
  MaxHost,     \* bound on the publications a user starts on the host
  MaxCrashes,  \* bound on the broker's deaths
  MaxFaults,   \* bound on writes of host files that fail
  None

Publisher == {"worker", "host"}
Action == 1..MaxSize
Attempt == 1..(MaxCrashes + MaxFaults + 1)
Stamp == Req \X Attempt \X Action
Entry == [req : Req, attempt : Attempt, refunded : BOOLEAN, actions : SUBSET Action]

ASSUME ConstantsAssumption ==
  /\ IsFiniteSet(Req) /\ None \notin Req \cup Publisher \cup Entry
  /\ MaxSize \in Nat \ {0} /\ Cap \in Nat
  /\ MaxHost \in Nat /\ MaxCrashes \in Nat /\ MaxFaults \in Nat

VARIABLES
  \* GitHub, the manifest and its journal
  github,      \* github[a]: how often action a was carried out (2: more than once)
  present,     \* the manifest is in the container's outbox
  size,        \* its number of actions
  jsize,       \* the proposal the journal is of, 0 for no journal
  receipt,     \* receipt[a]: "none", "prepared", "applied" or "uncertain"
  lock,        \* who holds the journal's lock, or None
  \* publish_selected in the broker's thread and in a host user's command
  at,          \* at[p]: the step p is at, "off" when it does not run
  batch,       \* batch[p]: the actions of the proposal p prepared
  policyRefused, verdict,  \* what the thread will write into its result
  \* the broker's files
  outbox,      \* requests in the orchestrator's outbox
  journal,     \* requests in journal.jsonl
  accepted,    \* publish-accepted.json
  budget,      \* publish-budget.json, stamps [request, attempt, action]
  inflight,    \* publish-inflight.json, or None
  result,      \* the result file, or None
  told,        \* told[r]: statuses of r
  \* the broker process
  pc,          \* the step it is at
  cur,         \* the request being handled
  outcome,     \* what its handler returned
  \* what bounds the model, and what the properties remember
  sentReqs, hosts, crashes, faults,
  attempt,     \* attempt[r]: reservations made for r
  acted,       \* stamps, of the last hour, of the actions the thread sent
  expired,     \* the reservation of the request in flight is older than an hour
  covered,     \* covered[r]: the actions a `done` of r is about
  lost         \* a failed write left the request in flight with nobody at work on it

outside == <<github, present, size, jsize, receipt, lock>>
publishers == <<at, batch, policyRefused, verdict>>
files == <<outbox, journal, accepted, budget, inflight, result, told>>
process == <<pc, cur, outcome>>
bounds == <<sentReqs, hosts, crashes, faults>>
history == <<attempt, acted, expired, covered, lost>>
vars == <<outside, publishers, files, process, bounds, history>>

-----------------------------------------------------------------------------
\* The journal and the budget.

\* Mutant: a prepared action of a publication that died is taken for one never tried.
loadedAnew(a) == IF receipt[a] = "prepared" THEN "none" ELSE receipt[a]

\* JournalStore.load: "conservatively viewing prepared as uncertain".
loaded(a) == IF receipt[a] = "prepared" THEN "uncertain" ELSE receipt[a]

progress == \E a \in Action : receipt[a] # "none"

\* The journal fits a proposal of n actions.
fits(n) == jsize = n \/ ~progress

open(n) == {a \in 1..n : loaded(a) = "none"}
doubtful(n) == {a \in 1..n : loaded(a) = "uncertain"}
first(n, a) == a \in open(n) /\ \A b \in open(n) : a <= b

\* Mutant: the text is not compared before the manifest is deleted.
stillThere(p) == present

\* _cleanup_manifest: the manifest is still the proposal that was published.
unchanged(p) == present /\ size = batch[p]

\* Mutant: the lock outlives the publication.
lockKept(p) == lock

\* JournalStore.lock, when its block is left.
released(p) == None

\* Mutant: a failed publication is reported like any other.
alwaysDone(ok) == "done"

\* _run.
stateOf(ok) == IF ok THEN "done" ELSE "failed"

\* Mutant: every failed publication gets its reservation back.
refundFailed == result.state = "failed" /\ ~inflight.refunded

\* settle: only a publication the policy refused under the lock.
refundDue == result.policy /\ ~inflight.refunded

\* Mutant: a request does not wait for the one before it.
neverBusy == FALSE

\* _handle_publish: one request in flight.
busy == inflight # None

\* Mutant: settled requests are not recorded.
acceptedUnsaved == accepted

\* settle: a settled request is never taken up again.
acceptedNow == accepted \cup {inflight.req}

\* Mutant: the broker starts without a look at what was in flight.
resultUnrecovered == result

\* recover: what was in flight without a result has failed, outcome uncertain.
recovered ==
  IF inflight # None /\ (result = None \/ result.req # inflight.req)
  THEN [req |-> inflight.req, state |-> "failed", policy |-> FALSE]
  ELSE result

Init ==
  /\ github = [a \in Action |-> 0] /\ present = TRUE /\ size \in Action
  /\ jsize = 0 /\ receipt = [a \in Action |-> "none"] /\ lock = None
  /\ at = [p \in Publisher |-> "off"] /\ batch = [p \in Publisher |-> 0]
  /\ policyRefused = FALSE /\ verdict = FALSE
  /\ outbox = {} /\ journal = {} /\ accepted = {} /\ budget = {}
  /\ inflight = None /\ result = None /\ told = [r \in Req |-> {}]
  /\ pc = "idle" /\ cur = None /\ outcome = "none"
  /\ sentReqs = {} /\ hosts = 0 /\ crashes = 0 /\ faults = 0
  /\ attempt = [r \in Req |-> 0] /\ acted = {} /\ expired = FALSE
  /\ covered = [r \in Req |-> 0] /\ lost = FALSE

-----------------------------------------------------------------------------
\* publish_selected and apply_batch, in the thread and in a host user's command.

\* A write that fails: there are at most MaxFaults of them.
fault == faults < MaxFaults /\ faults' = faults + 1

to(p, step) == at' = [at EXCEPT ![p] = step]

\* p is over: its locks go, and the thread goes on to its result.
ends(p, ok) ==
  /\ lock' = released(p)
  /\ to(p, IF p = "worker" THEN "save" ELSE "off")
  /\ verdict' = IF p = "worker" THEN ok ELSE verdict
  /\ batch' = [batch EXCEPT ![p] = 0]
  /\ covered' = IF p = "worker" /\ inflight # None
                THEN [covered EXCEPT ![inflight.req] = batch[p]] ELSE covered

fails(p) == ends(p, FALSE) /\ UNCHANGED policyRefused

Lock(p) ==
  /\ at[p] = "lock" /\ lock = None
  /\ lock' = p
  /\ to(p, "prepare")
  /\ UNCHANGED <<github, present, size, jsize, receipt, batch, policyRefused, verdict,
                 files, process, bounds, history>>

\* prepare_batch, and everything GitHub and the container may refuse before anything is
\* sent. A host user may also answer no.
Prepare(p) ==
  /\ at[p] = "prepare"
  /\ \/ /\ present /\ fits(size)
        /\ batch' = [batch EXCEPT ![p] = size]
        /\ to(p, IF p = "worker" THEN "policy" ELSE "verify")
        /\ UNCHANGED <<lock, policyRefused, verdict, covered>>
     \/ fails(p)
  /\ UNCHANGED <<github, present, size, jsize, receipt, files, process, bounds,
                 attempt, acted, expired, lost>>

\* _issue_policy under the lock: the rights (a login is known by now), and never more
\* actions than were reserved.
Policy ==
  /\ at["worker"] = "policy"
  /\ \/ /\ Cardinality({a \in 1..batch["worker"] : loaded(a) # "applied"})
             <= Cardinality(inflight.actions)
        /\ to("worker", "verify")
        /\ UNCHANGED <<lock, batch, policyRefused, verdict, covered>>
     \/ policyRefused' = TRUE /\ ends("worker", FALSE)
  /\ UNCHANGED <<github, present, size, jsize, receipt, files, process, bounds, attempt,
                 acted, expired, lost>>

\* apply_batch's first pass: text, journal and progress once more, before any mutation.
Verify(p) ==
  /\ at[p] = "verify"
  /\ \/ /\ unchanged(p) /\ fits(batch[p]) /\ doubtful(batch[p]) = {}
        /\ jsize' = batch[p]
        /\ to(p, "act")
        /\ UNCHANGED <<lock, batch, policyRefused, verdict, covered>>
     \/ fails(p) /\ UNCHANGED jsize
  /\ UNCHANGED <<github, present, size, receipt, files, process, bounds, attempt,
                 acted, expired, lost>>

\* The next action is durably marked as prepared, or cannot be.
MarkPrepared(p) ==
  /\ at[p] = "act"
  /\ IF open(batch[p]) = {}
     THEN /\ to(p, "clean")
          /\ UNCHANGED <<receipt, lock, batch, policyRefused, verdict, covered>>
     ELSE \/ /\ \E a \in Action :
                  first(batch[p], a) /\ receipt' = [receipt EXCEPT ![a] = "prepared"]
             /\ to(p, "send")
             /\ UNCHANGED <<lock, batch, policyRefused, verdict, covered>>
          \/ fails(p) /\ UNCHANGED receipt
  /\ UNCHANGED <<github, present, size, jsize, files, process, bounds, attempt,
                 acted, expired, lost>>

prepared == CHOOSE a \in Action : receipt[a] = "prepared"
carriedOut(a) == [github EXCEPT ![a] = IF @ = 2 THEN 2 ELSE @ + 1]

\* _execute_one: GitHub did it; GitHub refused it; or nobody knows. The journal may
\* then fail to take the outcome, and stays at prepared.
Send(p) ==
  LET a == prepared IN
  /\ at[p] = "send"
  /\ \/ /\ github' = carriedOut(a)
        /\ to(p, "note")
        /\ UNCHANGED <<receipt, lock, batch, policyRefused, verdict, covered>>
     \/ /\ receipt' = [receipt EXCEPT ![a] = "none"]
        /\ fails(p) /\ UNCHANGED github
     \/ /\ github' \in {github, carriedOut(a)}
        /\ receipt' \in {receipt, [receipt EXCEPT ![a] = "uncertain"]}
        /\ fails(p)
  /\ acted' = IF p = "worker" /\ receipt'[a] # "none" /\ ~expired
              THEN acted \cup {<<inflight.req, inflight.attempt, a>>} ELSE acted
  /\ UNCHANGED <<present, size, jsize, files, process, bounds, attempt, expired,
                 lost>>

MarkApplied(p) ==
  /\ at[p] = "note"
  /\ \/ /\ receipt' = [receipt EXCEPT ![prepared] = "applied"]
        /\ to(p, "act")
        /\ UNCHANGED <<lock, batch, policyRefused, verdict, covered>>
     \/ fails(p) /\ UNCHANGED receipt
  /\ UNCHANGED <<github, present, size, jsize, files, process, bounds, attempt,
                 acted, expired, lost>>

\* _cleanup_manifest: the manifest goes...
Clean(p) ==
  /\ at[p] = "clean"
  /\ \/ /\ unchanged(p)
        /\ present' = FALSE
        /\ to(p, "archive")
        /\ UNCHANGED <<lock, batch, policyRefused, verdict, covered>>
     \/ fails(p) /\ UNCHANGED present
  /\ UNCHANGED <<github, size, jsize, receipt, files, process, bounds, attempt,
                 acted, expired, lost>>

\* ...and then its journal.
Archive(p) ==
  /\ at[p] = "archive"
  /\ \/ /\ jsize' = 0 /\ receipt' = [a \in Action |-> "none"]
        /\ ends(p, TRUE)
        /\ UNCHANGED policyRefused
     \/ fails(p) /\ UNCHANGED <<jsize, receipt>>
  /\ UNCHANGED <<github, present, size, files, process, bounds, attempt, acted,
                 expired, lost>>

\* _run: the result file, for settle; a failed write is only logged.
SaveResult ==
  /\ at["worker"] = "save"
  /\ to("worker", "off")
  /\ verdict' = FALSE /\ policyRefused' = FALSE
  /\ \/ /\ result' = [req |-> inflight.req, state |-> stateOf(verdict),
                      policy |-> policyRefused]
        /\ UNCHANGED <<faults, lost>>
     \/ fault /\ lost' = TRUE /\ UNCHANGED result
  /\ UNCHANGED <<outside, batch, outbox, journal, accepted, budget, inflight, told,
                 process, sentReqs, hosts, crashes, attempt, acted, expired, covered>>

-----------------------------------------------------------------------------
\* The broker's round: settle, then the outbox.

\* prune drops results nobody has in flight.
StartRound ==
  /\ pc = "idle"
  /\ result' = IF inflight = None \/ result = None THEN None
               ELSE IF result.req = inflight.req THEN result ELSE None
  /\ pc' = IF result' = None THEN "read" ELSE "accept"
  /\ UNCHANGED <<outside, publishers, outbox, journal, accepted, budget, inflight,
                 told, cur, outcome, bounds, history>>

\* settle: the request is recorded as accepted first...
Accept ==
  /\ pc = "accept"
  /\ accepted' = acceptedNow
  /\ pc' = IF refundDue THEN "refund" ELSE "answer"
  /\ UNCHANGED <<outside, publishers, outbox, journal, budget, inflight, result,
                 told, cur, outcome, bounds, history>>

\* _refund: its stamps leave the budget...
Refund ==
  /\ pc = "refund"
  /\ budget' = {s \in budget : s[1] # inflight.req \/ s[2] # inflight.attempt}
  /\ pc' = "flag"
  /\ UNCHANGED <<outside, publishers, outbox, journal, accepted, inflight, result,
                 told, cur, outcome, bounds, history>>

\* ...once.
Flag ==
  /\ pc = "flag"
  /\ inflight' = [inflight EXCEPT !.refunded = TRUE]
  /\ pc' = "answer"
  /\ UNCHANGED <<outside, publishers, outbox, journal, accepted, budget, result,
                 told, cur, outcome, bounds, history>>

\* The reply, delivered or parked.
Answer ==
  /\ pc = "answer"
  /\ told' = [told EXCEPT ![inflight.req] = @ \cup {result.state}]
  /\ pc' = "clear"
  /\ UNCHANGED <<outside, publishers, outbox, journal, accepted, budget, inflight,
                 result, cur, outcome, bounds, history>>

Clear ==
  /\ pc = "clear"
  /\ inflight' = None /\ expired' = FALSE
  /\ pc' = "unlink"
  /\ UNCHANGED <<outside, publishers, outbox, journal, accepted, budget, result, told, cur,
                 outcome, bounds, attempt, acted, covered, lost>>

Unlink ==
  /\ pc = "unlink"
  /\ result' = None
  /\ pc' = "read"
  /\ UNCHANGED <<outside, publishers, outbox, journal, accepted, budget, inflight,
                 told, cur, outcome, bounds, history>>

\* _handle_raw: a request in the journal, or settled, is only deleted.
SkipSeen(r) ==
  /\ pc = "read" /\ r \in outbox \cap (journal \cup accepted)
  /\ outbox' = outbox \ {r}
  /\ UNCHANGED <<outside, publishers, journal, accepted, budget, inflight, result,
                 told, process, bounds, history>>

EndRound ==
  /\ pc = "read"
  /\ pc' = "idle"
  /\ UNCHANGED <<outside, publishers, files, cur, outcome, bounds, history>>

taken(r) == pc = "read" /\ r \in outbox \ (journal \cup accepted)

\* handle_publish: something is running, the grant is gone, or a check fails.
Refuse(r) ==
  /\ taken(r)
  /\ cur' = r /\ outcome' = "refused" /\ pc' = "record"
  /\ UNCHANGED <<outside, publishers, files, bounds, history>>

\* _precheck found every action applied.
NothingPending(r) ==
  /\ taken(r) /\ ~busy
  /\ present /\ fits(size) /\ open(size) \cup doubtful(size) = {}
  /\ cur' = r /\ outcome' = "done" /\ pc' = "record"
  /\ covered' = [covered EXCEPT ![r] = size]
  /\ UNCHANGED <<outside, publishers, files, bounds, attempt, acted, expired, lost>>

\* handle_publish: every pending action is reserved against the hourly budget...
Reserve(r) ==
  LET k == attempt[r] + 1
      stamps == {<<r, k, a>> : a \in open(size)}
  IN
  /\ taken(r) /\ ~busy
  /\ present /\ fits(size) /\ doubtful(size) = {} /\ stamps # {}
  /\ Cardinality(budget) + Cardinality(stamps) <= Cap
  /\ k \in Attempt
  /\ budget' = budget \cup stamps
  /\ attempt' = [attempt EXCEPT ![r] = k]
  /\ cur' = r /\ outcome' = "started" /\ pc' = "save"
  /\ UNCHANGED <<outside, publishers, outbox, journal, accepted, inflight, result,
                 told, bounds, acted, expired, covered, lost>>

\* ...then the request is in flight, or refused...
SaveInflight ==
  /\ pc = "save"
  /\ \/ /\ inflight' = [req |-> cur, attempt |-> attempt[cur], refunded |-> FALSE,
                        actions |-> {a \in Action : <<cur, attempt[cur], a>> \in budget}]
        /\ pc' = "remember"
        /\ UNCHANGED <<outcome, faults>>
     \/ fault /\ outcome' = "refused" /\ pc' = "record" /\ UNCHANGED inflight
  /\ UNCHANGED <<outside, publishers, outbox, journal, accepted, budget, result,
                 told, cur, sentReqs, hosts, crashes, history>>

\* ...and its sender known. A write that fails here refuses a request that is in flight.
Remember ==
  /\ pc = "remember"
  /\ pc' = "record"
  /\ \/ UNCHANGED <<outcome, faults, lost>>
     \/ fault /\ outcome' = "refused" /\ lost' = TRUE
  /\ UNCHANGED <<outside, publishers, files, cur, sentReqs, hosts, crashes, attempt,
                 acted, expired, covered>>

\* _handle_raw: the journal, the reply, the request's deletion, and then the thread.
Record ==
  /\ pc = "record"
  /\ journal' = journal \cup {cur}
  /\ pc' = "tell"
  /\ UNCHANGED <<outside, publishers, outbox, accepted, budget, inflight, result,
                 told, cur, outcome, bounds, history>>

Tell ==
  /\ pc = "tell"
  /\ told' = [told EXCEPT ![cur] = @ \cup {outcome}]
  /\ pc' = "delete"
  /\ UNCHANGED <<outside, publishers, outbox, journal, accepted, budget, inflight,
                 result, cur, outcome, bounds, history>>

handled == cur' = None /\ outcome' = "none"

\* abort_before_start: the request cannot be deleted, or its thread not be started.
Aborts ==
  /\ pc' = "idle" /\ handled
  /\ \/ /\ outcome = "started"
        /\ result' = [req |-> cur, state |-> "failed", policy |-> FALSE]
        /\ UNCHANGED <<faults, lost>>
     \/ outcome = "started" /\ fault /\ lost' = TRUE /\ UNCHANGED result
     \/ outcome # "started" /\ UNCHANGED <<result, faults, lost>>

Delete ==
  /\ pc = "delete"
  /\ \/ /\ outbox' = outbox \ {cur}
        /\ IF outcome = "started"
           THEN pc' = "start" /\ UNCHANGED <<cur, outcome>>
           ELSE pc' = "read" /\ handled
        /\ UNCHANGED <<result, faults, lost>>
     \/ Aborts /\ UNCHANGED outbox
  /\ UNCHANGED <<outside, publishers, journal, accepted, budget, inflight, told,
                 sentReqs, hosts, crashes, attempt, acted, expired, covered>>

Start ==
  /\ pc = "start"
  /\ \/ /\ to("worker", "lock")
        /\ policyRefused' = FALSE /\ verdict' = FALSE
        /\ batch' = [batch EXCEPT !["worker"] = 0]
        /\ pc' = "read" /\ handled
        /\ UNCHANGED <<result, faults, lost>>
     \/ Aborts /\ UNCHANGED publishers
  /\ UNCHANGED <<outside, outbox, journal, accepted, budget, inflight, told,
                 sentReqs, hosts, crashes, attempt, acted, expired, covered>>

\* A write of a host file fails and the round goes on elsewhere: settle is taken up again
\* in the next round, a request that is in flight but was not started is not.
WriteFails ==
  /\ fault
  /\ pc \in {"accept", "refund", "flag", "answer", "clear", "unlink", "record", "tell"}
  /\ pc' = "idle" /\ handled
  /\ lost' = (lost \/ (pc \in {"record", "tell"} /\ outcome = "started"))
  /\ UNCHANGED <<outside, publishers, files, sentReqs, hosts, crashes, attempt,
                 acted, expired, covered>>

\* The broker dies, and its thread with it.
Crash ==
  /\ pc # "down" /\ crashes < MaxCrashes
  /\ crashes' = crashes + 1
  /\ pc' = "down" /\ handled
  /\ to("worker", "off")
  /\ batch' = [batch EXCEPT !["worker"] = 0] /\ policyRefused' = FALSE /\ verdict' = FALSE
  /\ lock' = IF lock = "worker" THEN None ELSE lock
  /\ UNCHANGED <<github, present, size, jsize, receipt, files, sentReqs, hosts, faults,
                 history>>

RestartBroker ==
  /\ pc = "down"
  /\ pc' = "idle"
  /\ result' = recovered
  /\ lost' = FALSE
  /\ UNCHANGED <<outside, publishers, outbox, journal, accepted, budget, inflight,
                 told, cur, outcome, bounds, attempt, acted, expired, covered>>

-----------------------------------------------------------------------------
\* The orchestrator, the operator and a user on the host.

Submit(r) ==
  /\ r \notin sentReqs
  /\ sentReqs' = sentReqs \cup {r} /\ outbox' = outbox \cup {r}
  /\ UNCHANGED <<outside, publishers, journal, accepted, budget, inflight, result,
                 told, process, hosts, crashes, faults, history>>

\* The container writes another text under the manifest's name.
Rewrite(n) ==
  /\ present /\ n # size
  /\ size' = n
  /\ UNCHANGED <<github, present, jsize, receipt, lock, publishers, files, process,
                 bounds, history>>

\* The stamps of a reservation, and what was sent for it, are an hour old.
HourPasses(r, k) ==
  LET old == {r} \X {k} \X Action IN
  /\ old \cap (budget \cup acted) # {} /\ (pc = "save" => r # cur)
  /\ budget' = budget \ old /\ acted' = acted \ old
  /\ expired' = (expired \/ (inflight # None /\ inflight.req = r /\ inflight.attempt = k))
  /\ UNCHANGED <<outside, publishers, outbox, journal, accepted, inflight, result, told,
                 process, bounds, attempt, covered, lost>>

HostStarts ==
  /\ at["host"] = "off" /\ hosts < MaxHost
  /\ hosts' = hosts + 1
  /\ to("host", "lock")
  /\ UNCHANGED <<outside, batch, policyRefused, verdict, files, process, sentReqs,
                 crashes, faults, history>>

HostDies ==
  /\ at["host"] # "off"
  /\ to("host", "off")
  /\ batch' = [batch EXCEPT !["host"] = 0]
  /\ lock' = IF lock = "host" THEN None ELSE lock
  /\ UNCHANGED <<github, present, size, jsize, receipt, policyRefused, verdict, files,
                 process, bounds, history>>

\* reconcile_action: a human has looked at GitHub and settles an uncertain action.
Resolve(a) ==
  /\ lock = None /\ present /\ jsize = size /\ loaded(a) = "uncertain"
  /\ receipt' = [receipt EXCEPT ![a] = IF github[a] = 0 THEN "none" ELSE "applied"]
  /\ UNCHANGED <<github, present, size, jsize, lock, publishers, files, process,
                 bounds, history>>

Publishes(p) ==
  \/ Lock(p) \/ Prepare(p) \/ Verify(p) \/ MarkPrepared(p) \/ Send(p) \/ MarkApplied(p)
  \/ Clean(p) \/ Archive(p)

Worker == Publishes("worker") \/ Policy \/ SaveResult

Broker ==
  \/ StartRound \/ Accept \/ Refund \/ Flag \/ Answer \/ Clear \/ Unlink \/ EndRound
  \/ SaveInflight \/ Remember \/ Record \/ Tell \/ Delete \/ Start \/ WriteFails
  \/ RestartBroker
  \/ \E r \in Req : SkipSeen(r) \/ Refuse(r) \/ NothingPending(r) \/ Reserve(r)

Others ==
  \/ Publishes("host") \/ HostStarts \/ HostDies
  \/ \E r \in Req : Submit(r) \/ \E k \in Attempt : HourPasses(r, k)
  \/ \E a \in Action : Rewrite(a) \/ Resolve(a)

Next == Worker \/ Broker \/ Crash \/ Others

Spec == Init /\ [][Next]_vars

-----------------------------------------------------------------------------
\* Properties.

Holding == {"prepare", "policy", "verify", "act", "send", "note", "clean", "archive"}

\* Every variable has its type, and the lock is held by the publication that is under way.
TypeOK ==
  /\ github \in [Action -> 0..2] /\ present \in BOOLEAN /\ size \in Action
  /\ jsize \in 0..MaxSize
  /\ receipt \in [Action -> {"none", "prepared", "applied", "uncertain"}]
  /\ lock \in Publisher \cup {None}
  /\ at \in [Publisher -> Holding \cup {"off", "lock", "save"}]
  /\ \A p \in Publisher : at[p] \in Holding <=> lock = p
  /\ batch \in [Publisher -> 0..MaxSize] /\ policyRefused \in BOOLEAN /\ verdict \in BOOLEAN
  /\ outbox \subseteq Req /\ journal \subseteq Req
  /\ accepted \subseteq Req /\ budget \subseteq Stamp
  /\ inflight \in Entry \cup {None}
  /\ result \in [req : Req, state : {"done", "failed"}, policy : BOOLEAN] \cup {None}
  /\ told \in [Req -> SUBSET {"refused", "started", "done", "failed"}]
  /\ pc \in {"down", "idle", "accept", "refund", "flag", "answer", "clear", "unlink",
             "read", "save", "remember", "record", "tell", "delete", "start"}
  /\ cur \in Req \cup {None} /\ outcome \in {"none", "refused", "done", "started"}
  /\ sentReqs \subseteq Req /\ hosts \in 0..MaxHost /\ crashes \in 0..MaxCrashes
  /\ faults \in 0..MaxFaults /\ attempt \in [Req -> Attempt \cup {0}]
  /\ acted \subseteq Stamp /\ expired \in BOOLEAN
  /\ covered \in [Req -> 0..MaxSize] /\ lost \in BOOLEAN

\* No action is carried out on GitHub twice, whoever publishes it, wherever the broker or
\* a user's command dies and whichever writes of the journal fail, as long as the human
\* who settles an uncertain action tells the truth.
AtMostOnce == \A a \in Action : github[a] <= 1

\* A manifest leaves the outbox only when GitHub has every action it had when it left,
\* although the container may rewrite it at any time.
DeletedPublished == ~present => \A a \in 1..size : github[a] = 1

\* `done` means that GitHub has every action of the proposal the request was about.
DoneMeansPublished ==
  \A r \in Req : "done" \in told[r] => \A a \in 1..covered[r] : github[a] = 1

\* What the broker sent to GitHub for requests it accepted within the hour is never more
\* than the grant's cap, also across a death between the budget and the start, and after
\* refunds.
CapHeld == Cardinality(acted) <= Cap

\* While a request is being started no thread is at work: one publish runs at a time.
OneWorker == pc = "start" => at["worker"] = "off"

\* A request that was told how it ended is never started afterwards (docs/orchestration.md:
\* "never retried automatically").
NeverRetried ==
  [][\A r \in Req : at["worker"] = "off" /\ at'["worker"] = "lock" /\ cur = r =>
       told[r] \cap {"done", "failed"} = {}]_vars

\* The broker's loop goes on, systemd restarts it, and its thread runs.
FairSpec == Spec /\ WF_vars(Broker) /\ WF_vars(Worker)

\* A request in flight is settled, unless a failed write left it with nobody at work or a
\* user on the host sits on the manifest's lock.
PublishSettles == ~<>[](inflight # None /\ ~lost /\ lock # "host")
===============================================================================
