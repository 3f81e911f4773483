---------------------------- MODULE PublishingProofs ----------------------------
(***************************************************************************)
(* What holds of publishing for any number of requests, actions, users on  *)
(* the host, deaths and failed writes: no action of a manifest reaches     *)
(* GitHub twice and a manifest is deleted only when all of them did;       *)
(* one thread is at work; `done` is true and final; and the hourly cap     *)
(* is held.                                                                *)
(***************************************************************************)
EXTENDS Publishing, FiniteSetTheorems, TLAPS

USE DEF outside, publishers, files, process, bounds, history

Receipt == {"none", "prepared", "applied", "uncertain"}

\* What the argument needs of the types: the lock is held by whoever is at work.
Typed ==
  /\ github \in [Action -> Nat] /\ present \in BOOLEAN
  /\ size \in Action /\ jsize \in Nat
  /\ receipt \in [Action -> Receipt]
  /\ lock \in Publisher \cup {None}
  /\ at \in [Publisher -> Holding \cup {"off", "lock", "save"}]
  /\ \A p \in Publisher : at[p] \in Holding <=> lock = p
  /\ batch \in [Publisher -> Nat]

\* Whatever GitHub has of a manifest in the outbox its journal knows of, and whatever the
\* journal says was applied GitHub has. Receipts are of the journal's proposal.
Known ==
  \A a \in Action :
    /\ github[a] <= 1
    /\ present /\ github[a] > 0 => receipt[a] # "none"
    /\ present /\ receipt[a] = "applied" => github[a] = 1
    /\ receipt[a] # "none" => a <= jsize

\* A publication past its checks works on the journal's proposal, none of it in doubt.
Checked(p) ==
  /\ at[p] \in {"act", "send", "note", "clean"} => present /\ batch[p] = jsize
  /\ at[p] \in {"act", "clean"} => \A a \in Action : receipt[a] \in {"none", "applied"}
  /\ at[p] = "clean" => \A a \in Action : a <= jsize => receipt[a] = "applied"
  /\ at[p] = "archive" => ~present /\ batch[p] = size

\* While it sends, exactly one action is prepared, which GitHub does not have before it is
\* sent and has afterwards.
Sending(p) ==
  at[p] \in {"send", "note"} =>
    \E a \in Action :
      /\ receipt[a] = "prepared"
      /\ github[a] = IF at[p] = "send" THEN 0 ELSE 1
      /\ \A b \in Action \ {a} : receipt[b] \in {"none", "applied"}

Published == ~present => \A a \in Action : a <= size => github[a] = 1

PublishInv ==
  /\ Typed
  /\ Known
  /\ \A p \in Publisher : Checked(p) /\ Sending(p)
  /\ Published

\* Nothing is published at first.
LEMMA PublishInit == Init => PublishInv
<1> SUFFICES ASSUME Init PROVE PublishInv
  OBVIOUS
<1>1. Typed
  BY ConstantsAssumption DEF Init, Typed, Action, Receipt, Holding, Publisher
<1>2. Known /\ Published
  BY DEF Init, Known, Published
<1>3. ASSUME NEW p \in Publisher PROVE Checked(p) /\ Sending(p)
  BY DEF Init, Checked, Sending
<1> QED
  BY <1>1, <1>2, <1>3 DEF PublishInv

\* A publication that is over, or a publisher that waits for the lock, is outside the
\* argument: leaving journal, GitHub and manifest alone keeps the invariant.
LEMMA Leaves ==
  ASSUME PublishInv, NEW p \in Publisher, NEW x \in {"off", "lock", "save"},
         at' = [at EXCEPT ![p] = x], batch' \in [Publisher -> Nat],
         \A q \in Publisher \ {p} : batch'[q] = batch[q],
         lock' = IF lock = p THEN None ELSE lock,
         UNCHANGED <<github, present, size, jsize, receipt>>
  PROVE  PublishInv'
<1> USE DEF PublishInv, Holding
<1>1. Typed'
  BY ConstantsAssumption DEF Typed, Publisher
<1>2. Known' /\ Published'
  BY DEF Known, Published
<1>3. ASSUME NEW q \in Publisher PROVE Checked(q)' /\ Sending(q)'
  <2>1. CASE q = p
    BY <2>1 DEF Typed, Checked, Sending
  <2>2. CASE q # p
    <3>1. at'[q] = at[q] /\ batch'[q] = batch[q]
      BY <2>2 DEF Typed
    <3> QED
      BY <3>1 DEF Checked, Sending
  <2> QED
    BY <2>1, <2>2
<1> QED
  BY <1>1, <1>2, <1>3

\* What a publication that ends, well or not, does to lock, batch and step.
LEMMA FailsEnds ==
  ASSUME NEW p, fails(p) \/ ends(p, TRUE)
  PROVE  /\ lock' = None /\ batch' = [batch EXCEPT ![p] = 0]
         /\ at' = [at EXCEPT ![p] = IF p = "worker" THEN "save" ELSE "off"]
<1>1. CASE fails(p)
  BY <1>1, Zenon DEF fails, ends, to, released
<1>2. CASE ends(p, TRUE)
  BY <1>2, Zenon DEF ends, to, released
<1> QED
  BY <1>1, <1>2

\* The same for a publication that ends while it holds the lock.
LEMMA Ends ==
  ASSUME PublishInv, NEW p \in Publisher, at[p] \in Holding, fails(p) \/ ends(p, TRUE),
         UNCHANGED <<github, present, size, jsize, receipt>>
  PROVE  PublishInv'
<1>1. lock = p /\ at \in [Publisher -> Holding \cup {"off", "lock", "save"}]
      /\ batch \in [Publisher -> Nat]
  BY DEF PublishInv, Typed
<1>2. lock' = None /\ batch' = [batch EXCEPT ![p] = 0]
      /\ at' = [at EXCEPT ![p] = IF p = "worker" THEN "save" ELSE "off"]
  BY FailsEnds
<1>3. batch' \in [Publisher -> Nat] /\ \A q \in Publisher \ {p} : batch'[q] = batch[q]
  BY <1>1, <1>2
<1>4. CASE p = "worker"
  BY <1>1, <1>2, <1>3, <1>4, Leaves
<1>5. CASE p # "worker"
  BY <1>1, <1>2, <1>3, <1>5, Leaves
<1> QED
  BY <1>4, <1>5

\* A step of the publication that holds the lock keeps the invariant if what it does keeps
\* the parts about itself.
LEMMA Works ==
  ASSUME PublishInv, NEW p \in Publisher, lock = p, NEW x \in Holding,
         at' = [at EXCEPT ![p] = x], lock' = lock, batch' \in [Publisher -> Nat],
         Typed', Known', Checked(p)', Sending(p)', Published'
  PROVE  PublishInv'
<1>1. ASSUME NEW q \in Publisher, q # p PROVE Checked(q)' /\ Sending(q)'
  <2>1. at'[q] \notin Holding
    BY <1>1 DEF PublishInv, Typed
  <2> QED
    BY <2>1 DEF Checked, Sending, Holding
<1> QED
  BY <1>1 DEF PublishInv

\* The steps of a publication, the broker's thread or a user's.
LEMMA PublishesStep ==
  ASSUME PublishInv, NEW p \in Publisher, Publishes(p)
  PROVE  PublishInv'
<1> USE DEF PublishInv
<1>0. at \in [Publisher -> Holding \cup {"off", "lock", "save"}]
      /\ batch \in [Publisher -> Nat] /\ (at[p] \in Holding => lock = p)
  BY DEF Typed
<1>1. CASE Lock(p)
  <2>1. lock = None /\ lock' = p /\ at' = [at EXCEPT ![p] = "prepare"]
        /\ UNCHANGED <<github, present, size, jsize, receipt, batch>>
    BY <1>1 DEF Lock, to
  <2>2. Typed'
    BY <2>1, ConstantsAssumption DEF Typed, Holding, Publisher
  <2>3. ASSUME NEW q \in Publisher PROVE Checked(q)' /\ Sending(q)'
    BY <1>0, <2>1 DEF Checked, Sending
  <2> QED
    BY <2>1, <2>2, <2>3 DEF Known, Published
<1>2. CASE Prepare(p)
  <2>1. CASE fails(p)
    BY <1>2, <2>1, Ends DEF Prepare, Holding
  <2>2. CASE ~fails(p)
    <3>1. PICK x \in {"policy", "verify"} : at' = [at EXCEPT ![p] = x]
      BY <1>2, <2>2 DEF Prepare, to
    <3>2. /\ lock = p /\ lock' = lock /\ batch' = [batch EXCEPT ![p] = size]
          /\ UNCHANGED <<github, present, size, jsize, receipt>>
      BY <1>0, <1>2, <2>2 DEF Prepare, Holding
    <3>3. Typed'
      BY <3>1, <3>2, ConstantsAssumption DEF Typed, Holding, Action
    <3>4. Known' /\ Published' /\ Checked(p)' /\ Sending(p)'
      BY <1>0, <3>1, <3>2 DEF Known, Published, Checked, Sending
    <3> QED
      BY <3>1, <3>2, <3>3, <3>4, Works DEF Holding, Typed
  <2> QED
    BY <2>1, <2>2
<1>3. CASE Verify(p)
  <2>1. CASE fails(p)
    <3>1. at[p] \in Holding /\ UNCHANGED <<github, present, size, jsize, receipt>>
      <4>1. at[p] = "verify" /\ UNCHANGED <<github, present, size, receipt>>
        BY <1>3, Zenon DEF Verify
      <4>2. at' # [at EXCEPT ![p] = "act"]
        <5>1. at' = [at EXCEPT ![p] = IF p = "worker" THEN "save" ELSE "off"]
          BY <2>1, FailsEnds
        <5> QED
          BY <1>0, <5>1
      <4>3. UNCHANGED jsize
        BY <1>3, <4>2, Zenon DEF Verify, to
      <4> QED
        BY <4>1, <4>3 DEF Holding
    <3> QED
      BY <2>1, <3>1, Ends
  <2>2. CASE ~fails(p)
    <3>1. /\ unchanged(p) /\ fits(batch[p]) /\ doubtful(batch[p]) = {}
          /\ jsize' = batch[p] /\ at' = [at EXCEPT ![p] = "act"]
          /\ lock = p /\ lock' = lock /\ batch' = batch
          /\ UNCHANGED <<github, present, size, receipt>>
      BY <1>0, <1>3, <2>2 DEF Verify, to, Holding
    <3>2. \A a \in Action : receipt[a] \in {"none", "applied"}
      BY <3>1 DEF fits, progress, doubtful, loaded, Known, Typed, Receipt, Action
    <3>3. \A a \in Action : receipt[a] # "none" => a <= jsize'
      BY <3>1 DEF fits, progress, Known
    <3>4. Typed'
      BY <1>0, <3>1 DEF Typed, Holding
    <3>5. Known' /\ Published' /\ Checked(p)' /\ Sending(p)'
      BY <1>0, <3>1, <3>2, <3>3 DEF Known, Published, Checked, Sending, unchanged
    <3> QED
      BY <1>0, <3>1, <3>4, <3>5, Works DEF Holding
  <2> QED
    BY <2>1, <2>2
<1>4. CASE MarkPrepared(p)
  <2>0. at[p] = "act" /\ lock = p /\ UNCHANGED <<github, present, size, jsize>>
    BY <1>0, <1>4 DEF MarkPrepared, Holding
  <2>1. CASE open(batch[p]) = {}
    <3>1. at' = [at EXCEPT ![p] = "clean"] /\ UNCHANGED <<receipt, lock, batch>>
      BY <1>4, <2>1 DEF MarkPrepared, to
    <3>2. \A a \in Action : a <= jsize => receipt[a] = "applied"
      BY <2>0, <2>1 DEF open, loaded, Checked, Typed, Action
    <3>3. Typed'
      BY <1>0, <2>0, <3>1 DEF Typed, Holding
    <3>4. Known' /\ Published' /\ Checked(p)' /\ Sending(p)'
      BY <1>0, <2>0, <3>1, <3>2 DEF Known, Published, Checked, Sending
    <3> QED
      BY <1>0, <2>0, <3>1, <3>3, <3>4, Works DEF Holding
  <2>2. CASE open(batch[p]) # {} /\ fails(p)
    <3>1. UNCHANGED receipt \/ \E a \in Action : receipt' = [receipt EXCEPT ![a] = "prepared"]
      BY <1>4, <2>2 DEF MarkPrepared
    <3>2. CASE UNCHANGED receipt
      BY <2>0, <2>2, <3>2, Ends DEF Holding
    <3>3. CASE receipt' # receipt
      BY <1>4, <2>0, <2>2, <3>3, <1>0 DEF MarkPrepared, fails, ends, to, released
    <3> QED
      BY <3>2, <3>3
  <2>3. CASE open(batch[p]) # {} /\ ~fails(p)
    <3>1. PICK a \in Action : first(batch[p], a) /\ receipt' = [receipt EXCEPT ![a] = "prepared"]
      BY <1>4, <2>3 DEF MarkPrepared
    <3>2. at' = [at EXCEPT ![p] = "send"] /\ UNCHANGED <<lock, batch>>
      BY <1>4, <2>3 DEF MarkPrepared, to
    <3>3. receipt[a] = "none" /\ github[a] = 0 /\ a <= jsize /\ present /\ batch[p] = jsize
      <4>1. receipt[a] = "none" /\ a <= jsize /\ batch[p] = jsize
        BY <2>0, <3>1 DEF first, open, loaded, Checked
      <4>2. github[a] = 0 /\ present
        BY <2>0, <3>1, <4>1 DEF first, open, Known, Checked, Typed, Action
      <4> QED
        BY <4>1, <4>2
    <3>4. Typed'
      BY <1>0, <2>0, <3>1, <3>2 DEF Typed, Holding, Receipt
    <3>5. Known' /\ Published' /\ Checked(p)'
      BY <1>0, <2>0, <3>1, <3>2, <3>3 DEF Known, Published, Checked, Typed
    <3>6. Sending(p)'
      BY <1>0, <2>0, <3>1, <3>2, <3>3 DEF Sending, Checked, Typed
    <3> QED
      BY <1>0, <2>0, <3>2, <3>4, <3>5, <3>6, Works DEF Holding
  <2> QED
    BY <2>1, <2>2, <2>3
<1>5. CASE Send(p)
  <2>0. at[p] = "send" /\ lock = p /\ UNCHANGED <<present, size, jsize>> /\ p \in Publisher
    BY <1>0, <1>5 DEF Send, Holding
  <2>1. PICK a \in Action :
          /\ receipt[a] = "prepared" /\ github[a] = 0
          /\ \A b \in Action \ {a} : receipt[b] \in {"none", "applied"}
    BY <2>0 DEF Sending
  <2>2. prepared = a /\ a <= jsize /\ present /\ batch[p] = jsize
    BY <2>0, <2>1 DEF prepared, Known, Checked
  <2>3. carriedOut(a) = [github EXCEPT ![a] = 1]
    BY <2>1 DEF carriedOut, Typed
  <2>4. CASE fails(p)
    <3>1. github' \in {github, [github EXCEPT ![a] = 1]}
      BY <1>5, <2>2, <2>3, Zenon DEF Send
    <3>2. \/ receipt' \in {receipt, [receipt EXCEPT ![a] = "uncertain"]}
          \/ receipt' = [receipt EXCEPT ![a] = "none"] /\ github' = github
      <4>1. at' = [at EXCEPT ![p] = IF p = "worker" THEN "save" ELSE "off"]
        BY <2>4, FailsEnds
      <4>2. at' # [at EXCEPT ![p] = "note"]
        BY <1>0, <4>1
      <4> QED
        <5>1. CASE receipt' = [receipt EXCEPT ![prepared] = "none"] /\ github' = github
          BY <2>2, <5>1
        <5>2. CASE receipt' \in {receipt, [receipt EXCEPT ![prepared] = "uncertain"]}
          <6>1. receipt' = receipt \/ receipt' = [receipt EXCEPT ![prepared] = "uncertain"]
            BY <5>2
          <6> QED
            BY <2>2, <6>1
        <5> QED
          BY <1>5, <4>2, <5>1, <5>2, Zenon DEF Send, to
    <3>3. lock' = None /\ batch' = [batch EXCEPT ![p] = 0]
          /\ at' = [at EXCEPT ![p] = IF p = "worker" THEN "save" ELSE "off"]
      BY <2>4, FailsEnds
    <3>4. Typed'
      BY <1>0, <2>0, <3>1, <3>2, <3>3, ConstantsAssumption DEF Typed, Holding, Receipt, Publisher
    <3>5. Known'
      BY <2>0, <2>1, <2>2, <3>1, <3>2 DEF Known, Typed
    <3>6. ASSUME NEW q \in Publisher PROVE Checked(q)' /\ Sending(q)'
      <4>1. at'[q] \notin Holding
        BY <1>0, <2>0, <3>3 DEF Typed, Holding
      <4> QED
        BY <4>1 DEF Checked, Sending, Holding
    <3> QED
      BY <2>0, <2>2, <3>4, <3>5, <3>6 DEF Published
  <2>5. CASE ~fails(p)
    <3>1. /\ github' = [github EXCEPT ![a] = 1] /\ at' = [at EXCEPT ![p] = "note"]
          /\ UNCHANGED <<receipt, lock, batch>>
      BY <1>5, <2>2, <2>3, <2>5, Zenon DEF Send, to
    <3>2. Typed'
      BY <1>0, <2>0, <3>1 DEF Typed, Holding
    <3>3. Known' /\ Published' /\ Checked(p)' /\ Sending(p)'
      BY <1>0, <2>0, <2>1, <2>2, <3>1 DEF Known, Published, Checked, Sending, Typed
    <3> QED
      BY <1>0, <2>0, <3>1, <3>2, <3>3, Works DEF Holding
  <2> QED
    BY <2>4, <2>5
<1>6. CASE MarkApplied(p)
  <2>0. at[p] = "note" /\ lock = p /\ UNCHANGED <<github, present, size, jsize>>
    BY <1>0, <1>6 DEF MarkApplied, Holding
  <2>1. PICK a \in Action :
          /\ receipt[a] = "prepared" /\ github[a] = 1
          /\ \A b \in Action \ {a} : receipt[b] \in {"none", "applied"}
    BY <2>0 DEF Sending
  <2>2. prepared = a /\ a <= jsize /\ present /\ batch[p] = jsize
    BY <2>0, <2>1 DEF prepared, Known, Checked
  <2>3. CASE fails(p)
    <3>1. UNCHANGED receipt
      BY <1>0, <1>6, <2>3, FailsEnds DEF MarkApplied, to
    <3> QED
      BY <2>0, <2>3, <3>1, Ends DEF Holding
  <2>4. CASE ~fails(p)
    <3>1. /\ receipt' = [receipt EXCEPT ![a] = "applied"] /\ at' = [at EXCEPT ![p] = "act"]
          /\ UNCHANGED <<lock, batch>>
      BY <1>6, <2>2, <2>4, Zenon DEF MarkApplied, to
    <3>2. Typed'
      BY <1>0, <2>0, <3>1 DEF Typed, Holding, Receipt
    <3>3. Known' /\ Published' /\ Checked(p)' /\ Sending(p)'
      BY <1>0, <2>0, <2>1, <2>2, <3>1 DEF Known, Published, Checked, Sending, Typed
    <3> QED
      BY <1>0, <2>0, <3>1, <3>2, <3>3, Works DEF Holding
  <2> QED
    BY <2>3, <2>4
<1>7. CASE Clean(p)
  <2>0. at[p] = "clean" /\ lock = p /\ UNCHANGED <<github, size, jsize, receipt>>
    BY <1>0, <1>7 DEF Clean, Holding
  <2>1. CASE fails(p)
    <3>1. UNCHANGED present
      BY <1>0, <1>7, <2>1, FailsEnds DEF Clean, to
    <3> QED
      BY <2>0, <2>1, <3>1, Ends DEF Holding
  <2>2. CASE ~fails(p)
    <3>1. /\ unchanged(p) /\ present' = FALSE /\ at' = [at EXCEPT ![p] = "archive"]
          /\ UNCHANGED <<lock, batch>>
      BY <1>7, <2>2, Zenon DEF Clean, to
    <3>2. present /\ size = jsize /\ \A a \in Action : a <= jsize => receipt[a] = "applied"
      BY <2>0, <3>1 DEF unchanged, Checked
    <3>3. Typed'
      BY <1>0, <2>0, <3>1 DEF Typed, Holding
    <3>4. Known' /\ Published' /\ Checked(p)' /\ Sending(p)'
      BY <1>0, <2>0, <3>1, <3>2 DEF Known, Published, Checked, Sending
    <3> QED
      BY <1>0, <2>0, <3>1, <3>3, <3>4, Works DEF Holding
  <2> QED
    BY <2>1, <2>2
<1>8. CASE Archive(p)
  <2>0. at[p] = "archive" /\ lock = p /\ ~present /\ UNCHANGED <<github, present, size>>
    BY <1>0, <1>8 DEF Archive, Holding, Checked
  <2>1. \/ fails(p) /\ UNCHANGED <<jsize, receipt>>
        \/ ends(p, TRUE) /\ jsize' = 0 /\ receipt' = [a \in Action |-> "none"]
    BY <1>8, Zenon DEF Archive
  <2>2. CASE fails(p) /\ UNCHANGED <<jsize, receipt>>
    BY <2>0, <2>2, Ends DEF Holding
  <2>3. CASE ends(p, TRUE) /\ jsize' = 0 /\ receipt' = [a \in Action |-> "none"]
    <3>1. lock' = None /\ batch' = [batch EXCEPT ![p] = 0]
          /\ at' = [at EXCEPT ![p] = IF p = "worker" THEN "save" ELSE "off"]
      BY <2>3, FailsEnds
    <3>2. Typed'
      BY <1>0, <2>0, <2>3, <3>1, ConstantsAssumption DEF Typed, Holding, Receipt, Publisher
    <3>3. ASSUME NEW q \in Publisher PROVE Checked(q)' /\ Sending(q)'
      <4>1. at'[q] \notin Holding
        BY <1>0, <2>0, <3>1 DEF Typed, Holding
      <4> QED
        BY <4>1 DEF Checked, Sending, Holding
    <3> QED
      BY <2>0, <2>3, <3>2, <3>3 DEF Known, Published
  <2> QED
    BY <2>1, <2>2, <2>3
<1> QED
  BY <1>1, <1>2, <1>3, <1>4, <1>5, <1>6, <1>7, <1>8 DEF Publishes
-----------------------------------------------------------------------------
\* One thread at a time.

Starting ==
  \/ pc \in {"save", "remember", "start"}
  \/ pc \in {"record", "tell", "delete"} /\ outcome = "started"

\* While the thread is at work its request is in flight without a result, so that no round
\* settles it and no other request is taken up; a request is taken up only when no result
\* of an earlier one is left.
WorkerInv ==
  /\ at = [p \in Publisher |-> at[p]]
  /\ attempt \in [Req -> Attempt \cup {0}]
  /\ pc \in {"save", "remember"} => cur \in Req /\ attempt[cur] \in Attempt
  /\ at["worker"] # "off" =>
       /\ inflight # None /\ (result = None \/ result.req # inflight.req)
       /\ ~Starting /\ pc \notin {"down", "accept", "refund", "flag", "answer", "clear", "unlink"}
  /\ pc = "save" => inflight = None
  /\ Starting => result = None /\ (pc # "save" => inflight # None)
  /\ pc \in {"read", "record", "tell", "delete"} /\ inflight = None => result = None

\* No thread is at work at first.
LEMMA WorkerInit == Init => WorkerInv
  BY DEF Init, WorkerInv, Starting, Publisher

\* Every step keeps the thread, the request in flight and the broker's place together.
LEMMA WorkerStep == WorkerInv /\ [Next]_vars => WorkerInv'
<1> SUFFICES ASSUME WorkerInv, [Next]_vars PROVE WorkerInv'
  OBVIOUS
<1> USE DEF WorkerInv, Starting
<1>0. Attempt \subseteq Nat /\ "worker" \in Publisher /\ "host" \in Publisher
      /\ "worker" # "host"
  BY ConstantsAssumption DEF Attempt, Publisher
\* The thread goes on, or ends, and writes its result.
<1>1. ASSUME NEW p \in Publisher, Publishes(p) PROVE WorkerInv'
  <2>1. PICK x : at' = [at EXCEPT ![p] = x]
    BY <1>1, FailsEnds
       DEF Publishes, Lock, Prepare, Verify, MarkPrepared, Send, MarkApplied, Clean, Archive, to
  <2>2. at[p] # "off" /\ UNCHANGED <<inflight, result, pc, cur, outcome, attempt>>
    BY <1>1
       DEF Publishes, Lock, Prepare, Verify, MarkPrepared, Send, MarkApplied, Clean, Archive
  <2> QED
    BY <2>1, <2>2
<1>2. CASE Policy
  <2>1. PICK x : at' = [at EXCEPT !["worker"] = x]
    BY <1>2 DEF Policy, ends, to
  <2>2. at["worker"] # "off" /\ UNCHANGED <<inflight, result, pc, cur, outcome, attempt>>
    BY <1>2 DEF Policy
  <2> QED
    BY <2>1, <2>2
<1>3. CASE SaveResult
  BY <1>0, <1>3 DEF SaveResult, to
\* The broker settles only when the thread is done.
<1>4. CASE StartRound
  BY <1>4 DEF StartRound
<1>5. CASE Accept \/ Refund \/ Answer \/ Unlink \/ EndRound
  BY <1>5 DEF Accept, Refund, Answer, Unlink, EndRound
<1>6. CASE Flag
  BY <1>6 DEF Flag
<1>7. CASE Clear
  BY <1>7 DEF Clear
\* A request is taken up, put in flight, recorded, and started.
<1>8. ASSUME NEW r \in Req, SkipSeen(r) \/ Refuse(r) \/ NothingPending(r)
      PROVE WorkerInv'
  BY <1>8 DEF SkipSeen, Refuse, NothingPending, taken, busy
<1>9. ASSUME NEW r \in Req, Reserve(r) PROVE WorkerInv'
  BY <1>9 DEF Reserve, taken, busy
<1>10. CASE SaveInflight
  <2>1. CASE pc' # "remember"
    BY <1>10, <2>1 DEF SaveInflight
  <2>2. CASE pc' = "remember"
    <3>1. /\ inflight' = [req |-> cur, attempt |-> attempt[cur], refunded |-> FALSE,
                          actions |-> {a \in Action : <<cur, attempt[cur], a>> \in budget}]
          /\ pc = "save" /\ pc' = "remember" /\ UNCHANGED <<outcome, at, result, cur, attempt>>
      BY <1>10, <2>2 DEF SaveInflight
    <3>2. inflight' \in Entry
      BY <3>1 DEF Entry
    <3>3. inflight' # None
      BY <3>2, ConstantsAssumption
    <3> QED
      BY <3>1, <3>3
  <2> QED
    BY <2>1, <2>2
<1>11. CASE Remember \/ Record \/ Tell
  BY <1>11 DEF Remember, Record, Tell
<1>12. CASE Delete
  BY <1>12 DEF Delete, Aborts, handled
<1>13. CASE Start
  BY <1>0, <1>13 DEF Start, Aborts, handled, to
<1>14. CASE WriteFails
  BY <1>14 DEF WriteFails, handled
<1>15. CASE Crash \/ RestartBroker
  BY <1>0, <1>15 DEF Crash, RestartBroker, handled, to
<1>16. CASE HostStarts \/ HostDies
  BY <1>0, <1>16 DEF HostStarts, HostDies, to
<1>17. ASSUME NEW r \in Req, Submit(r) \/ \E k \in Attempt : HourPasses(r, k)
       PROVE WorkerInv'
  BY <1>17 DEF Submit, HourPasses
<1>18. ASSUME NEW a \in Action, Rewrite(a) \/ Resolve(a) PROVE WorkerInv'
  BY <1>18 DEF Rewrite, Resolve
<1>19. CASE UNCHANGED vars
  BY <1>19 DEF vars
<1> QED
  BY <1>0, <1>1, <1>2, <1>3, <1>4, <1>5, <1>6, <1>7, <1>8, <1>9, <1>10, <1>11, <1>12, <1>13,
     <1>14, <1>15, <1>16, <1>17, <1>18, <1>19 DEF Next, Worker, Broker, Others

-----------------------------------------------------------------------------
\* The steps of everybody.

\* Every step keeps the invariant: what is not a publication's leaves journal, GitHub and
\* manifest alone, but for the container's rewriting and the human who settles a doubt.
LEMMA PublishStep == PublishInv /\ WorkerInv /\ [Next]_vars => PublishInv'
<1> SUFFICES ASSUME PublishInv, WorkerInv, [Next]_vars PROVE PublishInv'
  OBVIOUS
<1>0. /\ at \in [Publisher -> Holding \cup {"off", "lock", "save"}]
      /\ batch \in [Publisher -> Nat] /\ "worker" \in Publisher /\ "host" \in Publisher
      /\ \A p \in Publisher : at[p] \in Holding <=> lock = p
  BY DEF PublishInv, Typed, Publisher
<1>1. ASSUME UNCHANGED <<github, present, size, jsize, receipt, lock, at, batch>>
      PROVE  PublishInv'
  BY <1>1 DEF PublishInv, Typed, Known, Checked, Sending, Published
<1>2. ASSUME NEW p \in Publisher, Publishes(p) PROVE PublishInv'
  BY <1>2, PublishesStep
<1>3. CASE Policy
  <2>0. at["worker"] = "policy" /\ UNCHANGED <<github, present, size, jsize, receipt>>
    BY <1>3 DEF Policy
  <2>1. \/ to("worker", "verify") /\ UNCHANGED <<lock, batch>>
        \/ ends("worker", FALSE)
    BY <1>3, Zenon DEF Policy
  <2>2. CASE to("worker", "verify") /\ UNCHANGED <<lock, batch>>
    <3>1. Typed'
      BY <1>0, <2>0, <2>2 DEF to, PublishInv, Typed, Holding
    <3>2. Known' /\ Published' /\ Checked("worker")' /\ Sending("worker")'
      BY <1>0, <2>0, <2>2 DEF to, PublishInv, Known, Published, Checked, Sending
    <3> QED
      BY <1>0, <2>0, <2>2, <3>1, <3>2, Works DEF to, Holding
  <2>3. CASE ends("worker", FALSE)
    <3>1. lock' = None /\ batch' = [batch EXCEPT !["worker"] = 0]
          /\ at' = [at EXCEPT !["worker"] = "save"]
      BY <2>3, Zenon DEF ends, to, released
    <3> QED
      BY <1>0, <2>0, <3>1, Leaves DEF Holding
  <2> QED
    BY <2>1, <2>2, <2>3
<1>4. CASE SaveResult
  BY <1>0, <1>4, Leaves DEF SaveResult, to, Holding
<1>5. CASE Start
  <2>0. lock # "worker"
    BY <1>0, <1>5 DEF WorkerInv, Starting, Start, Holding
  <2>1. CASE to("worker", "lock") /\ batch' = [batch EXCEPT !["worker"] = 0]
    BY <1>0, <1>5, <2>0, <2>1, Leaves DEF Start, to
  <2>2. CASE UNCHANGED publishers
    BY <1>1, <1>5, <2>2 DEF Start
  <2> QED
    BY <1>5, <2>1, <2>2 DEF Start
<1>6. CASE Crash
  BY <1>0, <1>6, Leaves DEF Crash, to
<1>7. CASE HostDies
  BY <1>0, <1>7, Leaves DEF HostDies, to
<1>8. CASE HostStarts
  BY <1>0, <1>8, Leaves DEF HostStarts, to, Holding
<1>9. ASSUME NEW n \in Action, Rewrite(n) PROVE PublishInv'
  BY <1>9, ConstantsAssumption
     DEF Rewrite, PublishInv, Typed, Known, Checked, Sending, Published, Action
<1>10. ASSUME NEW a \in Action, Resolve(a) PROVE PublishInv'
  <2>1. /\ lock = None /\ present
        /\ receipt[a] # "none"
        /\ receipt' = [receipt EXCEPT ![a] = IF github[a] = 0 THEN "none" ELSE "applied"]
        /\ UNCHANGED <<github, present, size, jsize, lock, at, batch>>
    BY <1>10 DEF Resolve, loaded
  <2>2. Typed' /\ Known' /\ Published'
    BY <2>1 DEF PublishInv, Typed, Known, Published, Receipt
  <2>3. ASSUME NEW p \in Publisher PROVE Checked(p)' /\ Sending(p)'
    BY <1>0, <2>1, ConstantsAssumption DEF Checked, Sending, Holding
  <2> QED
    BY <2>2, <2>3 DEF PublishInv
<1>11. CASE StartRound \/ Accept \/ Refund \/ Flag \/ Answer \/ Clear \/ Unlink \/ EndRound
  BY <1>1, <1>11 DEF StartRound, Accept, Refund, Flag, Answer, Clear, Unlink, EndRound
<1>12. CASE SaveInflight \/ Remember \/ Record \/ Tell \/ Delete \/ WriteFails \/ RestartBroker
  BY <1>1, <1>12 DEF SaveInflight, Remember, Record, Tell, Delete, WriteFails, RestartBroker
<1>13. ASSUME NEW r \in Req, SkipSeen(r) \/ Refuse(r) \/ NothingPending(r) \/ Reserve(r)
                               \/ Submit(r)
       PROVE  PublishInv'
  BY <1>1, <1>13 DEF SkipSeen, Refuse, NothingPending, Reserve, Submit
<1>14. ASSUME NEW r \in Req, NEW k \in Attempt, HourPasses(r, k) PROVE PublishInv'
  BY <1>1, <1>14 DEF HourPasses
<1>15. CASE UNCHANGED vars
  BY <1>1, <1>15 DEF vars
<1> QED
  BY <1>0, <1>2, <1>3, <1>4, <1>5, <1>6, <1>7, <1>8, <1>9, <1>10, <1>11, <1>12, <1>13, <1>14,
     <1>15 DEF Next, Worker, Broker, Others

-----------------------------------------------------------------------------
\* Both invariants hold in every behaviour: the second says that a thread starts only when
\* none holds the lock, which the first relies on.
LEMMA PublishingInv == Spec => [](PublishInv /\ WorkerInv)
  BY PublishInit, PublishStep, WorkerInit, WorkerStep, PTL DEF Spec

\* Whoever publishes, wherever the broker or a user's command dies and whichever writes
\* fail, no action of a manifest is carried out on GitHub twice.
THEOREM AtMostOnceAlways == Spec => []AtMostOnce
<1>1. PublishInv => AtMostOnce
  BY DEF PublishInv, Known, AtMostOnce
<1> QED
  BY PublishingInv, <1>1, PTL

\* The manifest is deleted only when GitHub has everything it said when it went.
THEOREM DeletedPublishedAlways == Spec => []DeletedPublished
<1>1. PublishInv => DeletedPublished
  BY ConstantsAssumption DEF PublishInv, Published, DeletedPublished, Typed, Action
<1> QED
  BY PublishingInv, <1>1, PTL

\* When the broker starts a thread none is at work, also after settled, aborted and
\* recovered requests.
THEOREM OneWorkerAlways == Spec => []OneWorker
<1>1. WorkerInv => OneWorker
  BY DEF WorkerInv, Starting, OneWorker
<1> QED
  BY PublishingInv, <1>1, PTL

-----------------------------------------------------------------------------
\* What the steps of a publication have in common.

\* A publication goes on, gives up, or is over with its manifest gone; it leaves the broker's
\* files alone, and GitHub forgets nothing.
LEMMA PublicationStep ==
  ASSUME PublishInv, NEW p \in Publisher, Publishes(p)
  PROVE  /\ at[p] \in Holding \cup {"lock"}
         /\ UNCHANGED <<size, files, process, bounds, policyRefused, attempt, expired, lost>>
         /\ \/ /\ at' = [at EXCEPT ![p] = at'[p]] /\ at'[p] \in Holding
               /\ batch' \in {batch, [batch EXCEPT ![p] = size]} /\ UNCHANGED <<verdict, covered>>
            \/ ends(p, FALSE)
            \/ ends(p, TRUE) /\ at[p] = "archive"
         /\ at[p] # "send" => UNCHANGED <<github, acted>>
         /\ jsize' \in {jsize, batch[p], 0}
<1>1. CASE Lock(p)
  BY <1>1 DEF Lock, to, Holding, PublishInv, Typed
<1>2. CASE Prepare(p)
  BY <1>2 DEF Prepare, fails, to, Holding, PublishInv, Typed
<1>3. CASE Verify(p)
  BY <1>3 DEF Verify, fails, to, Holding, PublishInv, Typed
<1>4. CASE MarkPrepared(p)
  BY <1>4 DEF MarkPrepared, fails, to, Holding, PublishInv, Typed
<1>5. CASE Send(p)
  BY <1>5 DEF Send, fails, to, Holding, PublishInv, Typed
<1>6. CASE MarkApplied(p)
  BY <1>6 DEF MarkApplied, fails, to, Holding, PublishInv, Typed
<1>7. CASE Clean(p)
  BY <1>7 DEF Clean, fails, to, Holding, PublishInv, Typed
<1>8. CASE Archive(p)
  BY <1>8 DEF Archive, fails, to, Holding, PublishInv, Typed
<1> QED
  BY <1>1, <1>2, <1>3, <1>4, <1>5, <1>6, <1>7, <1>8 DEF Publishes

-----------------------------------------------------------------------------
\* The types.

\* TypeOK in three parts: what PublishInv says already, variables that are true or false, and
\* the others.
Flags ==
  policyRefused \in BOOLEAN /\ verdict \in BOOLEAN /\ expired \in BOOLEAN /\ lost \in BOOLEAN

Result == [req : Req, state : {"done", "failed"}, policy : BOOLEAN]
Status == {"refused", "started", "done", "failed"}

Values ==
  /\ jsize \in 0..MaxSize /\ batch \in [Publisher -> 0..MaxSize]
  /\ outbox \subseteq Req /\ journal \subseteq Req
  /\ accepted \subseteq Req /\ budget \subseteq Stamp
  /\ inflight \in Entry \cup {None} /\ result \in Result \cup {None}
  /\ told \in [Req -> SUBSET Status]
  /\ pc \in {"down", "idle", "accept", "refund", "flag", "answer", "clear", "unlink",
             "read", "save", "remember", "record", "tell", "delete", "start"}
  /\ cur \in Req \cup {None} /\ outcome \in {"none", "refused", "done", "started"}
  /\ sentReqs \subseteq Req /\ hosts \in 0..MaxHost /\ crashes \in 0..MaxCrashes
  /\ faults \in 0..MaxFaults /\ attempt \in [Req -> Attempt \cup {0}]
  /\ acted \subseteq Stamp /\ covered \in [Req -> 0..MaxSize]

\* A request and what its handler returned are at hand while one is handled, one in flight
\* and its result while it is settled.
Places ==
  /\ pc \in {"save", "remember", "record", "tell", "delete", "start"} => cur \in Req
  /\ pc \in {"accept", "refund", "flag", "answer"} =>
       inflight # None /\ result # None /\ result.req = inflight.req
  /\ pc = "clear" => inflight # None
  /\ pc \in {"record", "tell", "delete"} => outcome # "none"
  /\ pc \in {"save", "remember", "start"} => outcome = "started"
  /\ inflight = None => ~expired

TypeInv == PublishInv /\ WorkerInv /\ Flags /\ Values /\ Places

\* The parts make up TypeOK.
LEMMA TypeParts == TypeInv => TypeOK
<1> SUFFICES ASSUME TypeInv PROVE TypeOK
  OBVIOUS
<1>1. github \in [Action -> 0..2]
  BY DEF TypeInv, PublishInv, Typed, Known
<1> QED
  BY <1>1 DEF TypeInv, PublishInv, Typed, Flags, Values, TypeOK, Receipt, Result, Status

\* Every variable has its type at first.
LEMMA TypeInit == Init => TypeInv
<1> SUFFICES ASSUME Init PROVE TypeInv
  OBVIOUS
<1>1. Flags
  BY Zenon DEF Init, Flags
<1>2. Values /\ Places
  BY ConstantsAssumption DEF Init, Values, Places, Publisher
<1> QED
  BY <1>1, <1>2, PublishInit, WorkerInit DEF TypeInv

\* Every step keeps the flags.
LEMMA FlagsStep ==
  ASSUME TypeInv, [Next]_vars
  PROVE  Flags'
<1>0. Flags
  BY DEF TypeInv
<1> USE <1>0 DEF Flags
<1>1. ASSUME NEW p \in Publisher, Publishes(p) PROVE Flags'
  <2>1. UNCHANGED <<policyRefused, expired, lost>>
    BY <1>1, PublicationStep DEF TypeInv
  <2>2. UNCHANGED verdict \/ ends(p, FALSE) \/ ends(p, TRUE)
    BY <1>1, PublicationStep DEF TypeInv
  <2>3. verdict' \in BOOLEAN
    BY <2>2, Zenon DEF ends
  <2> QED
    BY <2>1, <2>3
<1>2. CASE Policy
  BY <1>2, Zenon DEF Policy, ends
<1>3. CASE SaveResult
  BY <1>3, Zenon DEF SaveResult
<1>4. CASE StartRound \/ Accept \/ Refund \/ Flag \/ Answer \/ Clear \/ Unlink \/ EndRound
  BY <1>4, Zenon DEF StartRound, Accept, Refund, Flag, Answer, Clear, Unlink, EndRound
<1>5. CASE SaveInflight \/ Remember \/ Record \/ Tell
  BY <1>5, Zenon DEF SaveInflight, Remember, Record, Tell
<1>6. CASE Delete \/ Start
  BY <1>6, Zenon DEF Delete, Start, Aborts
<1>7. CASE WriteFails
  <2>1. (lost \/ (pc \in {"record", "tell"} /\ outcome = "started")) \in BOOLEAN
    BY Zenon
  <2> QED
    BY <1>7, <2>1, Zenon DEF WriteFails
<1>8. CASE RestartBroker \/ Crash
  BY <1>8, Zenon DEF RestartBroker, Crash
<1>9. CASE HostStarts \/ HostDies
  BY <1>9, Zenon DEF HostStarts, HostDies
<1>10. ASSUME NEW r \in Req, SkipSeen(r) \/ Refuse(r) \/ NothingPending(r) \/ Reserve(r)
                               \/ Submit(r)
       PROVE  Flags'
  BY <1>10, Zenon DEF SkipSeen, Refuse, NothingPending, Reserve, Submit
<1>11. ASSUME NEW r \in Req, NEW k \in Attempt, HourPasses(r, k) PROVE Flags'
  <2>1. (expired \/ (inflight # None /\ inflight.req = r /\ inflight.attempt = k)) \in BOOLEAN
    BY Zenon
  <2> QED
    BY <1>11, <2>1, Zenon DEF HourPasses
<1>12. ASSUME NEW a \in Action, Rewrite(a) \/ Resolve(a) PROVE Flags'
  BY <1>12, Zenon DEF Rewrite, Resolve
<1>13. CASE UNCHANGED vars
  BY <1>13, Zenon DEF vars
<1> QED
  BY <1>1, <1>2, <1>3, <1>4, <1>5, <1>6, <1>7, <1>8, <1>9, <1>10, <1>11, <1>12, <1>13
     DEF Next, Worker, Broker, Others, Publisher

\* A publication that ends keeps the types of what it is about.
LEMMA EndsValues ==
  ASSUME NEW p \in Publisher, NEW ok, ends(p, ok), batch \in [Publisher -> 0..MaxSize],
         covered \in [Req -> 0..MaxSize], inflight \in Entry \cup {None}
  PROVE  batch' \in [Publisher -> 0..MaxSize] /\ covered' \in [Req -> 0..MaxSize]
<1>1. 0 \in 0..MaxSize /\ batch[p] \in 0..MaxSize
  BY ConstantsAssumption
<1>2. batch' = [batch EXCEPT ![p] = 0]
  BY Zenon DEF ends
<1>3. CASE covered' = covered
  BY <1>1, <1>2, <1>3
<1>4. CASE covered' # covered
  <2>1. inflight # None /\ covered' = [covered EXCEPT ![inflight.req] = batch[p]]
    BY <1>4, Zenon DEF ends
  <2>2. inflight.req \in Req
    BY <2>1 DEF Entry
  <2> QED
    BY <1>1, <1>2, <2>1, <2>2
<1> QED
  BY <1>3, <1>4

\* So does a request that is given up before its start.
LEMMA AbortsValues ==
  ASSUME Aborts, cur \in Req, result \in Result \cup {None}, faults \in 0..MaxFaults
  PROVE  result' \in Result \cup {None} /\ faults' \in 0..MaxFaults /\ cur' = None
         /\ outcome' = "none" /\ pc' = "idle"
<1>0. pc' = "idle" /\ cur' = None /\ outcome' = "none"
  BY Zenon DEF Aborts, handled
<1>1. CASE UNCHANGED <<result, faults>>
  BY <1>0, <1>1
<1>2. CASE fault /\ UNCHANGED result
  BY <1>0, <1>2, ConstantsAssumption DEF fault
<1>3. CASE result' = [req |-> cur, state |-> "failed", policy |-> FALSE] /\ faults' = faults
  BY <1>0, <1>3 DEF Result
<1> QED
  BY <1>1, <1>2, <1>3, Zenon DEF Aborts

\* Every step keeps the other types.
LEMMA ValuesStep ==
  ASSUME TypeInv, [Next]_vars
  PROVE  Values' /\ Places'
<1>0. /\ Flags /\ Values /\ Places /\ WorkerInv /\ size \in Action
      /\ at \in [Publisher -> Holding \cup {"off", "lock", "save"}]
      /\ "worker" \in Publisher /\ "host" \in Publisher
  BY DEF TypeInv, PublishInv, Typed, Publisher
<1>a. \A x \in Entry : x # None
  BY ConstantsAssumption
<1> USE <1>0, <1>a, ConstantsAssumption DEF Values, Places, Action
<1>1. ASSUME NEW p \in Publisher, Publishes(p) PROVE Values' /\ Places'
  <2>1. /\ UNCHANGED <<size, files, process, bounds, policyRefused, attempt, expired, lost>>
        /\ jsize' \in {jsize, batch[p], 0}
    BY <1>1, PublicationStep DEF TypeInv
  <2>2. batch' \in [Publisher -> 0..MaxSize] /\ covered' \in [Req -> 0..MaxSize]
    <3>1. CASE batch' \in {batch, [batch EXCEPT ![p] = size]} /\ UNCHANGED covered
      BY <3>1
    <3>2. CASE ends(p, FALSE) \/ ends(p, TRUE)
      BY <3>2, EndsValues
    <3> QED
      BY <1>1, <3>1, <3>2, PublicationStep DEF TypeInv
  <2>3. acted' \subseteq Stamp
    <3>1. CASE at[p] # "send" BY <1>1, <3>1, PublicationStep DEF TypeInv
    <3>2. CASE at[p] = "send"
      <4>1. PICK a \in Action : prepared = a
        BY <3>2 DEF TypeInv, PublishInv, Sending, prepared
      <4>2. Send(p)
        BY <1>1, <3>2
           DEF Publishes, Lock, Prepare, Verify, MarkPrepared, MarkApplied, Clean, Archive
      <4>3. acted' \in {acted, acted \cup {<<inflight.req, inflight.attempt, a>>}}
            /\ (p # "worker" => acted' = acted)
        BY <4>1, <4>2 DEF Send
      <4>4. p = "worker" => <<inflight.req, inflight.attempt, a>> \in Stamp
        BY <3>2 DEF WorkerInv, Stamp, Entry
      <4> QED
        BY <4>3, <4>4
    <3> QED
      BY <3>1, <3>2
  <2> QED
    BY <2>1, <2>2, <2>3
<1>2. CASE Policy
  <2>1. batch' \in [Publisher -> 0..MaxSize] /\ covered' \in [Req -> 0..MaxSize]
    <3>1. CASE UNCHANGED <<batch, covered>>
      BY <3>1
    <3>2. CASE ends("worker", FALSE)
      BY <3>2, EndsValues
    <3> QED
      BY <1>2, <3>1, <3>2, Zenon DEF Policy
  <2> QED
    BY <1>2, <2>1 DEF Policy
<1>3. CASE SaveResult
  <2>1. result' \in Result \cup {None}
    BY <1>3 DEF SaveResult, stateOf, WorkerInv, Entry, Result, Flags
  <2>2. pc \notin {"accept", "refund", "flag", "answer"}
    BY <1>3 DEF SaveResult, WorkerInv
  <2> QED
    BY <1>3, <2>1, <2>2 DEF SaveResult, fault
<1>4. CASE StartRound
  BY <1>4 DEF StartRound
<1>5. CASE Accept
  BY <1>5 DEF Accept, acceptedNow, Entry
<1>6. CASE Refund
  BY <1>6 DEF Refund
<1>7. CASE Flag
  BY <1>7 DEF Flag, Entry
<1>8. CASE Answer
  BY <1>8 DEF Answer, Entry, Result, Status
<1>9. CASE Clear \/ Unlink \/ EndRound
  BY <1>9 DEF Clear, Unlink, EndRound
<1>10. CASE SaveInflight
  <2>1. CASE pc' = "record"
    BY <1>10, <2>1 DEF SaveInflight, fault
  <2>2. CASE pc' # "record"
    <3> DEFINE reserved == {a \in Action : <<cur, attempt[cur], a>> \in budget}
    <3> DEFINE entry == [req |-> cur, attempt |-> attempt[cur], refunded |-> FALSE,
                        actions |-> reserved]
    <3>1. inflight' = entry
      BY <1>10, <2>2, Zenon DEF SaveInflight
    <3>2. attempt[cur] \in Attempt
      BY <1>10 DEF SaveInflight, WorkerInv
    <3>3. reserved \subseteq Action /\ cur \in Req
      BY <1>10 DEF SaveInflight
    <3> HIDE DEF reserved
    <3>4. entry \in Entry
      BY <3>2, <3>3 DEF Entry, Action
    <3> HIDE DEF entry
    <3> QED
      BY <1>10, <2>2, <3>1, <3>4 DEF SaveInflight
  <2> QED
    BY <2>1, <2>2
<1>11. CASE Remember
  BY <1>11 DEF Remember, fault
<1>12. CASE Record
  BY <1>12 DEF Record
<1>13. CASE Tell
  BY <1>13 DEF Tell, Status
<1>14. CASE Delete
  <2>1. CASE Aborts
    BY <1>14, <2>1, AbortsValues DEF Delete
  <2>2. CASE ~Aborts
    BY <1>14, <2>2 DEF Delete, handled
  <2> QED
    BY <2>1, <2>2
<1>15. CASE Start
  <2>1. CASE Aborts
    BY <1>15, <2>1, AbortsValues DEF Start
  <2>2. CASE ~Aborts
    BY <1>15, <2>2 DEF Start, handled
  <2> QED
    BY <2>1, <2>2
<1>16. CASE WriteFails
  BY <1>16 DEF WriteFails, handled, fault
<1>17. CASE Crash
  BY <1>17 DEF Crash, handled
<1>18. CASE RestartBroker
  <2>1. recovered \in Result \cup {None}
    BY DEF recovered, Entry, Result
  <2> QED
    BY <1>18, <2>1 DEF RestartBroker
<1>19. CASE HostStarts \/ HostDies
  BY <1>19 DEF HostStarts, HostDies
<1>20. ASSUME NEW r \in Req, SkipSeen(r) \/ Refuse(r) \/ NothingPending(r) \/ Submit(r)
       PROVE  Values' /\ Places'
  BY <1>20 DEF SkipSeen, Refuse, NothingPending, Submit, taken
<1>21. ASSUME NEW r \in Req, Reserve(r) PROVE Values' /\ Places'
  <2>1. budget' \subseteq Stamp
    BY <1>21 DEF Reserve, Stamp, open
  <2> QED
    BY <1>21, <2>1 DEF Reserve, taken
<1>22. ASSUME NEW r \in Req, NEW k \in Attempt, HourPasses(r, k) PROVE Values' /\ Places'
  <2>1. budget' \subseteq budget /\ acted' \subseteq acted BY <1>22 DEF HourPasses
  <2>2. UNCHANGED <<outside, publishers, outbox, journal, accepted, inflight, result, told,
                    process, bounds, attempt, covered, lost>>
    BY <1>22 DEF HourPasses
  <2>3. Values' BY <2>1, <2>2
  <2>4. inflight = None => ~expired' BY <1>22 DEF HourPasses
  <2>5. Places' BY <2>2, <2>4
  <2> QED BY <2>3, <2>5
<1>23. ASSUME NEW a \in Action, Rewrite(a) \/ Resolve(a) PROVE Values' /\ Places'
  BY <1>23 DEF Rewrite, Resolve
<1>24. CASE UNCHANGED vars
  BY <1>24 DEF vars
<1> QED
  BY <1>1, <1>2, <1>3, <1>4, <1>5, <1>6, <1>7, <1>8, <1>9, <1>10, <1>11, <1>12, <1>13, <1>14,
     <1>15, <1>16, <1>17, <1>18, <1>19, <1>20, <1>21, <1>22, <1>23, <1>24
     DEF Next, Worker, Broker, Others, Publisher

\* Every step keeps the types.
LEMMA TypeStep ==
  ASSUME TypeInv, [Next]_vars
  PROVE  TypeInv'
  BY PublishStep, WorkerStep, FlagsStep, ValuesStep DEF TypeInv

\* Every variable has its type, whatever publishes, fails, dies or is settled by a human.
THEOREM TypeOKAlways == Spec => []TypeOK
<1>1. TypeInv /\ [Next]_vars => TypeInv'
  BY TypeStep
<1> QED
  BY <1>1, TypeInit, TypeParts, PTL DEF Spec

-----------------------------------------------------------------------------
\* What `done` means, and that a request that was told its end stays ended.

\* The requests GitHub has every action of, of the proposal they were last published for.
Full == {r \in Req : \A a \in Action : a <= covered[r] => github[a] = 1}

\* The requests that were told how they ended.
Ended == {r \in Req : told[r] \cap {"done", "failed"} # {}}

\* A request that was told its end is known to the broker, and neither being started nor in
\* the thread.
EndedInv ==
  /\ Ended \subseteq journal \cup accepted
  /\ pc \in {"tell", "delete", "start"} => cur \in journal
  /\ pc \in {"refund", "flag", "answer", "clear"} => inflight.req \in accepted
  /\ Starting => cur \notin Ended /\ (pc # "save" => inflight.req = cur)
  /\ at["worker"] # "off" => inflight.req \notin Ended
  /\ pc \in {"record", "tell"} /\ outcome = "done" => inflight = None

\* Wherever a `done` is on its way, from the thread's verdict or from the check before the
\* start, GitHub has what it is about.
DoneInv ==
  /\ \A r \in Req : "done" \in told[r] => r \in Full
  /\ pc \in {"record", "tell"} /\ outcome = "done" => cur \in Full
  /\ result # None /\ result.state = "done" => result.req \in Full
  /\ at["worker"] = "save" /\ verdict => inflight.req \in Full

\* GitHub forgets nothing: what it has of a proposal it keeps.
LEMMA FullGrows ==
  ASSUME TypeInv, [Next]_vars
  PROVE  \A r \in Full : covered'[r] = covered[r] => r \in Full'
<1>1. TypeInv'
  BY TypeStep
<1>2. /\ github \in [Action -> 0..2] /\ github' \in [Action -> 0..2]
      /\ \A a \in Action : github'[a] <= 1
  BY <1>1, TypeParts DEF TypeInv, PublishInv, Typed, Known, TypeOK
<1>3. \A a \in Action : github[a] = 1 => github'[a] = 1
  <2>1. CASE github' = github
    BY <2>1
  <2>2. ASSUME NEW p \in Publisher, Send(p) PROVE github' \in {github, carriedOut(prepared)}
    BY <2>2, Zenon DEF Send
  <2>3. CASE github' = carriedOut(prepared)
    BY <1>2, <2>3 DEF carriedOut
  <2>4. github' = github \/ \E p \in Publisher : Send(p)
    BY Zenon
       DEF Next, Worker, Broker, Others, Publisher, vars, Publishes, Lock, Prepare, Policy,
           Verify, MarkPrepared, MarkApplied, Clean, Archive, SaveResult, StartRound, Accept,
           Refund, Flag, Answer, Clear, Unlink, EndRound, SkipSeen, Refuse, NothingPending,
           Reserve, SaveInflight, Remember, Record, Tell, Delete, Start, WriteFails, Crash,
           RestartBroker, Submit, Rewrite, HourPasses, HostStarts, HostDies, Resolve
  <2> QED
    BY <2>1, <2>2, <2>3, <2>4
<1> QED
  BY <1>3 DEF Full

\* Nobody was told an end but by a reply.
LEMMA EndedStays == told' = told => Ended' = Ended
  BY DEF Ended

\* Every step keeps an ended request ended.
LEMMA EndedStep ==
  ASSUME TypeInv, EndedInv, [Next]_vars
  PROVE  EndedInv'
<1>0. /\ WorkerInv /\ at \in [Publisher -> Holding \cup {"off", "lock", "save"}]
      /\ inflight \in Entry \cup {None} /\ Places /\ Ended \subseteq Req
      /\ "worker" \in Publisher /\ "host" \in Publisher /\ "worker" # "host"
  BY DEF TypeInv, PublishInv, Typed, Values, Publisher, Ended
<1> USE <1>0, EndedStays DEF EndedInv, WorkerInv, Places, Starting
<1>1. ASSUME NEW p \in Publisher, Publishes(p) PROVE EndedInv'
  <2>1. /\ at[p] \in Holding \cup {"lock"}
        /\ at' = [at EXCEPT ![p] = at'[p]]
        /\ UNCHANGED <<files, process>>
    <3>1. ends(p, FALSE) \/ ends(p, TRUE) => at' = [at EXCEPT ![p] = at'[p]]
      BY DEF ends, to
    <3> QED
      BY <1>1, <3>1, PublicationStep DEF TypeInv
  <2>2. at'["worker"] # "off" => at["worker"] # "off"
    BY <2>1 DEF Holding
  <2> QED
    BY <2>1, <2>2
<1>2. CASE Policy
  BY <1>2 DEF Policy
<1>3. CASE SaveResult
  BY <1>3 DEF SaveResult, to
<1>4. CASE StartRound \/ Unlink \/ EndRound \/ HostStarts \/ HostDies \/ RestartBroker
  BY <1>4 DEF StartRound, Unlink, EndRound, HostStarts, HostDies, RestartBroker, to
<1>5. CASE Accept
  BY <1>5 DEF Accept, acceptedNow
<1>6. CASE Refund \/ Flag \/ Clear
  BY <1>6 DEF Refund, Flag, Clear, Entry
<1>7. CASE Answer
  <2>1. Ended' \subseteq Ended \cup {inflight.req}
    BY <1>7, TypeParts DEF Answer, Ended, TypeInv, Values
  <2> QED
    BY <1>7, <2>1 DEF Answer
<1>8. CASE SaveInflight
  BY <1>8 DEF SaveInflight
<1>9. CASE Remember
  BY <1>9 DEF Remember
<1>10. CASE Record
  BY <1>10 DEF Record
<1>11. CASE Tell
  <2>1. /\ Ended' \subseteq Ended \cup {cur}
        /\ outcome # "done" => Ended' = Ended
    BY <1>11 DEF Tell, Ended, TypeInv, Values
  <2> QED
    BY <1>11, <2>1 DEF Tell
<1>12. CASE Delete
  BY <1>12 DEF Delete, Aborts, handled
<1>13. CASE Start
  BY <1>13 DEF Start, Aborts, handled, to
<1>14. CASE WriteFails \/ Crash
  BY <1>14 DEF WriteFails, Crash, handled, to
<1>15. ASSUME NEW r \in Req, SkipSeen(r) \/ Refuse(r) \/ NothingPending(r) \/ Reserve(r)
                               \/ Submit(r)
       PROVE  EndedInv'
  BY <1>15 DEF SkipSeen, Refuse, NothingPending, Reserve, Submit, taken, busy
<1>16. ASSUME NEW r \in Req, NEW k \in Attempt, HourPasses(r, k) PROVE EndedInv'
  BY <1>16 DEF HourPasses
<1>17. ASSUME NEW a \in Action, Rewrite(a) \/ Resolve(a) PROVE EndedInv'
  BY <1>17 DEF Rewrite, Resolve
<1>18. CASE UNCHANGED vars
  BY <1>18 DEF vars
<1> QED
  BY <1>1, <1>2, <1>3, <1>4, <1>5, <1>6, <1>7, <1>8, <1>9, <1>10, <1>11, <1>12, <1>13,
     <1>14, <1>15, <1>16, <1>17, <1>18 DEF Next, Worker, Broker, Others, Publisher

\* Every step keeps `done` true.
LEMMA DoneStep ==
  ASSUME TypeInv, EndedInv, DoneInv, [Next]_vars
  PROVE  DoneInv'
<1>0. /\ WorkerInv /\ at \in [Publisher -> Holding \cup {"off", "lock", "save"}]
      /\ inflight \in Entry \cup {None} /\ result \in Result \cup {None} /\ Places
      /\ told \in [Req -> SUBSET Status] /\ covered \in [Req -> 0..MaxSize]
      /\ Full \subseteq Req
      /\ "worker" \in Publisher /\ "host" \in Publisher /\ "worker" # "host"
  BY DEF TypeInv, PublishInv, Typed, Values, Publisher, Full
<1>a. covered' = covered => Full \subseteq Full'
  BY FullGrows DEF Full
<1>b. \A r \in Req : "done" \in told[r] => r \in Ended
  BY DEF Ended
<1>c. \A x \in Entry : x.req \in Req
  BY DEF Entry
<1>d. \A x \in Result : x.req \in Req
  BY DEF Result
<1> USE <1>0, <1>a, <1>b, <1>c, <1>d DEF DoneInv, EndedInv, WorkerInv, Places, Starting
\* The thread's verdict is what GitHub has when the manifest is gone.
<1>1. ASSUME NEW p \in Publisher, Publishes(p) PROVE DoneInv'
  <2>1. UNCHANGED <<size, files, process>> /\ at[p] \in Holding \cup {"lock"}
    BY <1>1, PublicationStep DEF TypeInv
  <2>2. CASE UNCHANGED <<verdict, covered>> /\ at' = [at EXCEPT ![p] = at'[p]]
             /\ at'[p] \in Holding
    BY <2>1, <2>2 DEF Holding
  <2>3. CASE (ends(p, FALSE) \/ ends(p, TRUE)) /\ p = "host"
    <3>1. UNCHANGED <<verdict, covered>> /\ at' = [at EXCEPT !["host"] = "off"]
      BY <2>3, Zenon DEF ends, to
    <3> QED
      BY <2>1, <3>1
  <2>4. CASE (ends(p, FALSE) \/ ends(p, TRUE)) /\ p = "worker"
    <3>1. inflight # None /\ at["worker"] # "off" /\ inflight.req \notin Ended
          /\ (result = None \/ result.req # inflight.req)
      BY <2>1, <2>4 DEF Holding
    <3>2. covered' = [covered EXCEPT ![inflight.req] = batch["worker"]]
      BY <2>4, <3>1, Zenon DEF ends
    <3>3. \A r \in Full \ {inflight.req} : r \in Full'
      BY <3>2, FullGrows DEF Full
    <3>4. verdict' => inflight.req \in Full'
      <4>1. CASE ends("worker", FALSE)
        BY <4>1, Zenon DEF ends
      <4>2. CASE ~ends("worker", FALSE)
        <5>1. at["worker"] = "archive"
          BY <1>1, <2>4, <4>2, PublicationStep DEF TypeInv, Holding, ends, to
        <5>2. ~present /\ batch["worker"] = size /\ github' = github
          BY <1>1, <2>4, <5>1, PublicationStep DEF TypeInv, PublishInv, Checked
        <5>3. covered'[inflight.req] = size
          BY <3>1, <3>2, <5>2
        <5>4. \A a \in Action : a <= size => github'[a] = 1
          BY <5>2 DEF TypeInv, PublishInv, Published
        <5> QED
          BY <3>1, <5>3, <5>4 DEF Full
      <4> QED
        BY <4>1, <4>2
    <3> QED
      BY <2>1, <3>1, <3>3, <3>4
  <2> QED
    BY <1>1, <2>2, <2>3, <2>4, PublicationStep DEF TypeInv, Publisher
<1>2. CASE Policy
  <2>1. CASE UNCHANGED <<verdict, covered>> /\ to("worker", "verify")
    BY <1>2, <2>1 DEF Policy, to
  <2>2. CASE ends("worker", FALSE)
    <3>1. covered' = [covered EXCEPT ![inflight.req] = batch["worker"]] /\ verdict' = FALSE
      BY <1>2, <2>2, Zenon DEF Policy, ends
    <3>2. \A r \in Full \ {inflight.req} : r \in Full'
      BY <3>1, FullGrows DEF Full
    <3> QED
      BY <1>2, <3>1, <3>2 DEF Policy
  <2> QED
    BY <1>2, <2>1, <2>2, Zenon DEF Policy
<1>3. CASE SaveResult
  BY <1>3 DEF SaveResult, stateOf, to
<1>4. CASE StartRound \/ Unlink \/ EndRound \/ HostStarts \/ HostDies
  BY <1>4 DEF StartRound, Unlink, EndRound, HostStarts, HostDies, to
<1>5. CASE Accept \/ Refund \/ Flag \/ Clear
  BY <1>5 DEF Accept, Refund, Flag, Clear
<1>6. CASE Answer
  BY <1>6 DEF Answer
<1>7. CASE SaveInflight \/ Remember \/ Record
  BY <1>7 DEF SaveInflight, Remember, Record
<1>8. CASE Tell
  BY <1>8 DEF Tell
<1>9. CASE Delete
  BY <1>9 DEF Delete, Aborts, handled
<1>10. CASE Start
  BY <1>10 DEF Start, Aborts, handled, to
<1>11. CASE WriteFails \/ Crash
  BY <1>11 DEF WriteFails, Crash, handled, to
<1>12. CASE RestartBroker
  BY <1>12 DEF RestartBroker, recovered
\* Nothing is left to publish of a request whose actions are all applied.
<1>13. ASSUME NEW r \in Req, NothingPending(r) PROVE DoneInv'
  <2>1. /\ inflight = None /\ result = None /\ at["worker"] = "off" /\ r \notin Ended
        /\ cur' = r /\ UNCHANGED <<at, verdict, told, inflight, result, github>>
        /\ covered' = [covered EXCEPT ![r] = size]
    BY <1>13 DEF NothingPending, taken, busy
  <2>2. ASSUME NEW a \in Action, a <= size PROVE github[a] = 1
    <3>1. present /\ open(size) \cup doubtful(size) = {}
      BY <1>13, Zenon DEF NothingPending
    <3>2. a \in 1..size /\ receipt[a] \in Receipt
      BY <2>2, ConstantsAssumption DEF TypeInv, PublishInv, Typed, Action
    <3>3. loaded(a) # "none" /\ loaded(a) # "uncertain"
      BY <3>1, <3>2, Zenon DEF open, doubtful
    <3>4. receipt[a] = "applied"
      BY <3>2, <3>3 DEF loaded, Receipt
    <3> QED
      BY <3>1, <3>4 DEF TypeInv, PublishInv, Known
  <2>3. r \in Full' /\ \A q \in Full \ {r} : q \in Full'
    BY <2>1, <2>2, FullGrows DEF Full
  <2> QED
    BY <2>1, <2>3
<1>14. ASSUME NEW r \in Req, SkipSeen(r) \/ Refuse(r) \/ Reserve(r) \/ Submit(r)
       PROVE  DoneInv'
  BY <1>14 DEF SkipSeen, Refuse, Reserve, Submit, taken
<1>15. ASSUME NEW r \in Req, NEW k \in Attempt, HourPasses(r, k) PROVE DoneInv'
  BY <1>15 DEF HourPasses
<1>16. ASSUME NEW a \in Action, Rewrite(a) \/ Resolve(a) PROVE DoneInv'
  BY <1>16 DEF Rewrite, Resolve
<1>17. CASE UNCHANGED vars
  BY <1>17 DEF vars
<1> QED
  BY <1>1, <1>2, <1>3, <1>4, <1>5, <1>6, <1>7, <1>8, <1>9, <1>10, <1>11, <1>12, <1>13,
     <1>14, <1>15, <1>16, <1>17 DEF Next, Worker, Broker, Others, Publisher

\* No request was told anything at first.
LEMMA DoneInit == Init => EndedInv /\ DoneInv
  BY DEF Init, EndedInv, DoneInv, Ended, Starting

\* A thread is started for a request that was not told its end.
LEMMA StartFresh ==
  ASSUME TypeInv, EndedInv, [Next]_vars, at["worker"] = "off", at'["worker"] = "lock"
  PROVE  cur \notin Ended
<1>1. ASSUME NEW p \in Publisher, Publishes(p) PROVE at'["worker"] # "lock"
  <2>1. at[p] \in Holding \cup {"lock"}
        /\ at \in [Publisher -> Holding \cup {"off", "lock", "save"}]
    BY <1>1, PublicationStep DEF TypeInv, PublishInv, Typed
  <2>2. CASE p = "worker"
    BY <2>1, <2>2 DEF Holding
  <2>3. CASE p = "host"
    <3>1. \E x : at' = [at EXCEPT !["host"] = x]
      BY <1>1, <2>3, PublicationStep DEF TypeInv, ends, to
    <3> QED
      BY <2>1, <3>1 DEF Publisher
  <2> QED
    BY <2>2, <2>3 DEF Publisher
<1>2. CASE HostStarts \/ HostDies
  BY <1>2 DEF HostStarts, HostDies, to, TypeInv, PublishInv, Typed, Publisher
<1>3. CASE Start
  BY <1>3 DEF Start, EndedInv, Starting
<1>4. at' = at \/ Policy \/ SaveResult \/ Start \/ Crash \/ HostStarts \/ HostDies
      \/ \E p \in Publisher : Publishes(p)
  BY Zenon
     DEF Next, Worker, Broker, Others, Publisher, vars, StartRound, Accept,
         Refund, Flag, Answer, Clear, Unlink, EndRound, SkipSeen, Refuse, NothingPending,
         Reserve, SaveInflight, Remember, Record, Tell, Delete, WriteFails,
         RestartBroker, Submit, Rewrite, HourPasses, Resolve
<1>5. ~Policy /\ ~SaveResult
  BY DEF Policy, SaveResult
<1>6. CASE Crash
  BY <1>6 DEF Crash, to, TypeInv, PublishInv, Typed, Publisher
<1> QED
  BY <1>1, <1>2, <1>3, <1>4, <1>5, <1>6

LEMMA EndedAlways == Spec => [](TypeInv /\ EndedInv /\ DoneInv)
<1>1. TypeInv /\ EndedInv /\ DoneInv /\ [Next]_vars => (TypeInv /\ EndedInv /\ DoneInv)'
  BY TypeStep, EndedStep, DoneStep
<1> QED
  BY <1>1, TypeInit, DoneInit, PTL DEF Spec

\* `done` means that GitHub has every action of the proposal the request was about.
THEOREM DoneMeansPublishedAlways == Spec => []DoneMeansPublished
<1>1. TypeInv /\ DoneInv => DoneMeansPublished
  BY ConstantsAssumption
     DEF DoneInv, DoneMeansPublished, Full, Action, TypeInv, Values
<1> QED
  BY <1>1, EndedAlways, PTL

\* A request that was told how it ended is never started afterwards.
THEOREM NeverRetriedAlways == Spec => NeverRetried
<1>1. TypeInv /\ EndedInv /\ [Next]_vars =>
        [\A r \in Req : at["worker"] = "off" /\ at'["worker"] = "lock" /\ cur = r =>
            told[r] \cap {"done", "failed"} = {}]_vars
  BY StartFresh DEF Ended
<1> QED
  BY <1>1, EndedAlways, PTL DEF Spec, NeverRetried

-----------------------------------------------------------------------------
\* The hourly cap.

Sent(r, k) == {a \in Action : <<r, k, a>> \in acted}
Reserved(r, k) == {a \in Action : <<r, k, a>> \in budget}

\* No reservation has more sent for it than it has reserved.
Balanced ==
  \A r \in Req, k \in Attempt : Cardinality(Sent(r, k)) <= Cardinality(Reserved(r, k))

\* The stamps are of reservations that were made.
Dated == \A s \in budget \cup acted : s[2] <= attempt[s[1]]

\* The reservations nothing was sent for, and the entries that name what they reserved.
Blank == {x \in Req \X Attempt : \A a \in Action : <<x[1], x[2], a>> \notin acted}
Whole == {e \in Entry : e.actions = Reserved(e.req, e.attempt)}

current == <<inflight.req, inflight.attempt>>

\* What the thread sent and what it may still send for its reservation.
charge == Sent(inflight.req, inflight.attempt)
            \cup {a \in 1..batch["worker"] : loaded(a) # "applied"}

\* The steps after the policy check.
Past == {"verify", "act", "send", "note", "clean", "archive"}

\* Past the policy the thread sends no more than was reserved, until then nothing. Nothing is
\* sent, for a reservation, before its request is in flight, after the policy refused it, and
\* of what the last hour has, when it is older than an hour.
CapInv ==
  /\ Cardinality(budget) <= Cap /\ Balanced /\ Dated
  /\ inflight # None => inflight.attempt <= attempt[inflight.req]
  /\ pc = "save" => <<cur, attempt[cur]>> \in Blank
  /\ (Starting /\ pc # "save") \/ at["worker"] \in {"lock", "prepare", "policy"} =>
       current \in Blank
  /\ (Starting /\ pc # "save") \/ at["worker"] # "off" => expired \/ inflight \in Whole
  /\ at["worker"] \notin {"off", "save"} => ~policyRefused
  /\ at["worker"] = "save" /\ policyRefused => current \in Blank
  /\ inflight # None /\ result # None /\ result.req = inflight.req /\ result.policy =>
       current \in Blank
  /\ at["worker"] \in Past =>
       expired \/ Cardinality(charge) <= Cardinality(inflight.actions)
  /\ inflight # None /\ expired => current \in Blank
  /\ pc = "refund" => current \in Blank

\* A set that is no larger than another can be numbered in it.
LEMMA Numbered ==
  ASSUME NEW S, NEW T, IsFiniteSet(S), IsFiniteSet(T), Cardinality(S) <= Cardinality(T)
  PROVE  \E f \in [S -> T] : \A x, y \in S : f[x] = f[y] => x = y
<1> DEFINE n == Cardinality(S)
<1> DEFINE m == Cardinality(T)
<1>1. n \in Nat /\ m \in Nat
  BY FS_CardinalityType
<1>2. PICK b \in Bijection(1..n, S) : TRUE
  BY FS_CardinalityType DEF ExistsBijection
<1>3. PICK c \in Bijection(1..m, T) : TRUE
  BY FS_CardinalityType DEF ExistsBijection
<1>4. b \in [1..n -> S] /\ \A x \in S : \E i \in 1..n : b[i] = x
  BY <1>2 DEF Bijection, Surjection
<1>5. c \in [1..m -> T] /\ \A i, j \in 1..m : c[i] = c[j] => i = j
  BY <1>3 DEF Bijection, Injection, IsInjective
<1> HIDE DEF n, m
<1>6. n <= m
  BY DEF n, m
<1> DEFINE number(x) == CHOOSE i \in 1..n : b[i] = x
<1>7. \A x \in S : number(x) \in 1..m /\ b[number(x)] = x
  BY <1>1, <1>4, <1>6
<1> HIDE DEF number
<1> DEFINE f == [x \in S |-> c[number(x)]]
<1>8. f \in [S -> T]
  BY <1>5, <1>7
<1>9. \A x, y \in S : f[x] = f[y] => x = y
  BY <1>5, <1>7
<1> QED
  BY <1>8, <1>9

\* There are finitely many stamps.
LEMMA StampFinite == IsFiniteSet(Stamp) /\ IsFiniteSet(Action)
<1>1. IsFiniteSet(Req) /\ IsFiniteSet(Attempt) /\ IsFiniteSet(Action)
  BY ConstantsAssumption, FS_Interval DEF Attempt, Action
<1> DEFINE pairs == (Req \X Attempt) \X Action
<1>2. IsFiniteSet(pairs)
  BY <1>1, FS_Product
<1> DEFINE flat == [x \in pairs |-> <<x[1][1], x[1][2], x[2]>>]
<1>3. \A s \in Stamp : \E x \in pairs : flat[x] = s
  <2>1. ASSUME NEW s \in Stamp PROVE \E x \in pairs : flat[x] = s
    <3>1. <<<<s[1], s[2]>>, s[3]>> \in pairs /\ s = <<s[1], s[2], s[3]>>
      BY DEF Stamp
    <3> QED
      BY <3>1
  <2> QED
    BY <2>1
<1>4. flat \in [pairs -> Stamp]
  BY DEF Stamp
<1>5. flat \in Surjection(pairs, Stamp)
  BY <1>3, <1>4 DEF Surjection
<1> QED
  BY <1>1, <1>2, <1>5, FS_Surjection

\* What was sent and what is reserved, of a reservation and of all, is finite.
LEMMA SentFinite ==
  ASSUME TypeInv
  PROVE  /\ IsFiniteSet(budget) /\ IsFiniteSet(acted)
         /\ \A r \in Req, k \in Attempt : IsFiniteSet(Sent(r, k)) /\ IsFiniteSet(Reserved(r, k))
<1>1. budget \in SUBSET Stamp /\ acted \in SUBSET Stamp
  BY DEF TypeInv, Values
<1>2. ASSUME NEW r \in Req, NEW k \in Attempt
      PROVE  Sent(r, k) \in SUBSET Action /\ Reserved(r, k) \in SUBSET Action
  BY DEF Sent, Reserved
<1> QED
  BY <1>1, <1>2, StampFinite, FS_Subset

\* When no reservation has more sent for it than it has reserved, all together have not.
LEMMA SentWithinBudget ==
  ASSUME TypeInv, Balanced
  PROVE  Cardinality(acted) <= Cardinality(budget)
<1> DEFINE faithful(r, k) ==
      {f \in [Sent(r, k) -> Reserved(r, k)] : \A x, y \in Sent(r, k) : f[x] = f[y] => x = y}
<1> DEFINE charged(r, k) == CHOOSE f \in faithful(r, k) : TRUE
<1>1. \A r \in Req, k \in Attempt : charged(r, k) \in faithful(r, k)
  <2>1. ASSUME NEW r \in Req, NEW k \in Attempt PROVE \E f \in faithful(r, k) : TRUE
    BY SentFinite, Numbered DEF Balanced
  <2> QED
    BY <2>1
<1> HIDE DEF charged
<1>2. ASSUME NEW r \in Req, NEW k \in Attempt
      PROVE  /\ charged(r, k) \in [Sent(r, k) -> Reserved(r, k)]
             /\ \A x, y \in Sent(r, k) : charged(r, k)[x] = charged(r, k)[y] => x = y
  BY <1>1
<1> DEFINE image(s) == <<s[1], s[2], charged(s[1], s[2])[s[3]]>>
<1> DEFINE g == [s \in acted |-> image(s)]
<1>3. ASSUME NEW s \in acted
      PROVE  s[1] \in Req /\ s[2] \in Attempt /\ s[3] \in Sent(s[1], s[2])
             /\ s = <<s[1], s[2], s[3]>>
  <2>1. s \in Stamp
    BY DEF TypeInv, Values
  <2> QED
    BY <2>1 DEF Stamp, Sent
<1>4. ASSUME NEW s \in acted PROVE image(s) \in budget
  <2>1. charged(s[1], s[2])[s[3]] \in Reserved(s[1], s[2])
    BY <1>2, <1>3
  <2> QED
    BY <2>1 DEF Reserved
<1>5. ASSUME NEW s \in acted, NEW t \in acted, image(s) = image(t) PROVE s = t
  <2>1. s[1] = t[1] /\ s[2] = t[2]
        /\ charged(s[1], s[2])[s[3]] = charged(t[1], t[2])[t[3]]
    BY <1>5
  <2>2. s[3] = t[3]
    BY <1>2, <1>3, <2>1
  <2> QED
    BY <1>3, <2>1, <2>2
<1> HIDE DEF image
<1>6. g \in Injection(acted, budget)
  BY <1>4, <1>5 DEF Injection, IsInjective
<1> QED
  BY <1>6, SentFinite, FS_Injection

\* What it takes for the parts to stay as they are.
LEMMA Steady ==
  /\ acted' = acted => Blank' = Blank
  /\ budget' = budget => Whole' = Whole
  /\ acted' = acted /\ budget' = budget => Balanced' = Balanced
  /\ acted' = acted /\ budget' = budget /\ attempt' = attempt => Dated' = Dated
  /\ inflight' = inflight /\ acted' = acted /\ batch' = batch /\ receipt' = receipt =>
       charge' = charge
  /\ inflight' = inflight => current' = current
  BY DEF current, Blank, Whole, Balanced, Dated, charge, Sent, Reserved, loaded

\* The proposal of the thread at send is the journal's, and one action of it is marked.
LEMMA Marked ==
  ASSUME TypeInv, at["worker"] \in {"send", "note"}
  PROVE  prepared \in 1..batch["worker"] /\ receipt[prepared] = "prepared"
<1> "worker" \in Publisher
  BY DEF Publisher
<1>1. PICK a \in Action :
        receipt[a] = "prepared" /\ \A b \in Action \ {a} : receipt[b] \in {"none", "applied"}
  BY DEF TypeInv, PublishInv, Sending
<1>2. prepared = a
  BY <1>1 DEF prepared
<1>3. a <= batch["worker"] /\ batch["worker"] \in Nat /\ a \in Nat /\ a >= 1
  BY <1>1, ConstantsAssumption DEF TypeInv, PublishInv, Typed, Known, Checked, Action
<1> QED
  BY <1>1, <1>2, <1>3

\* The thread sends only what it is charged for, and its charge never grows.
LEMMA ThreadCharged ==
  ASSUME TypeInv, Publishes("worker"), at["worker"] \in Past
  PROVE  /\ at'["worker"] \in Past \cup {"save"}
         /\ charge' \subseteq charge
         /\ acted \subseteq acted' /\ (expired => acted' = acted)
         /\ acted' \subseteq acted \cup {<<inflight.req, inflight.attempt, a>> : a \in charge}
<1> DEFINE left == {a \in 1..batch["worker"] : loaded(a) # "applied"}
<1>0. /\ at \in [Publisher -> Holding \cup {"off", "lock", "save"}]
      /\ batch \in [Publisher -> 0..MaxSize] /\ receipt \in [Action -> Receipt]
      /\ "worker" \in Publisher /\ inflight' = inflight /\ batch["worker"] \in 0..MaxSize
  BY PublicationStep DEF TypeInv, PublishInv, Typed, Values, Publisher
<1>1. ends("worker", FALSE) \/ ends("worker", TRUE) =>
        batch'["worker"] = 0 /\ at'["worker"] = "save"
  BY <1>0 DEF ends, to
<1>2. CASE at["worker"] # "send"
  <2>1. acted' = acted
    BY <1>2, PublicationStep DEF TypeInv, Publisher
  <2>2. CASE ends("worker", FALSE) \/ ends("worker", TRUE)
    <3>1. batch'["worker"] = 0
      BY <1>1, <2>2, Zenon
    <3>2. 1..0 = {}
      OBVIOUS
    <3>3. left' = {}
      BY <3>1, <3>2, Zenon
    <3> QED
      BY <1>0, <1>1, <2>1, <2>2, <3>3 DEF charge, Sent
  <2>3. CASE ~ends("worker", FALSE) /\ ~ends("worker", TRUE)
    <3>1. at'["worker"] \in Past /\ batch' = batch
      BY <1>0, <1>2, <2>3
         DEF Publishes, Past, Lock, Prepare, Verify, MarkPrepared, Send, MarkApplied, Clean,
             Archive, fails, to
    <3>2. ASSUME NEW a \in 1..batch["worker"], loaded(a)' # "applied"
          PROVE  loaded(a) # "applied"
      <4>1. receipt'[a] # "applied" => receipt[a] # "applied"
        <5>1. CASE receipt' = receipt
          BY <5>1
        <5>2. CASE MarkPrepared("worker")
          <6>1. \A b \in Action : first(batch["worker"], b) => receipt[b] # "applied"
            BY DEF first, open, loaded
          <6>2. CASE receipt' = receipt
            BY <6>2
          <6>3. CASE receipt' # receipt
            <7>1. PICK b \in Action : first(batch["worker"], b)
                                      /\ receipt' = [receipt EXCEPT ![b] = "prepared"]
              BY <5>2, <6>3, Zenon DEF MarkPrepared
            <7> QED
              BY <1>0, <6>1, <7>1
          <6> QED
            BY <6>2, <6>3
        <5>3. CASE MarkApplied("worker")
          <6>1. receipt' = [receipt EXCEPT ![prepared] = "applied"]
            BY <2>3, <5>3, Zenon DEF MarkApplied, fails
          <6> QED
            BY <1>0, <5>3, <6>1, Marked DEF MarkApplied, Action
        <5> QED
          BY <1>0, <1>2, <2>3, <5>1, <5>2, <5>3
             DEF Publishes, Past, Lock, Prepare, Verify, Send, Clean, Archive, fails
      <4> QED
        BY <3>2, <4>1 DEF loaded
    <3>3. left' \subseteq left
      BY <3>1, <3>2
    <3> QED
      BY <1>0, <2>1, <3>1, <3>3 DEF charge, Sent
  <2> QED
    BY <2>2, <2>3
<1>3. CASE at["worker"] = "send"
  <2>1. prepared \in left /\ prepared \in Action
    <3>1. prepared \in 1..batch["worker"] /\ receipt[prepared] = "prepared"
      BY <1>3, Marked
    <3>2. loaded(prepared) = "uncertain"
      BY <3>1 DEF loaded
    <3>3. prepared \in Action
      BY <1>0, <3>1, ConstantsAssumption DEF Action
    <3> QED
      BY <3>1, <3>2, <3>3
  <2>2. Send("worker")
    BY <1>3
       DEF Publishes, Lock, Prepare, Verify, MarkPrepared, MarkApplied, Clean, Archive
  <2>3. /\ acted' \in {acted, acted \cup {<<inflight.req, inflight.attempt, prepared>>}}
        /\ expired => acted' = acted
    BY <2>2, Zenon DEF Send
  <2>4. left' \subseteq left /\ at'["worker"] \in Past \cup {"save"}
    <3>1. CASE ends("worker", FALSE)
      BY <1>1, <3>1
    <3>2. CASE ~ends("worker", FALSE)
      <4>1. to("worker", "note") /\ UNCHANGED <<receipt, batch>>
        BY <2>2, <3>2, Zenon DEF Send, fails
      <4> QED
        BY <1>0, <4>1 DEF to, Past, loaded
    <3> QED
      BY <3>1, <3>2
  <2> QED
    BY <1>0, <2>1, <2>3, <2>4 DEF charge, Sent
<1> QED
  BY <1>2, <1>3

\* A thread that was refused nothing yet stays within the cap while it publishes.
LEMMA CapWhilePublished ==
  ASSUME TypeInv, CapInv, NEW p \in Publisher, Publishes(p)
  PROVE  CapInv'
<1>0. /\ WorkerInv /\ at \in [Publisher -> Holding \cup {"off", "lock", "save"}]
      /\ inflight \in Entry \cup {None}
      /\ "worker" \in Publisher /\ "host" \in Publisher /\ "worker" # "host"
      /\ at[p] \in Holding \cup {"lock"}
      /\ UNCHANGED <<files, process, policyRefused, attempt, expired>>
  BY PublicationStep DEF TypeInv, PublishInv, Typed, Values, Publisher
<1> USE <1>0, Steady DEF CapInv, WorkerInv, Starting
<1>1. CASE p = "host"
  <2>1. acted' = acted /\ at'["worker"] = at["worker"]
    <3>1. acted' = acted
      <4>1. CASE at["host"] # "send"
        BY <1>1, <4>1, PublicationStep DEF TypeInv
      <4>2. CASE at["host"] = "send"
        <5>1. Send("host")
          BY <1>1, <4>2
             DEF Publishes, Lock, Prepare, Verify, MarkPrepared, MarkApplied, Clean, Archive
        <5> QED
          BY <5>1, Zenon DEF Send
      <4> QED
        BY <4>1, <4>2
    <3>2. \E x : at' = [at EXCEPT !["host"] = x]
      BY <1>1, PublicationStep DEF TypeInv, ends, to
    <3> QED
      BY <3>1, <3>2
  <2>2. at["worker"] \notin Past
    <3>1. CASE at["host"] \in Holding
      BY <3>1 DEF TypeInv, PublishInv, Typed, Past, Holding
    <3>2. CASE at["host"] = "lock"
      <4>1. Lock("host")
        BY <1>1, <3>2 DEF Publishes, Prepare, Verify, MarkPrepared, Send, MarkApplied, Clean,
                          Archive
      <4> QED
        BY <4>1, ConstantsAssumption
           DEF Lock, TypeInv, PublishInv, Typed, Past, Holding
    <3> QED
      BY <1>1, <3>1, <3>2
  <2> QED
    BY <2>1, <2>2
<1>2. CASE p = "worker"
  <2>0. Publishes("worker") /\ at["worker"] # "off" /\ ~policyRefused /\ inflight \in Entry
        /\ ~Starting
    BY <1>2 DEF Holding
  <2>1. CASE at["worker"] \in {"lock", "prepare"}
    <3>1. acted' = acted /\ at'["worker"] \in {"prepare", "policy", "save"}
      <4>1. Lock("worker") \/ Prepare("worker")
        BY <1>2, <2>1 DEF Publishes, Verify, MarkPrepared, Send, MarkApplied, Clean, Archive
      <4> QED
        BY <2>1, <4>1 DEF Lock, Prepare, fails, ends, to
    <3> QED
      BY <2>0, <2>1, <3>1 DEF Past
  <2>2. CASE at["worker"] \in Past
    <3>1. /\ at'["worker"] \in Past \cup {"save"} /\ charge' \subseteq charge
          /\ acted \subseteq acted' /\ (expired => acted' = acted)
          /\ acted' \subseteq acted \cup {<<inflight.req, inflight.attempt, a>> : a \in charge}
      BY <2>0, <2>2, ThreadCharged
    <3>2. inflight.req \in Req /\ inflight.attempt \in Attempt
          /\ inflight.actions \subseteq Action
          /\ inflight.actions \in SUBSET Action
      BY <2>0 DEF Entry
    <3>3. charge \in SUBSET Action
      BY ConstantsAssumption DEF charge, Sent, Action, TypeInv, Values
    <3>4. /\ IsFiniteSet(charge) /\ IsFiniteSet(charge')
          /\ Cardinality(charge') <= Cardinality(charge)
          /\ Cardinality(charge) \in Nat /\ Cardinality(charge') \in Nat
          /\ Cardinality(inflight.actions) \in Nat
      BY <3>1, <3>2, <3>3, StampFinite, FS_Subset, FS_CardinalityType
    <3>5. Dated'
      <4>1. inflight.attempt <= attempt[inflight.req]
        BY <2>0, ConstantsAssumption
      <4> QED
        BY <3>1, <4>1 DEF Dated
    <3>6. Balanced'
      <4>1. CASE acted' = acted
        BY <4>1
      <4>2. CASE acted' # acted
        <5>1. ~expired /\ inflight \in Whole
              /\ Cardinality(charge) <= Cardinality(inflight.actions)
          BY <2>0, <2>2, <3>1, <4>2
        <5>2. ASSUME NEW r \in Req, NEW k \in Attempt
              PROVE  Cardinality(Sent(r, k)') <= Cardinality(Reserved(r, k)')
          <6>1. CASE r = inflight.req /\ k = inflight.attempt
            <7>1. Sent(r, k)' \subseteq charge
              BY <3>1, <6>1 DEF Sent, charge
            <7>2. Reserved(r, k)' = inflight.actions
              BY <5>1, <6>1 DEF Whole, Reserved
            <7>3. Cardinality(Sent(r, k)') <= Cardinality(charge)
                  /\ Cardinality(Sent(r, k)') \in Nat
              BY <3>4, <7>1, FS_Subset, FS_CardinalityType
            <7> QED
              BY <3>4, <5>1, <7>2, <7>3
          <6>2. CASE ~(r = inflight.req /\ k = inflight.attempt)
            <7>1. Sent(r, k)' = Sent(r, k) /\ Reserved(r, k)' = Reserved(r, k)
              BY <3>1, <6>2 DEF Sent, Reserved
            <7> QED
              BY <7>1 DEF Balanced
          <6> QED
            BY <6>1, <6>2
        <5> QED
          BY <5>2 DEF Balanced
      <4> QED
        BY <4>1, <4>2
    <3>7. expired \/ Cardinality(charge') <= Cardinality(inflight.actions)
      BY <2>2, <3>4
    <3>8. expired => Blank' = Blank
      BY <3>1
    <3> QED
      BY <2>0, <2>2, <3>1, <3>5, <3>6, <3>7, <3>8 DEF Past
  <2>3. at["worker"] # "policy"
    BY <1>2 DEF Publishes, Lock, Prepare, Verify, MarkPrepared, Send, MarkApplied, Clean,
                Archive
  <2> QED
    BY <1>2, <2>1, <2>2, <2>3 DEF Past, Holding
<1> QED
  BY <1>1, <1>2 DEF Publisher

\* Every step keeps the cap.
LEMMA CapStep ==
  ASSUME TypeInv, CapInv, [Next]_vars
  PROVE  CapInv'
<1>0. /\ WorkerInv /\ at \in [Publisher -> Holding \cup {"off", "lock", "save"}]
      /\ inflight \in Entry \cup {None} /\ Places /\ Flags
      /\ attempt \in [Req -> Attempt \cup {0}] /\ budget \subseteq Stamp
      /\ batch \in [Publisher -> 0..MaxSize]
      /\ Attempt \subseteq Nat
      /\ "worker" \in Publisher /\ "host" \in Publisher /\ "worker" # "host"
  BY ConstantsAssumption DEF TypeInv, PublishInv, Typed, Values, Publisher, Attempt
<1>a. \A x \in Entry : x # None
  BY ConstantsAssumption
<1>b. ASSUME NEW q \in Req PROVE attempt[q] \in Nat
  <2>1. attempt[q] \in Attempt \cup {0}
    BY DEF TypeInv, Values
  <2>2. 0 \in Nat /\ \A k \in Attempt : k \in Nat
    BY ConstantsAssumption DEF Attempt
  <2> QED
    BY <2>1, <2>2, Zenon
<1> USE <1>0, <1>a, Steady DEF CapInv, WorkerInv, Starting, Places, Past
<1>1. ASSUME NEW p \in Publisher, Publishes(p) PROVE CapInv'
  BY <1>1, CapWhilePublished
\* Nothing was sent when the policy is checked, and no more is left than was reserved.
<1>2. CASE Policy
  <2>1. current \in Blank /\ inflight \in Entry /\ at["worker"] = "policy"
        /\ UNCHANGED <<inflight, acted, receipt, expired, budget, attempt, result, process>>
    BY <1>2 DEF Policy
  <2>2. CASE ends("worker", FALSE) /\ policyRefused' = TRUE
    <3>1. at'["worker"] = "save"
      BY <2>2 DEF ends, to
    <3> QED
      BY <1>2, <2>1, <3>1
  <2>3. CASE to("worker", "verify") /\ UNCHANGED <<batch, policyRefused>>
             /\ Cardinality({a \in 1..batch["worker"] : loaded(a) # "applied"})
                  <= Cardinality(inflight.actions)
    <3>1. charge = {a \in 1..batch["worker"] : loaded(a) # "applied"}
      <4>1. Sent(inflight.req, inflight.attempt) = {}
        BY <2>1 DEF Blank, Sent, current
      <4> QED
        BY <4>1, Zenon DEF charge
    <3>2. Cardinality(charge') <= Cardinality(inflight.actions)
      BY <2>1, <2>3, <3>1
    <3> QED
      BY <1>2, <2>1, <2>3, <3>2 DEF to
  <2> QED
    BY <1>2, <2>2, <2>3, Zenon DEF Policy
<1>3. CASE SaveResult
  BY <1>3 DEF SaveResult, to
<1>4. CASE StartRound
  BY <1>4 DEF StartRound
<1>5. CASE Accept
  BY <1>5 DEF Accept, refundDue
\* What is refunded was not used.
<1>6. CASE Refund
  <2>1. /\ pc = "refund" /\ current \in Blank /\ at["worker"] = "off" /\ ~Starting
        /\ UNCHANGED <<at, inflight, acted, attempt, result, expired, policyRefused, cur>>
        /\ pc' = "flag"
    BY <1>6 DEF Refund
  <2>2. budget' \in SUBSET budget
    BY <1>6 DEF Refund
  <2>3. Cardinality(budget') <= Cap
    BY <2>2, SentFinite, FS_Subset, FS_CardinalityType, ConstantsAssumption
  <2>4. ASSUME NEW r \in Req, NEW k \in Attempt
        PROVE  Cardinality(Sent(r, k)') <= Cardinality(Reserved(r, k)')
    <3>1. Sent(r, k)' = Sent(r, k)
      BY <2>1 DEF Sent
    <3>2. CASE r = inflight.req /\ k = inflight.attempt
      <4>1. Sent(r, k) = {}
        BY <2>1, <3>2 DEF Blank, current, Sent
      <4>2. Reserved(r, k)' \in SUBSET Action
        BY DEF Reserved
      <4>3. Cardinality(Reserved(r, k)') \in Nat
        BY <4>2, StampFinite, FS_Subset, FS_CardinalityType
      <4> QED
        BY <3>1, <4>1, <4>3, FS_EmptySet
    <3>3. CASE ~(r = inflight.req /\ k = inflight.attempt)
      <4>1. Reserved(r, k)' = Reserved(r, k)
        BY <1>6, <3>3 DEF Refund, Reserved
      <4> QED
        BY <3>1, <4>1 DEF Balanced
    <3> QED
      BY <3>2, <3>3
  <2>5. Balanced' /\ Dated'
    BY <2>1, <2>2, <2>4 DEF Balanced, Dated
  <2> QED
    BY <2>1, <2>3, <2>5
<1>7. CASE Flag
  <2>1. inflight'.req = inflight.req /\ inflight'.attempt = inflight.attempt
        /\ current' = current
    BY <1>7 DEF Flag, Entry, current
  <2> QED
    BY <1>7, <2>1 DEF Flag
<1>8. CASE Answer
  BY <1>8 DEF Answer
<1>9. CASE Clear
  BY <1>9 DEF Clear
<1>10. CASE Unlink
  BY <1>10 DEF Unlink
<1>21. CASE EndRound
  BY <1>21 DEF EndRound
<1>11. CASE SaveInflight
  <2>1. CASE pc' = "record"
    BY <1>11, <2>1 DEF SaveInflight
  <2>2. CASE pc' # "record"
    <3> DEFINE reserved == {a \in Action : <<cur, attempt[cur], a>> \in budget}
    <3> DEFINE entry == [req |-> cur, attempt |-> attempt[cur], refunded |-> FALSE,
                        actions |-> reserved]
    <3>1. inflight' = entry /\ pc' = "remember" /\ outcome' = outcome
      BY <1>11, <2>2, Zenon DEF SaveInflight
    <3>2. attempt[cur] \in Attempt /\ cur \in Req
      BY <1>11 DEF SaveInflight
    <3>3. reserved \subseteq Action /\ reserved = Reserved(cur, attempt[cur])
      BY DEF Reserved
    <3> HIDE DEF reserved
    <3>4. entry \in Entry /\ entry.req = cur /\ entry.attempt = attempt[cur]
          /\ entry.actions = Reserved(cur, attempt[cur])
      BY <3>2, <3>3 DEF Entry
    <3> HIDE DEF entry
    <3>5. entry \in Whole
      BY <3>4 DEF Whole
    <3>6. current' = <<cur, attempt[cur]>>
      BY <3>1, <3>4 DEF current
    <3>7. /\ at["worker"] = "off" /\ result = None /\ ~expired
          /\ <<cur, attempt[cur]>> \in Blank
          /\ UNCHANGED <<at, result, expired, acted, budget, attempt, cur, policyRefused>>
      BY <1>11 DEF SaveInflight
    <3>8. Whole' = Whole /\ Blank' = Blank /\ Balanced' /\ Dated'
          /\ Cardinality(budget') <= Cap
      BY <3>7
    <3>9. inflight'.attempt <= attempt'[inflight'.req]
      <4>1. inflight'.attempt = attempt'[inflight'.req] /\ inflight'.attempt \in Nat
        BY <3>1, <3>2, <3>4, <3>7
      <4> QED
        BY <4>1
    <3> QED
      BY <3>1, <3>5, <3>6, <3>7, <3>8, <3>9
  <2> QED
    BY <2>1, <2>2
<1>12. CASE Remember
  BY <1>12 DEF Remember
<1>13. CASE Record
  BY <1>13 DEF Record
<1>22. CASE Tell
  BY <1>22 DEF Tell
<1>14. CASE Delete
  <2>1. CASE Aborts
    <3>1. /\ pc' = "idle" /\ result' \in
                               {result, [req |-> cur, state |-> "failed", policy |-> FALSE]}
          /\ ~result'.policy \/ result' = result
      BY <2>1 DEF Aborts
    <3> QED
      BY <1>14, <3>1 DEF Delete
  <2>2. CASE ~Aborts
    BY <1>14, <2>2 DEF Delete, handled
  <2> QED
    BY <2>1, <2>2
<1>15. CASE Start
  <2>1. CASE Aborts
    <3>1. /\ pc' = "idle" /\ result' \in
                               {result, [req |-> cur, state |-> "failed", policy |-> FALSE]}
          /\ ~result'.policy \/ result' = result
      BY <2>1 DEF Aborts
    <3> QED
      BY <1>15, <2>1, <3>1 DEF Start
  <2>2. CASE ~Aborts
    <3>1. at'["worker"] = "lock" /\ pc' = "read" /\ policyRefused' = FALSE
      BY <1>15, <2>2 DEF Start, to
    <3> QED
      BY <1>15, <2>2, <3>1 DEF Start
  <2> QED
    BY <2>1, <2>2
<1>16. CASE WriteFails
  BY <1>16 DEF WriteFails, handled
<1>17. CASE Crash
  BY <1>17 DEF Crash, handled, to
<1>18. CASE RestartBroker
  <2>1. recovered = result \/ ~recovered.policy
    BY DEF recovered
  <2> QED
    BY <1>18, <2>1 DEF RestartBroker
<1>19. CASE HostStarts \/ HostDies
  <2>1. at'["worker"] = at["worker"] /\ batch'["worker"] = batch["worker"]
    BY <1>19 DEF HostStarts, HostDies, to
  <2>2. charge' = charge
    BY <1>19, <2>1 DEF HostStarts, HostDies, charge, Sent, loaded
  <2>3. /\ UNCHANGED <<acted, budget, attempt, inflight, result, expired, policyRefused>>
        /\ UNCHANGED <<pc, cur, outcome>>
    BY <1>19 DEF HostStarts, HostDies
  <2> QED
    BY <2>1, <2>2, <2>3
<1>20. ASSUME NEW r \in Req, SkipSeen(r) PROVE CapInv'
  BY <1>20 DEF SkipSeen
<1>30. ASSUME NEW r \in Req, Submit(r) PROVE CapInv'
  BY <1>30 DEF Submit
<1>26. ASSUME NEW r \in Req, Refuse(r) PROVE CapInv'
  BY <1>26 DEF Refuse, taken
<1>27. ASSUME NEW r \in Req, NothingPending(r) PROVE CapInv'
  BY <1>27 DEF NothingPending, taken, busy
\* A new reservation fits under the cap, and nothing was sent for it.
<1>28. ASSUME NEW r \in Req, Reserve(r) PROVE CapInv'
  <2> DEFINE k == attempt[r] + 1
  <2> DEFINE stamps == {<<r, k, a>> : a \in open(size)}
  <2>1. /\ pc' = "save" /\ cur' = r /\ at["worker"] = "off" /\ inflight = None /\ result = None
        /\ k \in Attempt /\ budget' = budget \cup stamps
        /\ Cardinality(budget) + Cardinality(stamps) <= Cap
        /\ attempt' = [attempt EXCEPT ![r] = k]
        /\ UNCHANGED <<at, inflight, acted, result, expired, policyRefused>>
    BY <1>28, Zenon DEF Reserve, taken, busy
  <2>0. attempt[r] \in Nat /\ k \in Nat /\ k = attempt[r] + 1
    BY <1>b
  <2>7. attempt'[r] = k /\ \A q \in Req \ {r} : attempt'[q] = attempt[q]
    <3> HIDE DEF k, stamps
    <3> QED
      BY <2>1
  <2>2. stamps \in SUBSET Stamp
    BY <2>1, ConstantsAssumption DEF Stamp, open, TypeInv, PublishInv, Typed, Action
  <2>3. IsFiniteSet(stamps) /\ IsFiniteSet(budget) /\ IsFiniteSet(budget')
        /\ Cardinality(budget') <= Cap
    <3>1. IsFiniteSet(stamps) /\ IsFiniteSet(budget)
      BY <2>2, StampFinite, SentFinite, FS_Subset
    <3> HIDE DEF stamps
    <3>2. /\ Cardinality(budget \cup stamps) =
               Cardinality(budget) + Cardinality(stamps) - Cardinality(budget \cap stamps)
          /\ IsFiniteSet(budget \cup stamps)
      BY <3>1, FS_Union
    <3>3. /\ Cardinality(budget) \in Nat /\ Cardinality(stamps) \in Nat
          /\ Cardinality(budget \cap stamps) \in Nat
      BY <3>1, FS_Intersection, FS_CardinalityType
    <3> QED
      BY <2>1, <3>1, <3>2, <3>3, ConstantsAssumption
  <2>4. Dated'
    <3>1. \A s \in budget \cup acted : s[1] \in Req /\ s[2] \in Nat /\ s[2] <= attempt[s[1]]
      BY DEF Dated, TypeInv, Values, Stamp
    <3>2. \A s \in stamps : s[1] = r /\ s[2] = k
      OBVIOUS
    <3> HIDE DEF stamps, k
    <3>4. \A q \in Req : attempt[q] \in Nat /\ attempt'[q] \in Nat /\ attempt[q] <= attempt'[q]
      <4>1. ASSUME NEW q \in Req, q # r
            PROVE  attempt[q] \in Nat /\ attempt'[q] \in Nat /\ attempt[q] <= attempt'[q]
        BY <1>b, <2>7, <4>1
      <4>2. attempt'[r] \in Nat /\ attempt[r] <= attempt'[r]
        BY <2>0, <2>7
      <4> QED
        BY <2>0, <4>1, <4>2
    <3>5. ASSUME NEW s \in budget \cup acted PROVE s[2] <= attempt'[s[1]]
      BY <3>1, <3>4
    <3>6. ASSUME NEW s \in stamps PROVE s[2] <= attempt'[s[1]]
      BY <2>0, <2>7, <3>2
    <3> QED
      BY <2>1, <3>5, <3>6 DEF Dated
  <2>5. <<r, k>> \in Blank
    <3>1. ASSUME NEW a \in Action, <<r, k, a>> \in acted PROVE FALSE
      <4>1. k <= attempt[r]
        BY <3>1 DEF Dated
      <4> QED
        BY <2>0, <4>1
    <3> QED
      BY <2>1, <3>1 DEF Blank
  <2>6. Balanced'
    <3>1. ASSUME NEW q \in Req, NEW j \in Attempt
          PROVE  Cardinality(Sent(q, j)') <= Cardinality(Reserved(q, j)')
      <4>1. Sent(q, j)' = Sent(q, j)
        BY <2>1 DEF Sent
      <4>2. Reserved(q, j) \in SUBSET (Reserved(q, j)') /\ Reserved(q, j)' \in SUBSET Action
        BY <2>1 DEF Reserved
      <4>3. /\ IsFiniteSet(Reserved(q, j)') /\ IsFiniteSet(Sent(q, j))
            /\ IsFiniteSet(Reserved(q, j))
        BY <4>2, StampFinite, SentFinite, FS_Subset
      <4>4. /\ Cardinality(Reserved(q, j)) <= Cardinality(Reserved(q, j)')
            /\ Cardinality(Reserved(q, j)) \in Nat /\ Cardinality(Reserved(q, j)') \in Nat
            /\ Cardinality(Sent(q, j)) \in Nat
        BY <4>2, <4>3, FS_Subset, FS_CardinalityType
      <4> QED
        BY <4>1, <4>4 DEF Balanced
    <3> QED
      BY <3>1 DEF Balanced
  <2> HIDE DEF k, stamps
  <2> QED
    BY <2>1, <2>3, <2>4, <2>5, <2>6, <2>7
\* What is an hour old leaves the budget and what is counted against it together.
<1>29. ASSUME NEW r \in Req, NEW k \in Attempt, HourPasses(r, k) PROVE CapInv'
  <2> DEFINE old == {r} \X {k} \X Action
  <2>1. /\ budget' = budget \ old /\ acted' = acted \ old
        /\ expired' = (expired \/ (inflight # None /\ inflight.req = r /\ inflight.attempt = k))
        /\ UNCHANGED <<at, batch, receipt, inflight, result, pc, cur, outcome, attempt>>
        /\ policyRefused' = policyRefused
    BY <1>29, Zenon DEF HourPasses
  <2>2. Blank \subseteq Blank' /\ <<r, k>> \in Blank'
    BY <2>1 DEF Blank
  <2>3. Cardinality(budget') <= Cap
    <3>1. budget' \in SUBSET budget
      BY <2>1
    <3> QED
      BY <3>1, SentFinite, FS_Subset, FS_CardinalityType, ConstantsAssumption
  <2>4. Dated'
    BY <2>1 DEF Dated
  <2>5. Balanced'
    <3>1. ASSUME NEW q \in Req, NEW j \in Attempt
          PROVE  Cardinality(Sent(q, j)') <= Cardinality(Reserved(q, j)')
      <4>1. CASE q = r /\ j = k
        <5>1. Sent(q, j)' = {} /\ Reserved(q, j)' = {}
          BY <2>1, <4>1 DEF Sent, Reserved
        <5> QED
          BY <5>1, FS_EmptySet
      <4>2. CASE ~(q = r /\ j = k)
        <5>1. Sent(q, j)' = Sent(q, j) /\ Reserved(q, j)' = Reserved(q, j)
          BY <2>1, <4>2 DEF Sent, Reserved
        <5> QED
          BY <5>1 DEF Balanced
      <4> QED
        BY <4>1, <4>2
    <3> QED
      BY <3>1 DEF Balanced
  <2>6. expired' \/ (inflight \in Whole => inflight \in Whole')
    <3>1. CASE inflight \in Whole /\ ~(inflight.req = r /\ inflight.attempt = k)
      <4>1. Reserved(inflight.req, inflight.attempt)' = Reserved(inflight.req, inflight.attempt)
        BY <2>1, <3>1 DEF Reserved, Whole, Entry
      <4> QED
        BY <2>1, <3>1, <4>1 DEF Whole, Reserved
    <3> QED
      BY <2>1, <3>1 DEF Whole
  <2>7. at["worker"] \in Past => expired' \/ Cardinality(charge') <= Cardinality(inflight.actions)
    <3>1. charge' \subseteq charge
      BY <2>1 DEF charge, Sent, loaded
    <3>2. charge \in SUBSET Action
      BY ConstantsAssumption DEF charge, Sent, Action
    <3>3. charge \in SUBSET Action /\ charge' \in SUBSET charge
      BY <3>1, <3>2
    <3>4. /\ IsFiniteSet(charge) /\ Cardinality(charge') <= Cardinality(charge)
          /\ Cardinality(charge) \in Nat /\ Cardinality(charge') \in Nat
      BY <3>3, StampFinite, FS_Subset, FS_CardinalityType
    <3>5. ASSUME at["worker"] \in Past PROVE Cardinality(inflight.actions) \in Nat
      <4>1. inflight \in Entry
        BY <3>5
      <4>2. inflight.actions \in SUBSET Action
        BY <4>1 DEF Entry
      <4> QED
        BY <4>2, StampFinite, FS_Subset, FS_CardinalityType
    <3>6. ASSUME at["worker"] \in Past, ~expired
          PROVE  Cardinality(charge') <= Cardinality(inflight.actions)
      <4>1. Cardinality(charge) <= Cardinality(inflight.actions)
        BY <3>6
      <4> HIDE DEF CapInv
      <4> QED
        BY <3>4, <3>5, <3>6, <4>1
    <3> QED
      BY <2>1, <3>6, Zenon
  <2>8. expired' => expired \/ (inflight # None /\ current = <<r, k>>)
    BY <2>1 DEF current
  <2> HIDE DEF old
  <2> QED
    BY <2>1, <2>2, <2>3, <2>4, <2>5, <2>6, <2>7, <2>8
<1>23. ASSUME NEW a \in Action, Rewrite(a) PROVE CapInv'
  BY <1>23 DEF Rewrite
<1>24. ASSUME NEW a \in Action, Resolve(a) PROVE CapInv'
  <2>1. at["worker"] \notin Past
    BY <1>24, ConstantsAssumption DEF Resolve, TypeInv, PublishInv, Typed, Holding
  <2> QED
    BY <1>24, <2>1 DEF Resolve
<1>25. CASE UNCHANGED vars
  BY <1>25 DEF vars
<1> QED
  BY <1>1, <1>2, <1>3, <1>4, <1>5, <1>6, <1>7, <1>8, <1>9, <1>10, <1>11, <1>12, <1>13,
     <1>14, <1>15, <1>16, <1>17, <1>18, <1>19, <1>20, <1>21, <1>22, <1>23, <1>24, <1>25,
     <1>26, <1>27, <1>28, <1>29, <1>30, Zenon DEF Next, Worker, Broker, Others, Publisher

\* Nothing is reserved or sent at first.
LEMMA CapInit == Init => CapInv
<1> SUFFICES ASSUME Init PROVE CapInv
  OBVIOUS
<1>1. Cardinality(budget) <= Cap
  BY ConstantsAssumption, FS_EmptySet DEF Init
<1>2. \A r \in Req, k \in Attempt : Sent(r, k) = {} /\ Reserved(r, k) = {}
  BY DEF Init, Sent, Reserved
<1>3. Balanced /\ Dated
  BY <1>2, FS_EmptySet DEF Balanced, Dated, Init
<1> QED
  BY <1>1, <1>3 DEF Init, CapInv, Starting, Publisher, Past

\* What the broker sent to GitHub for requests it accepted within the hour is never more
\* than the grant's cap, across deaths, failed writes, refunds and expiry.
THEOREM CapHeldAlways == Spec => []CapHeld
<1>1. TypeInv /\ CapInv /\ [Next]_vars => (TypeInv /\ CapInv)'
  BY TypeStep, CapStep
<1>2. TypeInv /\ CapInv => CapHeld
  <2> SUFFICES ASSUME TypeInv, CapInv PROVE CapHeld
    OBVIOUS
  <2>1. Cardinality(acted) \in Nat /\ Cardinality(budget) \in Nat
    BY SentFinite, FS_CardinalityType
  <2>2. Cardinality(acted) <= Cardinality(budget) /\ Cardinality(budget) <= Cap
    BY SentWithinBudget DEF CapInv
  <2> QED
    BY <2>1, <2>2, ConstantsAssumption DEF CapHeld
<1> QED
  BY <1>1, <1>2, TypeInit, CapInit, PTL DEF Spec
================================================================================
