------------------------------ MODULE RequestLine ------------------------------
(***************************************************************************)
(* What the broker promises an orchestrator about its spawn and restart    *)
(* requests: each starts at most once or is refused for good, those that   *)
(* find no slot wait in one line per orchestrator, the line is served from *)
(* the front, and nobody starts past it. A death of the broker loses only  *)
(* what it had taken from a line or was about to answer, and excuses the   *)
(* one request it was handling.                                            *)
(*                                                                         *)
(* Code: orchestration/actions.py (handle_spawn: "A non-empty queue goes   *)
(* first", drain_queue, drop_queue), orchestration/broker.py (_handle_raw, *)
(* _settle_queue).                                                         *)
(***************************************************************************)
EXTENDS Sequences

CONSTANTS Orch, Req, Who

VARIABLES
  line,      \* line[o]: the requests of o that wait, the next one first
  standing   \* standing[r]: "open", then one of "waiting", "next", "declined", "started",
             \* "refused" and "lost", or "excused"

promise == <<line, standing>>

\* Nobody is about to start.
nobodyNext == \A r \in Req : standing[r] # "next"

\* Only r's standing changes.
becomes(r, s) == standing' = [standing EXCEPT ![r] = s]

Init == line = [o \in Orch |-> <<>>] /\ standing = [r \in Req |-> "open"]

\* A new request waits behind all others of its orchestrator.
Wait(r) ==
  /\ line' = [line EXCEPT ![Who[r]] = Append(@, r)]
  /\ \A i \in DOMAIN line[Who[r]] : line[Who[r]][i] # r
  /\ \/ standing[r] = "open" /\ becomes(r, "waiting")
     \/ standing[r] = "excused" /\ UNCHANGED standing

\* The front of a line is next, one request at a time.
Take(o) ==
  /\ line[o] # <<>> /\ nobodyNext
  /\ line' = [line EXCEPT ![o] = Tail(@)]
  /\ \/ standing[Head(line[o])] = "waiting" /\ becomes(Head(line[o]), "next")
     \/ standing[Head(line[o])] = "excused" /\ UNCHANGED standing

\* The grant is gone: everyone in the line is refused.
Clear(o) ==
  /\ line[o] # <<>>
  /\ line' = [line EXCEPT ![o] = <<>>]
  /\ standing' = [r \in Req |-> IF standing[r] = "waiting" /\ Who[r] = o THEN "refused"
                                ELSE standing[r]]

\* Only what is next starts, or a new request when nobody waits.
Start(r) ==
  /\ UNCHANGED line
  /\ standing[r] = "next" \/ (standing[r] = "open" /\ line[Who[r]] = <<>> /\ nobodyNext)
  /\ becomes(r, "started")

Decline(r) ==
  /\ UNCHANGED line
  /\ standing[r] \in {"open", "next"}
  /\ becomes(r, "declined")

\* The orchestrator hears of it.
Tell ==
  /\ UNCHANGED line
  /\ \E r \in Req : standing[r] = "declined"
  /\ standing' = [r \in Req |-> IF standing[r] = "declined" THEN "refused" ELSE standing[r]]

\* A death, or an error of a starter, loses what was in hand...
Lose ==
  /\ UNCHANGED line
  /\ \E r \in Req : standing[r] \in {"next", "declined"}
  /\ standing' = [r \in Req |-> IF standing[r] \in {"next", "declined"} THEN "lost"
                                ELSE standing[r]]

\* ...and a request that was acted on and not yet journalled is handled again.
Excuse(r) ==
  /\ UNCHANGED line
  /\ nobodyNext
  /\ becomes(r, "excused")

Next ==
  \/ \E r \in Req : Wait(r) \/ Start(r) \/ Decline(r) \/ Excuse(r)
  \/ \E o \in Orch : Take(o) \/ Clear(o)
  \/ Tell \/ Lose

Spec == Init /\ [][Next]_promise
================================================================================
