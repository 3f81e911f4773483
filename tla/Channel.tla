-------------------------------- MODULE Channel --------------------------------
(***************************************************************************)
(* What the orchestration's messages promise one recipient: the broker's   *)
(* messages, numbered as it sends them, are each seen for the first time   *)
(* in the order they were sent, and only a recipient that is gone costs    *)
(* those still on their way. Seeing one twice is allowed.                  *)
(*                                                                         *)
(* Code: orchestration/outbox.py (deliver: "so order is kept").            *)
(***************************************************************************)
EXTENDS Naturals, Sequences, FiniteSets, Functions

VARIABLES
  sent,     \* number of messages sent
  seen,     \* the messages in the order they were first written to the inbox
  dropped   \* those that went with their recipient

chan == <<sent, seen, dropped>>

underway == (1..sent) \ (Range(seen) \cup dropped)

Init == sent = 0 /\ seen = <<>> /\ dropped = {}

\* A message that is parked.
Send == sent' = sent + 1 /\ UNCHANGED <<seen, dropped>>

\* A message goes straight into the inbox only when none is on its way.
SendSeen ==
  /\ underway = {} /\ sent' = sent + 1 /\ seen' = Append(seen, sent') /\ UNCHANGED dropped

Deliver ==
  /\ \E m \in underway :
       /\ \A n \in underway : m <= n
       /\ seen' = Append(seen, m)
  /\ UNCHANGED <<sent, dropped>>

Drop ==
  /\ underway # {} /\ dropped' = dropped \cup underway
  /\ UNCHANGED <<sent, seen>>

Next == Send \/ SendSeen \/ Deliver \/ Drop

Spec == Init /\ [][Next]_chan
===============================================================================
