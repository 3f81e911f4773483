----------------------------- MODULE MCSpawnQueue -----------------------------
\* Small instances of SpawnQueue.
EXTENDS SpawnQueue, TLC

CONSTANTS o1, o2, c1, c2, r1, r2, r3

\* One orchestrator with a child to create and one to restart.
LineWho == [r \in Req |-> o1]
LineTarget == [r \in Req |-> IF r = r1 THEN c1 ELSE c2]
LineKind == (r1 :> "spawn") @@ (r2 :> "restart")
LineOwner == (c1 :> None) @@ (c2 :> o1)
LineStatus == (c1 :> "absent") @@ (c2 :> "stopped")

\* Two orchestrators ask for the same name. One of them also restarts a container that a
\* user gives it while it runs: a slot taken, a queue of two, and a slot freed.
RivalWho == (r1 :> o1) @@ (r2 :> o1) @@ (r3 :> o2)
RivalTarget == (r1 :> c1) @@ (r2 :> c2) @@ (r3 :> c1)
RivalKind == (r1 :> "spawn") @@ (r2 :> "restart") @@ (r3 :> "spawn")
RivalOwner == [x \in Child |-> None]
RivalStatus == (c1 :> "absent") @@ (c2 :> "running")
===============================================================================
