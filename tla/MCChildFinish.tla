----------------------------- MODULE MCChildFinish -----------------------------
\* Small instances of ChildFinish.
EXTENDS ChildFinish, TLC

CONSTANTS d1, d2, o1, o2, o3, o4

\* The orchestrator's manifests of each instance.
AllOrders == (o1 :> "stop") @@ (o2 :> "destroy") @@ (o3 :> "import") @@ (o4 :> "restart")
StopThenDestroy == (o1 :> "stop") @@ (o2 :> "destroy")
ForceDestroy == (o1 :> "force")
NoOrders == [o \in {} |-> "stop"]
===============================================================================
