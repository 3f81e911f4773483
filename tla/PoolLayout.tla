------------------------------- MODULE PoolLayout -------------------------------
(***************************************************************************)
(* The root of a cache pool before it is one: a cache that predates the    *)
(* pool lies loose in the root and is moved, entry by entry, into slot-0   *)
(* under the pool's flock; a root that holds both slot-0 and loose entries *)
(* is refused, and a command in a terminal offers to move them aside,      *)
(* without the flock and after a question that takes as long as it takes.  *)
(*                                                                         *)
(* Code: pool.py (ensure_pool_dirs, resolve_loose, preflight_pools).       *)
(***************************************************************************)
EXTENDS Naturals, FiniteSets

CONSTANTS
  Entry, Process,
  MaxKills,   \* bound on host commands killed
  MaxStrays,  \* bound on entries something writes into the root of a pool
  None

ASSUME LayoutAssumption ==
  IsFiniteSet(Entry) /\ None \notin Process /\ MaxKills \in Nat /\ MaxStrays \in Nat

VARIABLES
  loose,    \* the entries loose in the root
  slot0,    \* slots/slot-0 is there
  moved,    \* the entries in slot-0
  aside,    \* the entries in the directories beside the root
  lock,     \* the process holding the flock, or None
  at,       \* the step each command is at
  plan,     \* the entries it read from the root and has yet to move
  kills, strays,
  wanted    \* the entries of the cache the first migration is to carry over

vars == <<loose, slot0, moved, aside, lock, at, plan, kills, strays, wanted>>

Step == {"idle", "resolve", "ask", "aside", "ensure", "layout", "migrate"}

TypeOK ==
  /\ loose \subseteq Entry /\ moved \subseteq Entry /\ aside \subseteq Entry
  /\ slot0 \in BOOLEAN /\ lock \in Process \cup {None}
  /\ at \in [Process -> Step] /\ plan \in [Process -> SUBSET Entry]
  /\ \A p \in Process : lock = p <=> at[p] \in {"layout", "migrate"}
  /\ kills \in 0..MaxKills /\ strays \in 0..MaxStrays /\ wanted \subseteq Entry

Init ==
  /\ loose \in SUBSET Entry /\ wanted = loose
  /\ slot0 = FALSE /\ moved = {} /\ aside = {} /\ lock = None
  /\ at = [p \in Process |-> "idle"] /\ plan = [p \in Process |-> {}]
  /\ kills = 0 /\ strays = 0

-----------------------------------------------------------------------------
Goto(p, step) == at' = [at EXCEPT ![p] = step]

\* A command begins with the preflight, asking or not, or at the backstop: a
\* boot calls ensure_pool_dirs alone.
Begin(p) ==
  /\ at[p] = "idle" /\ \E step \in {"resolve", "ensure"} : Goto(p, step)
  /\ UNCHANGED <<loose, slot0, moved, aside, lock, plan, kills, strays, wanted>>

\* Mutant: the root is asked about while it is no pool yet.
looseAlone == ~slot0 /\ loose # {}

conflict == slot0 /\ loose # {}

\* resolve_loose reads slot-0 and the entries without the lock.
Resolve(p) ==
  /\ at[p] = "resolve"
  /\ \/ conflict /\ Goto(p, "ask") /\ plan' = [plan EXCEPT ![p] = loose]
     \/ ~conflict /\ Goto(p, "ensure") /\ UNCHANGED plan
  /\ UNCHANGED <<loose, slot0, moved, aside, lock, kills, strays, wanted>>

Answer(p) ==
  /\ at[p] = "ask"
  /\ \/ Goto(p, "aside") /\ UNCHANGED plan
     \/ Goto(p, "ensure") /\ plan' = [plan EXCEPT ![p] = {}]
  /\ UNCHANGED <<loose, slot0, moved, aside, lock, kills, strays, wanted>>

without(e) == loose \ {e}

\* Mutant: the lock is a file that an error leaves behind.
keptBy(p) == lock

\* The flock goes with its file descriptor.
released(p) == IF lock = p THEN None ELSE lock

\* An entry that is gone by now ends the command with an error.
Stop(p) ==
  /\ Goto(p, "idle") /\ plan' = [plan EXCEPT ![p] = {}]
  /\ lock' = released(p)

MoveAside(p) ==
  /\ at[p] = "aside"
  /\ \/ \E e \in plan[p] \cap loose :
          /\ loose' = without(e) /\ aside' = aside \cup {e}
          /\ plan' = [plan EXCEPT ![p] = @ \ {e}] /\ UNCHANGED <<at, lock>>
     \/ plan[p] \ loose # {} /\ Stop(p) /\ UNCHANGED <<loose, aside>>
     \/ plan[p] = {} /\ Goto(p, "ensure") /\ UNCHANGED <<loose, aside, plan, lock>>
  /\ UNCHANGED <<slot0, moved, kills, strays, wanted>>

Lock(p) ==
  /\ at[p] = "ensure" /\ lock = None /\ lock' = p /\ Goto(p, "layout")
  /\ UNCHANGED <<loose, slot0, moved, aside, plan, kills, strays, wanted>>

\* Mutant: loose entries are taken in beside what slot-0 already holds.
takenIn == TRUE

\* slot-0 being there beside loose entries is refused.
migrates == ~slot0

Layout(p) ==
  /\ at[p] = "layout"
  /\ IF loose = {} \/ ~migrates
       THEN Stop(p) /\ UNCHANGED slot0
       ELSE /\ slot0' = TRUE /\ Goto(p, "migrate") /\ plan' = [plan EXCEPT ![p] = loose]
            /\ UNCHANGED lock
  /\ UNCHANGED <<loose, moved, aside, kills, strays, wanted>>

Migrate(p) ==
  /\ at[p] = "migrate"
  /\ \/ \E e \in plan[p] \cap loose :
          /\ loose' = without(e) /\ moved' = moved \cup {e}
          /\ plan' = [plan EXCEPT ![p] = @ \ {e}] /\ UNCHANGED <<at, lock>>
     \/ (plan[p] = {} \/ plan[p] \ loose # {}) /\ Stop(p) /\ UNCHANGED <<loose, moved>>
  /\ UNCHANGED <<slot0, aside, kills, strays, wanted>>

Kill(p) ==
  /\ at[p] # "idle" /\ kills < MaxKills /\ kills' = kills + 1 /\ Stop(p)
  /\ UNCHANGED <<loose, slot0, moved, aside, strays, wanted>>

\* A program writes into the root of a pool, past its slots.
Stray(e) ==
  /\ slot0 /\ strays < MaxStrays /\ e \notin loose \cup moved \cup aside
  /\ strays' = strays + 1 /\ loose' = loose \cup {e}
  /\ UNCHANGED <<slot0, moved, aside, lock, at, plan, kills, wanted>>

Run(p) == Resolve(p) \/ Answer(p) \/ MoveAside(p) \/ Lock(p) \/ Layout(p) \/ Migrate(p)

Next ==
  \/ \E p \in Process : Begin(p) \/ Run(p) \/ Kill(p)
  \/ \E e \in Entry : Stray(e)

Spec == Init /\ [][Next]_vars

\* The user goes on starting commands in a terminal, and says yes in the end.
Fairness == \A p \in Process :
  /\ WF_vars(Begin(p)) /\ SF_vars(Begin(p) /\ at'[p] = "resolve")
  /\ WF_vars(Run(p)) /\ SF_vars(Lock(p))
  /\ SF_vars(Answer(p) /\ at'[p] = "aside")

LiveSpec == Spec /\ Fairness

-----------------------------------------------------------------------------
\* No entry is ever lost or in two places, whoever moves it and wherever a
\* command dies, and slot-0 holds the cache the pool began with and nothing
\* that came later: what strays into the root is not taken for its cache.
EntriesKept ==
  /\ moved \subseteq wanted
  /\ wanted \subseteq loose \cup moved \cup aside
  /\ loose \cap moved = {} /\ loose \cap aside = {} /\ moved \cap aside = {}

\* The root becomes usable again, whatever lay in it.
RootClears == loose # {} ~> loose = {}
===============================================================================
