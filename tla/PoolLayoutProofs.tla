---------------------------- MODULE PoolLayoutProofs ----------------------------
(***************************************************************************)
(* Nothing that lies in the root of a pool is lost or doubled, and nothing *)
(* but the cache the pool began with becomes slot-0, for any number of     *)
(* entries, of commands at work, of kills and of strays.                   *)
(***************************************************************************)
EXTENDS PoolLayout, TLAPS

-----------------------------------------------------------------------------
\* The types, and the flock.

\* The ways a step may end: for p alone, and with the flock released.
LEMMA StopTypes ==
  ASSUME TypeOK, NEW p \in Process, Stop(p)
  PROVE  /\ lock' \in Process \cup {None}
         /\ at' \in [Process -> Step] /\ plan' \in [Process -> SUBSET Entry]
         /\ \A q \in Process : lock' = q <=> at'[q] \in {"layout", "migrate"}
  BY LayoutAssumption DEF TypeOK, Stop, Goto, released, Step

\* Every step keeps the types: a command holds the flock exactly while it lays out the pool.
LEMMA TypeStep == TypeOK /\ [Next]_vars => TypeOK'
<1> SUFFICES ASSUME TypeOK, [Next]_vars PROVE TypeOK'
  OBVIOUS
<1>1. ASSUME NEW p \in Process, Begin(p) \/ Resolve(p) \/ Answer(p) \/ Lock(p) PROVE TypeOK'
  BY <1>1, LayoutAssumption DEF TypeOK, Begin, Resolve, Answer, Lock, Goto, Step
<1>2. ASSUME NEW p \in Process, MoveAside(p) PROVE TypeOK'
  <2>1. CASE Stop(p) /\ UNCHANGED <<loose, aside>>
    BY <1>2, <2>1, StopTypes DEF TypeOK, MoveAside
  <2>2. CASE ~(Stop(p) /\ UNCHANGED <<loose, aside>>)
    BY <1>2, <2>2 DEF TypeOK, MoveAside, Goto, without, Step
  <2> QED
    BY <2>1, <2>2
<1>3. ASSUME NEW p \in Process, Layout(p) PROVE TypeOK'
  <2>1. CASE Stop(p)
    BY <1>3, <2>1, StopTypes DEF TypeOK, Layout
  <2>2. CASE ~Stop(p)
    BY <1>3, <2>2 DEF TypeOK, Layout, Goto, Step
  <2> QED
    BY <2>1, <2>2
<1>4. ASSUME NEW p \in Process, Migrate(p) PROVE TypeOK'
  <2>1. CASE Stop(p) /\ UNCHANGED <<loose, moved>>
    BY <1>4, <2>1, StopTypes DEF TypeOK, Migrate
  <2>2. CASE ~(Stop(p) /\ UNCHANGED <<loose, moved>>)
    BY <1>4, <2>2 DEF TypeOK, Migrate, Goto, without, Step
  <2> QED
    BY <2>1, <2>2
<1>5. ASSUME NEW p \in Process, Kill(p) PROVE TypeOK'
  <2>1. kills' \in 0..MaxKills
    BY <1>5, LayoutAssumption DEF TypeOK, Kill
  <2> QED
    BY <1>5, <2>1, StopTypes DEF TypeOK, Kill
<1>6. ASSUME NEW e \in Entry, Stray(e) PROVE TypeOK'
  BY <1>6, LayoutAssumption DEF TypeOK, Stray
<1>7. CASE UNCHANGED vars
  BY <1>7 DEF TypeOK, vars
<1> QED
  BY <1>1, <1>2, <1>3, <1>4, <1>5, <1>6, <1>7 DEF Next, Run

\* Every variable has its type, and the flock is held exactly by the command that lays out
\* or migrates: one migration at a time, whoever is killed.
THEOREM TypeOKAlways == Spec => []TypeOK
<1>1. Init => TypeOK
  <2> SUFFICES ASSUME Init PROVE TypeOK
    OBVIOUS
  <2>1. kills \in 0..MaxKills /\ strays \in 0..MaxStrays
    BY LayoutAssumption DEF Init
  <2> QED
    BY <2>1, LayoutAssumption DEF Init, TypeOK, Step
<1> QED
  BY <1>1, TypeStep, PTL DEF Spec

-----------------------------------------------------------------------------
\* The entries.

\* What a migration has yet to move is of the cache it found, and before the first one
\* nothing else is in the root.
KeptInv ==
  /\ EntriesKept
  /\ ~slot0 => loose \subseteq wanted
  /\ \A p \in Process : at[p] = "migrate" => plan[p] \subseteq wanted

\* Every step moves what it moves to one place, and strays come beside what there was.
LEMMA KeptStep == TypeOK /\ KeptInv /\ [Next]_vars => KeptInv'
<1> SUFFICES ASSUME TypeOK, KeptInv, [Next]_vars PROVE KeptInv'
  OBVIOUS
<1> USE DEF KeptInv, EntriesKept
<1>1. ASSUME NEW p \in Process, Begin(p) \/ Resolve(p) \/ Answer(p) \/ Lock(p) PROVE KeptInv'
  BY <1>1 DEF TypeOK, Begin, Resolve, Answer, Lock, Goto
<1>2. ASSUME NEW p \in Process, MoveAside(p) PROVE KeptInv'
  BY <1>2 DEF TypeOK, MoveAside, Goto, Stop, without
<1>3. ASSUME NEW p \in Process, Layout(p) PROVE KeptInv'
  BY <1>3 DEF TypeOK, Layout, Goto, Stop, migrates
<1>4. ASSUME NEW p \in Process, Migrate(p) PROVE KeptInv'
  BY <1>4 DEF TypeOK, Migrate, Goto, Stop, without
<1>5. ASSUME NEW p \in Process, Kill(p) PROVE KeptInv'
  BY <1>5 DEF TypeOK, Kill, Goto, Stop
<1>6. ASSUME NEW e \in Entry, Stray(e) PROVE KeptInv'
  BY <1>6 DEF TypeOK, Stray
<1>7. CASE UNCHANGED vars
  BY <1>7 DEF vars
<1> QED
  BY <1>1, <1>2, <1>3, <1>4, <1>5, <1>6, <1>7 DEF Next, Run

\* No entry is lost or in two places, and slot-0 takes only what was there before the pool,
\* whichever commands migrate, ask and move aside at a time, and wherever they die.
THEOREM EntriesKeptAlways == Spec => []EntriesKept
<1>1. Init => KeptInv
  BY DEF Init, KeptInv, EntriesKept
<1>2. KeptInv => EntriesKept
  BY DEF KeptInv
<1> QED
  BY <1>1, <1>2, KeptStep, TypeOKAlways, PTL DEF Spec
===============================================================================
