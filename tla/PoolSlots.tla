------------------------------- MODULE PoolSlots -------------------------------
(***************************************************************************)
(* A pool of cache slots: every container that boots is given a directory  *)
(* slots/slot-N of its own, mounted as the Incus disk device <cache>-slot, *)
(* and by-container/<name> is the symlink that says so. Host commands      *)
(* allocate, release, list and prune under one flock per pool; containers  *)
(* appear and go without it, and any command may be killed at any step.    *)
(*                                                                         *)
(* Code: pool.py (allocate, release, prune, list_slots, _reconcile), and   *)
(* its callers in lifecycle.py (boot_container, _destroy_container_locked).*)
(*                                                                         *)
(* One pool, allocated on start. Warmth only ranks slots, so the choices   *)
(* it makes are left open, and so is what a slot holds.                    *)
(***************************************************************************)
EXTENDS Integers, FiniteSets

CONSTANTS
  Container, Process,
  Slots,        \* the slot numbers there may be, Nat or a bound
  MaxFaults,    \* bound on Incus calls and copies that fail
  MaxKills,     \* bound on host commands killed
  MaxRemovals,  \* bound on slots a user deletes by hand
  None

Kind == {"allocate", "destroy", "prune", "ls"}

ASSUME PoolAssumption ==
  /\ Slots \subseteq Nat
  /\ None \notin Slots /\ None \notin Process \cup Container /\ None \notin Kind
  /\ MaxFaults \in Nat /\ MaxKills \in Nat /\ MaxRemovals \in Nat

VARIABLES
  \* Incus
  exists,    \* the containers there are
  running,   \* those that run
  device,    \* device[c]: the slot its disk device mounts, or None
  \* the pool on the host
  slots,     \* the slot directories
  link,      \* link[c]: where by-container/c points, or None
  lock,      \* the process holding the flock, or None
  \* the host commands
  cmd,       \* cmd[p]: the command of process p and its local variables
  \* bounds
  faults, kills,
  removed    \* the slots deleted by hand so far

incus == <<exists, running, device>>
pool == <<slots, link, lock>>
bounds == <<faults, kills, removed>>
vars == <<incus, pool, cmd, bounds>>

Step == {"idle", "wait", "list", "drop", "look", "choose", "link", "unmount",
         "mount", "undo", "relook", "remove", "unlink", "prune", "delete"}

\* The step a command is at, what it does to which container, the containers
\* list_containers returned, the slot chosen, and whether the symlink dangled.
Command ==
  [at : Step, kind : Kind \cup {None}, name : Container \cup {None},
   listing : SUBSET Container, target : Slots \cup {None}, again : BOOLEAN]
Idle == [at |-> "idle", kind |-> None, name |-> None, listing |-> {},
         target |-> None, again |-> FALSE]

\* Every variable has its type. The flock is held only by a command at work under it:
\* nobody waits for a lock whose holder failed, was killed or went on to the deletion of
\* its container.
TypeOK ==
  /\ exists \subseteq Container /\ running \subseteq exists
  /\ device \in [Container -> Slots \cup {None}]
  /\ slots \subseteq Slots
  /\ link \in [Container -> Slots \cup {None}]
  /\ lock \in Process \cup {None}
  /\ cmd \in [Process -> Command]
  /\ lock # None => cmd[lock].at \notin {"idle", "wait", "delete"}
  /\ \A p \in Process : cmd[p].kind \in {"allocate", "destroy"} => cmd[p].name # None
  /\ faults \in 0..MaxFaults /\ kills \in 0..MaxKills /\ removed \subseteq Slots

Init ==
  /\ exists = {} /\ running = {} /\ device = [c \in Container |-> None]
  /\ slots = {} /\ link = [c \in Container |-> None] /\ lock = None
  /\ cmd = [p \in Process |-> Idle]
  /\ faults = 0 /\ kills = 0 /\ removed = {}

-----------------------------------------------------------------------------
At(p, step) == cmd[p].at = step
Goto(p, step) == cmd' = [cmd EXCEPT ![p].at = step]
Return(p) == cmd' = [cmd EXCEPT ![p] = Idle] /\ lock' = None

Fault == faults < MaxFaults /\ faults' = faults + 1

\* Mutant: a slot counts as free when the container it belongs to is stopped.
FreeIfStopped == slots \ {link[c] : c \in running}

\* The slots no symlink leads to.
Free == slots \ {link[c] : c \in Container}

\* The number of a new slot: the smallest no directory has, while there is one.
unusedNumbers == Slots \ slots
NewSlot == {n \in unusedNumbers : \A k \in unusedNumbers : n <= k}

\* A destroy holds the container's own lock to its end.
destroyed(c) == \E q \in Process : cmd[q].kind = "destroy" /\ cmd[q].name = c

\* A boot allocates, a destroy first stops its container; prune and ls name none.
Begin(p, k, c) ==
  /\ At(p, "idle")
  /\ cmd' = [cmd EXCEPT ![p] = [Idle EXCEPT !.at = "wait", !.kind = k, !.name = c]]
  /\ IF k \in {"allocate", "destroy"} THEN c \in exists ELSE c = None
  /\ k = "destroy" => ~destroyed(c)
  /\ running' = IF k = "destroy" THEN running \ {c} ELSE running
  /\ UNCHANGED <<exists, device, pool, bounds>>

Acquire(p) ==
  /\ At(p, "wait") /\ lock = None /\ lock' = p
  /\ Goto(p, IF cmd[p].kind = "destroy" THEN "relook" ELSE "list")
  /\ UNCHANGED <<incus, slots, link, bounds>>

\* _reconcile reads the containers first and unlinks after: an Incus error
\* leaves every symlink alone.
List(p) ==
  /\ At(p, "list")
  /\ cmd' = [cmd EXCEPT ![p].at = "drop", ![p].listing = exists]
  /\ UNCHANGED <<incus, pool, bounds>>

ListFails(p) ==
  /\ At(p, "list") /\ Fault /\ Return(p)
  /\ UNCHANGED <<incus, slots, link, kills, removed>>

\* Mutant: reconciliation keeps only the links of containers that run.
keptRunning(p) == cmd[p].listing \cap running

\* The symlinks _reconcile keeps.
kept(p) == cmd[p].listing

Drop(p) ==
  /\ At(p, "drop")
  /\ link' = [c \in Container |-> IF c \in kept(p) THEN link[c] ELSE None]
  /\ \/ cmd[p].kind = "allocate" /\ Goto(p, "look") /\ UNCHANGED lock
     \/ cmd[p].kind = "prune" /\ Goto(p, "prune") /\ UNCHANGED lock
     \/ cmd[p].kind = "ls" /\ Return(p)
  /\ UNCHANGED <<incus, slots, bounds>>

-----------------------------------------------------------------------------
\* allocate, for the container c

booted(c) == {c} \cap exists

\* The container has its slot and the boot goes on to start it.
HandOver(p, c) == Return(p) /\ running' = running \cup booted(c)

AlreadyAllocated(p, c) ==
  /\ At(p, "look") /\ link[c] \in slots
  /\ HandOver(p, c)
  /\ UNCHANGED <<exists, device, slots, link, bounds>>

Look(p, c) ==
  /\ At(p, "look") /\ link[c] \notin slots
  /\ cmd' = [cmd EXCEPT ![p].at = "choose", ![p].again = link[c] # None]
  /\ link' = [link EXCEPT ![c] = None]
  /\ UNCHANGED <<incus, slots, lock, bounds>>

\* The coldest free slot, or a new directory; then the target is seeded.
Choose(p) ==
  /\ At(p, "choose")
  /\ \E s \in IF Free # {} THEN Free ELSE NewSlot :
       /\ slots' = slots \cup {s}
       /\ \/ /\ cmd' = [cmd EXCEPT ![p].at = "link", ![p].target = s]
             /\ UNCHANGED <<lock, faults>>
          \/ Fault /\ Return(p)
  /\ UNCHANGED <<incus, link, kills, removed>>

\* The symlink is written before the device is added.
linked(p, c) == [link EXCEPT ![c] = cmd[p].target]

Link(p, c) ==
  /\ At(p, "link") /\ link' = linked(p, c)
  /\ Goto(p, IF cmd[p].again THEN "unmount" ELSE "mount")
  /\ UNCHANGED <<incus, slots, lock, bounds>>

Unmount(p, c) ==
  /\ At(p, "unmount")
  /\ \/ Goto(p, "mount") /\ device' = [device EXCEPT ![c] = None] /\ UNCHANGED faults
     \/ Goto(p, "undo") /\ Fault /\ UNCHANGED device
  /\ UNCHANGED <<exists, running, pool, kills, removed>>

\* `incus config device add` fails on a container that is gone and on a
\* device that is there.
Mount(p, c) ==
  /\ At(p, "mount") /\ c \in exists /\ device[c] = None
  /\ device' = [device EXCEPT ![c] = cmd[p].target]
  /\ HandOver(p, c)
  /\ UNCHANGED <<exists, slots, link, bounds>>

MountFails(p, c) ==
  /\ At(p, "mount") /\ Goto(p, "undo")
  /\ \/ (c \notin exists \/ device[c] # None) /\ UNCHANGED faults
     \/ Fault
  /\ UNCHANGED <<incus, pool, kills, removed>>

Undo(p, c) ==
  /\ At(p, "undo") /\ Return(p) /\ link' = [link EXCEPT ![c] = None]
  /\ UNCHANGED <<incus, slots, bounds>>

Allocate(p, c) ==
  \/ AlreadyAllocated(p, c) \/ Look(p, c) \/ Choose(p)
  \/ Link(p, c) \/ Unmount(p, c) \/ Mount(p, c) \/ MountFails(p, c) \/ Undo(p, c)

-----------------------------------------------------------------------------
\* release and the deletion after it, and prune

Relook(p, c) ==
  /\ At(p, "relook")
  /\ \/ link[c] # None /\ Goto(p, "remove") /\ UNCHANGED lock
     \/ link[c] = None /\ Goto(p, "delete") /\ lock' = None
  /\ UNCHANGED <<incus, slots, link, bounds>>

\* A failed release is only warned about: the container goes all the same.
Remove(p, c) ==
  /\ At(p, "remove")
  /\ \/ Goto(p, "unlink") /\ device' = [device EXCEPT ![c] = None] /\ UNCHANGED <<lock, faults>>
     \/ Goto(p, "delete") /\ Fault /\ lock' = None /\ UNCHANGED device
  /\ UNCHANGED <<exists, running, slots, link, kills, removed>>

\* _wipe, then the symlink.
Unlink(p, c) ==
  /\ At(p, "unlink") /\ Goto(p, "delete") /\ lock' = None
  /\ link' = [link EXCEPT ![c] = None]
  /\ UNCHANGED <<incus, slots, bounds>>

Delete(p, c) ==
  /\ At(p, "delete") /\ cmd' = [cmd EXCEPT ![p] = Idle]
  /\ \/ /\ exists' = exists \ {c} /\ running' = running \ {c}
        /\ device' = [device EXCEPT ![c] = None] /\ UNCHANGED faults
     \/ Fault /\ UNCHANGED incus
  /\ UNCHANGED <<pool, kills, removed>>

Destroy(p, c) ==
  Relook(p, c) \/ Remove(p, c) \/ Unlink(p, c) \/ Delete(p, c)

Prune(p) ==
  /\ At(p, "prune") /\ Return(p)
  /\ slots' = slots \ Free
  /\ UNCHANGED <<incus, link, bounds>>

-----------------------------------------------------------------------------
\* Mutant: the lock is a file that a killed command leaves behind.
freedNot(p) == lock

\* The kernel drops the flock with the process.
freed(p) == IF lock = p THEN None ELSE lock

Kill(p) ==
  /\ ~At(p, "idle") /\ kills < MaxKills /\ kills' = kills + 1
  /\ cmd' = [cmd EXCEPT ![p] = Idle] /\ lock' = freed(p)
  /\ UNCHANGED <<incus, slots, link, faults, removed>>

\* Containers appear without the pool's lock.
Create(c) ==
  /\ c \notin exists /\ exists' = exists \cup {c}
  /\ UNCHANGED <<running, device, pool, cmd, bounds>>

\* A slot deleted out of band: the symlink dangles, the device stays.
UserRemoves(s) ==
  /\ s \in slots \ removed /\ Cardinality(removed) < MaxRemovals
  /\ removed' = removed \cup {s}
  /\ slots' = slots \ {s}
  /\ UNCHANGED <<incus, link, lock, cmd, faults, kills>>

Run(p) ==
  \/ Acquire(p) \/ List(p) \/ ListFails(p) \/ Drop(p) \/ Prune(p)
  \/ \E c \in {cmd[p].name} \ {None} : Allocate(p, c) \/ Destroy(p, c)

Next ==
  \/ \E p \in Process :
       \/ \E k \in Kind, c \in Container \cup {None} : Begin(p, k, c)
       \/ Run(p) \/ Kill(p)
  \/ \E c \in Container : Create(c)
  \/ \E s \in Slots : UserRemoves(s)

Spec == Init /\ [][Next]_vars

-----------------------------------------------------------------------------
\* A container's device is on the slot its symlink names: what the pool
\* believes is what is mounted, whatever failed or was killed in between. Excused is a
\* slot deleted by hand: the attempt to replace it may fail with the device still there.
DeviceLinked ==
  \A c \in Container : device[c] # None => link[c] = device[c] \/ device[c] \in removed

\* A mounted slot is never pruned away, and no two containers mount one: the point of the
\* pool, since a lock in a shared cache would make one wait for the other. Excused is a
\* slot deleted by hand: its number is given out again while the first container still
\* has symlink and device on it.
Exclusive ==
  \A c \in Container : device[c] # None /\ device[c] \notin removed =>
    /\ device[c] \in slots
    /\ \A d \in Container : device[d] = device[c] => d = c
===============================================================================
