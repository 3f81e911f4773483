---------------------------- MODULE PoolSlotsProofs -----------------------------
(***************************************************************************)
(* A container mounts the slot its symlink names, alone, and that slot is  *)
(* never pruned away, for any number of containers, commands and slots,    *)
(* wherever calls fail, commands are killed and slots are deleted by hand. *)
(***************************************************************************)
EXTENDS PoolSlots, TLAPS

USE DEF incus, pool, bounds

-----------------------------------------------------------------------------
\* The types, and who holds the flock.

\* The steps a command makes with the flock.
UnderLock == Step \ {"idle", "wait", "delete"}

\* The types, and that a command at a step under the flock holds it.
LockInv ==
  /\ TypeOK
  /\ \A p \in Process : cmd[p].at \in UnderLock => lock = p

\* An idle command is a command.
LEMMA IdleCommand == Idle \in Command /\ Idle.at = "idle" /\ Idle.kind = None
  BY DEF Idle, Command, Step

\* A command that takes another step, with another listing, target or mark of a dangling link.
LEMMA CommandSteps ==
  ASSUME NEW x \in Command, NEW s \in Step, NEW l \in SUBSET Container,
         NEW t \in Slots, NEW b \in BOOLEAN
  PROVE  /\ [x EXCEPT !.at = s] \in Command
         /\ [x EXCEPT !.at = s, !.listing = l] \in Command
         /\ [x EXCEPT !.at = s, !.target = t] \in Command
         /\ [x EXCEPT !.at = s, !.again = b] \in Command
  BY DEF Command

\* The bounds count up to their limits.
LEMMA Bounds ==
  /\ TypeOK /\ Fault => faults' \in 0..MaxFaults
  /\ TypeOK /\ kills < MaxKills /\ kills' = kills + 1 => kills' \in 0..MaxKills
  BY PoolAssumption DEF TypeOK, Fault

\* The commands and the flock after a step.
CommandsKept ==
  /\ cmd' \in [Process -> Command] /\ lock' \in Process \cup {None}
  /\ lock' # None => cmd'[lock'].at \notin {"idle", "wait", "delete"}
  /\ \A q \in Process : cmd'[q].kind \in {"allocate", "destroy"} => cmd'[q].name # None
  /\ \A q \in Process : cmd'[q].at \in UnderLock => lock' = q

\* A command that goes on with the flock, or leaves it, keeps types and flock in order.
LEMMA TakesStep ==
  ASSUME LockInv, NEW p \in Process, cmd[p].at \in UnderLock, NEW y \in Command,
         \/ y.kind = cmd[p].kind /\ y.name = cmd[p].name
         \/ y = Idle,
         cmd' = [cmd EXCEPT ![p] = y],
         \/ y.at \in UnderLock /\ lock' = p
         \/ y.at \notin UnderLock /\ lock' = None
  PROVE  CommandsKept
<1>0. None \notin Process BY PoolAssumption
<1>1. cmd' \in [Process -> Command] BY DEF LockInv, TypeOK
<1>2. lock = p BY DEF LockInv
<1>3. \A q \in Process : q # p => cmd'[q] = cmd[q] /\ cmd[q].at \notin UnderLock
  BY <1>2 DEF LockInv, TypeOK
<1>4. cmd'[p] = y BY DEF LockInv, TypeOK
<1>5. lock' \in Process \cup {None} BY <1>2
<1>6. lock' # None => cmd'[lock'].at \notin {"idle", "wait", "delete"}
  BY <1>0, <1>2, <1>4 DEF UnderLock
<1>7. y.kind \in {"allocate", "destroy"} => y.name # None
  BY IdleCommand, PoolAssumption DEF LockInv, TypeOK, Kind
<1>8. \A q \in Process : cmd'[q].kind \in {"allocate", "destroy"} => cmd'[q].name # None
  BY <1>3, <1>4, <1>7 DEF LockInv, TypeOK
<1>9. \A q \in Process : cmd'[q].at \in UnderLock => lock' = q
  BY <1>2, <1>3, <1>4
<1> QED BY <1>1, <1>5, <1>6, <1>8, <1>9 DEF CommandsKept

\* A step without the flock that begins or ends a command, or awaits it.
LEMMA StepsOutside ==
  ASSUME LockInv, NEW p \in Process, NEW y \in Command,
         y.kind \in {"allocate", "destroy"} => y.name # None,
         cmd' = [cmd EXCEPT ![p] = y], y.at \notin UnderLock,
         \/ cmd[p].at \notin UnderLock /\ lock' = lock
         \/ y = Idle /\ lock' = freed(p)
  PROVE  CommandsKept
<1>1. cmd' \in [Process -> Command] BY DEF LockInv, TypeOK
<1>2. \A q \in Process : q # p => cmd'[q] = cmd[q]
  BY DEF LockInv, TypeOK
<1>3. cmd'[p] = y BY DEF LockInv, TypeOK
<1>4. lock' \in Process \cup {None} BY DEF LockInv, TypeOK, freed
<1>5. lock = p /\ lock' = lock => FALSE
  <2>1. None # p BY PoolAssumption
  <2>2. lock = p => cmd[p].at \in UnderLock
    BY <2>1 DEF LockInv, TypeOK, UnderLock, Command
  <2> QED BY <2>1, <2>2 DEF freed
<1>6. lock' # None => cmd'[lock'].at \notin {"idle", "wait", "delete"}
  BY <1>2, <1>4, <1>5 DEF LockInv, TypeOK, freed
<1>7. \A q \in Process : cmd'[q].kind \in {"allocate", "destroy"} => cmd'[q].name # None
  BY <1>2, <1>3 DEF LockInv, TypeOK
<1>8. \A q \in Process : cmd'[q].at \in UnderLock => lock' = q
  BY <1>2, <1>3, <1>5 DEF LockInv, TypeOK, freed
<1> QED BY <1>1, <1>4, <1>6, <1>7, <1>8 DEF CommandsKept

\* What a command names is a container.
LEMMA Named ==
  ASSUME LockInv, NEW p \in Process, NEW c \in {cmd[p].name} \ {None}
  PROVE  c \in Container /\ cmd[p].name = c
  BY DEF LockInv, TypeOK, Command

\* The steps of a command that do no more than go on, or return, with the flock.
LEMMA GoesOn ==
  ASSUME LockInv, NEW p \in Process, cmd[p].at \in UnderLock
  PROVE  /\ \A s \in UnderLock : Goto(p, s) /\ lock' = lock => CommandsKept
         /\ Goto(p, "delete") /\ lock' = None => CommandsKept
         /\ Return(p) => CommandsKept
         /\ \A l \in SUBSET Container :
              cmd' = [cmd EXCEPT ![p].at = "drop", ![p].listing = l] /\ lock' = lock =>
                CommandsKept
         /\ \A b \in BOOLEAN :
              cmd' = [cmd EXCEPT ![p].at = "choose", ![p].again = b] /\ lock' = lock =>
                CommandsKept
         /\ \A t \in Slots :
              cmd' = [cmd EXCEPT ![p].at = "link", ![p].target = t] /\ lock' = lock =>
                CommandsKept
<1>0. /\ cmd[p] \in Command /\ {"drop", "choose", "link", "delete"} \cup UnderLock \subseteq Step
      /\ {"drop", "choose", "link"} \subseteq UnderLock /\ "delete" \notin UnderLock
      /\ "idle" \notin UnderLock
      /\ lock = p
  BY DEF LockInv, TypeOK, Step, UnderLock
<1>1. ASSUME NEW s \in UnderLock, Goto(p, s), lock' = lock PROVE CommandsKept
  <2> DEFINE y == [cmd[p] EXCEPT !.at = s]
  <2>1. y \in Command /\ y.at = s /\ y.kind = cmd[p].kind /\ y.name = cmd[p].name
    BY <1>0 DEF Command
  <2>2. cmd' = [cmd EXCEPT ![p] = y] BY <1>1, <2>1 DEF Goto
  <2> HIDE DEF y
  <2>3. y.at \in UnderLock /\ lock' = p BY <1>0, <1>1, <2>1
  <2> QED BY <2>1, <2>2, <2>3, TakesStep
<1>2. ASSUME Goto(p, "delete"), lock' = None PROVE CommandsKept
  <2> DEFINE y == [cmd[p] EXCEPT !.at = "delete"]
  <2>1. y \in Command /\ y.at = "delete" /\ y.kind = cmd[p].kind /\ y.name = cmd[p].name
    BY <1>0 DEF Command
  <2>2. cmd' = [cmd EXCEPT ![p] = y] BY <1>2, <2>1 DEF Goto
  <2> HIDE DEF y
  <2> QED BY <1>0, <1>2, <2>1, <2>2, TakesStep
<1>3. ASSUME Return(p) PROVE CommandsKept
  BY <1>0, <1>3, TakesStep, IdleCommand DEF Return
<1>4. ASSUME NEW l \in SUBSET Container,
             cmd' = [cmd EXCEPT ![p].at = "drop", ![p].listing = l], lock' = lock
      PROVE CommandsKept
  <2> DEFINE y == [cmd[p] EXCEPT !.at = "drop", !.listing = l]
  <2>1. y \in Command /\ y.at = "drop" /\ y.kind = cmd[p].kind /\ y.name = cmd[p].name
    BY <1>0 DEF Command
  <2>2. cmd' = [cmd EXCEPT ![p] = y] BY <1>4, <2>1
  <2> HIDE DEF y
  <2>3. y.at \in UnderLock /\ lock' = p BY <1>0, <1>4, <2>1
  <2> QED BY <2>1, <2>2, <2>3, TakesStep
<1>5. ASSUME NEW b \in BOOLEAN,
             cmd' = [cmd EXCEPT ![p].at = "choose", ![p].again = b], lock' = lock
      PROVE CommandsKept
  <2> DEFINE y == [cmd[p] EXCEPT !.at = "choose", !.again = b]
  <2>1. y \in Command /\ y.at = "choose" /\ y.kind = cmd[p].kind /\ y.name = cmd[p].name
    BY <1>0 DEF Command
  <2>2. cmd' = [cmd EXCEPT ![p] = y] BY <1>5, <2>1
  <2> HIDE DEF y
  <2>3. y.at \in UnderLock /\ lock' = p BY <1>0, <1>5, <2>1
  <2> QED BY <2>1, <2>2, <2>3, TakesStep
<1>6. ASSUME NEW t \in Slots,
             cmd' = [cmd EXCEPT ![p].at = "link", ![p].target = t], lock' = lock
      PROVE CommandsKept
  <2> DEFINE y == [cmd[p] EXCEPT !.at = "link", !.target = t]
  <2>1. y \in Command /\ y.at = "link" /\ y.kind = cmd[p].kind /\ y.name = cmd[p].name
    BY <1>0 DEF Command
  <2>2. cmd' = [cmd EXCEPT ![p] = y] BY <1>6, <2>1
  <2> HIDE DEF y
  <2>3. y.at \in UnderLock /\ lock' = p BY <1>0, <1>6, <2>1
  <2> QED BY <2>1, <2>2, <2>3, TakesStep
<1> QED BY <1>1, <1>2, <1>3, <1>4, <1>5, <1>6

\* The types of Incus's state, the symlinks, the slots and the bounds.
Others ==
  /\ exists \subseteq Container /\ running \subseteq exists
  /\ device \in [Container -> Slots \cup {None}]
  /\ slots \subseteq Slots
  /\ link \in [Container -> Slots \cup {None}]
  /\ faults \in 0..MaxFaults /\ kills \in 0..MaxKills /\ removed \subseteq Slots

\* The two halves of the invariant.
LEMMA LockHalves == Others' /\ CommandsKept => LockInv'
  BY DEF Others, CommandsKept, LockInv, TypeOK

\* The steps of a command that waits for the pool's lock or holds it.
LEMMA LockCommands ==
  ASSUME LockInv, NEW p \in Process
  PROVE  /\ Acquire(p) => LockInv'
         /\ List(p) \/ ListFails(p) \/ Drop(p) \/ Prune(p) => LockInv'
         /\ \A c \in {cmd[p].name} \ {None} : Allocate(p, c) => LockInv'
         /\ \A c \in {cmd[p].name} \ {None} : Destroy(p, c) => LockInv'
<1>0. /\ Others /\ cmd[p] \in Command
      /\ {"list", "drop", "look", "choose", "link", "unmount", "mount", "undo", "relook",
          "remove", "unlink", "prune"} = UnderLock
  BY DEF LockInv, TypeOK, Others, Step, UnderLock
<1> USE LockHalves, GoesOn DEF At
<1>1. ASSUME Acquire(p) PROVE LockInv'
  <2>1. Others' BY <1>0, <1>1 DEF Acquire, Others
  <2> DEFINE s == IF cmd[p].kind = "destroy" THEN "relook" ELSE "list"
             y == [cmd[p] EXCEPT !.at = s]
  <2>2. s \in UnderLock /\ s \in Step /\ s \notin {"idle", "wait", "delete"}
    BY DEF UnderLock, Step
  <2>3. y \in Command /\ y.at = s /\ y.kind = cmd[p].kind /\ y.name = cmd[p].name
    BY <1>0, <2>2 DEF Command
  <2>4. cmd' = [cmd EXCEPT ![p] = y] /\ lock' = p /\ lock = None
    BY <1>1 DEF Acquire, Goto
  <2>5. cmd'[p] = y /\ \A q \in Process : q # p => cmd'[q] = cmd[q]
    BY <2>4 DEF LockInv, TypeOK
  <2>6. \A q \in Process : cmd[q].at \notin UnderLock
    BY <2>4, PoolAssumption DEF LockInv
  <2> HIDE DEF y, s
  <2>7. CommandsKept
    BY <2>2, <2>3, <2>4, <2>5, <2>6 DEF LockInv, TypeOK, CommandsKept
  <2> QED BY <2>1, <2>7
<1>2. ASSUME List(p) \/ ListFails(p) \/ Drop(p) \/ Prune(p) PROVE LockInv'
  <2>1. CASE List(p)
    <3>1. Others' BY <1>0, <2>1 DEF List, Others
    <3> QED BY <1>0, <2>1, <3>1 DEF List, Others
  <2>2. CASE ListFails(p)
    <3>1. faults' \in 0..MaxFaults BY <2>2, Bounds DEF ListFails, LockInv
    <3>2. Others' BY <1>0, <2>2, <3>1 DEF ListFails, Others
    <3> QED BY <1>0, <2>2, <3>2 DEF ListFails
  <2>3. CASE Drop(p)
    <3>1. Others' BY <1>0, <2>3 DEF Drop, Others
    <3> QED BY <1>0, <2>3, <3>1 DEF Drop
  <2>4. CASE Prune(p)
    <3>1. Others' BY <1>0, <2>4 DEF Prune, Others
    <3> QED BY <1>0, <2>4, <3>1 DEF Prune
  <2> QED BY <1>2, <2>1, <2>2, <2>3, <2>4
<1>3. ASSUME NEW c \in {cmd[p].name} \ {None}, Allocate(p, c) PROVE LockInv'
  <2>0. c \in Container BY Named
  <2>1. CASE AlreadyAllocated(p, c)
    <3>1. Others' BY <1>0, <2>1 DEF AlreadyAllocated, HandOver, booted, Others
    <3> QED BY <1>0, <2>1, <3>1 DEF AlreadyAllocated, HandOver
  <2>2. CASE Look(p, c)
    <3>1. Others' BY <1>0, <2>0, <2>2 DEF Look, Others
    <3> QED BY <1>0, <2>2, <3>1 DEF Look
  <2>3. CASE Choose(p)
    <3>1. PICK s \in IF Free # {} THEN Free ELSE NewSlot :
            /\ slots' = slots \cup {s}
            /\ \/ /\ cmd' = [cmd EXCEPT ![p].at = "link", ![p].target = s]
                  /\ UNCHANGED <<lock, faults>>
               \/ Fault /\ Return(p)
      BY <2>3 DEF Choose
    <3>2. s \in Slots
      BY <1>0, <3>1 DEF Others, Free, NewSlot, unusedNumbers
    <3>3. faults' \in 0..MaxFaults BY <1>0, <3>1, Bounds DEF LockInv, Others
    <3>4. Others' BY <1>0, <2>3, <3>1, <3>2, <3>3 DEF Choose, Others
    <3> QED BY <1>0, <2>3, <3>1, <3>2, <3>4 DEF Choose
  <2>4. CASE Link(p, c)
    <3>1. cmd[p].target \in Slots \cup {None} BY <1>0 DEF Command
    <3>2. Others' BY <1>0, <2>0, <2>4, <3>1 DEF Link, linked, Others
    <3> QED BY <1>0, <2>4, <3>2 DEF Link
  <2>5. CASE Unmount(p, c)
    <3>1. faults' \in 0..MaxFaults BY <1>0, <2>5, Bounds DEF LockInv, Others, Unmount
    <3>2. Others' BY <1>0, <2>0, <2>5, <3>1 DEF Unmount, Others
    <3> QED BY <1>0, <2>5, <3>2 DEF Unmount
  <2>6. CASE Mount(p, c)
    <3>1. cmd[p].target \in Slots \cup {None} BY <1>0 DEF Command
    <3>2. Others' BY <1>0, <2>0, <2>6, <3>1 DEF Mount, HandOver, booted, Others
    <3> QED BY <1>0, <2>6, <3>2 DEF Mount, HandOver
  <2>7. CASE MountFails(p, c)
    <3>1. faults' \in 0..MaxFaults BY <1>0, <2>7, Bounds DEF LockInv, Others, MountFails
    <3>2. Others' BY <1>0, <2>7, <3>1 DEF MountFails, Others
    <3> QED BY <1>0, <2>7, <3>2 DEF MountFails
  <2>8. CASE Undo(p, c)
    <3>1. Others' BY <1>0, <2>0, <2>8 DEF Undo, Others
    <3> QED BY <1>0, <2>8, <3>1 DEF Undo
  <2> QED BY <1>3, <2>1, <2>2, <2>3, <2>4, <2>5, <2>6, <2>7, <2>8 DEF Allocate
<1>4. ASSUME NEW c \in {cmd[p].name} \ {None}, Destroy(p, c) PROVE LockInv'
  <2>0. c \in Container BY Named
  <2>1. CASE Relook(p, c)
    <3>1. Others' BY <1>0, <2>1 DEF Relook, Others
    <3> QED BY <1>0, <2>1, <3>1 DEF Relook
  <2>2. CASE Remove(p, c)
    <3>1. faults' \in 0..MaxFaults BY <1>0, <2>2, Bounds DEF LockInv, Others, Remove
    <3>2. Others' BY <1>0, <2>0, <2>2, <3>1 DEF Remove, Others
    <3> QED BY <1>0, <2>2, <3>2 DEF Remove
  <2>3. CASE Unlink(p, c)
    <3>1. Others' BY <1>0, <2>0, <2>3 DEF Unlink, Others
    <3> QED BY <1>0, <2>3, <3>1 DEF Unlink
  <2>4. CASE Delete(p, c)
    <3>1. faults' \in 0..MaxFaults BY <1>0, <2>4, Bounds DEF LockInv, Others, Delete
    <3>2. Others' BY <1>0, <2>0, <2>4, <3>1 DEF Delete, Others
    <3>3. cmd[p].at \notin UnderLock /\ lock' = lock BY <2>4 DEF Delete, UnderLock
    <3>4. CommandsKept
      BY <2>4, <3>3, IdleCommand, StepsOutside, PoolAssumption DEF Delete, Kind, UnderLock
    <3> QED BY <3>2, <3>4
  <2> QED BY <1>4, <2>1, <2>2, <2>3, <2>4 DEF Destroy
<1> QED BY <1>1, <1>2, <1>3, <1>4

\* Every step keeps the types and who holds the flock.
LEMMA LockStep == LockInv /\ [Next]_vars => LockInv'
<1> SUFFICES ASSUME LockInv, [Next]_vars PROVE LockInv' OBVIOUS
<1> USE LockHalves
<1>0. Others BY DEF LockInv, TypeOK, Others
<1>1. ASSUME NEW p \in Process, NEW k \in Kind, NEW c \in Container \cup {None}, Begin(p, k, c)
      PROVE LockInv'
  <2>1. Others' BY <1>0, <1>1 DEF Begin, Others
  <2> DEFINE y == [Idle EXCEPT !.at = "wait", !.kind = k, !.name = c]
  <2>2. y \in Command /\ y.at = "wait" /\ y.kind = k /\ y.name = c
    BY DEF Idle, Command, Step
  <2>3. k \in {"allocate", "destroy"} => c # None
    BY <1>0, <1>1, PoolAssumption DEF Begin, Others
  <2>4. /\ cmd' = [cmd EXCEPT ![p] = y] /\ lock' = lock
        /\ cmd[p].at \notin UnderLock /\ "wait" \notin UnderLock
    BY <1>1 DEF Begin, At, UnderLock
  <2> HIDE DEF y
  <2>5. CommandsKept BY <2>2, <2>3, <2>4, StepsOutside
  <2> QED BY <2>1, <2>5
<1>2. ASSUME NEW p \in Process, Run(p) PROVE LockInv'
  BY <1>2, LockCommands DEF Run
<1>3. ASSUME NEW p \in Process, Kill(p) PROVE LockInv'
  <2>1. kills' \in 0..MaxKills BY <1>3, Bounds DEF Kill, LockInv
  <2>2. Others' BY <1>0, <1>3, <2>1 DEF Kill, Others
  <2>3. CommandsKept
    BY <1>3, IdleCommand, StepsOutside, PoolAssumption DEF Kill, Kind, UnderLock
  <2> QED BY <2>2, <2>3
<1>4. ASSUME NEW c \in Container, Create(c) PROVE LockInv'
  <2>1. Others' BY <1>0, <1>4 DEF Create, Others
  <2>2. CommandsKept BY <1>4 DEF Create, LockInv, TypeOK, CommandsKept
  <2> QED BY <2>1, <2>2
<1>5. ASSUME NEW s \in Slots, UserRemoves(s) PROVE LockInv'
  <2>1. Others' BY <1>0, <1>5 DEF UserRemoves, Others
  <2>2. CommandsKept BY <1>5 DEF UserRemoves, LockInv, TypeOK, CommandsKept
  <2> QED BY <2>1, <2>2
<1>6. CASE UNCHANGED vars
  BY <1>6 DEF vars, LockInv, TypeOK
<1> QED BY <1>1, <1>2, <1>3, <1>4, <1>5, <1>6 DEF Next

\* At the start no command runs.
LEMMA LockInit == Init => LockInv
<1> SUFFICES ASSUME Init PROVE LockInv OBVIOUS
<1>1. cmd \in [Process -> Command] /\ \A p \in Process : cmd[p] = Idle
  BY IdleCommand DEF Init
<1>2. 0 \in 0..MaxFaults /\ 0 \in 0..MaxKills BY PoolAssumption
<1> QED BY <1>1, <1>2, IdleCommand, PoolAssumption DEF Init, LockInv, TypeOK, UnderLock, Kind

\* Every variable keeps its type, and the flock is held by none but a command at work under
\* it: however commands fail or are killed, nobody waits for a lock nobody will release.
THEOREM TypeOKAlways == Spec => []TypeOK
<1>1. LockInv => TypeOK BY DEF LockInv
<1> QED BY LockInit, LockStep, <1>1, PTL DEF Spec

-----------------------------------------------------------------------------
\* What the pool believes and what Incus mounts.

\* A slot with a directory, or one whose number is excused for good.
Known == slots \cup removed

\* Nothing the container mounts is the pool's concern.
Unmounted(c) == device[c] = None \/ device[c] \in removed

\* Every symlink leads to a known slot, two lead to one only if it was deleted by hand, and
\* a container that is gone mounts nothing.
LinksInv ==
  /\ \A c \in Container : link[c] # None => link[c] \in Known
  /\ \A c, d \in Container : c # d /\ link[c] = link[d] /\ link[c] # None => link[c] \in removed
  /\ \A c \in Container : c \notin exists => device[c] = None

\* What a command at work for a container c relies on: the symlink it removed or wrote is
\* as it left it, and the device waits for it.
ForContainer(p, c) ==
  /\ cmd[p].at \in {"choose", "link"} => link[c] = None
  /\ cmd[p].at \in {"unmount", "mount"} => link[c] = cmd[p].target
  /\ cmd[p].at \in {"choose", "link", "unmount", "mount", "undo"} => Unmounted(c)
  /\ cmd[p].at = "unlink" => device[c] = None

\* What a command relies on: what it did not list has no device, the slot it chose is still
\* there, and no symlink led to it.
Relies(p) ==
  /\ cmd[p].at = "drop" => \A c \in Container \ cmd[p].listing : device[c] = None
  /\ cmd[p].at \in {"link", "unmount", "mount"} => cmd[p].target \in Known
  /\ cmd[p].at = "link" =>
       \A d \in Container : link[d] = cmd[p].target => cmd[p].target \in removed
  /\ \A c \in Container : cmd[p].name = c => ForContainer(p, c)

PoolInv == LockInv /\ LinksInv /\ DeviceLinked /\ \A p \in Process : Relies(p)

\* The invariant implies what a slot promises its container.
LEMMA PoolImplies == PoolInv => Exclusive
<1> SUFFICES ASSUME PoolInv, NEW c \in Container, device[c] # None, device[c] \notin removed
             PROVE  /\ device[c] \in slots
                    /\ \A d \in Container : device[d] = device[c] => d = c
  BY DEF Exclusive
<1>1. link[c] = device[c] BY DEF PoolInv, DeviceLinked
<1>2. device[c] \in slots BY <1>1 DEF PoolInv, LinksInv, Known
<1>3. ASSUME NEW d \in Container, device[d] = device[c] PROVE d = c
  <2>1. link[d] = link[c] BY <1>1, <1>3 DEF PoolInv, DeviceLinked
  <2> QED BY <1>1, <2>1 DEF PoolInv, LinksInv
<1> QED BY <1>2, <1>3

\* A command that waits, deletes or is done relies on nothing.
LEMMA AtRest ==
  ASSUME NEW q \in Process, cmd'[q].at \notin UnderLock
  PROVE  Relies(q)'
  BY DEF Relies, ForContainer, UnderLock, Step

\* A step of the flock's holder touches nothing another command relies on.
LEMMA HolderAlone ==
  ASSUME PoolInv, NEW p \in Process, cmd[p].at \in UnderLock, NEW y,
         cmd' = [cmd EXCEPT ![p] = y]
  PROVE  /\ cmd'[p] = y
         /\ \A q \in Process : q # p => Relies(q)'
<1>1. \A q \in Process : q # p => cmd'[q].at \notin UnderLock
  BY DEF PoolInv, LockInv, TypeOK
<1> QED BY <1>1, AtRest DEF PoolInv, LockInv, TypeOK

\* Nor does a step that leaves symlinks and known slots, and mounts nothing.
LEMMA Undisturbed ==
  ASSUME NEW q \in Process, Relies(q), cmd'[q] = cmd[q], link' = link,
         Known \subseteq Known', removed \subseteq removed',
         \A c \in Container : device'[c] \in {device[c], None}
  PROVE  Relies(q)'
<1>1. \A c \in Container : Unmounted(c) => Unmounted(c)' BY DEF Unmounted
<1> QED BY <1>1 DEF Relies, ForContainer

\* A step that leaves symlinks, containers and known slots, and mounts nothing, keeps what
\* holds of them.
LEMMA LinksUndisturbed ==
  ASSUME LinksInv, DeviceLinked, link' = link,
         Known \subseteq Known', removed \subseteq removed',
         \A c \in Container : device'[c] \in {device[c], None},
         \A c \in Container : c \notin exists' => c \notin exists \/ device'[c] = None
  PROVE  LinksInv' /\ DeviceLinked'
  BY DEF LinksInv, DeviceLinked

\* Listing, reconciling and pruning.
LEMMA HousekeepingSteps ==
  ASSUME PoolInv, NEW p \in Process, LockInv',
         List(p) \/ ListFails(p) \/ Drop(p) \/ Prune(p)
  PROVE  PoolInv'
<1>0. /\ cmd[p].at \in UnderLock /\ cmd \in [Process -> Command]
      /\ link \in [Container -> Slots \cup {None}] /\ device \in [Container -> Slots \cup {None}]
  BY DEF List, ListFails, Drop, Prune, At, UnderLock, Step, PoolInv, LockInv, TypeOK
<1>1. SUFFICES LinksInv' /\ DeviceLinked' /\ \A q \in Process : Relies(q)'
  BY DEF PoolInv
<1>2. CASE List(p)
  <2> DEFINE y == [cmd[p] EXCEPT !.at = "drop", !.listing = exists]
  <2>1. cmd' = [cmd EXCEPT ![p] = y] BY <1>2 DEF List
  <2>2. LinksInv' /\ DeviceLinked' BY <1>2, LinksUndisturbed DEF List, PoolInv, Known
  <2>3. y.at = "drop" /\ y.listing = exists BY <1>0 DEF Command
  <2> HIDE DEF y
  <2>4. cmd'[p] = y /\ \A q \in Process : q # p => Relies(q)'
    BY <1>0, <2>1, HolderAlone
  <2>5. Relies(p)'
    BY <1>2, <2>3, <2>4 DEF List, PoolInv, LinksInv, Relies, ForContainer
  <2> QED BY <2>2, <2>4, <2>5
<1>3. CASE ListFails(p)
  <2>1. LinksInv' /\ DeviceLinked' BY <1>3, LinksUndisturbed DEF ListFails, PoolInv, Known
  <2>2. cmd'[p] = Idle /\ \A q \in Process : q # p => Relies(q)'
    BY <1>0, <1>3, HolderAlone DEF ListFails, Return
  <2> QED BY <2>1, <2>2, AtRest, IdleCommand DEF UnderLock
<1>4. CASE Drop(p)
  <2>1. \A c \in Container : c \notin kept(p) => device[c] = None
    BY <1>4 DEF Drop, At, kept, PoolInv, Relies
  <2>2. /\ \A c \in Container : link'[c] = IF c \in kept(p) THEN link[c] ELSE None
        /\ UNCHANGED <<incus, slots, removed>>
    BY <1>4 DEF Drop
  <2>3. LinksInv' /\ DeviceLinked'
    BY <2>1, <2>2 DEF PoolInv, LinksInv, DeviceLinked, Known
  <2>4. PICK y : cmd' = [cmd EXCEPT ![p] = y] /\ y.at \in {"look", "prune", "idle"}
    <3>1. CASE Goto(p, "look")
      <4> WITNESS [cmd[p] EXCEPT !.at = "look"]
      <4> QED BY <1>0, <3>1 DEF Goto, Command
    <3>2. CASE Goto(p, "prune")
      <4> WITNESS [cmd[p] EXCEPT !.at = "prune"]
      <4> QED BY <1>0, <3>2 DEF Goto, Command
    <3>3. CASE Return(p)
      <4> WITNESS Idle
      <4> QED BY <3>3, IdleCommand DEF Return
    <3> QED BY <1>4, <3>1, <3>2, <3>3 DEF Drop
  <2>5. cmd'[p] = y /\ \A q \in Process : q # p => Relies(q)'
    BY <1>0, <2>4, HolderAlone
  <2>6. Relies(p)' BY <2>4, <2>5 DEF Relies, ForContainer
  <2> QED BY <2>3, <2>5, <2>6
<1>5. CASE Prune(p)
  <2>1. /\ slots' = slots \ Free /\ UNCHANGED <<incus, link, removed>>
    BY <1>5 DEF Prune
  <2>2. \A c \in Container : link[c] \in Known => link[c] \in Known'
    BY <2>1 DEF Known, Free
  <2>3. LinksInv' /\ DeviceLinked' BY <2>1, <2>2 DEF PoolInv, LinksInv, DeviceLinked
  <2>4. cmd'[p] = Idle /\ \A q \in Process : q # p => Relies(q)'
    BY <1>0, <1>5, HolderAlone DEF Prune, Return
  <2> QED BY <2>3, <2>4, AtRest, IdleCommand DEF UnderLock
<1> QED BY <1>2, <1>3, <1>4, <1>5

\* A command that goes to the step s, with no other change to it.
LEMMA Goes ==
  ASSUME PoolInv, NEW p \in Process, cmd[p].at \in UnderLock, NEW s, Goto(p, s)
  PROVE  /\ cmd'[p].at = s /\ cmd'[p].name = cmd[p].name /\ cmd'[p].target = cmd[p].target
         /\ \A q \in Process : q # p => Relies(q)'
<1> DEFINE y == [cmd[p] EXCEPT !.at = s]
<1>1. cmd' = [cmd EXCEPT ![p] = y] BY DEF Goto
<1>2. y.at = s /\ y.name = cmd[p].name /\ y.target = cmd[p].target
  BY DEF PoolInv, LockInv, TypeOK, Command
<1> HIDE DEF y
<1>3. cmd'[p] = y /\ \A q \in Process : q # p => Relies(q)' BY <1>1, HolderAlone
<1> QED BY <1>2, <1>3

\* A command that returns.
LEMMA Returns ==
  ASSUME PoolInv, NEW p \in Process, cmd[p].at \in UnderLock, Return(p)
  PROVE  \A q \in Process : Relies(q)'
<1>1. cmd'[p] = Idle /\ \A q \in Process : q # p => Relies(q)'
  BY HolderAlone DEF Return
<1> QED BY <1>1, AtRest, IdleCommand DEF UnderLock

\* Allocating: the slot looked for, chosen, linked and mounted.
LEMMA AllocateSteps ==
  ASSUME PoolInv, NEW p \in Process, NEW c \in {cmd[p].name} \ {None}, LockInv',
         Allocate(p, c)
  PROVE  PoolInv'
<1>0. /\ cmd[p].at \in UnderLock /\ cmd \in [Process -> Command]
      /\ link \in [Container -> Slots \cup {None}] /\ device \in [Container -> Slots \cup {None}]
      /\ c \in Container /\ cmd[p].name = c /\ ForContainer(p, c)
  <2>1. c \in Container /\ cmd[p].name = c BY Named DEF PoolInv
  <2>2. cmd[p].at \in UnderLock
    BY DEF Allocate, AlreadyAllocated, Look, Choose, Link, Unmount, Mount, MountFails, Undo,
           At, UnderLock, Step
  <2> QED BY <2>1, <2>2 DEF PoolInv, LockInv, TypeOK, Relies
<1>1. SUFFICES LinksInv' /\ DeviceLinked' /\ \A q \in Process : Relies(q)'
  BY DEF PoolInv
<1>2. CASE AlreadyAllocated(p, c)
  <2>1. LinksInv' /\ DeviceLinked'
    BY <1>2, LinksUndisturbed DEF AlreadyAllocated, PoolInv, Known
  <2> QED BY <1>0, <1>2, <2>1, Returns DEF AlreadyAllocated, HandOver
<1>3. CASE Look(p, c)
  <2> DEFINE y == [cmd[p] EXCEPT !.at = "choose", !.again = link[c] # None]
  <2>1. cmd' = [cmd EXCEPT ![p] = y] BY <1>3 DEF Look
  <2>2. y.at = "choose" /\ y.name = c BY <1>0 DEF Command
  <2> HIDE DEF y
  <2>3. cmd'[p] = y /\ \A q \in Process : q # p => Relies(q)'
    BY <1>0, <2>1, HolderAlone
  <2>4. Unmounted(c)
    BY <1>0, <1>3 DEF Look, Unmounted, PoolInv, DeviceLinked, LinksInv, Known
  <2>5. LinksInv' /\ DeviceLinked'
    BY <1>0, <1>3, <2>4 DEF Look, Unmounted, PoolInv, DeviceLinked, LinksInv, Known
  <2>6. link'[c] = None /\ Unmounted(c)' BY <1>0, <1>3, <2>4 DEF Look, Unmounted
  <2>7. Relies(p)' BY <2>2, <2>3, <2>6 DEF Relies, ForContainer
  <2> QED BY <2>3, <2>5, <2>7
<1>4. CASE Choose(p)
  <2>1. PICK s \in IF Free # {} THEN Free ELSE NewSlot :
          /\ slots' = slots \cup {s}
          /\ \/ /\ cmd' = [cmd EXCEPT ![p].at = "link", ![p].target = s]
                /\ UNCHANGED <<lock, faults>>
             \/ Fault /\ Return(p)
    BY <1>4 DEF Choose
  <2>2. UNCHANGED <<incus, link, removed>> BY <1>4 DEF Choose
  <2>3. LinksInv' /\ DeviceLinked'
    BY <2>1, <2>2, LinksUndisturbed DEF PoolInv, Known
  <2>4. \A d \in Container : link[d] = s => s \in removed
    BY PoolAssumption DEF PoolInv, LinksInv, Known, Free, NewSlot, unusedNumbers
  <2>5. CASE cmd' = [cmd EXCEPT ![p].at = "link", ![p].target = s]
    <3> DEFINE y == [cmd[p] EXCEPT !.at = "link", !.target = s]
    <3>1. cmd' = [cmd EXCEPT ![p] = y] BY <2>5
    <3>2. y.at = "link" /\ y.name = c /\ y.target = s BY <1>0 DEF Command
    <3> HIDE DEF y
    <3>3. cmd'[p] = y /\ \A q \in Process : q # p => Relies(q)'
      BY <1>0, <3>1, HolderAlone
    <3>4. link'[c] = None /\ Unmounted(c)'
      BY <1>0, <1>4, <2>2 DEF Choose, At, ForContainer, Unmounted
    <3>5. s \in Known' BY <2>1 DEF Known
    <3>6. Relies(p)' BY <2>2, <2>4, <3>2, <3>3, <3>4, <3>5 DEF Relies, ForContainer
    <3> QED BY <2>3, <3>3, <3>6
  <2>6. CASE Return(p)
    BY <1>0, <2>3, <2>6, Returns
  <2> QED BY <2>1, <2>5, <2>6
<1>5. CASE Link(p, c)
  <2> DEFINE t == cmd[p].target
  <2>1. /\ link' = [link EXCEPT ![c] = t] /\ UNCHANGED <<incus, slots, removed>>
        /\ Unmounted(c) /\ t \in Known
        /\ \A d \in Container : link[d] = t => t \in removed
    BY <1>0, <1>5 DEF Link, linked, At, PoolInv, Relies, ForContainer
  <2> HIDE DEF t
  <2>2. LinksInv' /\ DeviceLinked'
    BY <1>0, <2>1 DEF PoolInv, LinksInv, DeviceLinked, Known, Unmounted
  <2>3. link'[c] = t /\ Unmounted(c)' /\ t \in Known'
    BY <1>0, <2>1 DEF Known, Unmounted
  <2> DEFINE s == IF cmd[p].again THEN "unmount" ELSE "mount"
  <2>4. Goto(p, s) /\ s \in {"unmount", "mount"} BY <1>5 DEF Link
  <2> HIDE DEF s
  <2>5. /\ cmd'[p].at = s /\ cmd'[p].name = c /\ cmd'[p].target = t
        /\ \A q \in Process : q # p => Relies(q)'
    BY <1>0, <2>4, Goes DEF t
  <2>6. Relies(p)' BY <2>3, <2>4, <2>5 DEF Relies, ForContainer
  <2> QED BY <2>2, <2>5, <2>6
<1>6. CASE Unmount(p, c)
  <2>1. /\ link[c] = cmd[p].target /\ Unmounted(c) /\ cmd[p].target \in Known
        /\ UNCHANGED <<exists, link, slots, removed>>
        /\ device' = [device EXCEPT ![c] = None] \/ device' = device
    BY <1>0, <1>6 DEF Unmount, At, PoolInv, Relies, ForContainer
  <2>2. LinksInv' /\ DeviceLinked'
    BY <1>0, <2>1, LinksUndisturbed DEF PoolInv, Known
  <2>3. link'[c] = cmd[p].target /\ Unmounted(c)' /\ cmd[p].target \in Known'
    BY <1>0, <2>1 DEF Known, Unmounted
  <2>4. PICK s \in {"mount", "undo"} : Goto(p, s) BY <1>6 DEF Unmount
  <2>5. /\ cmd'[p].at = s /\ cmd'[p].name = c /\ cmd'[p].target = cmd[p].target
        /\ \A q \in Process : q # p => Relies(q)'
    BY <1>0, <2>4, Goes
  <2>6. Relies(p)' BY <2>3, <2>5 DEF Relies, ForContainer
  <2> QED BY <2>2, <2>5, <2>6
<1>7. CASE Mount(p, c)
  <2>1. /\ link[c] = cmd[p].target /\ c \in exists
        /\ device' = [device EXCEPT ![c] = cmd[p].target]
        /\ UNCHANGED <<exists, link, slots, removed>> /\ Return(p)
    BY <1>0, <1>7 DEF Mount, HandOver, At, ForContainer
  <2>2. LinksInv' /\ DeviceLinked'
    BY <1>0, <2>1 DEF PoolInv, LinksInv, DeviceLinked, Known
  <2> QED BY <1>0, <2>1, <2>2, Returns
<1>8. CASE MountFails(p, c)
  <2>1. Unmounted(c) /\ UNCHANGED <<incus, link, slots, removed>>
    BY <1>0, <1>8 DEF MountFails, At, ForContainer
  <2>2. LinksInv' /\ DeviceLinked' BY <2>1, LinksUndisturbed DEF PoolInv, Known
  <2>3. Unmounted(c)' BY <2>1 DEF Unmounted
  <2>4. Goto(p, "undo") BY <1>8 DEF MountFails
  <2>5. /\ cmd'[p].at = "undo" /\ cmd'[p].name = c
        /\ \A q \in Process : q # p => Relies(q)'
    BY <1>0, <2>4, Goes
  <2>6. Relies(p)' BY <2>3, <2>5 DEF Relies, ForContainer
  <2> QED BY <2>2, <2>5, <2>6
<1>9. CASE Undo(p, c)
  <2>1. /\ Unmounted(c) /\ link' = [link EXCEPT ![c] = None] /\ Return(p)
        /\ UNCHANGED <<incus, slots, removed>>
    BY <1>0, <1>9 DEF Undo, At, ForContainer
  <2>2. LinksInv' /\ DeviceLinked'
    BY <1>0, <2>1 DEF PoolInv, LinksInv, DeviceLinked, Known, Unmounted
  <2> QED BY <1>0, <2>1, <2>2, Returns
<1> QED BY <1>2, <1>3, <1>4, <1>5, <1>6, <1>7, <1>8, <1>9 DEF Allocate

\* Releasing a container's slot, and the deletion after it.
LEMMA DestroySteps ==
  ASSUME PoolInv, NEW p \in Process, NEW c \in {cmd[p].name} \ {None}, LockInv',
         Destroy(p, c)
  PROVE  PoolInv'
<1>0. /\ cmd \in [Process -> Command]
      /\ link \in [Container -> Slots \cup {None}] /\ device \in [Container -> Slots \cup {None}]
      /\ c \in Container /\ cmd[p].name = c /\ ForContainer(p, c)
  <2>1. c \in Container /\ cmd[p].name = c BY Named DEF PoolInv
  <2> QED BY <2>1 DEF PoolInv, LockInv, TypeOK, Relies
<1>1. SUFFICES LinksInv' /\ DeviceLinked' /\ \A q \in Process : Relies(q)'
  BY DEF PoolInv
<1>2. CASE Relook(p, c)
  <2>1. LinksInv' /\ DeviceLinked' BY <1>2, LinksUndisturbed DEF Relook, PoolInv, Known
  <2>2. cmd[p].at \in UnderLock BY <1>2 DEF Relook, At, UnderLock, Step
  <2>3. PICK s \in {"remove", "delete"} : Goto(p, s) BY <1>2 DEF Relook
  <2>4. cmd'[p].at = s /\ \A q \in Process : q # p => Relies(q)' BY <2>2, <2>3, Goes
  <2> QED BY <2>1, <2>4 DEF Relies, ForContainer
<1>3. CASE Remove(p, c)
  <2>1. /\ UNCHANGED <<exists, slots, link, removed>>
        /\ device' = [device EXCEPT ![c] = None] \/ device' = device
    BY <1>3 DEF Remove
  <2>2. LinksInv' /\ DeviceLinked' BY <1>0, <2>1, LinksUndisturbed DEF PoolInv, Known
  <2>3. cmd[p].at \in UnderLock BY <1>3 DEF Remove, At, UnderLock, Step
  <2>4. CASE Goto(p, "unlink") /\ device' = [device EXCEPT ![c] = None]
    <3>1. /\ cmd'[p].at = "unlink" /\ cmd'[p].name = c
          /\ \A q \in Process : q # p => Relies(q)'
      BY <1>0, <2>3, <2>4, Goes
    <3>2. Relies(p)' BY <1>0, <2>4, <3>1 DEF Relies, ForContainer
    <3> QED BY <2>2, <3>1, <3>2
  <2>5. CASE Goto(p, "delete")
    <3>1. cmd'[p].at = "delete" /\ \A q \in Process : q # p => Relies(q)'
      BY <2>3, <2>5, Goes
    <3> QED BY <2>2, <3>1 DEF Relies, ForContainer
  <2> QED BY <1>3, <2>4, <2>5 DEF Remove
<1>4. CASE Unlink(p, c)
  <2>1. device[c] = None /\ link' = [link EXCEPT ![c] = None] /\ Goto(p, "delete")
    BY <1>0, <1>4 DEF Unlink, At, ForContainer
  <2>2. UNCHANGED <<incus, slots, removed>> BY <1>4 DEF Unlink
  <2>3. LinksInv' /\ DeviceLinked'
    BY <1>0, <2>1, <2>2 DEF PoolInv, LinksInv, DeviceLinked, Known
  <2>4. cmd[p].at \in UnderLock BY <1>4 DEF Unlink, At, UnderLock, Step
  <2>5. cmd'[p].at = "delete" /\ \A q \in Process : q # p => Relies(q)'
    BY <2>1, <2>4, Goes
  <2> QED BY <2>3, <2>5 DEF Relies, ForContainer
<1>5. CASE Delete(p, c)
  <2>1. /\ UNCHANGED <<slots, link, removed>> /\ cmd' = [cmd EXCEPT ![p] = Idle]
        /\ \A d \in Container : device'[d] \in {device[d], None}
        /\ \A d \in Container : d \notin exists' => d \notin exists \/ device'[d] = None
    BY <1>0, <1>5 DEF Delete
  <2>2. LinksInv' /\ DeviceLinked' BY <2>1, LinksUndisturbed DEF PoolInv, Known
  <2>3. cmd'[p] = Idle /\ \A q \in Process : q # p => cmd'[q] = cmd[q]
    BY <1>0, <2>1
  <2>4. \A q \in Process : q # p => Relies(q)'
    BY <2>1, <2>3, Undisturbed DEF PoolInv, Known
  <2> QED BY <2>2, <2>3, <2>4, AtRest, IdleCommand DEF UnderLock
<1> QED BY <1>2, <1>3, <1>4, <1>5 DEF Destroy

\* Every step keeps what the pool believes true of what is mounted.
LEMMA PoolStep == PoolInv /\ [Next]_vars => PoolInv'
<1> SUFFICES ASSUME PoolInv, [Next]_vars PROVE PoolInv' OBVIOUS
<1>0. LockInv' /\ cmd \in [Process -> Command]
  BY LockStep DEF PoolInv, LockInv, TypeOK
<1>1. ASSUME NEW p \in Process, NEW k \in Kind, NEW c \in Container \cup {None}, Begin(p, k, c)
      PROVE PoolInv'
  <2>1. LinksInv' /\ DeviceLinked' BY <1>1, LinksUndisturbed DEF Begin, PoolInv, Known
  <2> DEFINE y == [Idle EXCEPT !.at = "wait", !.kind = k, !.name = c]
  <2>2. cmd' = [cmd EXCEPT ![p] = y] BY <1>1 DEF Begin
  <2>3. y.at = "wait" BY DEF Idle
  <2> HIDE DEF y
  <2>4. cmd'[p] = y /\ \A q \in Process : q # p => cmd'[q] = cmd[q] BY <1>0, <2>2
  <2>5. \A q \in Process : q # p => Relies(q)'
    BY <1>1, <2>4, Undisturbed DEF Begin, PoolInv, Known
  <2>6. Relies(p)' BY <2>3, <2>4, AtRest DEF UnderLock
  <2> QED BY <1>0, <2>1, <2>5, <2>6 DEF PoolInv
<1>2. ASSUME NEW p \in Process, Run(p) PROVE PoolInv'
  <2>1. CASE Acquire(p)
    <3>1. LinksInv' /\ DeviceLinked' BY <2>1, LinksUndisturbed DEF Acquire, PoolInv, Known
    <3> DEFINE s == IF cmd[p].kind = "destroy" THEN "relook" ELSE "list"
               y == [cmd[p] EXCEPT !.at = s]
    <3>2. cmd' = [cmd EXCEPT ![p] = y] BY <2>1 DEF Acquire, Goto
    <3>3. y.at \in {"relook", "list"} BY <1>0 DEF Command
    <3> HIDE DEF y
    <3>4. cmd'[p] = y /\ \A q \in Process : q # p => cmd'[q] = cmd[q] BY <1>0, <3>2
    <3>5. \A q \in Process : q # p => Relies(q)'
      BY <2>1, <3>4, Undisturbed DEF Acquire, PoolInv, Known
    <3>6. Relies(p)' BY <3>3, <3>4 DEF Relies, ForContainer
    <3> QED BY <1>0, <3>1, <3>5, <3>6 DEF PoolInv
  <2>2. CASE List(p) \/ ListFails(p) \/ Drop(p) \/ Prune(p)
    BY <1>0, <2>2, HousekeepingSteps
  <2>3. CASE \E c \in {cmd[p].name} \ {None} : Allocate(p, c) \/ Destroy(p, c)
    BY <1>0, <2>3, AllocateSteps, DestroySteps
  <2> QED BY <1>2, <2>1, <2>2, <2>3 DEF Run
<1>3. ASSUME NEW p \in Process, Kill(p) PROVE PoolInv'
  <2>1. LinksInv' /\ DeviceLinked' BY <1>3, LinksUndisturbed DEF Kill, PoolInv, Known
  <2>2. cmd'[p] = Idle /\ \A q \in Process : q # p => cmd'[q] = cmd[q]
    BY <1>0, <1>3 DEF Kill
  <2>3. \A q \in Process : q # p => Relies(q)'
    BY <1>3, <2>2, Undisturbed DEF Kill, PoolInv, Known
  <2>4. Relies(p)' BY <2>2, AtRest, IdleCommand DEF UnderLock
  <2> QED BY <1>0, <2>1, <2>3, <2>4 DEF PoolInv
<1>4. ASSUME NEW c \in Container, Create(c) PROVE PoolInv'
  <2>1. LinksInv' /\ DeviceLinked' BY <1>4, LinksUndisturbed DEF Create, PoolInv, Known
  <2>2. \A q \in Process : Relies(q)' BY <1>4, Undisturbed DEF Create, PoolInv, Known
  <2> QED BY <1>0, <2>1, <2>2 DEF PoolInv
<1>5. ASSUME NEW s \in Slots, UserRemoves(s) PROVE PoolInv'
  <2>1. Known \subseteq Known' /\ removed \subseteq removed'
    BY <1>5 DEF UserRemoves, Known
  <2>2. LinksInv' /\ DeviceLinked' BY <1>5, <2>1, LinksUndisturbed DEF UserRemoves, PoolInv
  <2>3. \A q \in Process : Relies(q)'
    BY <1>5, <2>1, Undisturbed DEF UserRemoves, PoolInv
  <2> QED BY <1>0, <2>2, <2>3 DEF PoolInv
<1>6. CASE UNCHANGED vars
  BY <1>0, <1>6 DEF vars, PoolInv, LinksInv, DeviceLinked, Relies, ForContainer, Unmounted, Known
<1> QED BY <1>1, <1>2, <1>3, <1>4, <1>5, <1>6 DEF Next

\* At the start nothing is linked or mounted.
LEMMA PoolInit == Init => PoolInv
<1> SUFFICES ASSUME Init PROVE PoolInv OBVIOUS
<1>1. \A p \in Process : Relies(p) BY IdleCommand DEF Init, Relies, ForContainer
<1> QED BY <1>1, LockInit DEF Init, PoolInv, LinksInv, DeviceLinked

\* A container's device is on the slot its symlink names, unless the slot was deleted by
\* hand: whatever failed or was killed between the symlink and the device of
\* pool.py's allocate and release.
THEOREM DeviceLinkedAlways == Spec => []DeviceLinked
<1>1. PoolInv => DeviceLinked BY DEF PoolInv
<1> QED BY PoolInit, PoolStep, <1>1, PTL DEF Spec

\* The slot a container mounts is there and is mounted by no other, unless it was deleted by
\* hand: prune never takes it and allocate never gives it out again.
THEOREM ExclusiveAlways == Spec => []Exclusive
  BY PoolInit, PoolStep, PoolImplies, PTL DEF Spec
================================================================================
