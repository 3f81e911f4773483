-------------------------- MODULE ParkedDeliveryProofs --------------------------
(***************************************************************************)
(* The broker's messages reach the recipient's inbox as the abstract       *)
(* channel promises, in the order they were sent and none lost while the   *)
(* recipient exists, for any number of messages, containers, failures,     *)
(* deaths of the broker and deliveries by host commands at the same time.  *)
(***************************************************************************)
EXTENDS ParkedDelivery, SequenceTheorems, TLAPS

USE DEF recipient, broker, host, history

-----------------------------------------------------------------------------
\* The types, with the counts they depend on.

\* What the counters and bounds have to do with each other.
CountsInv ==
  /\ hostAt # "off" => hostSent >= 1
  /\ pc = "write" => sent < MaxSent
  /\ seq <= sent /\ now <= clock /\ seesInst <= created

TypeInv == TypeOK /\ CountsInv

\* The bounds are numbers.
LEMMA BoundsNat ==
  /\ MaxSent \in Nat /\ MaxHost \in Nat /\ MaxTime \in Nat /\ MaxInst \in Nat
  /\ MaxFaults \in Nat /\ MaxKills \in Nat /\ MaxInst >= 1
  BY DeliveryAssumption

\* The messages seen, and those seen with one more.
LEMMA RangeAppend ==
  ASSUME NEW e \in 1..MaxSent, order \in Seq(1..MaxSent)
  PROVE  /\ Append(order, e) \in Seq(1..MaxSent)
         /\ Range(Append(order, e)) = Range(order) \cup {e}
         /\ Range(order) \subseteq (1..MaxSent)
<1> DEFINE longer == Append(order, e)
<1>1. longer \in Seq(1..MaxSent) OBVIOUS
<1>2. /\ Len(longer) = Len(order) + 1 /\ Len(order) \in Nat
      /\ \A i \in 1..Len(order) : longer[i] = order[i]
      /\ longer[Len(order) + 1] = e
  OBVIOUS
<1>3. DOMAIN longer = 1..(Len(order) + 1) /\ DOMAIN order = 1..Len(order) BY <1>1, <1>2
<1>4. DOMAIN longer = DOMAIN order \cup {Len(order) + 1} BY <1>2, <1>3
<1>5. \A i \in DOMAIN order : longer[i] = order[i] BY <1>2, <1>3
<1> HIDE DEF longer
<1>6. \A i \in DOMAIN order : order[i] \in 1..MaxSent BY <1>3, ElementOfSeq
<1>7. Range(order) \subseteq (1..MaxSent) BY <1>6, Zenon DEF Range
<1>8. ASSUME NEW x PROVE x \in Range(longer) <=> x \in Range(order) \cup {e}
  <2>1. x \in Range(longer) <=> \E i \in DOMAIN longer : longer[i] = x BY DEF Range
  <2>2. x \in Range(order) <=> \E i \in DOMAIN order : order[i] = x BY DEF Range
  <2>3. (\E i \in DOMAIN longer : longer[i] = x)
         <=> (\E i \in DOMAIN order : longer[i] = x) \/ longer[Len(order) + 1] = x
    BY <1>4
  <2>4. (\E i \in DOMAIN order : longer[i] = x) <=> (\E i \in DOMAIN order : order[i] = x)
    BY <1>5
  <2>5. longer[Len(order) + 1] = x <=> x = e BY <1>2
  <2> QED BY <2>1, <2>2, <2>3, <2>4, <2>5
<1>9. Range(longer) = Range(order) \cup {e} BY <1>8
<1> QED BY <1>1, <1>7, <1>9 DEF longer

\* What a write into the inbox leaves: the message is in it, and is noted when it is one of
\* the broker's not seen before.
LEMMA WrittenTypes ==
  ASSUME TypeOK, NEW msg \in Msg
  PROVE  /\ Written(msg) => inbox' \in SUBSET Msg /\ order' \in Seq(1..MaxSent)
         /\ Failed(msg) =>
              inbox' \in SUBSET Msg /\ order' \in Seq(1..MaxSent) /\ faults' \in 0..MaxFaults
<1>1. ofBroker(msg) => msg[2] \in 1..MaxSent BY DEF Msg, ofBroker
<1>2. firstSeen(msg) \in Seq(1..MaxSent)
  BY <1>1, RangeAppend DEF firstSeen, TypeOK
<1>3. Written(msg) => inbox' \in SUBSET Msg /\ order' \in Seq(1..MaxSent)
  BY <1>2 DEF Written, TypeOK
<1>4. faults < MaxFaults /\ faults' = faults + 1 => faults' \in 0..MaxFaults
  BY BoundsNat DEF TypeOK
<1>5. Failed(msg) =>
       inbox' \in SUBSET Msg /\ order' \in Seq(1..MaxSent) /\ faults' \in 0..MaxFaults
  BY <1>3, <1>4 DEF Failed, TypeOK
<1> QED BY <1>3, <1>5

\* What is parked is a file.
LEMMA ParkingTypes ==
  ASSUME TypeOK, NEW msg \in Msg, NEW at \in 0..MaxTime, NEW n \in 0..MaxSent,
         NEW to \in 0..MaxInst
  PROVE  parking(msg, at, n, to) \in SUBSET Parked
<1>1. [at |-> at, seq |-> n, msg |-> msg, to |-> to] \in Parked BY DEF Parked
<1> QED BY <1>1 DEF parking, TypeOK

\* The broker's next message and the host's are messages.
LEMMA MessageTypes ==
  ASSUME TypeInv
  PROVE  /\ sent < MaxSent => message \in Msg /\ sent + 1 \in 1..MaxSent
         /\ hostAt # "off" => hostMessage \in Msg
<1>1. sent < MaxSent => sent + 1 \in 1..MaxSent BY BoundsNat DEF TypeInv, TypeOK
<1>2. hostAt # "off" => hostSent \in 1..MaxHost BY BoundsNat DEF TypeInv, TypeOK, CountsInv
<1> QED BY <1>1, <1>2 DEF Msg, message, hostMessage

\* The counts go up to their bounds.
LEMMA Counting ==
  ASSUME TypeInv
  PROVE  /\ faults < MaxFaults => faults + 1 \in 0..MaxFaults
         /\ kills < MaxKills => kills + 1 \in 0..MaxKills
         /\ clock < MaxTime => clock + 1 \in 0..MaxTime
         /\ sent < MaxSent =>
              sent + 1 \in 0..MaxSent /\ seq + 1 \in 0..MaxSent /\ seq + 1 <= sent + 1
         /\ hostSent < MaxHost => hostSent + 1 \in 0..MaxHost /\ hostSent + 1 >= 1
         /\ created < MaxInst => created + 1 \in 0..MaxInst
         /\ 0 \in 0..MaxTime /\ 0 \in 0..MaxSent /\ 0 \in 0..MaxInst
  BY BoundsNat DEF TypeInv, TypeOK, CountsInv

\* The broker's steps keep the types and the counts.
LEMMA BrokerTypes ==
  ASSUME TypeInv, Broker \/ Die
  PROVE  TypeInv'
<1> USE Counting, BoundsNat
<1>1. CASE List
  BY <1>1 DEF List, TypeInv, TypeOK, CountsInv
<1>2. CASE Purge
  <2>1. parkedForNone \subseteq 1..MaxSent
    BY DEF parkedForNone, TypeInv, TypeOK, Parked, Msg, ofBroker
  <2>2. /\ pending' \in SUBSET Parked /\ dropped' \subseteq 1..MaxSent /\ faults' \in 0..MaxFaults
        /\ pc' \in {"flush", "emit"}
    BY <1>2, <2>1 DEF Purge, TypeInv, TypeOK
  <2> QED BY <1>2, <2>2 DEF Purge, TypeInv, TypeOK, CountsInv
<1>3. CASE Flush
  <2>1. PICK f \in pending :
          \/ /\ Written(f.msg) /\ pc' = "unlink" /\ file' = f /\ UNCHANGED faults
          \/ Failed(f.msg) /\ pc' = "emit" /\ UNCHANGED file
    BY <1>3 DEF Flush
  <2>2. f \in Parked /\ f.msg \in Msg BY DEF TypeInv, TypeOK, Parked
  <2>3. /\ inbox' \in SUBSET Msg /\ order' \in Seq(1..MaxSent) /\ faults' \in 0..MaxFaults
        /\ file' \in Parked \cup {NoFile} /\ pc' \in {"unlink", "emit"}
    BY <2>1, <2>2, WrittenTypes DEF TypeInv, TypeOK
  <2> QED BY <1>3, <2>3 DEF Flush, TypeInv, TypeOK, CountsInv
<1>4. CASE Flushed
  BY <1>4 DEF Flushed, TypeInv, TypeOK, CountsInv
<1>5. CASE Unlink
  BY <1>5 DEF Unlink, unflushed, TypeInv, TypeOK, CountsInv
<1>6. CASE Emit
  <2>1. CASE pc' = "write" /\ UNCHANGED <<pending, seq, sent>>
    BY <1>6, <2>1 DEF Emit, TypeInv, TypeOK, CountsInv
  <2>2. CASE pending' = parking(message, now, seq, seesInst) /\ seq' = seq + 1 /\ sent' = sent + 1
             /\ UNCHANGED pc
    <3>1. pending' \in SUBSET Parked
      BY <1>6, <2>2, MessageTypes, ParkingTypes DEF Emit, TypeInv, TypeOK
    <3>2. sent' \in 0..MaxSent /\ seq' \in 0..MaxSent /\ seq' <= sent'
      BY <1>6, <2>2 DEF Emit
    <3> QED BY <1>6, <2>2, <3>1, <3>2 DEF Emit, TypeInv, TypeOK, CountsInv
  <2> QED BY <1>6, <2>1, <2>2 DEF Emit
<1>7. CASE Write
  <2>0. sent < MaxSent BY <1>7 DEF Write, TypeInv, CountsInv
  <2>1. sent' \in 0..MaxSent /\ seq' \in 0..MaxSent /\ seq' <= sent'
    BY <1>7, <2>0 DEF Write
  <2>2. message \in Msg /\ parking(message, now, seq, seesInst) \in SUBSET Parked
    BY <2>0, MessageTypes, ParkingTypes DEF TypeInv, TypeOK
  <2>3. /\ inbox' \in SUBSET Msg /\ order' \in Seq(1..MaxSent) /\ faults' \in 0..MaxFaults
        /\ pending' \in SUBSET Parked
    BY <1>7, <2>2, WrittenTypes DEF Write, TypeInv, TypeOK
  <2> QED BY <1>7, <2>1, <2>3 DEF Write, TypeInv, TypeOK, CountsInv
<1>8. CASE EndRound
  BY <1>8 DEF EndRound, TypeInv, TypeOK, CountsInv
<1>9. CASE Die
  BY <1>9 DEF Die, TypeInv, TypeOK, CountsInv
<1>10. CASE Restart
  BY <1>10 DEF Restart, TypeInv, TypeOK, CountsInv
<1> QED
  BY <1>1, <1>2, <1>3, <1>4, <1>5, <1>6, <1>7, <1>8, <1>9, <1>10 DEF Broker

\* So do those of the clock, the host commands and the recipient.
LEMMA OtherTypes ==
  ASSUME TypeInv,
         Second \/ HostLook \/ HostWrite \/ HostPark \/ StartStop \/ Destroy \/ Create
  PROVE  TypeInv'
<1> USE Counting, BoundsNat
<1>1. CASE Second
  BY <1>1 DEF Second, TypeInv, TypeOK, CountsInv
<1>2. CASE HostLook
  BY <1>2 DEF HostLook, TypeInv, TypeOK, CountsInv
<1>3. CASE HostWrite
  <2>1. /\ inbox' \in SUBSET Msg /\ order' \in Seq(1..MaxSent) /\ faults' \in 0..MaxFaults
        /\ hostAt' \in {"off", "look"}
    BY <1>3, MessageTypes, WrittenTypes DEF HostWrite, TypeInv, TypeOK
  <2> QED BY <1>3, <2>1 DEF HostWrite, TypeInv, TypeOK, CountsInv
<1>4. CASE HostPark
  <2>1. pending' \in SUBSET Parked
    BY <1>4, MessageTypes, ParkingTypes DEF HostPark, TypeInv, TypeOK
  <2> QED BY <1>4, <2>1 DEF HostPark, TypeInv, TypeOK, CountsInv
<1>5. CASE StartStop
  BY <1>5 DEF StartStop, TypeInv, TypeOK, CountsInv
<1>6. CASE Destroy
  <2>1. inst' \in 0..MaxInst /\ inst' <= created' /\ inbox' \in SUBSET Msg
    BY <1>6 DEF Destroy, TypeInv, TypeOK
  <2>2. running' \in BOOLEAN /\ (running' => inst' # 0)
    BY <1>6 DEF Destroy
  <2> QED BY <1>6, <2>1, <2>2 DEF Destroy, TypeInv, TypeOK, CountsInv
<1>7. CASE Create
  BY <1>7 DEF Create, TypeInv, TypeOK, CountsInv
<1> QED BY <1>1, <1>2, <1>3, <1>4, <1>5, <1>6, <1>7

\* Every step keeps the types and the counts.
LEMMA TypeStep == TypeInv /\ [Next]_vars => TypeInv'
<1>1. ASSUME TypeInv, UNCHANGED vars
      PROVE  TypeInv'
  <2>1. UNCHANGED <<inst, running, created, inbox, pending>>
    BY <1>1 DEF vars, recipient
  <2>2. UNCHANGED <<clock, pc, now, seq, seesInst, seesRunning, file>>
    BY <1>1 DEF vars, broker
  <2>3. UNCHANGED <<hostAt, hostSees, hostTime>>
    BY <1>1 DEF vars, host
  <2>4. UNCHANGED <<sent, hostSent, faults, kills, order, dropped>>
    BY <1>1 DEF vars, history
  <2>5. TypeOK' BY <1>1, <2>1, <2>2, <2>3, <2>4 DEF TypeInv, TypeOK
  <2>6. CountsInv' BY <1>1, <2>1, <2>2, <2>3, <2>4 DEF TypeInv, CountsInv
  <2> QED BY <2>5, <2>6 DEF TypeInv
<1> QED BY <1>1, BrokerTypes, OtherTypes DEF Next

\* At the start nothing has been sent.
LEMMA TypeInit == Init => TypeInv
<1> SUFFICES ASSUME Init PROVE TypeInv OBVIOUS
<1>1. order \in Seq(1..MaxSent) BY DEF Init
<1>2. 1 \in 0..MaxInst /\ 0 \in 0..MaxInst /\ 0 \in 0..MaxTime /\ 0 \in 0..MaxSent
      /\ 0 \in 0..MaxHost /\ 0 \in 0..MaxFaults /\ 0 \in 0..MaxKills
  BY BoundsNat
<1>3. /\ inst \in 0..MaxInst /\ created \in 0..MaxInst /\ inst <= created
      /\ running \in BOOLEAN /\ (running => inst # 0)
      /\ inbox \in SUBSET Msg /\ pending \in SUBSET Parked
  BY <1>2 DEF Init
<1>4. CountsInv BY BoundsNat DEF Init, CountsInv
<1> QED BY <1>1, <1>2, <1>3, <1>4 DEF Init, TypeInv, TypeOK

\* Every variable keeps its type: the counter never passes the messages sent, and what is
\* parked is always a file that sorts.
THEOREM TypeOKAlways == Spec => []TypeOK
<1>1. TypeInv => TypeOK BY DEF TypeInv
<1> QED BY TypeInit, TypeStep, <1>1, PTL DEF Spec

-----------------------------------------------------------------------------
\* What is parked, and what the round does with it.

\* The files with the broker's messages, and that one sorts strictly before another.
ByBroker == {f \in pending : ofBroker(f.msg)}
Precedes(f, g) == f.at < g.at \/ (f.at = g.at /\ f.seq < g.seq)

\* The broker's files hold messages sent and not dropped, for containers there have been,
\* their stamps are used up, and they sort as they were sent.
FilesInv ==
  /\ \A f \in ByBroker :
       /\ f.msg[2] <= sent /\ f.msg[2] \notin dropped
       /\ f.to <= created /\ f.at <= now
       /\ f.at < now \/ f.seq < seq \/ pc = "dead" \/ (pc = "pause" /\ now < clock)
  /\ \A f, g \in ByBroker : f.msg[2] < g.msg[2] => Precedes(f, g)

\* The round that saw no recipient purges no file of a newer one; a message is written only
\* past no other of the broker's; a file is unlinked when its message was seen.
RoundInv ==
  /\ pc = "purge" /\ gone => \A f \in ByBroker : inst = 0 \/ f.to < inst
  /\ pc = "write" => ByBroker = {}
  /\ pc = "unlink" /\ ofBroker(file.msg) => file.msg[2] \in Range(order)
  /\ Range(order) \cup dropped \subseteq (1..sent)

DeliveryInv == TypeInv /\ FilesInv /\ RoundInv /\ NothingLost

\* The broker's messages after a write, whether it was reported or not.
LEMMA WrittenSeen ==
  ASSUME TypeOK, NEW msg \in Msg, Written(msg) \/ Failed(msg)
  PROVE  /\ \/ order' = order
            \/ ofBroker(msg) /\ msg[2] \notin Range(order) /\ order' = Append(order, msg[2])
         /\ Range(order) \subseteq Range(order')
         /\ ofBroker(msg) => Range(order') \subseteq Range(order) \cup {msg[2]}
         /\ Written(msg) /\ ofBroker(msg) => msg[2] \in Range(order')
<1>1. ofBroker(msg) => msg[2] \in 1..MaxSent BY DEF Msg, ofBroker
<1>2. order \in Seq(1..MaxSent) BY DEF TypeOK
<1>3. ofBroker(msg) => Range(Append(order, msg[2])) = Range(order) \cup {msg[2]}
  <2>1. ASSUME NEW e \in 1..MaxSent PROVE Range(Append(order, e)) = Range(order) \cup {e}
    BY <1>2, RangeAppend
  <2> QED BY <1>1, <2>1
<1>4. order' = order \/ order' = firstSeen(msg) BY DEF Written, Failed
<1>5. Written(msg) => order' = firstSeen(msg) BY DEF Written
<1> QED BY <1>3, <1>4, <1>5 DEF firstSeen

\* A file of the broker's is a file of one of its messages.
LEMMA FileTypes ==
  ASSUME TypeOK, NEW f \in ByBroker
  PROVE  /\ f \in Parked /\ f \in pending /\ f.msg \in Msg
         /\ f.msg = <<"broker", f.msg[2]>> /\ f.msg[2] \in 1..MaxSent
         /\ f.at \in Nat /\ f.seq \in Nat /\ f.to \in Nat
<1>1. f \in Parked /\ f \in pending /\ ofBroker(f.msg) BY DEF ByBroker, TypeOK
<1>2. f.msg \in Msg /\ f.at \in 0..MaxTime /\ f.seq \in 0..MaxSent /\ f.to \in 0..MaxInst
  BY <1>1 DEF Parked
<1>3. f.msg = <<"broker", f.msg[2]>> /\ f.msg[2] \in 1..MaxSent
  BY <1>1, <1>2 DEF Msg, ofBroker
<1> QED BY <1>1, <1>2, <1>3, BoundsNat

\* A message not seen and not dropped is in a file of the broker's.
LEMMA UnderwayParked ==
  ASSUME NothingLost, NEW m \in 1..sent, m \notin Range(order) \cup dropped
  PROVE  \E f \in ByBroker : f.msg[2] = m
<1>1. PICK f \in pending : f.msg = <<"broker", m>> BY DEF NothingLost
<1>2. f.msg[1] = "broker" /\ f.msg[2] = m BY <1>1
<1> QED BY <1>2 DEF ByBroker, ofBroker

\* A step that parks nothing of the broker's and leaves the stamps used.
LEMMA FilesStay ==
  ASSUME TypeOK, TypeOK', FilesInv, ByBroker' \subseteq ByBroker, sent <= sent',
          created <= created',
         \A f \in ByBroker' : f.msg[2] \notin dropped',
         now' = now, clock <= clock', seq <= seq',
         pc = "dead" => pc' = "dead" \/ (pc' = "pause" /\ now < clock),
         pc = "pause" => pc' = "pause"
  PROVE  FilesInv'
<1>1. /\ sent \in Nat /\ sent' \in Nat /\ created \in Nat /\ created' \in Nat /\ now \in Nat
      /\ clock \in Nat /\ clock' \in Nat /\ seq \in Nat /\ seq' \in Nat
  BY BoundsNat DEF TypeOK
<1>2. ASSUME NEW f \in ByBroker'
      PROVE  /\ f.msg[2] <= sent' /\ f.msg[2] \notin dropped'
             /\ f.to <= created' /\ f.at <= now'
             /\ f.at < now' \/ f.seq < seq' \/ pc' = "dead" \/ (pc' = "pause" /\ now' < clock')
  <2>1. f \in ByBroker BY <1>2
  <2>2. f.msg[2] \in Nat /\ f.at \in Nat /\ f.seq \in Nat /\ f.to \in Nat
    BY <2>1, FileTypes, BoundsNat
  <2> QED BY <1>1, <1>2, <2>1, <2>2 DEF FilesInv
<1>3. \A f, g \in ByBroker' : f.msg[2] < g.msg[2] => Precedes(f, g)
  BY DEF FilesInv
<1>4. \A f, g \in ByBroker' : f.msg[2] < g.msg[2] => Precedes(f, g)'
  BY <1>3 DEF Precedes
<1> QED BY <1>2, <1>4 DEF FilesInv

\* A step that loses no message seen, dropped or parked.
LEMMA LostStay ==
  ASSUME NothingLost, sent' = sent, Range(order) \subseteq Range(order'),
         dropped \subseteq dropped', pending \subseteq pending'
  PROVE  NothingLost'
  BY DEF NothingLost

\* Parking the broker's next message: its file sorts behind all others.
LEMMA ParksNext ==
  ASSUME TypeInv, FilesInv, RoundInv, pc \in {"emit", "write"}, sent < MaxSent,
         pending' = parking(message, now, seq, seesInst), seq' = seq + 1, sent' = sent + 1,
         UNCHANGED <<now, created, dropped>>
  PROVE  FilesInv'
<1> DEFINE new == [at |-> now, seq |-> seq, msg |-> message, to |-> seesInst]
<1>1. ByBroker' = ByBroker \cup {new}
  BY DEF ByBroker, parking, ofBroker, message
<1>2. /\ new.at = now /\ new.seq = seq /\ new.msg = message /\ new.to = seesInst
      /\ new.msg[2] = sent + 1
  BY DEF message
<1> HIDE DEF new
<1>3. sent \in Nat /\ seq \in Nat /\ now \in Nat /\ seesInst <= created /\ created \in Nat
  BY BoundsNat DEF TypeInv, TypeOK, CountsInv
<1>4. ASSUME NEW f \in ByBroker
      PROVE  /\ f.msg[2] \in Nat /\ f.at \in Nat /\ f.seq \in Nat /\ f.to \in Nat
             /\ f.msg[2] <= sent /\ f.msg[2] \notin dropped /\ f.to <= created
             /\ f.at < now \/ (f.at = now /\ f.seq < seq)
  <2>1. f.msg[2] \in Nat /\ f.at \in Nat /\ f.seq \in Nat /\ f.to \in Nat
    BY FileTypes, BoundsNat DEF TypeInv
  <2>2. f.msg[2] <= sent /\ f.msg[2] \notin dropped /\ f.to <= created /\ f.at <= now
    BY DEF FilesInv
  <2>3. f.at < now \/ f.seq < seq BY DEF FilesInv
  <2> QED BY <1>3, <2>1, <2>2, <2>3
<1>5. sent + 1 \notin dropped BY <1>3 DEF RoundInv
<1>6. ASSUME NEW f \in ByBroker'
      PROVE  /\ f.msg[2] <= sent' /\ f.msg[2] \notin dropped'
             /\ f.to <= created' /\ f.at <= now'
             /\ f.at < now' \/ f.seq < seq' \/ pc' = "dead" \/ (pc' = "pause" /\ now' < clock')
  <2>1. CASE f = new BY <1>2, <1>3, <1>5, <2>1
  <2>2. CASE f \in ByBroker BY <1>3, <1>4, <2>2
  <2> QED BY <1>1, <1>6, <2>1, <2>2
<1>7. ASSUME NEW f \in ByBroker', NEW g \in ByBroker', f.msg[2] < g.msg[2]
      PROVE  Precedes(f, g)'
  <2>1. CASE f = new
    <3>1. g.msg[2] <= sent + 1 BY <1>1, <1>2, <1>3, <1>4
    <3> QED BY <1>1, <1>2, <1>3, <1>4, <1>7, <2>1, <3>1
  <2>2. CASE f \in ByBroker /\ g = new
    BY <1>2, <1>4, <2>2 DEF Precedes
  <2>3. CASE f \in ByBroker /\ g \in ByBroker
    BY <1>7, <2>3 DEF FilesInv, Precedes
  <2> QED BY <1>1, <2>1, <2>2, <2>3
<1> QED BY <1>6, <1>7 DEF FilesInv

\* And it is not lost.
LEMMA ParkedNotLost ==
  ASSUME TypeInv, NothingLost, sent' = sent + 1,
         Range(order) \subseteq Range(order'), dropped' = dropped,
         \/ pending' = parking(message, now, seq, seesInst)
         \/ pending' = pending /\ sent + 1 \in Range(order')
  PROVE  NothingLost'
<1>1. SUFFICES ASSUME NEW m \in 1..(sent + 1)
               PROVE  \/ m \in Range(order') \cup dropped
                      \/ \E f \in pending' : f.msg = <<"broker", m>>
  BY DEF NothingLost
<1>2. pending \subseteq pending' BY DEF parking
<1>3. CASE m \in 1..sent BY <1>2, <1>3 DEF NothingLost
<1>4. CASE m = sent + 1
  <2>1. CASE pending' = parking(message, now, seq, seesInst)
    <3> DEFINE new == [at |-> now, seq |-> seq, msg |-> message, to |-> seesInst]
    <3>1. new \in pending' /\ new.msg = <<"broker", m>>
      BY <1>4, <2>1 DEF parking, message
    <3> QED BY <3>1
  <2> QED BY <1>4, <2>1
<1>5. sent \in Nat BY BoundsNat DEF TypeInv, TypeOK
<1> QED BY <1>3, <1>4, <1>5

\* The conjuncts of the types the steps below use.
LEMMA Plain ==
  ASSUME TypeInv
  PROVE  /\ sent \in Nat /\ seq \in Nat /\ now \in Nat /\ clock \in Nat /\ created \in Nat
         /\ inst \in Nat /\ seesInst \in Nat /\ inst <= created /\ seesInst <= created
         /\ now <= clock
         /\ pc \in {"dead", "pause", "purge", "flush", "unlink", "emit", "write"}
  BY BoundsNat DEF TypeInv, TypeOK, CountsInv

\* What each of the broker's steps does to what is parked, seen and dropped.
LEMMA BrokerDelivery ==
  ASSUME DeliveryInv, TypeInv', Broker \/ Die
  PROVE  FilesInv' /\ RoundInv' /\ NothingLost'
<1>0. TypeInv /\ TypeOK /\ TypeOK' /\ FilesInv /\ RoundInv /\ NothingLost
  BY DEF DeliveryInv, TypeInv
<1>p. /\ sent \in Nat /\ seq \in Nat /\ now \in Nat /\ clock \in Nat /\ created \in Nat
      /\ inst \in Nat /\ seesInst \in Nat /\ inst <= created /\ now <= clock
  BY <1>0, Plain
<1>1. CASE List
  <2>1. ByBroker' = ByBroker BY <1>1 DEF List, ByBroker
  <2>2. ASSUME NEW f \in ByBroker PROVE f.at < clock \/ f.seq < seq
    <3>1. f.at \in Nat /\ f.at <= now BY <1>0, FileTypes DEF FilesInv
    <3>2. f.at < now \/ f.seq < seq \/ now < clock BY <1>0, <1>1 DEF FilesInv, List
    <3> QED BY <1>p, <3>1, <3>2
  <2>3. \A f \in ByBroker : f.at <= clock
    BY <1>0, <1>p, FileTypes DEF FilesInv
  <2>4. FilesInv' BY <1>0, <1>1, <2>1, <2>2, <2>3 DEF List, FilesInv, Precedes
  <2>5. RoundInv' BY <1>0, <1>1 DEF List, RoundInv, gone
  <2> QED BY <1>0, <1>1, <2>4, <2>5, LostStay DEF List
<1>2. CASE Purge
  <2>1. CASE gone /\ pending' = {} /\ dropped' = dropped \cup (parkedForNone \ Range(order))
    <3>1. ByBroker' = {} BY <2>1 DEF ByBroker
    <3>2. FilesInv' BY <3>1 DEF FilesInv
    <3>3. parkedForNone = {f.msg[2] : f \in ByBroker}
      <4>1. \A f \in ByBroker : inst = 0 \/ f.to # inst
        BY <1>0, <1>2, <1>p, <2>1, FileTypes DEF RoundInv, Purge
      <4> QED BY <4>1 DEF parkedForNone, ByBroker
    <3>4. parkedForNone \subseteq (1..sent)
      BY <1>0, <1>p, <3>3, FileTypes, BoundsNat DEF FilesInv
    <3>5. RoundInv' BY <1>0, <1>2, <2>1, <3>1, <3>4 DEF Purge, RoundInv
    <3>6. NothingLost'
      <4>1. SUFFICES ASSUME NEW m \in 1..sent PROVE m \in Range(order) \cup dropped'
        BY <1>2 DEF NothingLost, Purge
      <4>2. CASE m \in Range(order) \cup dropped BY <2>1, <4>2
      <4>3. CASE m \notin Range(order) \cup dropped
        <5>1. PICK f \in ByBroker : f.msg[2] = m BY <1>0, <4>3, UnderwayParked
        <5> QED BY <2>1, <3>3, <4>3, <5>1
      <4> QED BY <4>2, <4>3
    <3> QED BY <3>2, <3>5, <3>6
  <2>2. CASE UNCHANGED <<pending, dropped>>
    <3>1. ByBroker' = ByBroker BY <2>2 DEF ByBroker
    <3>2. FilesInv'
      BY <1>0, <1>2, <1>p, <2>2, <3>1, FilesStay DEF Purge, FilesInv
    <3>3. RoundInv' BY <1>0, <1>2, <2>2 DEF Purge, RoundInv
    <3> QED BY <1>0, <1>2, <2>2, <3>2, <3>3, LostStay DEF Purge
  <2> QED BY <1>2, <2>1, <2>2 DEF Purge
<1>3. CASE Flush
  <2>1. PICK f \in pending :
          \/ /\ Written(f.msg) /\ pc' = "unlink" /\ file' = f /\ UNCHANGED faults
          \/ Failed(f.msg) /\ pc' = "emit" /\ UNCHANGED file
    BY <1>3 DEF Flush
  <2>2. f \in Parked /\ f.msg \in Msg BY <1>0 DEF TypeOK, Parked
  <2>3. /\ order' = order \/ (ofBroker(f.msg) /\ order' = Append(order, f.msg[2]))
        /\ Range(order) \subseteq Range(order')
        /\ Written(f.msg) /\ ofBroker(f.msg) => f.msg[2] \in Range(order')
        /\ ofBroker(f.msg) => Range(order') \subseteq Range(order) \cup {f.msg[2]}
    <3> DEFINE msg == f.msg
    <3>1. msg \in Msg /\ (Written(msg) \/ Failed(msg)) BY <2>1, <2>2
    <3> HIDE DEF msg
    <3>2. /\ order' = order \/ (ofBroker(msg) /\ order' = Append(order, msg[2]))
          /\ Range(order) \subseteq Range(order')
          /\ Written(msg) /\ ofBroker(msg) => msg[2] \in Range(order')
          /\ ofBroker(msg) => Range(order') \subseteq Range(order) \cup {msg[2]}
      BY <1>0, <3>1, WrittenSeen
    <3> QED BY <3>2 DEF msg
  <2>4. ofBroker(f.msg) => f.msg[2] \in 1..sent
    <3>1. ofBroker(f.msg) => f \in ByBroker BY DEF ByBroker
    <3> QED BY <1>0, <1>p, <3>1, FileTypes, BoundsNat DEF FilesInv
  <2>5. ByBroker' = ByBroker BY <1>3 DEF Flush, ByBroker
  <2>6. FilesInv' BY <1>0, <1>3, <1>p, <2>5, FilesStay DEF Flush, FilesInv
  <2>7. Range(order') \cup dropped' \subseteq (1..sent')
    BY <1>0, <1>3, <2>3, <2>4 DEF Flush, RoundInv
  <2>8. RoundInv' BY <2>1, <2>3, <2>7 DEF RoundInv
  <2> QED BY <1>0, <1>3, <2>3, <2>6, <2>8, LostStay DEF Flush
<1>4. CASE Flushed \/ EndRound \/ Restart
  <2>1. ByBroker' = ByBroker BY <1>4 DEF Flushed, EndRound, Restart, ByBroker
  <2>2. FilesInv'
    BY <1>0, <1>4, <1>p, <2>1, FilesStay DEF Flushed, EndRound, Restart, FilesInv
  <2>3. RoundInv' BY <1>0, <1>4 DEF Flushed, EndRound, Restart, RoundInv
  <2> QED BY <1>0, <1>4, <2>2, <2>3, LostStay DEF Flushed, EndRound, Restart
<1>5. CASE Unlink
  <2>1. ByBroker' \subseteq ByBroker BY <1>5 DEF Unlink, unflushed, ByBroker
  <2>2. FilesInv' BY <1>0, <1>5, <1>p, <2>1, FilesStay DEF Unlink, FilesInv
  <2>3. RoundInv' BY <1>0, <1>5 DEF Unlink, RoundInv
  <2>4. NothingLost'
    <3>1. SUFFICES ASSUME NEW m \in 1..sent, m \notin Range(order) \cup dropped
                   PROVE  \E f \in pending \ {file} : f.msg = <<"broker", m>>
      BY <1>5 DEF Unlink, unflushed, NothingLost
    <3>2. PICK f \in pending : f.msg = <<"broker", m>> BY <1>0, <3>1 DEF NothingLost
    <3>3. f # file BY <1>0, <1>5, <3>1, <3>2 DEF Unlink, RoundInv, ofBroker
    <3> QED BY <3>2, <3>3
  <2> QED BY <2>2, <2>3, <2>4
<1>6. CASE Emit
  <2>1. CASE pc' = "write" /\ ~hasPending /\ UNCHANGED <<pending, seq, sent>>
    <3>1. ByBroker = {} /\ ByBroker' = {} BY <2>1 DEF ByBroker, hasPending
    <3>2. FilesInv' /\ RoundInv'
      BY <1>0, <1>6, <2>1, <3>1 DEF Emit, FilesInv, RoundInv
    <3> QED BY <1>0, <1>6, <2>1, <3>2, LostStay DEF Emit
  <2>2. CASE pending' = parking(message, now, seq, seesInst) /\ seq' = seq + 1 /\ sent' = sent + 1
             /\ UNCHANGED pc
    <3>1. FilesInv' BY <1>0, <1>6, <2>2, ParksNext DEF Emit
    <3>2. RoundInv' BY <1>0, <1>6, <1>p, <2>2 DEF Emit, RoundInv
    <3> QED BY <1>0, <1>6, <2>2, <3>1, <3>2, ParkedNotLost DEF Emit
  <2> QED BY <1>6, <2>1, <2>2 DEF Emit
<1>7. CASE Write
  <2>1. sent < MaxSent /\ message \in Msg /\ ofBroker(message) /\ message[2] = sent + 1
    BY <1>0, <1>7, MessageTypes DEF Write, TypeInv, CountsInv, message, ofBroker
  <2>2. /\ Range(order) \subseteq Range(order')
        /\ Range(order') \subseteq Range(order) \cup {sent + 1}
        /\ Written(message) => sent + 1 \in Range(order')
    BY <1>0, <1>7, <2>1, WrittenSeen DEF Write
  <2>3. RoundInv' BY <1>0, <1>7, <1>p, <2>2 DEF Write, RoundInv
  <2>4. CASE pending' = parking(message, now, seq, seesInst)
    <3>1. FilesInv' BY <1>0, <1>7, <2>1, <2>4, ParksNext DEF Write
    <3> QED BY <1>0, <1>7, <2>2, <2>3, <2>4, <3>1, ParkedNotLost DEF Write
  <2>5. CASE Written(message) /\ UNCHANGED <<pending, faults>>
    <3>1. ByBroker' = {} BY <1>0, <1>7, <2>5 DEF Write, RoundInv, ByBroker
    <3>2. FilesInv' BY <3>1 DEF FilesInv
    <3> QED BY <1>0, <1>7, <2>2, <2>3, <2>5, <3>2, ParkedNotLost DEF Write
  <2> QED BY <1>7, <2>4, <2>5 DEF Write
<1>8. CASE Die
  <2>1. ByBroker' = ByBroker BY <1>8 DEF Die, ByBroker
  <2>2. FilesInv' BY <1>0, <1>8, <2>1 DEF Die, FilesInv, Precedes
  <2>3. RoundInv' BY <1>0, <1>8 DEF Die, RoundInv
  <2> QED BY <1>0, <1>8, <2>2, <2>3, LostStay DEF Die
<1> QED BY <1>1, <1>2, <1>3, <1>4, <1>5, <1>6, <1>7, <1>8 DEF Broker

\* The clock, the host commands and the recipient leave what is parked of the broker's, and
\* a new container is newer than any a file is for.
LEMMA OtherDelivery ==
  ASSUME DeliveryInv, TypeInv',
         Second \/ HostLook \/ HostWrite \/ HostPark \/ StartStop \/ Destroy \/ Create
  PROVE  FilesInv' /\ RoundInv' /\ NothingLost'
<1>0. TypeInv /\ TypeOK /\ TypeOK' /\ FilesInv /\ RoundInv /\ NothingLost
  BY DEF DeliveryInv, TypeInv
<1>p. /\ sent \in Nat /\ seq \in Nat /\ now \in Nat /\ clock \in Nat /\ created \in Nat
      /\ inst \in Nat /\ inst <= created /\ now <= clock
  BY <1>0, Plain
<1>1. UNCHANGED <<order, sent, dropped, pc, now, seq, seesInst, file>>
  <2>1. CASE HostWrite
    <3>1. hostMessage \in Msg /\ ~ofBroker(hostMessage)
          /\ (Written(hostMessage) \/ Failed(hostMessage))
      BY <1>0, <2>1, MessageTypes DEF HostWrite, hostMessage, ofBroker
    <3>2. order' = order BY <1>0, <3>1, WrittenSeen
    <3> QED BY <2>1, <3>2 DEF HostWrite
  <2> QED BY <2>1 DEF Second, HostLook, HostPark, StartStop, Destroy, Create
<1>2. pending \subseteq pending' /\ ByBroker' = ByBroker
  <2>1. CASE HostPark
    <3>1. pending' = pending \cup
                        {[at |-> hostTime, seq |-> 0, msg |-> hostMessage, to |-> hostSees]}
      BY <2>1 DEF HostPark, parking
    <3> QED BY <3>1 DEF ByBroker, ofBroker, hostMessage
  <2> QED BY <2>1 DEF Second, HostLook, HostWrite, StartStop, Destroy, Create, ByBroker
<1>3. created <= created' /\ clock <= clock'
  BY <1>p DEF Second, HostLook, HostWrite, HostPark, StartStop, Destroy, Create
<1>4. FilesInv' BY <1>0, <1>p, <1>1, <1>2, <1>3, FilesStay DEF FilesInv
<1>5. inst' = inst \/ inst' = 0 \/ inst' = created + 1
  BY DEF Second, HostLook, HostWrite, HostPark, StartStop, Destroy, Create
<1>6. \A f \in ByBroker : f.to \in Nat /\ f.to <= created
  BY <1>0, FileTypes DEF FilesInv
<1>7. RoundInv' BY <1>0, <1>p, <1>1, <1>2, <1>5, <1>6 DEF RoundInv, gone
<1> QED BY <1>0, <1>1, <1>2, <1>4, <1>7, LostStay

\* Every step keeps what is parked in order, and loses nothing.
LEMMA DeliveryStep == DeliveryInv /\ [Next]_vars => DeliveryInv'
<1> SUFFICES ASSUME DeliveryInv, [Next]_vars PROVE DeliveryInv' OBVIOUS
<1>1. TypeInv' BY TypeStep DEF DeliveryInv
<1>2. CASE UNCHANGED vars
  BY <1>1, <1>2 DEF vars, DeliveryInv, FilesInv, RoundInv, NothingLost, ByBroker, Precedes, gone
<1>3. CASE Next BY <1>1, <1>3, BrokerDelivery, OtherDelivery DEF Next, DeliveryInv
<1> QED BY <1>2, <1>3

\* At the start nothing is parked.
LEMMA DeliveryInit == Init => DeliveryInv
<1> SUFFICES ASSUME Init PROVE DeliveryInv OBVIOUS
<1>1. ByBroker = {} /\ sent = 0 /\ pc = "pause" /\ dropped = {} BY DEF Init, ByBroker
<1>2. Range(order) = {} BY DEF Init, Range
<1> QED BY <1>1, <1>2, TypeInit DEF DeliveryInv, FilesInv, RoundInv, NothingLost

\* No message the broker sent is lost while its recipient exists: outbox.py's flush_pending
\* unlinks a file only when its message is in the inbox, and purge_vanished_pending drops
\* only what was parked for a container that is no more.
THEOREM NothingLostAlways == Spec => []NothingLost
<1>1. DeliveryInv => NothingLost BY DEF DeliveryInv
<1> QED BY DeliveryInit, DeliveryStep, <1>1, PTL DEF Spec

-----------------------------------------------------------------------------
\* The channel's promise.

\* What the channel has on its way is what was neither seen nor dropped.
LEMMA OnItsWay == Promise!underway = (1..sent) \ (Range(order) \cup dropped)
  BY DEF Promise!underway, Promise!Range, Range

\* The first file in the order of the names has the oldest message on its way.
LEMMA OldestFirst ==
  ASSUME DeliveryInv, NEW f \in ByBroker, \A g \in pending : before(f, g),
         NEW n \in 1..sent, n \notin Range(order) \cup dropped
  PROVE  f.msg[2] <= n
<1>0. TypeInv /\ TypeOK /\ FilesInv /\ NothingLost BY DEF DeliveryInv, TypeInv
<1>1. PICK g \in ByBroker : g.msg[2] = n BY <1>0, UnderwayParked
<1>2. before(f, g) BY DEF ByBroker
<1>3. /\ f.msg[2] \in Nat /\ f.at \in Nat /\ f.seq \in Nat
      /\ g.msg[2] \in Nat /\ g.at \in Nat /\ g.seq \in Nat
  BY <1>0, FileTypes, BoundsNat
<1>4. ~(g.msg[2] < f.msg[2])
  BY <1>0, <1>2, <1>3 DEF FilesInv, Precedes, before
<1> QED BY <1>1, <1>3, <1>4

\* Every step is a step of the channel, or one the channel does not see.
LEMMA PromiseStep ==
  ASSUME DeliveryInv, [Next]_vars
  PROVE  Promise!Next \/ UNCHANGED Promise!chan
<1> USE DEF Promise!chan
<1>0. TypeInv /\ TypeOK /\ FilesInv /\ RoundInv /\ NothingLost
  BY DEF DeliveryInv, TypeInv
<1>1. CASE Purge
  <2>1. CASE gone /\ pending' = {} /\ dropped' = dropped \cup (parkedForNone \ Range(order))
    <3>1. \A f \in ByBroker : inst = 0 \/ f.to # inst
      BY <1>0, <1>1, <2>1, FileTypes, Plain DEF RoundInv, Purge
    <3>2. parkedForNone = {f.msg[2] : f \in ByBroker} BY <3>1 DEF parkedForNone, ByBroker
    <3>3. Promise!underway \subseteq parkedForNone \ Range(order)
      BY <1>0, <3>2, UnderwayParked, OnItsWay
    <3>4. \A m \in parkedForNone \ Range(order) : m \in Promise!underway
      BY <1>0, <3>2, FileTypes, Plain, BoundsNat, OnItsWay DEF FilesInv
    <3>5. dropped' = dropped \cup Promise!underway BY <2>1, <3>3, <3>4
    <3> QED BY <1>1, <3>5 DEF Purge, Promise!Next, Promise!Drop
  <2> QED BY <1>1, <2>1 DEF Purge
<1>2. CASE Flush
  <2>1. PICK f \in pending :
          /\ \A g \in pending : before(f, g)
          /\ Written(f.msg) \/ Failed(f.msg)
    BY <1>2 DEF Flush
  <2> DEFINE m == f.msg
  <2>2. m \in Msg /\ (Written(m) \/ Failed(m)) BY <1>0, <2>1 DEF TypeOK, Parked
  <2> HIDE DEF m
  <2>3. CASE order' = order BY <1>2, <2>3 DEF Flush
  <2>4. CASE ofBroker(m) /\ m[2] \notin Range(order) /\ order' = Append(order, m[2])
    <3>1. f \in ByBroker BY <2>4 DEF ByBroker, m
    <3>2. m[2] \in Promise!underway
      BY <1>0, <2>4, <3>1, FileTypes, Plain, OnItsWay DEF FilesInv, m
    <3>3. \A n \in Promise!underway : m[2] <= n
      BY <2>1, <3>1, OldestFirst, OnItsWay DEF m
    <3> QED BY <1>2, <2>4, <3>2, <3>3 DEF Flush, Promise!Next, Promise!Deliver
  <2> QED BY <1>0, <2>2, <2>3, <2>4, WrittenSeen
<1>3. CASE Emit
  BY <1>3 DEF Emit, Promise!Next, Promise!Send
<1>4. CASE Write
  <2>1. message \in Msg /\ message[2] = sent + 1 /\ (Written(message) \/ Failed(message))
    BY <1>0, <1>4, MessageTypes DEF Write, TypeInv, CountsInv, message
  <2>2. CASE order' = order BY <1>4, <2>2 DEF Write, Promise!Next, Promise!Send
  <2>3. CASE order' = Append(order, sent + 1)
    <3>1. Promise!underway = {}
      BY <1>0, <1>4, UnderwayParked, OnItsWay DEF RoundInv, Write
    <3> QED BY <1>4, <2>3, <3>1 DEF Write, Promise!Next, Promise!SendSeen
  <2> QED BY <1>0, <2>1, <2>2, <2>3, WrittenSeen
<1>5. CASE HostWrite
  <2>1. hostMessage \in Msg /\ ~ofBroker(hostMessage)
        /\ (Written(hostMessage) \/ Failed(hostMessage))
    BY <1>0, <1>5, MessageTypes DEF HostWrite, hostMessage, ofBroker
  <2>2. order' = order BY <1>0, <2>1, WrittenSeen
  <2> QED BY <1>5, <2>2 DEF HostWrite
<1>6. CASE List \/ Flushed \/ Unlink \/ EndRound \/ Die \/ Restart \/ Second
  BY <1>6 DEF List, Flushed, Unlink, EndRound, Die, Restart, Second
<1>7. CASE HostLook \/ HostPark \/ StartStop \/ Destroy \/ Create
  BY <1>7 DEF HostLook, HostPark, StartStop, Destroy, Create
<1>8. CASE UNCHANGED vars BY <1>8 DEF vars
<1> QED BY <1>1, <1>2, <1>3, <1>4, <1>5, <1>6, <1>7, <1>8 DEF Next, Broker

\* The parked delivery implements the channel: the recipient sees the broker's messages for
\* the first time in the order they were sent, whatever fails, dies or writes in between,
\* and only a recipient that is gone costs those on their way (outbox.py's deliver and
\* flush_pending under broker.py's rounds).
THEOREM PromiseKept == Spec => KeepsPromise
<1>1. Init => Promise!Init BY DEF Init, Promise!Init
<1>2. DeliveryInv /\ [Next]_vars => [Promise!Next]_(Promise!chan)
  BY PromiseStep
<1> QED BY DeliveryInit, DeliveryStep, <1>1, <1>2, PTL DEF Spec, KeepsPromise, Promise!Spec
================================================================================
