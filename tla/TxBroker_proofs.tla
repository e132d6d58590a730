-------------------------- MODULE TxBroker_proofs --------------------------
(* The promises of the TX broker, for every number of slots, size of the   *)
(* reserve and set of priorities.                                          *)
EXTENDS TxBroker, FiniteSetTheorems, TLAPS

\* The slot in the worker's hands.
Busy == worker \in {"sending", "completing"}
Hands ==
  /\ Busy => \E s \in slots : current = {s}
  /\ ~Busy => current = {}
  /\ deinit = "freed" => worker = "gone" /\ slots = {}

\* Tickets are given out in sequence and identify a slot.
Numbered ==
  /\ IsFiniteSet(slots)
  /\ \A s \in slots : s.ticket \in 1 .. nextTicket
  /\ \A s, t \in slots : s.ticket = t.ticket => s = t
  /\ Len(passed) = nextTicket

Structure == TypeOK /\ Hands /\ Numbered /\ PendingExact

USE BrokerAssumption

LEMMA StructureInit == Init => Structure
<1> SUFFICES ASSUME Init PROVE Structure
  OBVIOUS
<1>1. TypeOK /\ Hands
  <2>1. <<>> \in Seq(Packet) /\ <<>> \in Seq(Nat)
    OBVIOUS
  <2>2. TypeOK
    BY <2>1 DEF Init, TypeOK
  <2>3. Hands
    BY DEF Init, Hands, Busy
  <2> QED
    BY <2>2, <2>3
<1>2. IsFiniteSet(slots) /\ Cardinality(slots) = 0
  BY FS_EmptySet DEF Init
<1> QED
  BY <1>1, <1>2 DEF Init, Structure, Numbered, PendingExact

\* Submit adds one slot, with the next ticket.
LEMMA SubmitAdds ==
  ASSUME Structure, NEW priority \in Levels, Submit(priority)
  PROVE  LET new == [ticket |-> nextTicket + 1, priority |-> priority]
         IN  /\ new \in Packet /\ new \notin slots /\ slots' = slots \cup {new}
             /\ IsFiniteSet(slots') /\ Cardinality(slots') = Cardinality(slots) + 1
             /\ nextTicket \in Nat /\ nextTicket' = nextTicket + 1
             /\ Cardinality(slots) \in Nat
<1> DEFINE new == [ticket |-> nextTicket + 1, priority |-> priority]
<1>1. nextTicket \in Nat
  BY DEF Structure, TypeOK
<1>2. new \in Packet
  BY <1>1 DEF Packet
<1>3. new \notin slots
  <2>1. new.ticket = nextTicket + 1
    OBVIOUS
  <2>2. \A s \in slots : s.ticket <= nextTicket
    BY <1>1 DEF Structure, Numbered
  <2> QED
    BY <1>1, <2>1, <2>2
<1>4. slots' = slots \cup {new} /\ nextTicket' = nextTicket + 1
  BY DEF Submit
<1>5. IsFiniteSet(slots)
  BY DEF Structure, Numbered
<1> HIDE DEF new
<1>6. IsFiniteSet(slots') /\ Cardinality(slots') = Cardinality(slots) + 1
  BY <1>3, <1>4, <1>5, FS_AddElement
<1>7. Cardinality(slots) \in Nat
  BY <1>5, FS_CardinalityType
<1> QED
  BY <1>1, <1>2, <1>3, <1>4, <1>6, <1>7 DEF new

LEMMA StructureSubmit ==
  ASSUME Structure, NEW priority \in Levels, Submit(priority)
  PROVE  Structure'
<1> DEFINE new == [ticket |-> nextTicket + 1, priority |-> priority]
<1>1. /\ new \in Packet /\ new \notin slots /\ slots' = slots \cup {new}
      /\ IsFiniteSet(slots') /\ Cardinality(slots') = Cardinality(slots) + 1
      /\ nextTicket \in Nat /\ nextTicket' = nextTicket + 1
      /\ Cardinality(slots) \in Nat
  BY SubmitAdds
<1>2. new.ticket = nextTicket + 1
  OBVIOUS
<1> HIDE DEF new
<1>3. /\ pending' = pending + 1 /\ passed' = Append(passed, 0) /\ deinit # "freed"
      /\ UNCHANGED <<current, worker, stopping, deinit, sent>>
  BY DEF Submit
<1>4. TypeOK'
  <2>1. pending + 1 \in Nat
    BY DEF Structure, TypeOK
  <2>2. passed' \in Seq(Nat)
    BY <1>3 DEF Structure, TypeOK
  <2> QED
    BY <1>1, <1>3, <2>1, <2>2 DEF Structure, TypeOK
<1>5. Hands'
  BY <1>1, <1>3 DEF Structure, Hands, Busy
<1>6. Numbered'
  <2>1. \A s \in slots : s.ticket \in 1 .. nextTicket
    BY DEF Structure, Numbered
  <2>2. \A s \in slots' : s.ticket \in 1 .. nextTicket'
    BY <1>1, <1>2, <2>1
  <2>3. \A s, t \in slots' : s.ticket = t.ticket => s = t
    <3>1. \A s, t \in slots : s.ticket = t.ticket => s = t
      BY DEF Structure, Numbered
    <3>2. \A s \in slots : s.ticket # new.ticket
      BY <1>1, <1>2, <2>1
    <3> QED
      BY <1>1, <3>1, <3>2
  <2>4. Len(passed') = nextTicket'
    BY <1>1, <1>3 DEF Structure, Numbered, TypeOK
  <2> QED
    BY <1>1, <2>2, <2>3, <2>4 DEF Numbered
<1>7. PendingExact'
  BY <1>1, <1>3 DEF Structure, PendingExact
<1> QED
  BY <1>4, <1>5, <1>6, <1>7 DEF Structure

LEMMA StructureRawSend ==
  ASSUME Structure, RawSend
  PROVE  Structure'
<1>1. PICK s \in current :
        /\ sent' = Append(sent, s)
        /\ passed' = [k \in DOMAIN passed |->
                        IF k \in PassedBy(s) THEN passed[k] + 1 ELSE passed[k]]
  BY DEF RawSend
<1>2. UNCHANGED <<slots, current, nextTicket, pending, stopping, deinit>>
  BY DEF RawSend
<1>3. s \in Packet /\ sent' \in Seq(Packet)
  BY <1>1 DEF Structure, TypeOK
<1>4. passed' \in Seq(Nat) /\ Len(passed') = Len(passed)
  <2>1. passed \in Seq(Nat) /\ DOMAIN passed = 1 .. Len(passed) /\ Len(passed) \in Nat
    BY DEF Structure, TypeOK
  <2>2. \A k \in DOMAIN passed : passed[k] \in Nat /\ passed[k] + 1 \in Nat
    BY <2>1
  <2>3. passed' \in [1 .. Len(passed) -> Nat]
    BY <1>1, <2>1, <2>2
  <2> QED
    BY <2>1, <2>3
<1>5. TypeOK'
  BY <1>2, <1>3, <1>4 DEF RawSend, Structure, TypeOK
<1>6. Hands'
  BY <1>2 DEF RawSend, Structure, Hands, Busy
<1>7. Numbered' /\ PendingExact'
  BY <1>2, <1>4 DEF Structure, Numbered, PendingExact
<1> QED
  BY <1>5, <1>6, <1>7 DEF Structure

\* Complete frees exactly the slot that was sent, so pending does not go below 0.
LEMMA StructureComplete ==
  ASSUME Structure, Complete
  PROVE  Structure'
<1>1. PICK s \in slots : current = {s}
  BY DEF Complete, Structure, Hands, Busy
<1>2. /\ slots' = slots \ {s} /\ current' = {} /\ pending' = pending - 1
      /\ worker' = "picking" /\ worker = "completing"
      /\ UNCHANGED <<nextTicket, stopping, deinit, sent, passed>>
  BY <1>1 DEF Complete
<1>3. /\ IsFiniteSet(slots') /\ Cardinality(slots') = Cardinality(slots) - 1
      /\ Cardinality(slots') \in Nat
  <2>1. IsFiniteSet(slots)
    BY DEF Structure, Numbered
  <2> QED
    BY <1>2, <2>1, FS_RemoveElement, FS_CardinalityType
<1>4. deinit # "freed" /\ pending' = Cardinality(slots')
  BY <1>2, <1>3 DEF Structure, Hands, PendingExact
<1>5. TypeOK'
  BY <1>2, <1>3, <1>4 DEF Structure, TypeOK
<1>6. Hands'
  BY <1>2, <1>4 DEF Hands, Busy
<1>7. Numbered' /\ PendingExact'
  BY <1>2, <1>3, <1>4 DEF Structure, Numbered, PendingExact
<1> QED
  BY <1>5, <1>6, <1>7 DEF Structure

LEMMA StructureDeinit ==
  ASSUME Structure, DeinitFree
  PROVE  Structure'
<1>1. CASE worker = "gone"
  <2>1. slots' = {} /\ deinit' = "freed"
    BY <1>1 DEF DeinitFree
  <2>2. IsFiniteSet(slots')
    BY <2>1, FS_EmptySet
  <2> QED
    BY <1>1, <2>1, <2>2 DEF DeinitFree, Structure, TypeOK, Hands, Busy, Numbered, PendingExact
<1>2. CASE worker # "gone"
  BY <1>2 DEF DeinitFree, Structure, TypeOK, Hands, Busy, Numbered, PendingExact
<1> QED
  BY <1>1, <1>2

LEMMA StructureStep == Structure /\ [Next]_vars => Structure'
<1> SUFFICES ASSUME Structure, [Next]_vars PROVE Structure'
  OBVIOUS
<1>1. CASE \E priority \in Levels : Submit(priority)
  BY <1>1, StructureSubmit
<1>2. CASE Wake \/ PickNothing \/ Exit
  BY <1>2 DEF Wake, PickNothing, Exit, Structure, TypeOK, Hands, Busy, Numbered,
     PendingExact
<1>3. CASE PickNext
  <2>1. \E s \in slots : current' = {s}
    BY <1>3 DEF PickNext, Waiting
  <2> QED
    BY <1>3, <2>1 DEF PickNext, Structure, TypeOK, Hands, Busy, Numbered, PendingExact
<1>4. CASE RawSend
  BY <1>4, StructureRawSend
<1>5. CASE Complete
  BY <1>5, StructureComplete
<1>6. CASE DeinitStart
  BY <1>6 DEF DeinitStart, Structure, TypeOK, Hands, Busy, Numbered, PendingExact
<1>7. CASE DeinitFree
  BY <1>7, StructureDeinit
<1>8. CASE UNCHANGED vars
  BY <1>8 DEF vars, Structure, TypeOK, Hands, Busy, Numbered, PendingExact
<1> QED
  BY <1>1, <1>2, <1>3, <1>4, <1>5, <1>6, <1>7, <1>8 DEF Next, Worker

----------------------------------------------------------------------------
(* The reserve *)

LEMMA ReserveSubmit ==
  ASSUME Structure, ControlReserve, NEW priority \in Levels, Submit(priority)
  PROVE  ControlReserve'
<1> DEFINE new == [ticket |-> nextTicket + 1, priority |-> priority]
<1>1. /\ new \notin slots /\ slots' = slots \cup {new}
      /\ IsFiniteSet(slots') /\ Cardinality(slots') = Cardinality(slots) + 1
      /\ Cardinality(slots) \in Nat
  BY SubmitAdds
<1>2. NonControl' \in SUBSET slots' /\ priority \in Nat
  BY DEF NonControl
<1>3. IsFiniteSet(NonControl') /\ Cardinality(NonControl') <= Cardinality(slots')
      /\ Cardinality(NonControl') \in Nat
  BY <1>1, <1>2, FS_Subset, FS_CardinalityType
<1>4. CASE priority < CONTROL
  <2>1. Slots - Cardinality(slots) > Reserved
    BY <1>4 DEF Submit, FreeSlots
  <2> QED
    BY <1>1, <1>3, <2>1 DEF ControlReserve
<1>5. CASE ~(priority < CONTROL)
  <2>1. NonControl' = NonControl
    BY <1>1, <1>5 DEF NonControl
  <2> QED
    BY <2>1 DEF ControlReserve
<1> QED
  BY <1>4, <1>5

\* Freeing slots keeps the bound.
LEMMA ReserveShrinks ==
  ASSUME Structure, ControlReserve, slots' \in SUBSET slots
  PROVE  ControlReserve'
<1>1. NonControl' \in SUBSET NonControl /\ NonControl \in SUBSET slots
  BY DEF NonControl
<1>2. IsFiniteSet(NonControl) /\ Cardinality(NonControl) \in Nat
  BY <1>1, FS_Subset, FS_CardinalityType DEF Structure, Numbered
<1>3. Cardinality(NonControl') <= Cardinality(NonControl) /\ Cardinality(NonControl') \in Nat
  BY <1>1, <1>2, FS_Subset, FS_CardinalityType
<1> QED
  BY <1>2, <1>3 DEF ControlReserve

LEMMA ReserveStep == Structure /\ ControlReserve /\ [Next]_vars => ControlReserve'
<1> SUFFICES ASSUME Structure, ControlReserve, [Next]_vars PROVE ControlReserve'
  OBVIOUS
<1>1. CASE \E priority \in Levels : Submit(priority)
  BY <1>1, ReserveSubmit
<1>2. CASE Worker \/ DeinitStart \/ DeinitFree \/ UNCHANGED vars
  <2>1. slots' \in SUBSET slots
    BY <1>2 DEF Worker, Wake, PickNext, PickNothing, RawSend, Complete, Exit,
       DeinitStart, DeinitFree, vars
  <2> QED
    BY <2>1, ReserveShrinks
<1> QED
  BY <1>1, <1>2 DEF Next

LEMMA ReserveInit == Init => ControlReserve
<1> SUFFICES ASSUME Init PROVE ControlReserve
  OBVIOUS
<1>1. NonControl = {}
  BY DEF Init, NonControl
<1>2. Cardinality(NonControl) = 0
  BY <1>1, FS_EmptySet
<1> QED
  BY <1>2 DEF ControlReserve

----------------------------------------------------------------------------
(* Order, conservation and inversions *)

\* What was sent and what is on its way comes before what waits, within a priority.
Ordered ==
  /\ \A i \in DOMAIN sent : sent[i].ticket \in 1 .. nextTicket
  /\ \A i \in DOMAIN sent, t \in Waiting :
       sent[i].priority = t.priority => sent[i].ticket < t.ticket
  /\ worker = "sending" => \A s \in current :
       /\ \A i \in DOMAIN sent : sent[i].priority = s.priority => sent[i].ticket < s.ticket
       /\ \A t \in Waiting : s.priority = t.priority => s.ticket < t.ticket
  /\ worker = "completing" => \A s \in current : s.ticket \in SentTickets

\* A packet of higher priority that waits while one of lower priority is sent came
\* after that one was picked, and has not been passed before.
NotPassed ==
  worker = "sending" =>
    \A s \in current, t \in Waiting : t.priority > s.priority => passed[t.ticket] = 0

Promises == Ordered /\ FirstInFirstOut /\ Conserved /\ NotPassed /\ OneInversion

LEMMA PromisesInit == Init => Promises
<1> SUFFICES ASSUME Init PROVE Promises
  OBVIOUS
<1>1. DOMAIN sent = {} /\ DOMAIN passed = {} /\ slots = {} /\ nextTicket = 0
  BY DEF Init
<1>2. SentTickets = {} /\ Tickets(slots) = {} /\ Waiting = {} /\ 1 .. nextTicket = {}
  BY <1>1 DEF SentTickets, Tickets, Waiting
<1>3. worker = "waiting"
  BY DEF Init
<1> QED
  BY <1>1, <1>2, <1>3 DEF Promises, Ordered, FirstInFirstOut, Conserved, NotPassed, OneInversion

LEMMA PromisesSubmit ==
  ASSUME Structure, Promises, NEW priority \in Levels, Submit(priority)
  PROVE  Promises'
<1> DEFINE new == [ticket |-> nextTicket + 1, priority |-> priority]
<1>1. /\ new \notin slots /\ slots' = slots \cup {new}
      /\ nextTicket \in Nat /\ nextTicket' = nextTicket + 1
  BY SubmitAdds
<1>2. new.ticket = nextTicket + 1
  OBVIOUS
<1> HIDE DEF new
<1>3. /\ passed' = Append(passed, 0) /\ deinit # "freed"
      /\ UNCHANGED <<current, worker, stopping, deinit, sent>>
  BY DEF Submit
<1>4. Waiting' = Waiting \cup {new}
  BY <1>1, <1>3 DEF Waiting, Structure, Hands
<1>5. \A i \in DOMAIN sent : sent[i].ticket \in 1 .. nextTicket
  BY DEF Promises, Ordered
<1>6. \A s \in slots : s.ticket \in 1 .. nextTicket
  BY DEF Structure, Numbered
<1>7. \A s \in current : s \in slots
  BY DEF Structure, Hands
<1>8. SentTickets' = SentTickets
  BY <1>3 DEF SentTickets
<1>9. Ordered'
  <2>1. \A i \in DOMAIN sent' : sent'[i].ticket \in 1 .. nextTicket'
    BY <1>1, <1>3, <1>5
  <2>2. \A i \in DOMAIN sent', t \in Waiting' :
          sent'[i].priority = t.priority => sent'[i].ticket < t.ticket
    BY <1>1, <1>2, <1>3, <1>4, <1>5 DEF Promises, Ordered
  <2>3. worker' = "sending" => \A s \in current' :
          /\ \A i \in DOMAIN sent' : sent'[i].priority = s.priority => sent'[i].ticket < s.ticket
          /\ \A t \in Waiting' : s.priority = t.priority => s.ticket < t.ticket
    BY <1>1, <1>2, <1>3, <1>4, <1>6, <1>7 DEF Promises, Ordered
  <2>4. worker' = "completing" => \A s \in current' : s.ticket \in SentTickets'
    BY <1>3, <1>8 DEF Promises, Ordered
  <2> QED
    BY <2>1, <2>2, <2>3, <2>4 DEF Ordered
<1>10. FirstInFirstOut'
  BY <1>3 DEF Promises, FirstInFirstOut
<1>11. Conserved'
  <2>1. Tickets(slots') = Tickets(slots) \cup {nextTicket + 1}
    BY <1>1, <1>2 DEF Tickets
  <2>2. 1 .. nextTicket' = SentTickets' \cup Tickets(slots')
    <3>1. 1 .. nextTicket = SentTickets \cup Tickets(slots)
      BY <1>3 DEF Promises, Conserved
    <3>2. 1 .. nextTicket' = (1 .. nextTicket) \cup {nextTicket + 1}
      BY <1>1
    <3> QED
      BY <1>8, <2>1, <3>1, <3>2
  <2>3. SentTickets \cap Tickets(Waiting) = {}
    BY <1>3 DEF Promises, Conserved
  <2>4. nextTicket + 1 \notin SentTickets
    BY <1>1, <1>5 DEF SentTickets
  <2>5. Tickets(Waiting') = Tickets(Waiting) \cup {nextTicket + 1}
    BY <1>2, <1>4 DEF Tickets
  <2>6. Tickets(Waiting)' = Tickets(Waiting')
    BY DEF Tickets
  <2>7. Tickets(slots)' = Tickets(slots')
    BY DEF Tickets
  <2> QED
    BY <1>8, <2>2, <2>3, <2>4, <2>5, <2>6, <2>7 DEF Conserved
<1>12. /\ Len(passed') = nextTicket + 1 /\ passed'[nextTicket + 1] = 0
       /\ DOMAIN passed' = 1 .. nextTicket + 1
       /\ \A k \in 1 .. nextTicket : passed'[k] = passed[k] /\ k \in DOMAIN passed
  BY <1>1, <1>3 DEF Structure, TypeOK, Numbered
<1>13. NotPassed'
  <2> SUFFICES ASSUME worker' = "sending", NEW s \in current', NEW t \in Waiting',
                      t.priority > s.priority
               PROVE  passed'[t.ticket] = 0
    BY DEF NotPassed
  <2>1. CASE t = new
    BY <1>2, <1>12, <2>1
  <2>2. CASE t \in Waiting
    <3>1. t.ticket \in 1 .. nextTicket
      BY <1>6, <2>2 DEF Waiting
    <3>2. passed[t.ticket] = 0
      BY <1>3, <2>2 DEF Promises, NotPassed
    <3> QED
      BY <1>12, <3>1, <3>2
  <2> QED
    BY <1>4, <2>1, <2>2
<1>14. OneInversion'
  <2>1. \A k \in 1 .. nextTicket : passed'[k] <= 1
    BY <1>12 DEF Promises, OneInversion
  <2> QED
    BY <1>1, <1>12, <2>1 DEF OneInversion
<1> QED
  BY <1>9, <1>10, <1>11, <1>13, <1>14 DEF Promises

LEMMA PromisesPick ==
  ASSUME Structure, Promises, PickNext
  PROVE  Promises'
<1>1. PICK s \in Waiting : (\A t \in Waiting \ {s} : Before(s, t)) /\ current' = {s}
  BY DEF PickNext
<1>2. /\ UNCHANGED <<slots, nextTicket, pending, stopping, deinit, sent, passed>>
      /\ worker = "picking" /\ worker' = "sending"
  BY DEF PickNext
<1>3. current = {} /\ Waiting = slots /\ Waiting' = slots \ {s}
  BY <1>1, <1>2 DEF Structure, Hands, Busy, Waiting
<1>4. \A t \in slots : t.ticket \in Nat /\ t.priority \in Nat
  <2>1. \A t \in slots : t \in Packet
    BY DEF Structure, TypeOK
  <2>2. \A t \in Packet : t.ticket \in Nat /\ t.priority \in Levels
    BY DEF Packet
  <2>3. Levels \subseteq Nat
    OBVIOUS
  <2> QED
    BY <2>1, <2>2, <2>3
<1>5. \A t \in Waiting' : /\ s.priority = t.priority => s.ticket < t.ticket
                          /\ ~(t.priority > s.priority)
  BY <1>1, <1>3, <1>4 DEF Before
<1>6. Ordered'
  BY <1>1, <1>2, <1>3, <1>5 DEF Promises, Ordered
<1>7. FirstInFirstOut' /\ OneInversion'
  BY <1>2 DEF Promises, FirstInFirstOut, OneInversion
<1>8. NotPassed'
  BY <1>1, <1>5 DEF NotPassed
<1>9. Conserved'
  <2>1. SentTickets' = SentTickets /\ Tickets(slots)' = Tickets(slots)
    BY <1>2 DEF SentTickets, Tickets
  <2>2. Tickets(Waiting)' \subseteq Tickets(Waiting)
    BY <1>3 DEF Tickets
  <2> QED
    BY <1>2, <2>1, <2>2 DEF Promises, Conserved
<1> QED
  BY <1>6, <1>7, <1>8, <1>9 DEF Promises

LEMMA PromisesRawSend ==
  ASSUME Structure, Promises, RawSend
  PROVE  Promises'
<1>1. PICK s \in current :
        /\ sent' = Append(sent, s)
        /\ passed' = [k \in DOMAIN passed |->
                        IF k \in PassedBy(s) THEN passed[k] + 1 ELSE passed[k]]
  BY DEF RawSend
<1>2. /\ UNCHANGED <<slots, current, nextTicket, pending, stopping, deinit>>
      /\ worker = "sending" /\ worker' = "completing"
  BY DEF RawSend
<1>3. current = {s} /\ s \in slots /\ s \in Packet
  BY <1>1, <1>2 DEF Structure, Hands, Busy, TypeOK
<1>4. Waiting' = Waiting
  BY <1>2 DEF Waiting
<1>5. /\ sent \in Seq(Packet) /\ Len(sent) \in Nat
      /\ DOMAIN sent = 1 .. Len(sent) /\ DOMAIN sent' = 1 .. Len(sent) + 1
      /\ \A i \in DOMAIN sent : sent'[i] = sent[i]
      /\ sent'[Len(sent) + 1] = s
  BY <1>1, <1>3 DEF Structure, TypeOK
<1>6. \A i \in DOMAIN sent' : i \in DOMAIN sent \/ sent'[i] = s
  BY <1>5
<1>7. Ordered'
  <2>1. \A i \in DOMAIN sent' : sent'[i].ticket \in 1 .. nextTicket'
    BY <1>2, <1>3, <1>5, <1>6 DEF Promises, Ordered, Structure, Numbered
  <2>2. \A i \in DOMAIN sent', t \in Waiting' :
          sent'[i].priority = t.priority => sent'[i].ticket < t.ticket
    BY <1>2, <1>3, <1>4, <1>5, <1>6 DEF Promises, Ordered
  <2>3. s.ticket \in SentTickets'
    BY <1>5 DEF SentTickets
  <2> QED
    BY <1>2, <1>3, <2>1, <2>2, <2>3 DEF Ordered
<1>8. FirstInFirstOut'
  <2> SUFFICES ASSUME NEW i \in DOMAIN sent', NEW j \in DOMAIN sent', i < j,
                      sent'[i].priority = sent'[j].priority
               PROVE  sent'[i].ticket < sent'[j].ticket
    BY DEF FirstInFirstOut
  <2>1. i \in DOMAIN sent
    BY <1>5
  <2>2. CASE j \in DOMAIN sent
    BY <1>5, <2>1, <2>2 DEF Promises, FirstInFirstOut
  <2>3. CASE j \notin DOMAIN sent
    <3>1. sent'[j] = s /\ sent'[i] = sent[i]
      BY <1>5, <1>6, <2>1, <2>3
    <3> QED
      BY <1>2, <1>3, <2>1, <3>1 DEF Promises, Ordered
  <2> QED
    BY <2>2, <2>3
<1>9. Conserved'
  <2>1. SentTickets' = SentTickets \cup {s.ticket}
    <3>1. ASSUME NEW k \in SentTickets'
          PROVE  k \in SentTickets \cup {s.ticket}
      BY <1>5, <1>6 DEF SentTickets
    <3>2. ASSUME NEW k \in SentTickets \cup {s.ticket}
          PROVE  k \in SentTickets'
      BY <1>5 DEF SentTickets
    <3> QED
      BY <3>1, <3>2
  <2>2. Tickets(slots)' = Tickets(slots) /\ Tickets(Waiting)' = Tickets(Waiting)
    BY <1>2, <1>4 DEF Tickets
  <2>3. s.ticket \in Tickets(slots)
    BY <1>3 DEF Tickets
  <2>4. s.ticket \notin Tickets(Waiting)
    BY <1>3 DEF Tickets, Waiting, Structure, Numbered
  <2> QED
    BY <1>2, <2>1, <2>2, <2>3, <2>4 DEF Promises, Conserved
<1>10. NotPassed'
  BY <1>2 DEF NotPassed
<1>11. OneInversion'
  <2> SUFFICES ASSUME NEW k \in DOMAIN passed' PROVE passed'[k] <= 1
    BY DEF OneInversion
  <2>1. k \in DOMAIN passed /\ passed[k] <= 1 /\ passed[k] \in Nat
    BY <1>1 DEF Promises, OneInversion, Structure, TypeOK
  <2>2. k \in PassedBy(s) => passed[k] = 0
    BY <1>1, <1>2 DEF PassedBy, Promises, NotPassed
  <2> QED
    BY <1>1, <2>1, <2>2
<1> QED
  BY <1>7, <1>8, <1>9, <1>10, <1>11 DEF Promises

LEMMA PromisesComplete ==
  ASSUME Structure, Promises, Complete
  PROVE  Promises'
<1>1. PICK s \in slots : current = {s}
  BY DEF Complete, Structure, Hands, Busy
<1>2. /\ slots' = slots \ {s} /\ current' = {} /\ worker' = "picking"
      /\ worker = "completing"
      /\ UNCHANGED <<nextTicket, stopping, deinit, sent, passed>>
  BY <1>1 DEF Complete
<1>3. Waiting' = Waiting
  BY <1>1, <1>2 DEF Waiting
<1>4. SentTickets' = SentTickets /\ s.ticket \in SentTickets
  BY <1>1, <1>2 DEF SentTickets, Promises, Ordered
<1>5. Tickets(Waiting)' = Tickets(Waiting)
  BY <1>3 DEF Tickets
<1>6. SentTickets \cup Tickets(slots)' = SentTickets \cup Tickets(slots)
  BY <1>1, <1>2, <1>4 DEF Tickets
<1>7. Conserved'
  BY <1>2, <1>4, <1>5, <1>6 DEF Promises, Conserved
<1>8. Ordered' /\ FirstInFirstOut' /\ NotPassed' /\ OneInversion'
  BY <1>2, <1>3 DEF Promises, Ordered, FirstInFirstOut, NotPassed, OneInversion
<1> QED
  BY <1>7, <1>8 DEF Promises

LEMMA PromisesQuiet ==
  ASSUME Structure, Promises,
         Wake \/ PickNothing \/ Exit \/ DeinitStart \/ DeinitFree \/ UNCHANGED vars
  PROVE  Promises'
<1>1. /\ UNCHANGED <<current, nextTicket, sent, passed>>
      /\ worker' \in {"sending", "completing"} => worker' = worker
      /\ slots' = slots \/ (slots' = {} /\ deinit' = "freed")
      /\ deinit = "freed" => deinit' = "freed"
  BY DEF Wake, PickNothing, Exit, DeinitStart, DeinitFree, vars
<1>2. Waiting' \in SUBSET Waiting /\ SentTickets' = SentTickets
  BY <1>1 DEF Waiting, SentTickets
<1>3. Ordered'
  BY <1>1, <1>2 DEF Promises, Ordered
<1>4. FirstInFirstOut' /\ NotPassed' /\ OneInversion'
  BY <1>1, <1>2 DEF Promises, FirstInFirstOut, NotPassed, OneInversion
<1>5. Conserved'
  <2>1. slots' = slots => Tickets(slots)' = Tickets(slots) /\ Tickets(Waiting)' = Tickets(Waiting)
    BY <1>1 DEF Tickets, Waiting
  <2> QED
    BY <1>1, <1>2, <2>1 DEF Promises, Conserved
<1> QED
  BY <1>3, <1>4, <1>5 DEF Promises

LEMMA PromisesStep == Structure /\ Promises /\ [Next]_vars => Promises'
<1> SUFFICES ASSUME Structure, Promises, [Next]_vars PROVE Promises'
  OBVIOUS
<1> QED
  BY PromisesSubmit, PromisesPick, PromisesRawSend, PromisesComplete, PromisesQuiet
     DEF Next, Worker

----------------------------------------------------------------------------
LEMMA StructureAlways == Spec => []Structure
  BY StructureInit, StructureStep, PTL DEF Spec

\* The broker's state is well typed; in particular stats.pending, decremented in
\* broker_task(), does not wrap below 0.
THEOREM TypeCorrect == Spec => []TypeOK
<1>1. Structure => TypeOK
  BY DEF Structure
<1> QED
  BY <1>1, StructureAlways, PTL

\* Packets below CONTROL never use the reserve, for any number of slots.
THEOREM ControlReserveAlways == Spec => []ControlReserve
  BY ReserveInit, ReserveStep, StructureAlways, PTL DEF Spec

LEMMA PromisesAlways == Spec => []Promises
  BY PromisesInit, PromisesStep, StructureAlways, PTL DEF Spec

\* Packets of one priority leave in the order they were accepted, each once.
THEOREM FirstInFirstOutAlways == Spec => []FirstInFirstOut
<1>1. Promises => FirstInFirstOut
  BY DEF Promises
<1> QED
  BY <1>1, PromisesAlways, PTL

\* No accepted packet is dropped before the broker is freed, and none waits that
\* was sent.
THEOREM ConservedAlways == Spec => []Conserved
<1>1. Promises => Conserved
  BY DEF Promises
<1> QED
  BY <1>1, PromisesAlways, PTL

\* A packet is passed by at most one of lower priority.
THEOREM OneInversionAlways == Spec => []OneInversion
<1>1. Promises => OneInversion
  BY DEF Promises
<1> QED
  BY <1>1, PromisesAlways, PTL

\* The reserve stays free, the counter of pending packets is the number of slots in
\* use, and the memory is freed only after the worker is gone.
THEOREM AccountingAlways == Spec => []SlotsAccounted
<1>1. Structure => PendingExact /\ FreedAfterWorker
  BY DEF Structure, Hands, Busy, FreedAfterWorker
<1>2. TypeOK /\ ControlReserve /\ PendingExact /\ FreedAfterWorker => SlotsAccounted
  BY DEF SlotsAccounted
<1> QED
  BY <1>1, <1>2, TypeCorrect, StructureAlways, ControlReserveAlways, PTL
=============================================================================
