------------------------- MODULE EventOutbox_proofs -------------------------
(***************************************************************************)
(* Proofs about the event outbox: for every number of slots, set of keys,  *)
(* long ones included, and group sizes.  FairSpec adds only fairness to    *)
(* Spec.                                                                   *)
(***************************************************************************)
EXTENDS EventOutbox, Integers, FiniteSetTheorems, TLAPS

AtSend == worker \in {"sending", "sent", "failed"}

\* A slot holds a text and what is stored of its key; no text is in two slots.
SlotsKnown ==
  /\ Len(keyOf) = nextTicket
  /\ \A i \in Used :
       /\ slots[i].ticket = slots[i].text /\ slots[i].text \in 1 .. nextTicket
       /\ slots[i].key = Stored(keyOf[slots[i].text])
  /\ \A i, j \in Used : slots[i].text = slots[j].text => i = j

\* Only the slot the worker has taken is marked, and it holds the oldest text.
CurrentOldest ==
  /\ IF AtSend THEN /\ current \in Used /\ slots[current].sending
                    /\ \A j \in Used : j # current => slots[current].text < slots[j].text
     ELSE current = 0
  /\ \A i \in Used : slots[i].sending => i = current

\* What was sent is older than what is left, and between the send and the release it
\* is in the slot.
SentOlder ==
  /\ \A n \in DOMAIN delivered :
       /\ delivered[n] \in 1 .. nextTicket
       /\ \A i \in Used : \/ delivered[n] < slots[i].text
                          \/ worker = "sent" /\ i = current
       /\ worker = "sent" => delivered[n] <= slots[current].text
  /\ worker = "sent" => Delivered(slots[current].text)

\* Items of a group have no key, so nothing replaces them.
GroupsKeyless ==
  \A g \in groups : \A t \in g[1] .. g[2] : t \in DOMAIN keyOf /\ keyOf[t] = NoKey

QueueInv ==
  /\ TypeOK /\ SlotsKnown /\ CurrentOldest /\ SentOlder /\ GroupsKeyless
  /\ EnqueueOrder /\ NothingLost
  /\ deinit = "freed" => worker = "gone"

OutboxInv == QueueInv /\ PendingExact /\ TwoPerKey

----------------------------------------------------------------------------
(* The order of indices *)

RankIn(S) == [i \in S |-> Cardinality({j \in S : j <= i})]

\* Counting the elements up to each one numbers a finite set of naturals from 1.
LEMMA Ranks ==
  ASSUME NEW S \in SUBSET Nat, IsFiniteSet(S)
  PROVE  /\ Cardinality(S) \in Nat
         /\ RankIn(S) \in [S -> 1 .. Cardinality(S)]
         /\ \A i, j \in S : RankIn(S)[i] = RankIn(S)[j] => i = j
         /\ \A n \in 1 .. Cardinality(S) : \E i \in S : RankIn(S)[i] = n
<1> DEFINE upto(i) == {j \in S : j <= i}
           r == RankIn(S)
<1>1. \A i \in S : IsFiniteSet(upto(i)) /\ Cardinality(upto(i)) \in Nat
                    /\ Cardinality(upto(i)) <= Cardinality(S)
  <2> TAKE i \in S
  <2>1. upto(i) \in SUBSET S
    OBVIOUS
  <2> QED
    BY <2>1, FS_Subset, FS_CardinalityType
<1>2. Cardinality(S) \in Nat
  BY FS_CardinalityType
<1>3. \A i \in S : Cardinality(upto(i)) # 0
  <2> TAKE i \in S
  <2>1. i \in upto(i)
    OBVIOUS
  <2> QED
    BY <2>1, <1>1, FS_EmptySet
<1>4. r \in [S -> 1 .. Cardinality(S)]
  BY <1>1, <1>2, <1>3 DEF RankIn
<1>5. \A i, j \in S : i < j => r[i] < r[j]
  <2> SUFFICES ASSUME NEW i \in S, NEW j \in S, i < j
               PROVE  Cardinality(upto(i)) < Cardinality(upto(j))
    BY DEF RankIn
  <2>1. upto(i) \in SUBSET upto(j) /\ j \in upto(j) /\ j \notin upto(i)
    <3>1. \A k \in S : k \in Nat
      OBVIOUS
    <3>2. \A k \in upto(i) : k \in upto(j)
      BY <3>1
    <3>3. j <= j /\ ~(j <= i)
      BY <3>1
    <3>4. j \in upto(j) /\ j \notin upto(i)
      BY <3>3
    <3> HIDE DEF upto
    <3> QED
      BY <3>2, <3>4
  <2>2. Cardinality(upto(i)) <= Cardinality(upto(j)) /\ Cardinality(upto(i)) # Cardinality(upto(j))
    BY <2>1, <1>1, FS_Subset
  <2> QED
    BY <2>2, <1>1
<1>6. \A i, j \in S : r[i] = r[j] => i = j
  <2> SUFFICES ASSUME NEW i \in S, NEW j \in S, i # j
               PROVE  r[i] # r[j]
    OBVIOUS
  <2>1. i < j \/ j < i
    OBVIOUS
  <2>2. r[i] < r[j] \/ r[j] < r[i]
    BY <2>1, <1>5
  <2>3. r[i] \in Int /\ r[j] \in Int
    BY <1>4, <1>2
  <2> HIDE DEF r
  <2> QED
    BY <2>2, <2>3
<1> HIDE DEF r
<1>7. r \in Injection(S, 1 .. Cardinality(S))
  BY <1>4, <1>6 DEF Injection, IsInjective
<1>8. IsFiniteSet(1 .. Cardinality(S)) /\ Cardinality(1 .. Cardinality(S)) = Cardinality(S)
  BY <1>2, FS_Interval
<1>9. r \in Surjection(S, 1 .. Cardinality(S))
  BY <1>7, <1>8, FS_Injection
<1> QED
  BY <1>2, <1>4, <1>6, <1>9 DEF Surjection, r

\* The first index of a set of slots.
LEMMA FirstIs ==
  ASSUME NEW S \in SUBSET Index, S # {}
  PROVE  First(S) \in S
<1>1. IsFiniteSet(S) /\ S \in SUBSET Nat
  <2>1. Slots \in Nat /\ Index \in SUBSET Nat
    BY OutboxAssumption DEF Index
  <2>2. IsFiniteSet(Index)
    BY <2>1, FS_Interval DEF Index
  <2> QED
    BY <2>1, <2>2, FS_Subset
<1>2. Cardinality(S) \in Nat /\ Cardinality(S) # 0
  BY <1>1, FS_EmptySet, FS_CardinalityType
<1>3. PICK i \in S : RankIn(S)[i] = 1
  BY <1>1, <1>2, Ranks
<1>4. Cardinality({j \in S : j <= i}) = 1
  BY <1>3 DEF RankIn
<1>5. IsFiniteSet({j \in S : j <= i})
  <2>1. {j \in S : j <= i} \in SUBSET S
    OBVIOUS
  <2> QED
    BY <2>1, <1>1, FS_Subset
<1>6. PICK x : {j \in S : j <= i} = {x}
  BY <1>4, <1>5, FS_Singleton
<1>7. \A j \in S : i <= j
  <2> TAKE j \in S
  <2>1. i \in {k \in S : k <= i}
    BY <1>1
  <2>2. i \in Nat /\ j \in Nat
    BY <1>1
  <2>3. CASE j <= i
    <3>1. j \in {k \in S : k <= i}
      BY <2>3
    <3>2. i = j
      BY <3>1, <2>1, <1>6
    <3> QED
      BY <3>2, <2>2
  <2> QED
    BY <2>2, <2>3
<1> QED
  BY <1>7 DEF First

----------------------------------------------------------------------------
(* Enqueueing *)

\* What is stored of a key is stored whole.
LEMMA StoredIs ==
  ASSUME NEW key \in Keys \cup {NoKey}
  PROVE  /\ Stored(key) \in Keys \cup {NoKey} /\ Stored(Stored(key)) = Stored(key)
         /\ Stored(key) = NoKey <=> key = NoKey
  BY OutboxAssumption DEF Stored

LEMMA SlotIs ==
  ASSUME TypeOK
  PROVE  /\ Used \subseteq Index
         /\ \A i \in Used : slots[i] \in Event /\ slots[i].sending \in BOOLEAN
                             /\ slots[i].text \in Nat /\ slots[i].key \in Keys \cup {NoKey}
         /\ \A i \in Index \ Used : slots[i] = Free
<1>1. Used \subseteq Index
  BY DEF Used
<1>2. ~Free.used /\ \A e \in Event : e.used = TRUE
  BY DEF Free, Event
<1>3. \A i \in Index : slots[i] \in Event \/ slots[i] = Free
  BY DEF TypeOK
<1>4. \A i \in Used : slots[i] \in Event
  BY <1>1, <1>2, <1>3 DEF Used
<1>5. \A i \in Index \ Used : slots[i] = Free
  BY <1>2, <1>3 DEF Used
<1>6. \A e \in Event : e.sending \in BOOLEAN /\ e.text \in Nat /\ e.key \in Keys \cup {NoKey}
  BY DEF Event
<1> QED
  BY <1>1, <1>4, <1>5, <1>6

\* Both enqueue calls put fresh texts, numbered from next_ticket + 1, into some slots:
\* free ones, or one that waits with the same key.  The function r numbers the slots.
Puts(S, r, count, key) ==
  /\ Numbered(count, key)
  /\ S \subseteq Index /\ r \in [S -> 1 .. count]
  /\ \A i, j \in S : r[i] = r[j] => i = j
  /\ \A n \in 1 .. count : \E i \in S : r[i] = n
  /\ \A i \in S : i \in Used => key # NoKey /\ slots[i].key = key /\ ~slots[i].sending
  /\ slots' = [i \in Index |-> IF i \in S THEN NewEvent(nextTicket + r[i], key) ELSE slots[i]]
  /\ \/ groups' = groups
     \/ groups' = groups \cup {<<nextTicket + 1, nextTicket + count>>} /\ key = NoKey
  /\ pending' \in Nat

LEMMA Enqueued ==
  ASSUME QueueInv, NEW count \in Nat \ {0}, NEW key \in Keys \cup {NoKey}, NEW S, NEW r,
         Puts(S, r, count, key)
  PROVE  QueueInv' /\ Used' = Used \cup S
<1>1. /\ TypeOK /\ SlotsKnown /\ CurrentOldest /\ SentOlder /\ GroupsKeyless
      /\ EnqueueOrder /\ NothingLost
  BY DEF QueueInv
<1>2. /\ nextTicket \in Nat /\ nextTicket' = nextTicket + count
      /\ keyOf \in Seq(Keys \cup {NoKey}) /\ Len(keyOf) = nextTicket
      /\ UNCHANGED <<current, worker, stopping, deinit, delivered>> /\ deinit # "freed"
  BY <1>1 DEF Puts, Numbered, TypeOK, SlotsKnown, teardown
<1>3. /\ keyOf' \in Seq(Keys \cup {NoKey}) /\ Len(keyOf') = nextTicket + count
      /\ \A t \in 1 .. nextTicket : keyOf'[t] = keyOf[t]
      /\ \A t \in nextTicket + 1 .. nextTicket + count : keyOf'[t] = key
  <2> DEFINE more == [k \in 1 .. count |-> key]
  <2>1. /\ more \in Seq(Keys \cup {NoKey}) /\ Len(more) = count
        /\ \A k \in 1 .. count : more[k] = key
    OBVIOUS
  <2>2. keyOf' = keyOf \o more
    BY DEF Puts, Numbered
  <2> HIDE DEF more
  <2>3. keyOf \o more \in Seq(Keys \cup {NoKey}) /\ Len(keyOf \o more) = Len(keyOf) + Len(more)
    BY <2>1, <1>2
  <2>4. \A t \in 1 .. nextTicket : (keyOf \o more)[t] = keyOf[t]
    BY <2>1, <1>2
  <2>5. ASSUME NEW t \in nextTicket + 1 .. nextTicket + count
        PROVE  (keyOf \o more)[t] = key
    <3>1. t - nextTicket \in 1 .. count /\ t \in 1 .. nextTicket + count /\ ~(t <= nextTicket)
      BY <1>2
    <3>2. (keyOf \o more)[t] = more[t - nextTicket]
      BY <3>1, <2>1, <1>2
    <3> QED
      BY <3>1, <3>2, <2>1
  <2> QED
    BY <2>1, <2>2, <2>3, <2>4, <2>5, <1>2
<1>4. \A i \in S : /\ i \in Index /\ slots'[i] = NewEvent(nextTicket + r[i], key)
                    /\ r[i] \in 1 .. count /\ nextTicket + r[i] \in Nat
  BY <1>2 DEF Puts
<1>5. \A i \in Index \ S : slots'[i] = slots[i]
  BY DEF Puts
<1>6. \A i \in S : /\ slots'[i] \in Event /\ slots'[i].used /\ ~slots'[i].sending
                    /\ slots'[i].text = nextTicket + r[i]
                    /\ slots'[i].ticket = slots'[i].text /\ slots'[i].key = Stored(key)
  <2> TAKE i \in S
  <2>1. slots'[i] = [used |-> TRUE, sending |-> FALSE, ticket |-> nextTicket + r[i],
                     key |-> Stored(key), text |-> nextTicket + r[i]]
    BY <1>4 DEF NewEvent
  <2>2. slots'[i] \in Event
    BY <2>1, <1>4, StoredIs DEF Event
  <2> QED
    BY <2>1, <2>2
<1>7. Used' = Used \cup S
  BY <1>4, <1>5, <1>6 DEF Used
<1>8. TypeOK'
  <2>1. slots' \in [Index -> Event \cup {Free}]
    BY <1>1, <1>5, <1>6 DEF TypeOK, Puts
  <2>2. groups' \in SUBSET (Nat \X Nat) /\ pending' \in Nat
    BY <1>1, <1>2 DEF TypeOK, Puts
  <2> QED
    BY <1>1, <1>2, <1>3, <2>1, <2>2 DEF TypeOK
<1>9. \A i \in Used \ S : slots'[i] = slots[i] /\ slots[i].text \in 1 .. nextTicket
  BY <1>1, <1>5, SlotIs DEF SlotsKnown
<1>10. \A i \in S : slots'[i].text \in nextTicket + 1 .. nextTicket + count
  BY <1>2, <1>4, <1>6
<1>11. SlotsKnown'
  <2>1. \A i \in Used' : /\ slots'[i].ticket = slots'[i].text
                          /\ slots'[i].text \in 1 .. nextTicket'
                          /\ slots'[i].key = Stored(keyOf'[slots'[i].text])
    <3>1. \A i \in S : /\ slots'[i].ticket = slots'[i].text
                          /\ slots'[i].text \in 1 .. nextTicket'
                          /\ slots'[i].key = Stored(keyOf'[slots'[i].text])
      BY <1>2, <1>3, <1>6, <1>10
    <3>2. \A i \in Used \ S : /\ slots'[i].ticket = slots'[i].text
                          /\ slots'[i].text \in 1 .. nextTicket'
                          /\ slots'[i].key = Stored(keyOf'[slots'[i].text])
      BY <1>1, <1>2, <1>3, <1>9 DEF SlotsKnown
    <3> QED
      BY <3>1, <3>2, <1>7
  <2>2. \A i, j \in Used' : slots'[i].text = slots'[j].text => i = j
    <3> SUFFICES ASSUME NEW i \in Used', NEW j \in Used', slots'[i].text = slots'[j].text
                 PROVE  i = j
      OBVIOUS
    <3>1. CASE i \in S /\ j \in S
      <4>1. nextTicket + r[i] = nextTicket + r[j] /\ r[i] \in Int /\ r[j] \in Int
        BY <3>1, <1>4, <1>6
      <4>2. r[i] = r[j]
        BY <4>1, <1>2
      <4> QED
        BY <4>2, <3>1 DEF Puts
    <3>2. CASE i \in S /\ j \notin S
      BY <3>2, <1>2, <1>7, <1>9, <1>10
    <3>3. CASE i \notin S /\ j \in S
      BY <3>3, <1>2, <1>7, <1>9, <1>10
    <3>4. CASE i \notin S /\ j \notin S
      BY <3>4, <1>1, <1>7, <1>9 DEF SlotsKnown
    <3> QED
      BY <3>1, <3>2, <3>3, <3>4
  <2> QED
    BY <2>1, <2>2, <1>2, <1>3 DEF SlotsKnown
<1>12. current \notin S
  <2>1. CASE AtSend
    BY <2>1, <1>1 DEF CurrentOldest, Puts
  <2>2. CASE ~AtSend
    BY <2>2, <1>1 DEF CurrentOldest, Index, Puts
  <2> QED
    BY <2>1, <2>2
<1>13. CurrentOldest'
  <2>1. \A i \in Used' : slots'[i].sending => i = current
    BY <1>1, <1>6, <1>7, <1>9 DEF CurrentOldest
  <2>2. ASSUME AtSend
        PROVE  /\ current \in Used' /\ slots'[current].sending
               /\ \A j \in Used' : j # current => slots'[current].text < slots'[j].text
    <3>1. /\ current \in Used \ S /\ slots'[current] = slots[current]
          /\ slots[current].sending /\ slots[current].text \in 1 .. nextTicket
      BY <2>2, <1>1, <1>9, <1>12 DEF CurrentOldest
    <3>2. \A j \in S : slots[current].text < slots'[j].text
      BY <3>1, <1>2, <1>10
    <3>3. \A j \in Used \ S : j # current => slots[current].text < slots'[j].text
      BY <2>2, <1>1, <1>9 DEF CurrentOldest
    <3> QED
      BY <3>1, <3>2, <3>3, <1>7
  <2> QED
    BY <2>1, <2>2, <1>1, <1>2 DEF CurrentOldest, AtSend
<1>14. SentOlder'
  <2>1. ASSUME NEW n \in DOMAIN delivered
        PROVE  /\ delivered[n] \in 1 .. nextTicket'
               /\ \A i \in Used' : \/ delivered[n] < slots'[i].text
                                   \/ worker = "sent" /\ i = current
    <3>1. delivered[n] \in 1 .. nextTicket
      BY <2>1, <1>1 DEF SentOlder
    <3>2. \A i \in S : delivered[n] < slots'[i].text
      BY <3>1, <1>2, <1>10
    <3>3. \A i \in Used \ S : \/ delivered[n] < slots'[i].text
                              \/ worker = "sent" /\ i = current
      BY <2>1, <1>1, <1>9 DEF SentOlder
    <3> QED
      BY <3>1, <3>2, <3>3, <1>2, <1>7
  <2>2. worker = "sent" => slots'[current] = slots[current]
    BY <1>1, <1>9, <1>12 DEF CurrentOldest, AtSend
  <2> QED
    BY <2>1, <2>2, <1>1, <1>2 DEF SentOlder, Delivered
<1>15. GroupsKeyless'
  <2> SUFFICES ASSUME NEW g \in groups', NEW t \in g[1] .. g[2]
               PROVE  t \in DOMAIN keyOf' /\ keyOf'[t] = NoKey
    BY DEF GroupsKeyless
  <2>1. CASE g \in groups
    BY <2>1, <1>1, <1>2, <1>3 DEF GroupsKeyless
  <2>2. CASE g = <<nextTicket + 1, nextTicket + count>> /\ key = NoKey
    BY <2>2, <1>2, <1>3
  <2> QED
    BY <2>1, <2>2 DEF Puts
<1>16. NothingLost'
  <2> SUFFICES ASSUME NEW t \in DOMAIN keyOf'
               PROVE  (Delivered(t) \/ InSlot(t) \/ Replaceable(t))'
    BY DEF NothingLost
  <2>1. t \in 1 .. nextTicket + count
    BY <1>2, <1>3
  <2>2. CASE t \in nextTicket + 1 .. nextTicket + count
    <3>1. t - nextTicket \in 1 .. count
      BY <2>2, <1>2
    <3>2. PICK i \in S : r[i] = t - nextTicket
      BY <3>1 DEF Puts
    <3>3. slots'[i].text = t
      BY <3>2, <2>1, <1>2, <1>6
    <3> QED
      BY <3>3, <1>7 DEF InSlot
  <2>3. CASE t \in 1 .. nextTicket
    <3>1. Delivered(t) \/ InSlot(t) \/ Replaceable(t)
      BY <2>3, <1>1, <1>2 DEF NothingLost
    <3>2. CASE Delivered(t)
      BY <3>2, <1>2 DEF Delivered
    <3>3. CASE Replaceable(t)
      <4>1. \A u \in DOMAIN keyOf : u \in DOMAIN keyOf' /\ keyOf'[u] = keyOf[u]
        BY <1>2, <1>3
      <4> QED
        BY <4>1, <3>3, <2>3, <1>3 DEF Replaceable
    <3>4. CASE InSlot(t)
      <4>1. PICK i \in Used : slots[i].text = t
        BY <3>4 DEF InSlot
      <4>2. CASE i \notin S
        BY <4>1, <4>2, <1>7, <1>9 DEF InSlot
      <4>3. CASE i \in S
        <5>1. key # NoKey /\ Stored(keyOf[t]) = key /\ keyOf[t] # NoKey
          <6>1. key # NoKey /\ Stored(keyOf[t]) = key
            BY <4>1, <4>3, <1>1 DEF SlotsKnown, Puts
          <6> QED
            BY <6>1 DEF Stored
        <5>2. nextTicket + 1 \in DOMAIN keyOf' /\ keyOf'[nextTicket + 1] = key
              /\ t < nextTicket + 1
          BY <2>3, <1>2, <1>3
        <5> QED
          BY <5>1, <5>2, <2>3, <1>3 DEF Replaceable
      <4> QED
        BY <4>2, <4>3
    <3> QED
      BY <3>1, <3>2, <3>3, <3>4
  <2> QED
    BY <2>1, <2>2, <2>3, <1>2
<1>17. EnqueueOrder'
  BY <1>1, <1>2 DEF EnqueueOrder
<1> QED
  BY <1>2, <1>7, <1>8, <1>11, <1>13, <1>14, <1>15, <1>16, <1>17 DEF QueueInv

LEMMA Finite ==
  ASSUME NEW S \in SUBSET Index
  PROVE  IsFiniteSet(S) /\ Cardinality(S) \in Nat /\ S \in SUBSET Nat
<1>1. Slots \in Nat /\ Index \in SUBSET Nat
  BY OutboxAssumption DEF Index
<1>2. IsFiniteSet(Index)
  BY <1>1, FS_Interval DEF Index
<1> QED
  BY <1>1, <1>2, FS_Subset, FS_CardinalityType

\* A set with at most these two elements.
LEMMA AtMostTwo ==
  ASSUME NEW S, NEW a, NEW b, S \subseteq {a, b}
  PROVE  Cardinality(S) <= 2
<1>1. IsFiniteSet({a}) /\ Cardinality({a}) = 1
  BY FS_Singleton
<1>2. {a, b} = {a} \cup {b}
  OBVIOUS
<1>3. IsFiniteSet({a, b}) /\ Cardinality({a, b}) <= 2
  BY <1>1, <1>2, FS_AddElement
<1>4. Cardinality({a, b}) \in Nat /\ IsFiniteSet(S) /\ Cardinality(S) \in Nat
  BY <1>3, FS_Subset, FS_CardinalityType
<1>5. Cardinality(S) <= Cardinality({a, b})
  BY <1>3, FS_Subset
<1> QED
  BY <1>3, <1>4, <1>5

\* One text into one slot.
LEMMA PutsOne ==
  ASSUME QueueInv, NEW key \in Keys \cup {NoKey}, NEW i \in Index,
         Numbered(1, key), pending' \in Nat, groups' = groups,
         i \in Used => key # NoKey /\ slots[i].key = key /\ ~slots[i].sending,
         slots' = [slots EXCEPT ![i] = NewEvent(nextTicket + 1, key)]
  PROVE  QueueInv' /\ Used' = Used \cup {i}
<1> DEFINE r == [x \in {i} |-> 1]
<1>1. /\ r \in [{i} -> 1 .. 1] /\ r[i] = 1 /\ \A x, y \in {i} : r[x] = r[y] => x = y
      /\ \A n \in 1 .. 1 : \E x \in {i} : r[x] = n
  OBVIOUS
<1> HIDE DEF r
<1>2. slots' = [x \in Index |-> IF x \in {i} THEN NewEvent(nextTicket + r[x], key) ELSE slots[x]]
  BY <1>1 DEF QueueInv, TypeOK
<1>3. Puts({i}, r, 1, key)
  BY <1>1, <1>2 DEF Puts
<1> QED
  BY <1>3, Enqueued

LEMMA CoalesceInv ==
  ASSUME OutboxInv, NEW key \in Keys \cup {NoKey}, Coalesce(key)
  PROVE  OutboxInv'
<1> DEFINE i == First(SameKey(key))
           new == NewEvent(nextTicket + 1, key)
<1>1. TypeOK /\ nextTicket \in Nat /\ pending \in Nat
  BY DEF OutboxInv, QueueInv, TypeOK
<1>2. i \in SameKey(key)
  <2>1. SameKey(key) \in SUBSET Index /\ SameKey(key) # {}
    BY DEF SameKey, Waiting, Used, Coalesce
  <2> QED
    BY <2>1, FirstIs
<1> HIDE DEF i
<1>3. i \in Index /\ i \in Used /\ ~slots[i].sending /\ key # NoKey /\ slots[i].key = key
      /\ slots[i] \in Event /\ Stored(key) = key
  <2>1. i \in Index /\ i \in Used /\ ~slots[i].sending /\ key # NoKey /\ slots[i].key = key
        /\ slots[i] \in Event
    BY <1>1, <1>2, SlotIs DEF SameKey, Waiting, Used
  <2>2. PICK other \in Keys \cup {NoKey} : Stored(other) = key
    <3>1. /\ slots[i].text \in 1 .. nextTicket /\ Len(keyOf) = nextTicket
          /\ slots[i].key = Stored(keyOf[slots[i].text])
      BY <2>1 DEF OutboxInv, QueueInv, SlotsKnown
    <3>2. keyOf[slots[i].text] \in Keys \cup {NoKey}
      <4>1. keyOf \in Seq(Keys \cup {NoKey})
        BY <1>1 DEF TypeOK
      <4> QED
        BY <3>1, <4>1
    <3> QED
      BY <2>1, <3>1, <3>2
  <2> QED
    BY <2>1, <2>2, StoredIs
<1>4. [slots[i] EXCEPT !.ticket = nextTicket + 1, !.text = nextTicket + 1] = new
  <2>1. slots[i].used = TRUE /\ slots[i].sending \in BOOLEAN
    BY <1>3 DEF Event
  <2>2. slots[i].sending = FALSE
    BY <2>1, <1>3
  <2>3. slots[i] = [used |-> slots[i].used, sending |-> slots[i].sending,
                    ticket |-> slots[i].ticket, key |-> slots[i].key, text |-> slots[i].text]
    BY <1>3 DEF Event
  <2>4. PICK u, s, a, k, b :
          /\ slots[i] = [used |-> u, sending |-> s, ticket |-> a, key |-> k, text |-> b]
          /\ u = TRUE /\ s = FALSE /\ k = key
    BY <2>1, <2>2, <2>3, <1>3, Zenon
  <2>5. [slots[i] EXCEPT !.ticket = nextTicket + 1, !.text = nextTicket + 1]
          = [used |-> u, sending |-> s, ticket |-> nextTicket + 1, key |-> k,
             text |-> nextTicket + 1]
    <3> DEFINE n == nextTicket + 1
               e == slots[i]
    <3> HIDE DEF n, e
    <3>1. [e EXCEPT !.ticket = n, !.text = n] = [[e EXCEPT !.ticket = n] EXCEPT !.text = n]
      OBVIOUS
    <3>2. e = [used |-> u, sending |-> s, ticket |-> a, key |-> k, text |-> b]
      BY <2>4 DEF e
    <3>3. [e EXCEPT !.ticket = n]
            = [used |-> u, sending |-> s, ticket |-> n, key |-> k, text |-> b]
      BY <3>2
    <3>4. [[used |-> u, sending |-> s, ticket |-> n, key |-> k, text |-> b] EXCEPT !.text = n]
            = [used |-> u, sending |-> s, ticket |-> n, key |-> k, text |-> n]
      OBVIOUS
    <3>5. [e EXCEPT !.ticket = n, !.text = n]
            = [used |-> u, sending |-> s, ticket |-> n, key |-> k, text |-> n]
      BY <3>1, <3>3, <3>4, Zenon
    <3> QED
      BY <3>5 DEF n, e
  <2> QED
    BY <1>3, <2>4, <2>5, Zenon DEF NewEvent
<1>5. slots' = [slots EXCEPT ![i] = new]
  BY <1>4 DEF Coalesce, i
<1>6. QueueInv' /\ Used' = Used \cup {i}
  BY <1>1, <1>3, <1>5, PutsOne DEF Coalesce, OutboxInv
<1>7. QueueInv' /\ Used' = Used
  BY <1>6, <1>3
<1>8. \A j \in Used : slots'[j].key = slots[j].key
  BY <1>1, <1>3, <1>5 DEF TypeOK, NewEvent, Used
<1>9. TwoPerKey'
  <2>1. \A k : {j \in Used : slots[j].key = k}' = {j \in Used : slots[j].key = k}
    BY <1>7, <1>8
  <2> QED
    BY <2>1 DEF TwoPerKey, OutboxInv
<1>10. PendingExact'
  BY <1>7 DEF PendingExact, OutboxInv, Coalesce, Numbered, teardown
<1> QED
  BY <1>7, <1>9, <1>10 DEF OutboxInv

LEMMA AddInv ==
  ASSUME OutboxInv, NEW key \in Keys \cup {NoKey}, Add(key)
  PROVE  OutboxInv'
<1> DEFINE i == First(FreeSlots)
           new == NewEvent(nextTicket + 1, key)
<1>1. TypeOK /\ nextTicket \in Nat /\ pending \in Nat /\ CurrentOldest
  BY DEF OutboxInv, QueueInv, TypeOK
<1>2. i \in FreeSlots
  <2>1. FreeSlots \in SUBSET Index /\ FreeSlots # {}
    BY DEF FreeSlots, Add
  <2> QED
    BY <2>1, FirstIs
<1>3. slots' = [slots EXCEPT ![i] = new]
  BY DEF Add
<1> HIDE DEF i
<1>4. i \in Index /\ i \notin Used
  BY <1>2 DEF FreeSlots
<1>6. QueueInv' /\ Used' = Used \cup {i}
  <2>1. Numbered(1, key) /\ pending' \in Nat /\ groups' = groups /\ QueueInv
    BY <1>1 DEF Add, OutboxInv
  <2> QED
    BY <2>1, <1>3, <1>4, PutsOne, Zenon
<1>7. Used \in SUBSET Index
  BY DEF Used
<1>8. PendingExact'
  <2>1. IsFiniteSet(Used) /\ Cardinality(Used) \in Nat
    BY <1>7, Finite
  <2>2. Cardinality(Used \cup {i}) = Cardinality(Used) + 1
    BY <2>1, <1>4, FS_AddElement
  <2>3. deinit # "freed" /\ pending = Cardinality(Used) /\ pending' = pending + 1
    BY DEF PendingExact, OutboxInv, Add, Numbered
  <2> QED
    BY <2>2, <2>3, <1>6 DEF PendingExact
<1>9. slots'[i].key = Stored(key) /\ \A j \in Used : slots'[j].key = slots[j].key
  BY <1>1, <1>3, <1>4 DEF TypeOK, NewEvent, Used
<1>10. TwoPerKey'
  <2> SUFFICES ASSUME NEW k \in Keys, Distinct(k)
               PROVE  Cardinality({j \in Used : slots[j].key = k}') <= 2
    BY DEF TwoPerKey, Distinct
  <2>1. CASE k = Stored(key)
    <3>0. key = k
      <4>1. key \in Keys
        BY <2>1, StoredIs, OutboxAssumption
      <4> QED
        BY <2>1, <4>1 DEF Distinct
    <3>1. \A j \in Used : slots[j].key = key => j = current
      <4> SUFFICES ASSUME NEW j \in Used, slots[j].key = key
                   PROVE  j = current
        OBVIOUS
      <4>1. key # NoKey /\ j \notin SameKey(key)
        BY <3>0, OutboxAssumption DEF Add
      <4>2. slots[j].sending
        BY <4>1 DEF SameKey, Waiting
      <4> QED
        BY <4>2, <1>1 DEF CurrentOldest
    <3>2. {j \in Used : slots[j].key = k}' \subseteq {current, i}
      BY <3>0, <3>1, <2>1, <1>6, <1>9
    <3> QED
      BY <3>2, AtMostTwo
  <2>2. CASE k # Stored(key)
    <3>1. {j \in Used : slots[j].key = k}' = {j \in Used : slots[j].key = k}
      BY <2>2, <1>6, <1>9
    <3> QED
      BY <3>1 DEF OutboxInv, TwoPerKey
  <2> QED
    BY <2>1, <2>2
<1> QED
  BY <1>6, <1>8, <1>10 DEF OutboxInv

\* The slots a group takes are as many as it has items.
LEMMA GroupInv ==
  ASSUME OutboxInv, NEW count \in Groups, EnqueueGroup(count)
  PROVE  OutboxInv'
<1> DEFINE S == {i \in FreeSlots : Rank(i) <= count}
           r == [i \in S |-> Rank(i)]
<1>1. TypeOK /\ nextTicket \in Nat /\ pending \in Nat
  BY DEF OutboxInv, QueueInv, TypeOK
<1>2. count \in Nat \ {0}
  BY OutboxAssumption
<1>3. FreeSlots \in SUBSET Index /\ Used \in SUBSET Index
  BY DEF FreeSlots, Used
<1>4. /\ IsFiniteSet(FreeSlots) /\ FreeSlots \in SUBSET Nat
      /\ Cardinality(FreeSlots) \in Nat /\ count <= Cardinality(FreeSlots)
  BY <1>3, Finite DEF EnqueueGroup
<1>5. \A i \in FreeSlots : RankIn(FreeSlots)[i] = Rank(i)
  BY DEF RankIn, Rank
<1>6. /\ \A i \in FreeSlots : Rank(i) \in 1 .. Cardinality(FreeSlots)
      /\ \A i, j \in FreeSlots : Rank(i) = Rank(j) => i = j
      /\ \A n \in 1 .. Cardinality(FreeSlots) : \E i \in FreeSlots : Rank(i) = n
  BY <1>4, <1>5, Ranks
<1> HIDE DEF FreeSlots, Rank
<1>7. /\ r \in [S -> 1 .. count] /\ \A i, j \in S : r[i] = r[j] => i = j
      /\ \A n \in 1 .. count : \E i \in S : r[i] = n
  <2>1. \A i \in S : Rank(i) \in 1 .. count
    BY <1>2, <1>4, <1>6
  <2>2. \A i, j \in S : Rank(i) = Rank(j) => i = j
    BY <1>6
  <2>3. \A n \in 1 .. count : \E i \in S : Rank(i) = n
    BY <1>2, <1>4, <1>6
  <2> HIDE DEF S
  <2> QED
    BY <2>1, <2>2, <2>3
<1>8. S \subseteq Index /\ S \cap Used = {}
  BY <1>3 DEF FreeSlots
<1>9. slots' = [i \in Index |-> IF i \in S THEN NewEvent(nextTicket + r[i], NoKey) ELSE slots[i]]
  BY DEF EnqueueGroup
<1>10. Puts(S, r, count, NoKey)
  <2> HIDE DEF S, r
  <2> QED
    BY <1>1, <1>2, <1>7, <1>8, <1>9 DEF Puts, EnqueueGroup
<1> HIDE DEF S, r
<1>11. QueueInv' /\ Used' = Used \cup S
  BY <1>2, <1>10, Enqueued DEF OutboxInv
<1>12. PendingExact'
  <2>1. IsFiniteSet(Used) /\ IsFiniteSet(S) /\ Cardinality(Used) \in Nat
    BY <1>3, <1>8, Finite
  <2>2. Cardinality(S) = count
    <3>1. r \in Bijection(S, 1 .. count)
      BY <1>7 DEF Bijection, Injection, Surjection, IsInjective
    <3>2. ExistsBijection(S, 1 .. count)
      BY <3>1 DEF ExistsBijection
    <3>3. Cardinality(1 .. count) = Cardinality(S)
      BY <3>2, <2>1, FS_Bijection
    <3> QED
      BY <3>3, <1>2, FS_Interval
  <2>3. Cardinality(Used \cup S) = Cardinality(Used) + Cardinality(S)
    <3>1. Cardinality(Used \cap S) = 0
      <4>1. Used \cap S = {}
        BY <1>8
      <4> QED
        BY <4>1, FS_EmptySet
    <3>2. Cardinality(Used \cup S) = Cardinality(Used) + Cardinality(S) - Cardinality(Used \cap S)
      BY <2>1, FS_Union
    <3> QED
      BY <3>1, <3>2, <2>1, <2>2, <1>2
  <2>4. deinit # "freed" /\ pending = Cardinality(Used) /\ pending' = pending + count
    BY DEF PendingExact, OutboxInv, EnqueueGroup, Numbered
  <2> QED
    BY <2>2, <2>3, <2>4, <1>11 DEF PendingExact
<1>13. TwoPerKey'
  <2>1. \A i \in Used : slots'[i] = slots[i]
    BY <1>3, <1>8, <1>9
  <2>2. \A i \in S : slots'[i].key = NoKey
    BY <1>8, <1>9 DEF NewEvent, Stored
  <2>3. \A k \in Keys : {j \in Used : slots[j].key = k}' = {j \in Used : slots[j].key = k}
    BY <2>1, <2>2, <1>11, OutboxAssumption
  <2> QED
    BY <2>3 DEF TwoPerKey, OutboxInv
<1> QED
  BY <1>11, <1>12, <1>13 DEF OutboxInv

----------------------------------------------------------------------------
(* The worker and deinit() *)

\* The worker, or deinit(), moves on and leaves the slots alone.
LEMMA MovesInv ==
  ASSUME OutboxInv, UNCHANGED <<slots, current, callers, delivered>>,
         worker' \in {"waiting", "picking", "sending", "failed", "gone"},
         worker # "sent", AtSend' <=> AtSend,
         stopping' \in BOOLEAN, deinit' \in {"no", "stopping", "abandoned", "freed"},
         deinit' = "freed" <=> deinit = "freed", deinit = "freed" => worker' = "gone"
  PROVE  OutboxInv'
<1>1. TypeOK' /\ Used' = Used
  BY DEF OutboxInv, QueueInv, TypeOK, callers, Used
<1>2. SlotsKnown' /\ GroupsKeyless' /\ EnqueueOrder' /\ TwoPerKey'
  BY <1>1 DEF OutboxInv, QueueInv, SlotsKnown, GroupsKeyless, EnqueueOrder, TwoPerKey, callers
<1>3. CurrentOldest'
  <2>1. CurrentOldest
    BY DEF OutboxInv, QueueInv
  <2>2. CASE AtSend
    BY <2>1, <2>2, <1>1 DEF CurrentOldest
  <2>3. CASE ~AtSend
    BY <2>1, <2>3, <1>1 DEF CurrentOldest
  <2> QED
    BY <2>2, <2>3
<1>4. SentOlder'
  <2>1. worker' # "sent" /\ nextTicket' = nextTicket
    BY DEF callers
  <2>2. SentOlder
    BY DEF OutboxInv, QueueInv
  <2> QED
    BY <2>1, <2>2, <1>1 DEF SentOlder
<1>5. NothingLost'
  BY <1>1 DEF OutboxInv, QueueInv, NothingLost, Delivered, InSlot, Replaceable, callers
<1>6. PendingExact'
  BY <1>1 DEF OutboxInv, PendingExact, callers
<1> QED
  BY <1>1, <1>2, <1>3, <1>4, <1>5, <1>6 DEF OutboxInv, QueueInv

\* Marking a slot, or taking the mark away, changes nothing else of it.
LEMMA Marking ==
  ASSUME TypeOK, NEW i \in Used, NEW mark \in BOOLEAN,
         slots' = [slots EXCEPT ![i].sending = mark]
  PROVE  /\ slots' \in [Index -> Event \cup {Free}]
         /\ Used' = Used
         /\ \A j \in Used : /\ slots'[j].text = slots[j].text
                             /\ slots'[j].ticket = slots[j].ticket
                             /\ slots'[j].key = slots[j].key
                             /\ slots'[j].sending = IF j = i THEN mark ELSE slots[j].sending
<1>1. i \in Index /\ slots[i] \in Event
  BY SlotIs
<1> DEFINE new == [slots[i] EXCEPT !.sending = mark]
<1>2. slots' = [slots EXCEPT ![i] = new]
  OBVIOUS
<1>3. /\ new \in Event /\ new.used = TRUE /\ new.text = slots[i].text
      /\ new.ticket = slots[i].ticket /\ new.key = slots[i].key /\ new.sending = mark
  BY <1>1 DEF Event
<1> HIDE DEF new
<1>4. slots' \in [Index -> Event \cup {Free}]
  BY <1>1, <1>2, <1>3 DEF TypeOK
<1>5. slots'[i] = new /\ \A j \in Index : j # i => slots'[j] = slots[j]
  BY <1>1, <1>2 DEF TypeOK
<1>6. Used' = Used
  BY <1>3, <1>5 DEF Used
<1> QED
  BY <1>3, <1>4, <1>5, <1>6 DEF Used

\* What marking leaves true.
LEMMA MarkedInv ==
  ASSUME OutboxInv, NEW i \in Used, NEW mark \in BOOLEAN,
         slots' = [slots EXCEPT ![i].sending = mark],
         UNCHANGED <<callers, teardown, delivered>>,
         current' \in 0 .. Slots, worker' \in {"waiting", "sending"},
         worker # "sent", worker # "gone", CurrentOldest'
  PROVE  OutboxInv'
<1>1. TypeOK
  BY DEF OutboxInv, QueueInv
<1> DEFINE same(j) == /\ slots'[j].text = slots[j].text /\ slots'[j].ticket = slots[j].ticket
                      /\ slots'[j].key = slots[j].key
<1>2. slots' \in [Index -> Event \cup {Free}] /\ Used' = Used /\ \A j \in Used : same(j)
  BY <1>1, Marking
<1>3. TypeOK'
  BY <1>1, <1>2 DEF TypeOK, callers, teardown
<1>4. SlotsKnown' /\ GroupsKeyless' /\ EnqueueOrder'
  BY <1>2 DEF OutboxInv, QueueInv, SlotsKnown, GroupsKeyless, EnqueueOrder, callers
<1>5. TwoPerKey'
  <2>1. \A k : {j \in Used : slots[j].key = k}' = {j \in Used : slots[j].key = k}
    BY <1>2
  <2> QED
    BY <2>1 DEF TwoPerKey, OutboxInv
<1>6. SentOlder'
  BY <1>2 DEF OutboxInv, QueueInv, SentOlder, callers
<1>7. NothingLost'
  BY <1>2 DEF OutboxInv, QueueInv, NothingLost, Delivered, InSlot, Replaceable, callers, teardown
<1>8. PendingExact' /\ (deinit # "freed")'
  BY <1>2 DEF OutboxInv, QueueInv, PendingExact, callers, teardown
<1> QED
  BY <1>3, <1>4, <1>5, <1>6, <1>7, <1>8 DEF OutboxInv, QueueInv

LEMMA PickOldestInv ==
  ASSUME OutboxInv, PickOldest
  PROVE  OutboxInv'
<1>1. TypeOK /\ SlotsKnown /\ CurrentOldest
  BY DEF OutboxInv, QueueInv
<1>2. PICK i \in Waiting : /\ \A j \in Waiting : slots[i].ticket <= slots[j].ticket
                           /\ slots' = [slots EXCEPT ![i].sending = TRUE]
                           /\ current' = i
  BY DEF PickOldest
<1>3. i \in Used /\ i \in 0 .. Slots
  BY <1>2 DEF Waiting, Used, Index
<1>4. /\ Used' = Used
      /\ \A j \in Used : /\ slots'[j].text = slots[j].text
                          /\ slots'[j].sending = IF j = i THEN TRUE ELSE slots[j].sending
  BY <1>1, <1>2, <1>3, Marking
<1>5. \A j \in Used : ~slots[j].sending
  <2>1. current = 0 /\ 0 \notin Used
    BY <1>1 DEF PickOldest, AtSend, CurrentOldest, Used, Index
  <2> QED
    BY <2>1, <1>1 DEF CurrentOldest
<1>6. \A j \in Used : j # i => slots[i].text < slots[j].text
  <2> SUFFICES ASSUME NEW j \in Used, j # i
               PROVE  slots[i].text < slots[j].text
    OBVIOUS
  <2>1. j \in Waiting
    BY <1>5 DEF Waiting
  <2>2. /\ slots[i].text <= slots[j].text /\ slots[i].text # slots[j].text
        /\ slots[i].text \in Nat /\ slots[j].text \in Nat
    BY <2>1, <1>1, <1>2, <1>3, SlotIs DEF SlotsKnown
  <2> QED
    BY <2>2
<1>7. CurrentOldest'
  <2>1. AtSend' /\ current' = i
    BY <1>2 DEF PickOldest, AtSend
  <2>2. slots'[i].sending
    BY <1>3, <1>4
  <2>3. \A j \in Used : slots'[j].sending => j = i
    BY <1>4, <1>5
  <2> QED
    BY <2>1, <2>2, <2>3, <1>3, <1>4, <1>6 DEF CurrentOldest
<1> QED
  BY <1>2, <1>3, <1>7, MarkedInv DEF PickOldest

LEMMA RetryInv ==
  ASSUME OutboxInv, Retry
  PROVE  OutboxInv'
<1>1. TypeOK /\ SlotsKnown /\ CurrentOldest
  BY DEF OutboxInv, QueueInv
<1>2. current \in Used
  BY <1>1 DEF Retry, AtSend, CurrentOldest
<1>3. /\ Used' = Used
      /\ \A j \in Used : slots'[j].sending = IF j = current THEN FALSE ELSE slots[j].sending
  BY <1>1, <1>2, Marking DEF Retry
<1>4. \A j \in Used : ~slots'[j].sending
  BY <1>1, <1>3 DEF CurrentOldest
<1>5. CurrentOldest'
  BY <1>3, <1>4 DEF Retry, AtSend, CurrentOldest
<1>6. 0 \in 0 .. Slots
  BY OutboxAssumption
<1> QED
  BY <1>2, <1>5, <1>6, MarkedInv DEF Retry

LEMMA SendOkInv ==
  ASSUME OutboxInv, SendOk
  PROVE  OutboxInv'
<1>1. /\ TypeOK /\ SlotsKnown /\ CurrentOldest /\ SentOlder /\ GroupsKeyless
      /\ EnqueueOrder /\ NothingLost /\ deinit # "freed"
  BY DEF OutboxInv, QueueInv, SendOk
<1> DEFINE sent == slots[current].text
<1>2. current \in Used /\ sent \in Nat /\ sent \in 1 .. nextTicket
  BY <1>1, SlotIs DEF SendOk, AtSend, CurrentOldest, SlotsKnown
<1>3. /\ UNCHANGED <<slots, current, nextTicket, pending, keyOf, groups, stopping, deinit>>
      /\ worker = "sending" /\ worker' = "sent" /\ delivered \in Seq(Nat)
      /\ delivered' = Append(delivered, sent)
  BY <1>1 DEF SendOk, callers, teardown, TypeOK
<1>4. Used' = Used
  BY <1>3 DEF Used
<1> HIDE DEF sent
<1>5. /\ delivered' \in Seq(Nat) /\ Len(delivered) \in Nat /\ DOMAIN delivered = 1 .. Len(delivered)
      /\ DOMAIN delivered' = 1 .. Len(delivered) + 1
      /\ delivered'[Len(delivered) + 1] = sent
      /\ \A n \in DOMAIN delivered : delivered'[n] = delivered[n]
  BY <1>2, <1>3
<1>6. TypeOK'
  BY <1>1, <1>3, <1>5 DEF TypeOK
<1>7. \A n \in DOMAIN delivered : delivered[n] < sent /\ delivered[n] \in 1 .. nextTicket
  BY <1>1, <1>2, <1>3 DEF SentOlder, sent
<1>8. EnqueueOrder'
  <2> SUFFICES ASSUME NEW m \in DOMAIN delivered', NEW n \in DOMAIN delivered', m < n
               PROVE  delivered'[m] < delivered'[n]
    BY DEF EnqueueOrder
  <2>1. m \in DOMAIN delivered
    BY <1>5
  <2>2. CASE n \in DOMAIN delivered
    BY <2>1, <2>2, <1>1, <1>5 DEF EnqueueOrder
  <2>3. CASE n = Len(delivered) + 1
    BY <2>1, <2>3, <1>5, <1>7
  <2> QED
    BY <2>2, <2>3, <1>5
<1>9. SentOlder'
  <2>1. \A n \in DOMAIN delivered' : delivered'[n] <= sent /\ delivered'[n] \in 1 .. nextTicket
    <3> TAKE n \in DOMAIN delivered'
    <3>1. CASE n \in DOMAIN delivered
      BY <3>1, <1>2, <1>5, <1>7
    <3>2. CASE n = Len(delivered) + 1
      BY <3>2, <1>2, <1>5
    <3> QED
      BY <3>1, <3>2, <1>5
  <2>2. \A i \in Used : i # current => sent < slots[i].text /\ slots[i].text \in Nat
    BY <1>1, <1>3, SlotIs DEF CurrentOldest, AtSend, sent
  <2>3. \A n \in DOMAIN delivered' : \A i \in Used : i # current => delivered'[n] < slots[i].text
    BY <2>1, <2>2, <1>2
  <2>4. Delivered(sent)'
    BY <1>3, <1>5 DEF Delivered, sent
  <2> QED
    BY <2>1, <2>3, <2>4, <1>3, <1>4 DEF SentOlder, sent
<1>10. NothingLost'
  <2>1. \A t : Delivered(t) => Delivered(t)'
    BY <1>5 DEF Delivered
  <2>2. \A t : (InSlot(t)' <=> InSlot(t)) /\ (Replaceable(t)' <=> Replaceable(t))
    BY <1>3, <1>4 DEF InSlot, Replaceable
  <2> QED
    BY <2>1, <2>2, <1>1, <1>3 DEF NothingLost
<1>11. SlotsKnown' /\ GroupsKeyless' /\ TwoPerKey' /\ PendingExact'
  BY <1>1, <1>3, <1>4 DEF SlotsKnown, GroupsKeyless, OutboxInv, TwoPerKey, PendingExact
<1>12. CurrentOldest'
  BY <1>1, <1>3, <1>4 DEF CurrentOldest, AtSend
<1> QED
  BY <1>1, <1>3, <1>6, <1>8, <1>9, <1>10, <1>11, <1>12 DEF OutboxInv, QueueInv

LEMMA ReleaseInv ==
  ASSUME OutboxInv, Release
  PROVE  OutboxInv'
<1>1. /\ TypeOK /\ SlotsKnown /\ CurrentOldest /\ SentOlder /\ GroupsKeyless
      /\ EnqueueOrder /\ NothingLost /\ deinit # "freed"
  BY DEF OutboxInv, QueueInv, Release
<1>2. current \in Used /\ Used \in SUBSET Index
  BY <1>1 DEF Release, AtSend, CurrentOldest, Used
<1>3. /\ UNCHANGED <<nextTicket, keyOf, groups, stopping, deinit, delivered>>
      /\ worker = "sent" /\ worker' = "picking" /\ current' = 0 /\ pending' = pending - 1
      /\ slots' = [slots EXCEPT ![current] = Free]
  BY DEF Release, teardown
<1>4. slots'[current] = Free /\ \A i \in Index : i # current => slots'[i] = slots[i]
  BY <1>1, <1>2, <1>3 DEF TypeOK
<1>5. Used' = Used \ {current}
  <2>1. ~Free.used
    BY DEF Free
  <2> QED
    BY <2>1, <1>2, <1>4 DEF Used
<1>6. /\ pending = Cardinality(Used) /\ Cardinality(Used') = Cardinality(Used) - 1
      /\ pending' \in Nat
  <2>1. pending = Cardinality(Used) /\ pending \in Nat /\ IsFiniteSet(Used)
    BY <1>1, <1>2, Finite DEF OutboxInv, PendingExact, TypeOK
  <2>2. Cardinality(Used') = Cardinality(Used) - 1 /\ IsFiniteSet(Used')
    BY <2>1, <1>2, <1>5, FS_RemoveElement
  <2>3. Cardinality(Used') \in Nat
    BY <2>2, FS_CardinalityType
  <2> QED
    BY <2>1, <2>2, <2>3, <1>3
<1>7. TypeOK'
  BY <1>1, <1>2, <1>3, <1>6, OutboxAssumption DEF TypeOK
<1>8. \A i \in Used' : i \in Used /\ i # current /\ slots'[i] = slots[i]
  BY <1>2, <1>4, <1>5
<1>9. SlotsKnown' /\ GroupsKeyless' /\ EnqueueOrder'
  BY <1>1, <1>3, <1>8 DEF SlotsKnown, GroupsKeyless, EnqueueOrder
<1>10. CurrentOldest'
  <2>1. \A i \in Used' : ~slots'[i].sending
    BY <1>1, <1>8 DEF CurrentOldest
  <2> QED
    BY <2>1, <1>3 DEF CurrentOldest, AtSend
<1>11. SentOlder'
  BY <1>1, <1>3, <1>8 DEF SentOlder
<1>12. NothingLost'
  <2>1. \A t : Delivered(t)' <=> Delivered(t)
    BY <1>3 DEF Delivered
  <2>2. \A t : Replaceable(t)' <=> Replaceable(t)
    BY <1>3 DEF Replaceable
  <2>3. \A t : InSlot(t) => InSlot(t)' \/ Delivered(t)
    <3> SUFFICES ASSUME NEW t, NEW i \in Used, slots[i].text = t
                 PROVE  InSlot(t)' \/ Delivered(t)
      BY DEF InSlot
    <3>1. CASE i = current
      BY <3>1, <1>1, <1>3 DEF SentOlder
    <3>2. CASE i # current
      BY <3>2, <1>2, <1>4, <1>5 DEF InSlot
    <3> QED
      BY <3>1, <3>2
  <2> QED
    BY <2>1, <2>2, <2>3, <1>1, <1>3 DEF NothingLost
<1>13. TwoPerKey'
  <2> SUFFICES ASSUME NEW k \in Keys, Distinct(k)
               PROVE  Cardinality({j \in Used : slots[j].key = k}') <= 2
    BY DEF TwoPerKey, Distinct
  <2> DEFINE S == {j \in Used : slots[j].key = k}
  <2>1. S' \in SUBSET S /\ S \in SUBSET Index
    BY <1>2, <1>8
  <2>2. Cardinality(S) <= 2
    BY DEF OutboxInv, TwoPerKey
  <2>3. IsFiniteSet(S) /\ Cardinality(S) \in Nat /\ Cardinality(S') \in Nat
    BY <2>1, Finite
  <2>4. Cardinality(S') <= Cardinality(S)
    BY <2>1, <2>3, FS_Subset
  <2> HIDE DEF S
  <2>5. Cardinality(S') <= 2
    BY <2>2, <2>3, <2>4
  <2> QED
    BY <2>5 DEF S
<1>14. PendingExact'
  BY <1>3, <1>6 DEF PendingExact
<1> QED
  BY <1>1, <1>3, <1>7, <1>9, <1>10, <1>11, <1>12, <1>13, <1>14 DEF OutboxInv, QueueInv

\* deinit() moves on without freeing.
LEMMA TeardownInv ==
  ASSUME OutboxInv, UNCHANGED <<slots, current, worker, callers, delivered>>,
         stopping' \in BOOLEAN, deinit # "freed", deinit' \in {"stopping", "abandoned"}
  PROVE  OutboxInv'
<1>1. Used' = Used
  BY DEF Used
<1> QED
  BY <1>1 DEF OutboxInv, QueueInv, TypeOK, SlotsKnown, CurrentOldest, AtSend,
     SentOlder, GroupsKeyless, EnqueueOrder, NothingLost, Delivered, InSlot, Replaceable,
     PendingExact, TwoPerKey, callers

LEMMA DeinitFreeInv ==
  ASSUME OutboxInv, DeinitFree
  PROVE  OutboxInv'
<1>1. CASE worker # "gone"
  <2>1. /\ UNCHANGED <<slots, current, worker, callers, stopping, delivered>>
        /\ deinit = "stopping" /\ deinit' = "abandoned"
    BY <1>1 DEF DeinitFree
  <2> QED
    BY <2>1, TeardownInv DEF OutboxInv, QueueInv, TypeOK
<1>2. CASE worker = "gone"
  <2>1. /\ UNCHANGED <<current, worker, nextTicket, pending, keyOf, groups, stopping, delivered>>
        /\ deinit' = "freed" /\ slots' = [i \in Index |-> Free]
    BY <1>2 DEF DeinitFree, callers
  <2>2. Used' = {}
    <3>1. ~Free.used
      BY DEF Free
    <3> QED
      BY <3>1, <2>1 DEF Used
  <2>3. TypeOK'
    BY <2>1 DEF OutboxInv, QueueInv, TypeOK
  <2>4. TwoPerKey'
    <3>1. \A k : {j \in Used : slots[j].key = k}' = {}
      BY <2>2
    <3> QED
      BY <3>1, FS_EmptySet DEF TwoPerKey
  <2>5. CurrentOldest' /\ SentOlder' /\ SlotsKnown'
    BY <1>2, <2>1, <2>2 DEF OutboxInv, QueueInv, CurrentOldest, AtSend, SentOlder, SlotsKnown
  <2> QED
    BY <1>2, <2>1, <2>3, <2>4, <2>5 DEF OutboxInv, QueueInv, GroupsKeyless, EnqueueOrder,
       NothingLost, PendingExact
<1> QED
  BY <1>1, <1>2

----------------------------------------------------------------------------
(* The invariant and what follows from it *)

LEMMA OutboxInit ==
  ASSUME Init
  PROVE  OutboxInv
<1>1. Used = {}
  <2>1. ~Free.used
    BY DEF Free
  <2> QED
    BY <2>1 DEF Init, Used
<1>2. TypeOK
  <2>1. slots \in [Index -> Event \cup {Free}] /\ current \in 0 .. Slots /\ stopping \in BOOLEAN
    <3>1. slots \in [Index -> Event \cup {Free}]
      BY DEF Init
    <3>2. current \in 0 .. Slots
      BY OutboxAssumption DEF Init
    <3>3. stopping \in BOOLEAN
      BY DEF Init
    <3> QED
      BY <3>1, <3>2, <3>3
  <2>2. keyOf \in Seq(Keys \cup {NoKey}) /\ delivered \in Seq(Nat) /\ groups \in SUBSET (Nat \X Nat)
    BY DEF Init
  <2> QED
    BY <2>1, <2>2 DEF Init, TypeOK
<1>3. TwoPerKey /\ PendingExact
  <2>1. \A k : {j \in Used : slots[j].key = k} = {}
    BY <1>1
  <2>2. Cardinality({}) = 0 /\ 0 <= 2
    BY FS_EmptySet
  <2> QED
    BY <2>1, <2>2, <1>1 DEF TwoPerKey, PendingExact, Init
<1> QED
  BY <1>1, <1>2, <1>3 DEF Init, OutboxInv, QueueInv, SlotsKnown, CurrentOldest, AtSend,
     SentOlder, GroupsKeyless, EnqueueOrder, NothingLost

LEMMA OutboxStep ==
  ASSUME OutboxInv, [Next]_vars
  PROVE  OutboxInv'
<1>1. ASSUME NEW key \in Keys \cup {NoKey}, Coalesce(key) \/ Add(key)
      PROVE  OutboxInv'
  BY <1>1, CoalesceInv, AddInv
<1>2. ASSUME NEW count \in Groups, EnqueueGroup(count)
      PROVE  OutboxInv'
  BY <1>2, GroupInv
<1>3. CASE Wake \/ PickNothing \/ SendFails \/ Exit
  <2>1. /\ UNCHANGED <<slots, current, callers, teardown, delivered>>
        /\ worker \in {"waiting", "picking", "sending"}
        /\ worker' \in {"waiting", "picking", "failed", "gone"}
        /\ worker = "sending" <=> worker' = "failed"
    BY <1>3 DEF Wake, PickNothing, SendFails, Exit
  <2>2. deinit # "freed" /\ deinit \in {"no", "stopping", "abandoned", "freed"}
        /\ stopping \in BOOLEAN
    BY <2>1 DEF OutboxInv, QueueInv, TypeOK
  <2> QED
    BY <2>1, <2>2, MovesInv DEF AtSend, teardown
<1>4. CASE PickOldest
  BY <1>4, PickOldestInv
<1>5. CASE SendOk
  BY <1>5, SendOkInv
<1>6. CASE Release
  BY <1>6, ReleaseInv
<1>7. CASE Retry
  BY <1>7, RetryInv
<1>8. CASE DeinitStart
  BY <1>8, TeardownInv DEF DeinitStart, OutboxInv, QueueInv, TypeOK
<1>9. CASE DeinitFree
  BY <1>9, DeinitFreeInv
<1>10. CASE UNCHANGED vars
  <2>1. Used' = Used
    BY <1>10 DEF vars, Used
  <2> QED
    BY <1>10, <2>1 DEF vars, callers, teardown, OutboxInv, QueueInv, TypeOK, SlotsKnown,
       CurrentOldest, AtSend, SentOlder, GroupsKeyless, EnqueueOrder, NothingLost, Delivered,
       InSlot, Replaceable, PendingExact, TwoPerKey
<1> QED
  BY <1>1, <1>2, <1>3, <1>4, <1>5, <1>6, <1>7, <1>8, <1>9, <1>10 DEF Next, Worker

\* OutboxInv is an invariant of the outbox.
THEOREM OutboxInvariant == Spec => []OutboxInv
<1>1. Init => OutboxInv
  BY OutboxInit
<1>2. OutboxInv /\ [Next]_vars => OutboxInv'
  BY OutboxStep
<1> QED
  BY <1>1, <1>2, PTL DEF Spec

\* event_worker() hands the texts to send() in the order keemash_mesh_event_outbox_enqueue()
\* and enqueue_group() accepted them, and none twice.
THEOREM SentInOrder == Spec => []EnqueueOrder
<1>1. OutboxInv => EnqueueOrder
  BY DEF OutboxInv, QueueInv
<1> QED
  BY <1>1, OutboxInvariant, PTL

\* A text the outbox accepted stays in a slot until it is delivered or a later text was
\* accepted with the key its slot holds, whatever the worker is doing; a group stays whole.
THEOREM NothingAcceptedIsLost == Spec => []AcceptedKept
<1>1. OutboxInv => AcceptedKept
  <2> SUFFICES ASSUME OutboxInv
               PROVE  NothingLost /\ GroupsWhole
    BY DEF AcceptedKept
  <2>1. NothingLost /\ GroupsKeyless
    BY DEF OutboxInv, QueueInv
  <2> QED
    BY <2>1 DEF NothingLost, GroupsKeyless, GroupsWhole, Replaceable
<1> QED
  BY <1>1, OutboxInvariant, PTL

\* stats.pending is the number of used slots, a key that event_slot_t holds whole, and
\* that is no cut form of a longer one, never takes more than two, and deinit() frees the
\* slots only when the worker has left them.
THEOREM PoolAccounted == Spec => []SlotsAccounted
<1>1. OutboxInv => SlotsAccounted
  <2> SUFFICES ASSUME OutboxInv
               PROVE  TypeOK /\ PendingExact /\ TwoPerKey /\ FreedAfterWorker
    BY DEF SlotsAccounted
  <2>1. FreedAfterWorker
    BY DEF OutboxInv, QueueInv, CurrentOldest, AtSend, FreedAfterWorker
  <2> QED
    BY <2>1 DEF OutboxInv, QueueInv
<1> QED
  BY <1>1, OutboxInvariant, PTL
=============================================================================
