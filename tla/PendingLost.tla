---------------------------- MODULE PendingLost ----------------------------
(***************************************************************************)
(* The table of pending lost ranges of one peer, and the 32-bit sequence   *)
(* arithmetic under it (keemash_mesh_core.c).  RelLink uses natural        *)
(* numbers and keeps the pending numbers of a channel as a set; here the   *)
(* table is the array the code has, its numbers wrap around, and the       *)
(* invariants state that the set is what the array stands for.             *)
(*                                                                         *)
(* Number q of a channel goes over the wire as (start + q) % Modulus.  Add *)
(* is called with ranges ahead of the expected number and Skip is the      *)
(* first half of the loop in consume_contiguous().                         *)
(***************************************************************************)
EXTENDS Integers, LostRanges

CONSTANTS
  Modulus,    \* 2^32 in the code
  Starts,     \* wire numbers the first number of a channel may have
  Horizon     \* bound: the numbers of a channel are 0 .. Horizon

ASSUME TableAssumption ==
  /\ Modulus \in Nat /\ PendingLostRanges \in Nat \ {0} /\ Horizon \in Nat
  /\ 2 * (Horizon + 1) <= Modulus
  /\ Starts \subseteq 0 .. Modulus - 1

VARIABLES
  table,      \* peer->pending_lost
  start,      \* the wire number of number 0
  toSkip,    \* ghost: the numbers added and not skipped yet
  outcome     \* ghost: what the last pending_lost_add() returned and should

tableVars == <<table, start, toSkip, outcome>>

----------------------------------------------------------------------------
(* uint32_t *)

Wire(q) == (start + q) % Modulus
Minus(a, b) == (a - b) % Modulus
Succ(a) == (a + 1) % Modulus

\* Mutant: the unsigned order.
SeqBefore_Unsigned(a, b) == a < b

\* (int32_t)(a - b) < 0
SeqBefore(a, b) == 2 * Minus(a, b) >= Modulus
SeqAfter(a, b) == SeqBefore(b, a)

SeqInRange(q, first, last) == Minus(q, first) <= Minus(last, first)

----------------------------------------------------------------------------
(* pending_lost_add() *)

Row == 1 .. PendingLostRanges
Unused == [used |-> FALSE]
Range0(ch, first, last) == [used |-> TRUE, ch |-> ch, first |-> first, last |-> last]
Of(t, ch) == {i \in Row : t[i].used /\ t[i].ch = ch}

\* "overlap" and "join": the two ranges overlap or touch.
Joins(r, s) ==
  \/ SeqInRange(r.first, s.first, s.last) \/ SeqInRange(r.last, s.first, s.last)
  \/ SeqInRange(s.first, r.first, r.last) \/ SeqInRange(s.last, r.first, r.last)
  \/ Succ(r.last) = s.first \/ Succ(s.last) = r.first

\* The range that covers both.
Cover(r, s) ==
  Range0(r.ch, IF SeqBefore(s.first, r.first) THEN s.first ELSE r.first,
               IF SeqAfter(s.last, r.last) THEN s.last ELSE r.last)

\* One turn of the inner loop: row j is joined to row i and freed.
JoinRow(t, i, j) ==
  IF j # i /\ t[j].used /\ t[j].ch = t[i].ch /\ Joins(t[i], t[j])
  THEN [t EXCEPT ![i] = Cover(t[i], t[j]), ![j] = Unused]
  ELSE t

\* The inner loop: each row in turn.
JoinRows(t, i) ==
  LET joined[n \in 0 .. PendingLostRanges] ==
        IF n = 0 THEN t ELSE JoinRow(joined[n - 1], i, n)
  IN  joined[PendingLostRanges]

\* One pass: the first row the range joins takes it in, then the other rows the
\* grown row joins.  The range carried into the next pass is that row.
Pass(acc) ==
  LET t == acc.table
      r == acc.range
      hits == {i \in Of(t, r.ch) : Joins(r, t[i])}
  IN  IF hits = {} THEN acc
      ELSE LET i == CHOOSE i \in hits : \A j \in hits : i <= j
               joined == JoinRows([t EXCEPT ![i] = Cover(t[i], r)], i)
           IN  [table |-> joined, range |-> joined[i]]

\* As many passes as there are rows.
Merged(t, r) ==
  LET passed[n \in 0 .. PendingLostRanges] ==
        IF n = 0 THEN [table |-> t, range |-> r] ELSE Pass(passed[n - 1])
  IN  passed[PendingLostRanges]

\* Mutant: a free row is asked for before looking whether the range was joined.
PendingLostAdd_FreeFirst(t, r) ==
  LET m == Merged(t, r)
      inside == {i \in Of(m.table, r.ch) : SeqInRange(m.range.first, m.table[i].first, m.table[i].last)}
      free == {i \in Row : ~t[i].used}
  IN  IF free = {} THEN [table |-> m.table, ok |-> FALSE]
      ELSE IF inside # {} THEN [table |-> m.table, ok |-> TRUE]
      ELSE LET i == CHOOSE i \in free : \A j \in free : i <= j
           IN  [table |-> [m.table EXCEPT ![i] = m.range], ok |-> TRUE]

\* The table afterwards and the result: the range is in it, or it takes a free
\* row, or there is none.
PendingLostAdd(t, r) ==
  LET m == Merged(t, r)
      inside == {i \in Of(m.table, r.ch) :
                   /\ SeqInRange(m.range.first, m.table[i].first, m.table[i].last)
                   /\ SeqInRange(m.range.last, m.table[i].first, m.table[i].last)}
      free == {i \in Row : ~m.table[i].used}
  IN  IF inside # {} THEN [table |-> m.table, ok |-> TRUE]
      ELSE IF free = {} THEN [table |-> m.table, ok |-> FALSE]
      ELSE LET i == CHOOSE i \in free : \A j \in free : i <= j
           IN  [table |-> [m.table EXCEPT ![i] = m.range], ok |-> TRUE]

----------------------------------------------------------------------------
TableInit ==
  /\ table = [i \in Row |-> Unused]
  /\ start \in Starts
  /\ toSkip = [ch \in Channels |-> {}]
  /\ outcome = [ok |-> TRUE, fits |-> TRUE]

Add(ch, first, last) ==
  /\ LET result == PendingLostAdd(table, Range0(ch, Wire(first), Wire(last)))
         more == WithRange(toSkip, ch, first, last)
     IN  /\ table' = result.table
         /\ outcome' = [ok |-> result.ok, fits |-> PendingFits(more)]
         /\ toSkip' = IF result.ok THEN more ELSE toSkip
  /\ UNCHANGED start

\* The pending numbers connected to q.
Around(S, q) == {p \in S : p .. q \subseteq S /\ q .. p \subseteq S}

\* expected_seq is in a pending range: step over it and free the row.
Skip(ch, expected) ==
  /\ \E i \in Of(table, ch) :
       /\ SeqInRange(Wire(expected), table[i].first, table[i].last)
       /\ table' = [table EXCEPT ![i] = Unused]
  /\ toSkip' = [toSkip EXCEPT ![ch] = @ \ Around(@, expected)]
  /\ UNCHANGED <<start, outcome>>

TableNext ==
  \E ch \in Channels, first \in 0 .. Horizon :
    \/ \E last \in first .. Horizon : Add(ch, first, last)
    \/ Skip(ch, first)

TableSpec == TableInit /\ [][TableNext]_tableVars

----------------------------------------------------------------------------
(* Properties *)

\* Every number in the table is a uint32_t and every row used or zeroed.
TableTypes ==
  /\ table \in [Row -> [used: {TRUE}, ch: Channels, first: 0 .. Modulus - 1,
                        last: 0 .. Modulus - 1] \cup {Unused}]
  /\ start \in 0 .. Modulus - 1
  /\ toSkip \in [Channels -> SUBSET (0 .. Horizon)]
  /\ outcome \in [ok: BOOLEAN, fits: BOOLEAN]

\* The table stands for the set RelLink keeps, wherever the numbers wrap around:
\* a number is in a row of its channel exactly when it was added and not skipped.
TableIsSet ==
  \A ch \in Channels, q \in 0 .. Horizon :
    q \in toSkip[ch] <=>
      \E i \in Of(table, ch) : SeqInRange(Wire(q), table[i].first, table[i].last)

\* No two rows of a channel overlap or touch: the passes join everything that
\* can be joined, so a row is never wasted and Skip steps over all of it.
Canonical ==
  \A ch \in Channels : \A i, j \in Of(table, ch) : i # j => ~Joins(table[i], table[j])

\* pending_lost_add() fails exactly when the ranges, joined as far as possible,
\* need more rows than there are; the caller then clears the whole peer.
RefusesOnlyWhenFull == outcome.ok = outcome.fits

\* The table represents the set, in the one way that needs the fewest rows.
Represents == TableTypes /\ TableIsSet /\ Canonical
=============================================================================
