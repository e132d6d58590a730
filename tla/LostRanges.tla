----------------------------- MODULE LostRanges -----------------------------
(***************************************************************************)
(* The lost sequence numbers a receiver will step over, as sets of numbers, *)
(* one for each channel, and the rows of peer->pending_lost they take.      *)
(* RelLink works with these sets; PendingLost has the array.                *)
(***************************************************************************)
EXTENDS Naturals, FiniteSets

CONSTANTS
  Channels,           \* channels of the reliable link, which share the table
  PendingLostRanges   \* KM_PENDING_LOST_RANGES

\* The ranges a set of lost sequence numbers occupies: each ends where its
\* successor is not pending.  pending_lost_add() joins touching ranges.
Ranges(pending) ==
  UNION {{<<ch, q>> : q \in {r \in pending[ch] : r + 1 \notin pending[ch]}} :
           ch \in Channels}
WithRange(pending, ch, first, last) == [pending EXCEPT ![ch] = @ \cup first .. last]
PendingFits(pending) == Cardinality(Ranges(pending)) <= PendingLostRanges
=============================================================================
