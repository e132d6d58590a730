------------------------- MODULE MCWeeklySchedule -------------------------
(* A week of two days of three minutes.  On the first day minute 1 comes again, and  *)
(* after it minute 2 is left out.                                                    *)
EXTENDS WeeklySchedule

MCLocal ==
  LET local == << <<0, 0>>, <<0, 1>>, <<0, 2>>, <<0, 1>>, <<1, 0>>, <<1, 1>> >>
  IN  [w \in 0 .. 5 |-> local[w + 1]]

Daily(minute) == [enabled |-> TRUE, minute |-> minute, days |-> {0, 1}]
On(day, minute) == [enabled |-> TRUE, minute |-> minute, days |-> {day}]

MCConfigs ==
  [g \in 1 .. 2 |->
    [generation |-> g, enabled |-> TRUE, persist |-> g = 1,
     points |-> CASE g = 1 -> << Daily(1), Daily(2) >>
                  [] g = 2 -> << On(1, 2) >>]]
=============================================================================
