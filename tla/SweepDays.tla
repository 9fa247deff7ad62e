------------------------------ MODULE SweepDays ------------------------------
(***************************************************************************)
(* The days that the sweep of _booking_slot may be asked about: every      *)
(* wanted interval beside every list of bookings.                          *)
(***************************************************************************)
EXTENDS Sweep

CONSTANTS
  Stretch,     \* intervals of a day: records with from and to
  MaxOthers    \* bound on the bookings of a list

ASSUME StretchAssumption ==
  /\ Stretch \subseteq [from : Nat, to : Nat]
  /\ \A i \in Stretch : i.from < i.to
  /\ MaxOthers \in Nat \ {0}

VARIABLES
  want,        \* the interval that is asked for
  others       \* the bookings beside it

SweepInit == want \in Stretch /\ others = <<>>

\* One more booking, after a full list the first of another one.
Take(i) ==
  /\ others' = Append(IF Len(others) < MaxOthers THEN others ELSE <<>>, i)
  /\ UNCHANGED want

SweepNext == \E i \in Stretch : Take(i)

SweepSpec == SweepInit /\ [][SweepNext]_<<want, others>>

-----------------------------------------------------------------------------
\* The sweep of _booking_slot computes the largest number of bookings that
\* occupy one minute of the wanted interval, whatever they overlap or touch.
PeakIsBusiest == Busiest(Peak(want, others), want, others)
=============================================================================
