------------------------------- MODULE MCSweep -------------------------------
(***************************************************************************)
(* Bookings of a day, or its sweep alone: every wanted interval against    *)
(* every list of up to MaxOthers bookings on a short day.                  *)
(***************************************************************************)
EXTENDS MCBookings, SweepDays

CONSTANT LastMinute

MCStretch == {i \in [from : 0..LastMinute, to : 0..LastMinute] : i.from < i.to}

VARIABLE focus

DayInit ==
  /\ Init /\ SweepInit /\ focus \in {"requests", "sweep"}
  /\ focus = "requests" => want = [from |-> 0, to |-> 1]

DayNext ==
  \/ focus = "requests" /\ Next /\ UNCHANGED <<focus, want, others>>
  \/ focus = "sweep" /\ SweepNext /\ UNCHANGED <<focus, vars>>

DaySpec == DayInit /\ [][DayNext]_<<focus, want, others, vars>>
=============================================================================
