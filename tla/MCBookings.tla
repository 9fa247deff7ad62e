----------------------------- MODULE MCBookings -----------------------------
(***************************************************************************)
(* Small instances of Bookings for TLC.                                    *)
(***************************************************************************)
EXTENDS Bookings, TLC

CONSTANTS h1, h2, s1, s2, d1, d2, monday, tuesday, k1, k2, p1, w1, w2

\* A set with its elements listed, which the workers of TLC can share.
Listed(S) == {x : x \in S}

\* A morning and an afternoon, and an interval across both.
MCIntervals == {[from |-> 0, to |-> 1], [from |-> 1, to |-> 2], [from |-> 0, to |-> 2]}
MCWeekday == d1 :> monday @@ d2 :> tuesday

At(day, from, to) == [service |-> s1, day |-> day, time |-> [from |-> from, to |-> to]]
Open(max) == [service |-> s1, weekday |-> monday, time |-> [from |-> 0, to |-> 2],
              max |-> max, active |-> TRUE]

Submits == [op : {"submit"}, sub : {p1}, slot : {At(d1, 1, 2)}]
Confirms == [op : {"change"}, id : {k1, p1}, to : Status, day : {None}, time : {None}]
Moving  == [op : {"change"}, id : {k1}, to : {None}, day : {None},
            time : {[from |-> 1, to |-> 2]}]
Drops   == [op : {"drop"}, id : {k1, p1}]
Converts == [op : {"convert"}, sub : {p1}]
Withdraws == [op : {"withdraw"}, sub : {p1}]
Closed  == {[Open(0) EXCEPT !.active = FALSE]}

\* Guests take and leave slots while the staff confirms, moves and deletes
\* bookings and edits the hours and the service.
AllWork == Listed(
  [op : {"book"}, slot : {At(d1, 0, 1)}] \cup Submits \cup Converts \cup Withdraws
  \cup Confirms \cup Moving \cup Drops
  \cup [op : {"window"}, id : {w1}, as : {Open(1), None} \cup Closed]
  \cup [op : {"service"}, service : {s1}, as : {FALSE}])

HandlerSymmetry == Permutations({h1, h2})
=============================================================================
