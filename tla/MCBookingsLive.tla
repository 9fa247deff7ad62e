--------------------------- MODULE MCBookingsLive ---------------------------
(***************************************************************************)
(* A small instance of BookingsLive for TLC.                               *)
(***************************************************************************)
EXTENDS MCBookings, BookingsLive

\* A submission, the script, and others who take the slot or change the hours.
ConvertWork == Listed(
  Submits \cup Converts \cup Withdraws
  \cup [op : {"book"}, slot : {At(d1, 0, 2)}]
  \cup [op : {"change"}, id : {k1}, to : {"cancelled"}, day : {None}, time : {None}]
  \cup [op : {"window"}, id : {w1}, as : {Open(1)}])
=============================================================================
