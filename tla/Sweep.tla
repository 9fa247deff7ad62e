-------------------------------- MODULE Sweep --------------------------------
(***************************************************************************)
(* The busiest moment of a requested interval: the sweep over the start    *)
(* and end events of the bookings that overlap it, in                      *)
(* TransactionalService._booking_slot.  An interval is a record with       *)
(* minutes from and to; several bookings may have the same interval, so    *)
(* they are given as a function from their names.                          *)
(***************************************************************************)
EXTENDS Integers, Sequences, FiniteSets, Folds

Later(a, b) == IF a < b THEN b ELSE a
Earlier(a, b) == IF a < b THEN a ELSE b

Overlaps(a, b) == a.from < b.to /\ a.to > b.from

\* Mutant of Before: a start is counted before an end at the same minute.
StartsFirst(e, f) == e[1] < f[1] \/ (e[1] = f[1] /\ e[2] > f[2])

\* The order of (time, delta) pairs: an end comes before a start at its minute.
Before(e, f) == e[1] < f[1] \/ (e[1] = f[1] /\ e[2] < f[2])

Events(want, others) ==
  UNION { {<<Later(want.from, others[o].from), 1, o>>,
           <<Earlier(want.to, others[o].to), -1, o>>} :
          o \in {x \in DOMAIN others : Overlaps(others[x], want)} }

\* The last of a sorted set of events.
Latest(events) == CHOOSE e \in events : \A f \in events : ~Before(e, f)

\* One turn of the loop: concurrent and peak.
Turn(e, run) == [now |-> run.now + e[2], high |-> Later(run.high, run.now + e[2])]

\* The loop over the events in their order.
Peak(want, others) ==
  MapThenFoldSet(Turn, [now |-> 0, high |-> 0], LAMBDA e : e, Latest, Events(want, others)).high

-----------------------------------------------------------------------------
\* What the sweep stands for: p is the highest number of bookings that occupy
\* one minute of the wanted interval.
Occupied(m, others) == {o \in DOMAIN others : others[o].from <= m /\ m < others[o].to}

Busiest(p, want, others) ==
  /\ \A m \in want.from .. (want.to - 1) : Cardinality(Occupied(m, others)) <= p
  /\ \E m \in want.from .. (want.to - 1) : Cardinality(Occupied(m, others)) = p
=============================================================================
