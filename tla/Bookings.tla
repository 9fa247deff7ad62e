------------------------------ MODULE Bookings ------------------------------
(***************************************************************************)
(* Bookings of the services of one site: TransactionalService (bookings    *)
(* and availability), booking_policy, public_submission_service with       *)
(* legacy_booking_service, and the edits of services and submissions that  *)
(* bookings depend on.                                                     *)
(*                                                                         *)
(* A handler is one HTTP request, or one row of scripts/reconcile_bookings *)
(* being converted.  It waits for the site lock, checks what it needs in a *)
(* read step, and makes every write a step of its own; between two steps   *)
(* other handlers run, or the handler ends there (Abort).                  *)
(*                                                                         *)
(* Abstractions.  A slot is a service, a day and an interval; a patch that *)
(* gives some of the schedule fields is one that gives them all, with the  *)
(* old values for the rest.  A booking made of a submission has the        *)
(* submission's name: its booking_id is the hash of it.                    *)
(***************************************************************************)
EXTENDS Integers, FiniteSets, Sweep

CONSTANTS
  Handler,      \* requests that can be in flight together
  Service,      \* spa services of the site
  Day,          \* calendar days
  Weekday,      \* Weekday[d]: the weekday of a day
  Interval,     \* intervals of a day: records with from and to
  Capacity,     \* max_bookings values; 0 is "no limit"
  BookingId,    \* ids of bookings made directly
  SubId,        \* ids of public booking submissions
  WindowId,     \* ids of availability records
  Workload,     \* the requests people may send
  None          \* no row, no holder, no request, no change

ASSUME IntervalAssumption ==
  /\ Interval \subseteq [from : Nat, to : Nat]
  /\ \A i \in Interval : i.from < i.to
  /\ Capacity \subseteq Nat
  /\ DOMAIN Weekday = Day

Status == {"pending", "confirmed", "completed", "cancelled"}
Live == {"pending", "confirmed"}

Transitions == {<<"pending", "confirmed">>, <<"pending", "cancelled">>,
                <<"confirmed", "completed">>, <<"confirmed", "cancelled">>}

ValidTransition(s, t) == s = t \/ <<s, t>> \in Transitions

Slot    == [service : Service, day : Day, time : Interval]
Booking == [slot : Slot, status : Status, deleted : BOOLEAN]
Window  == [service : Service, weekday : {Weekday[d] : d \in Day}, time : Interval,
            max : Capacity, active : BOOLEAN]
Submission == [slot : Slot, deleted : BOOLEAN]
Id == BookingId \cup SubId

Request ==
       [op : {"book"}, slot : Slot]
  \cup [op : {"change"}, id : Id, to : Status \cup {None},
        day : Day \cup {None}, time : Interval \cup {None}]
  \cup [op : {"drop"}, id : Id]
  \cup [op : {"submit"}, sub : SubId, slot : Slot]
  \cup [op : {"convert", "withdraw"}, sub : SubId]
  \cup [op : {"window"}, id : WindowId, as : Window \cup {None}]
  \cup [op : {"service"}, service : Service, as : BOOLEAN]

ASSUME NoneAssumption ==
  /\ None \notin Booking /\ None \notin Window /\ None \notin Submission
  /\ None \notin Handler /\ None \notin Request /\ None \notin Status
  /\ None \notin Day /\ None \notin Interval
  /\ None \notin BookingId \cup SubId /\ BookingId \cap SubId = {}

ASSUME WorkloadAssumption == Workload \subseteq Request

-----------------------------------------------------------------------------
VARIABLES
  siteDeleted,   \* the site is marked deleted
  published,     \* the services that are published and not deleted
  windows,       \* the availability rows
  bookings,      \* the bookings rows
  submissions,   \* the booking_submission rows of properties
  siteLock,      \* who holds "site:<id>"
  pc, req        \* where each handler is, and the request it serves

rows == <<published, windows, bookings, submissions>>
vars == <<siteDeleted, rows, siteLock, pc, req>>

\* The next step of a handler.
Labels == {"idle", "site", "load", "insertBooking", "writeBooking", "hideBooking",
           "insertSubmission", "convert", "insertConverted", "writeWindow", "writeService",
           "hideSubmission"}

TypeOK ==
  /\ siteDeleted \in BOOLEAN
  /\ published \subseteq Service
  /\ windows \in [WindowId -> Window \cup {None}]
  /\ bookings \in [Id -> Booking \cup {None}]
  /\ submissions \in [SubId -> Submission \cup {None}]
  /\ siteLock \in Handler \cup {None}
  /\ pc \in [Handler -> Labels]
  /\ req \in [Handler -> Request \cup {None}]

Init ==
  /\ siteDeleted = FALSE
  /\ published \in SUBSET Service
  /\ windows = [w \in WindowId |-> None]
  /\ bookings = [b \in Id |-> None]
  /\ submissions = [s \in SubId |-> None]
  /\ siteLock = None
  /\ pc = [h \in Handler |-> "idle"]
  /\ req = [h \in Handler |-> None]

-----------------------------------------------------------------------------
(* The slot check.                                                         *)

Stored(x) == x # None
LiveBooking(b) ==
  Stored(bookings[b]) /\ ~bookings[b].deleted /\ bookings[b].status \in Live

Hours(service) == {w \in WindowId : Stored(windows[w]) /\ windows[w].service = service}

\* The active windows of that weekday that the interval lies in.
Candidates(slot) ==
  {w \in Hours(slot.service) :
     /\ windows[w].active /\ windows[w].weekday = Weekday[slot.day]
     /\ windows[w].time.from <= slot.time.from /\ slot.time.to <= windows[w].time.to}

\* The live bookings of the service and day, without the one that moves.
Rivals(slot, except) ==
  {b \in Id \ {except} : /\ LiveBooking(b)
                         /\ bookings[b].slot.service = slot.service
                         /\ bookings[b].slot.day = slot.day}

HasRoom(slot, except, w) ==
  \/ windows[w].max = 0
  \/ Peak(slot.time, [b \in Rivals(slot, except) |-> bookings[b].slot.time])
       < windows[w].max

\* Without any window the service is scheduled by hand and always has room.
Fits(slot, except) ==
  /\ slot.service \in published
  /\ \/ Hours(slot.service) = {}
     \/ \E w \in Candidates(slot) : HasRoom(slot, except, w)

-----------------------------------------------------------------------------
(* Control flow of a handler.                                              *)

Goto(h, label) == pc' = [pc EXCEPT ![h] = label]

Finish(h) ==
  /\ Goto(h, "idle")
  /\ req' = [req EXCEPT ![h] = None]
  /\ siteLock' = IF siteLock = h THEN None ELSE siteLock

Reject(h) == Finish(h) /\ UNCHANGED <<siteDeleted, rows>>

Proceed(h, label) ==
  Goto(h, label) /\ UNCHANGED <<siteDeleted, rows, siteLock, req>>

\* serialize_schedule finds the site of the booking first, or of the window.
Found(r) ==
  /\ r.op \in {"change", "drop"} => Stored(bookings[r.id])
  /\ r.op \in {"convert", "withdraw"} => Stored(submissions[r.sub])

Begin(h, r) ==
  /\ pc[h] = "idle" /\ Found(r)
  /\ req' = [req EXCEPT ![h] = r]
  /\ Goto(h, "site")
  /\ UNCHANGED <<siteDeleted, rows, siteLock>>

\* Mutant of EnterSite: nobody waits for the lock.
EnterUnlocked(h) ==
  /\ pc[h] = "site" /\ ~siteDeleted
  /\ Goto(h, "load")
  /\ UNCHANGED <<siteDeleted, rows, siteLock, req>>

EnterSite(h) ==
  /\ pc[h] = "site" /\ siteLock = None
  /\ IF siteDeleted
       THEN Reject(h)
       ELSE /\ siteLock' = h
            /\ Goto(h, "load")
            /\ UNCHANGED <<siteDeleted, rows, req>>

Abort(h) == pc[h] # "idle" /\ Reject(h)

Serving(h, op) == pc[h] = "load" /\ req[h].op = op

-----------------------------------------------------------------------------
(* Bookings.                                                               *)

\* The pool BookingId is the bound on the bookings made directly.
FreeBookingId == \E b \in BookingId : bookings[b] = None

LoadBook(h) ==
  /\ Serving(h, "book")
  /\ \/ Fits(req[h].slot, None) /\ FreeBookingId /\ Proceed(h, "insertBooking")
     \/ ~(Fits(req[h].slot, None) /\ FreeBookingId) /\ Reject(h)

Fresh(slot) == [slot |-> slot, status |-> "pending", deleted |-> FALSE]

InsertBooking(h) ==
  /\ pc[h] = "insertBooking"
  /\ \E b \in BookingId :
       /\ bookings[b] = None
       /\ bookings' = [bookings EXCEPT ![b] = Fresh(req[h].slot)]
  /\ Finish(h)
  /\ UNCHANGED <<siteDeleted, published, windows, submissions>>

Moves(r) == r.day # None \/ r.time # None

\* The booking as the patch leaves it.
Patched(booking, r) ==
  LET slot == booking.slot IN
  [slot |-> [service |-> slot.service,
             day  |-> IF r.day = None THEN slot.day ELSE r.day,
             time |-> IF r.time = None THEN slot.time ELSE r.time],
   status |-> IF r.to = None THEN booking.status ELSE r.to,
   deleted |-> booking.deleted]

\* Mutant of ChangeAllowed: a confirmation is not checked again.
ChangeAllowedUnchecked(id, r) ==
  LET old == bookings[id]  new == Patched(old, r) IN
  /\ ~old.deleted
  /\ r.to # None => ValidTransition(old.status, r.to)
  /\ Moves(r) => old.status \in Live
  /\ Moves(r) /\ new.status \in Live => Fits(new.slot, id)

ChangeAllowed(id, r) ==
  LET old == bookings[id]  new == Patched(old, r) IN
  /\ ~old.deleted
  /\ r.to # None => ValidTransition(old.status, r.to)
  /\ Moves(r) => old.status \in Live
  /\ new.status \in Live => Fits(new.slot, id)

LoadChange(h) ==
  /\ Serving(h, "change")
  /\ \/ ChangeAllowed(req[h].id, req[h]) /\ Proceed(h, "writeBooking")
     \/ ~ChangeAllowed(req[h].id, req[h]) /\ Reject(h)

WriteBooking(h) ==
  /\ pc[h] = "writeBooking"
  /\ bookings' = [bookings EXCEPT ![req[h].id] = Patched(bookings[req[h].id], req[h])]
  /\ Finish(h)
  /\ UNCHANGED <<siteDeleted, published, windows, submissions>>

\* Mutant of Droppable: a booking can be deleted unless it was completed.
DroppableLive(booking) == ~booking.deleted /\ booking.status # "completed"

Droppable(booking) == ~booking.deleted /\ booking.status \in {"pending", "cancelled"}

LoadDrop(h) ==
  /\ Serving(h, "drop")
  /\ \/ Droppable(bookings[req[h].id]) /\ Proceed(h, "hideBooking")
     \/ ~Droppable(bookings[req[h].id]) /\ Reject(h)

\* What soft deletion makes of a row.
Hidden(row) == [row EXCEPT !.deleted = TRUE]

HideBooking(h) ==
  /\ pc[h] = "hideBooking"
  /\ bookings' = [bookings EXCEPT ![req[h].id] = Hidden(bookings[req[h].id])]
  /\ Finish(h)
  /\ UNCHANGED <<siteDeleted, published, windows, submissions>>

-----------------------------------------------------------------------------
(* Public submissions, and their conversion.                               *)

\* The slot is checked before anything is stored.  A name that is taken is
\* refused by the unique index on property_id.
LoadSubmit(h) ==
  /\ Serving(h, "submit")
  /\ LET ok == Fits(req[h].slot, None) /\ ~Stored(submissions[req[h].sub]) IN
     \/ ok /\ Proceed(h, "insertSubmission")
     \/ ~ok /\ Reject(h)

InsertSubmission(h) ==
  /\ pc[h] = "insertSubmission"
  /\ submissions' = [submissions EXCEPT ![req[h].sub] =
                       [slot |-> req[h].slot, deleted |-> FALSE]]
  /\ Goto(h, "convert")
  /\ UNCHANGED <<siteDeleted, published, windows, bookings, siteLock, req>>

\* reconcile_bookings reads the submission again under the lock.
LoadConvert(h) ==
  /\ Serving(h, "convert")
  /\ \/ ~submissions[req[h].sub].deleted /\ Proceed(h, "convert")
     \/ submissions[req[h].sub].deleted /\ Reject(h)

Convertible(s) ==
  ~Stored(bookings[s]) /\ Fits(submissions[s].slot, None)

\* Mutant of Convert: only the request that stored a submission converts it.
ConvertFresh(h) ==
  /\ pc[h] = "convert"
  /\ LET ok == req[h].op = "submit" /\ Convertible(req[h].sub) IN
     \/ ok /\ Proceed(h, "insertConverted")
     \/ ~ok /\ Reject(h)

\* convert_submission: what was converted before is left alone, deleted or not.
Convert(h) ==
  /\ pc[h] = "convert"
  /\ \/ Convertible(req[h].sub) /\ Proceed(h, "insertConverted")
     \/ ~Convertible(req[h].sub) /\ Reject(h)

InsertConverted(h) ==
  /\ pc[h] = "insertConverted"
  /\ bookings' = [bookings EXCEPT ![req[h].sub] = Fresh(submissions[req[h].sub].slot)]
  /\ Finish(h)
  /\ UNCHANGED <<siteDeleted, published, windows, submissions>>

\* delete_property of the submission.
LoadWithdraw(h) ==
  /\ Serving(h, "withdraw")
  /\ \/ ~submissions[req[h].sub].deleted /\ Proceed(h, "hideSubmission")
     \/ submissions[req[h].sub].deleted /\ Reject(h)

HideSubmission(h) ==
  /\ pc[h] = "hideSubmission"
  /\ submissions' = [submissions EXCEPT ![req[h].sub] = Hidden(submissions[req[h].sub])]
  /\ Finish(h)
  /\ UNCHANGED <<siteDeleted, published, windows, bookings>>

-----------------------------------------------------------------------------
(* Availability and services.                                              *)

\* An id without a row stands for a new one.
LoadWindow(h) ==
  /\ Serving(h, "window")
  /\ LET found == req[h].as # None \/ Stored(windows[req[h].id]) IN
     \/ found /\ Proceed(h, "writeWindow")
     \/ ~found /\ Reject(h)

\* Creation, edit or deletion of an availability row; the bookings it has
\* admitted stay.
WriteWindow(h) ==
  /\ pc[h] = "writeWindow"
  /\ windows' = [windows EXCEPT ![req[h].id] = req[h].as]
  /\ Finish(h)
  /\ UNCHANGED <<siteDeleted, published, bookings, submissions>>

LoadService(h) == Serving(h, "service") /\ Proceed(h, "writeService")

\* update_property and delete_property of a service.
WriteService(h) ==
  /\ pc[h] = "writeService"
  /\ published' = IF req[h].as THEN published \cup {req[h].service}
                               ELSE published \ {req[h].service}
  /\ Finish(h)
  /\ UNCHANGED <<siteDeleted, windows, bookings, submissions>>

DeleteSite ==
  /\ siteLock = None /\ ~siteDeleted
  /\ siteDeleted' = TRUE
  /\ UNCHANGED <<rows, siteLock, pc, req>>

-----------------------------------------------------------------------------
Read(h) ==
  \/ LoadBook(h) \/ LoadChange(h) \/ LoadDrop(h) \/ LoadSubmit(h) \/ LoadConvert(h)
  \/ Convert(h) \/ LoadWithdraw(h) \/ LoadWindow(h) \/ LoadService(h)

Write(h) ==
  \/ InsertBooking(h) \/ WriteBooking(h) \/ HideBooking(h) \/ InsertSubmission(h)
  \/ InsertConverted(h) \/ HideSubmission(h) \/ WriteWindow(h) \/ WriteService(h)

Step(h) == EnterSite(h) \/ Read(h) \/ Write(h)

Next ==
  \/ \E h \in Handler :
       \/ \E r \in Workload : Begin(h, r)
       \/ Step(h)
       \/ Abort(h)
  \/ DeleteSite

Spec == Init /\ [][Next]_vars

-----------------------------------------------------------------------------
(* Safety.                                                                 *)

\* The live bookings at one minute of a service's day.
Guests(service, day, m) ==
  {b \in Id : /\ LiveBooking(b) /\ bookings[b].slot.service = service
              /\ bookings[b].slot.day = day
              /\ bookings[b].slot.time.from <= m /\ m < bookings[b].slot.time.to}

\* A booking has its place: its service is published, and it lies in active
\* hours that nobody overbooks at any of its minutes.
Placed(b) ==
  LET slot == bookings[b].slot IN
  /\ slot.service \in published
  /\ \/ Hours(slot.service) = {}
     \/ \E w \in Candidates(slot) :
          windows[w].max = 0 \/
          \A m \in slot.time.from .. slot.time.to - 1 :
            Cardinality(Guests(slot.service, slot.day, m)) <= windows[w].max

\* Whoever races for a slot, a booking that becomes live, moves or is
\* confirmed has its place when it is written (booking_slot is a check, the
\* write comes later).
WrittenBookingsArePlaced ==
  [][\A b \in Id : (LiveBooking(b)' /\ bookings'[b] # bookings[b]) => Placed(b)']_vars

\* A deleted booking was resolved first: no confirmed or completed one
\* disappears, whatever is confirmed while a deletion is under way.
DeletedIsResolved ==
  \A b \in Id : (Stored(bookings[b]) /\ bookings[b].deleted) =>
    bookings[b].status \in {"pending", "cancelled"}

\* "conversion failed after the slot check passed" needs a failing write:
\* what was checked before the submission was stored still holds when it is
\* converted, so the guest who got an answer has a booking.
StoredIsConvertible ==
  \A h \in Handler : (pc[h] = "convert" /\ req[h].op = "submit") => Convertible(req[h].sub)
=============================================================================
