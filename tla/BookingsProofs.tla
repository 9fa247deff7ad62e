---------------------------- MODULE BookingsProofs ----------------------------
(***************************************************************************)
(* Bookings for every set of requests, services, intervals and rows.  Of   *)
(* all the requests of a site only the one that holds its lock is past its *)
(* checks, so what it has checked is still so when it writes, also when    *)
(* the write is the second one: the booking of a submission.               *)
(***************************************************************************)
EXTENDS Bookings, SweepDays, FoldProofs

Free == {"idle", "site"}

\* What kind of request is at which step.
RequestAt(r, l) ==
  /\ l = "insertBooking" => r.op = "book"
  /\ l = "writeBooking" => r.op = "change"
  /\ l = "hideBooking" => r.op = "drop"
  /\ l = "insertSubmission" => r.op = "submit"
  /\ l \in {"convert", "insertConverted"} => r.op \in {"submit", "convert"}
  /\ l = "writeWindow" => r.op = "window"
  /\ l = "writeService" => r.op = "service"
  /\ l = "hideSubmission" => r.op = "withdraw"

RequestFits(h) == pc[h] # "idle" => req[h] \in Request /\ RequestAt(req[h], pc[h])

LockInv == \A h \in Handler : siteLock = h <=> pc[h] \notin Free

\* The rows that a request is about are there, ...
Known(r) ==
  /\ r.op \in {"change", "drop"} => Stored(bookings[r.id])
  /\ r.op \in {"convert", "withdraw"} => Stored(submissions[r.sub])

\* ... and what it has checked before a step is still so.
CheckedFor(r, l) ==
  /\ l = "insertBooking" => Fits(r.slot, None)
  /\ l = "writeBooking" => ChangeAllowed(r.id, r)
  /\ l = "hideBooking" => Droppable(bookings[r.id])
  /\ l = "insertSubmission" => Fits(r.slot, None) /\ ~Stored(submissions[r.sub])
  /\ l \in {"convert", "insertConverted"} => Stored(submissions[r.sub])
  /\ (l = "convert" /\ r.op = "submit") \/ l = "insertConverted" => Convertible(r.sub)

CheckInv(h) == pc[h] # "idle" => Known(req[h]) /\ CheckedFor(req[h], pc[h])

\* A booking with the name of a submission was made of it.
MadeOfStored == \A s \in SubId : Stored(bookings[s]) => Stored(submissions[s])

FiniteRows == IsFiniteSet({b \in Id : Stored(bookings[b])})

BookingsInv ==
  /\ TypeOK /\ LockInv
  /\ \A h \in Handler : RequestFits(h) /\ CheckInv(h)
  /\ MadeOfStored /\ DeletedIsResolved /\ FiniteRows

DataType ==
  /\ siteDeleted \in BOOLEAN
  /\ published \subseteq Service
  /\ windows \in [WindowId -> Window \cup {None}]
  /\ bookings \in [Id -> Booking \cup {None}]
  /\ submissions \in [SubId -> Submission \cup {None}]

DataInv == DataType /\ MadeOfStored /\ DeletedIsResolved /\ FiniteRows

Control ==
  /\ siteLock \in Handler \cup {None}
  /\ pc \in [Handler -> Labels]
  /\ req \in [Handler -> Request \cup {None}]
  /\ LockInv
  /\ \A h \in Handler : RequestFits(h)

-----------------------------------------------------------------------------
LEMMA InvParts ==
  BookingsInv <=> DataInv /\ Control /\ \A h \in Handler : CheckInv(h)
  BY DEF BookingsInv, DataInv, DataType, Control, TypeOK

-----------------------------------------------------------------------------
(* The control of a handler.                                               *)

\* A step of h leaves the other handlers where they are.
Apart(h) == \A g \in Handler \ {h} : pc'[g] = pc[g] /\ req'[g] = req[g]

LEMMA FinishControl ==
  ASSUME Control, NEW h \in Handler, Finish(h)
  PROVE  Control' /\ Apart(h) /\ pc'[h] = "idle"
  <1>1. /\ pc' = [pc EXCEPT ![h] = "idle"] /\ req' = [req EXCEPT ![h] = None]
        /\ siteLock' = IF siteLock = h THEN None ELSE siteLock
    BY DEF Finish, Goto
  <1>2. Apart(h) /\ pc'[h] = "idle"
    BY <1>1 DEF Control, Apart
  <1>3. siteLock' \in Handler \cup {None} /\ pc' \in [Handler -> Labels]
        /\ req' \in [Handler -> Request \cup {None}]
    BY <1>1 DEF Control, Labels
  <1>4. LockInv'
    <2>1. None \notin Handler
      BY NoneAssumption
    <2>2. ASSUME NEW g \in Handler
          PROVE  siteLock' = g <=> pc'[g] \notin Free
      BY <1>1, <1>2, <2>1 DEF Control, LockInv, Free, Apart
    <2> QED
      BY <2>2 DEF LockInv
  <1>5. \A g \in Handler : RequestFits(g)'
    BY <1>2 DEF RequestFits, Apart, Control
  <1> QED
    BY <1>2, <1>3, <1>4, <1>5 DEF Control

LEMMA GotoControl ==
  ASSUME Control, NEW h \in Handler, NEW l \in Labels \ Free, Goto(h, l), pc[h] \notin Free,
         UNCHANGED <<siteLock, req>>, RequestAt(req[h], l)
  PROVE  Control' /\ Apart(h) /\ pc'[h] = l /\ req' = req
  <1>1. pc' = [pc EXCEPT ![h] = l] /\ req' = req /\ siteLock' = siteLock
    BY DEF Goto
  <1>2. Apart(h) /\ pc'[h] = l
    BY <1>1 DEF Control, Apart
  <1>3. pc' \in [Handler -> Labels]
    BY <1>1 DEF Control
  <1>4. LockInv'
    BY <1>1, <1>2 DEF LockInv, Control, Apart
  <1>5. RequestFits(h)'
    BY <1>1, <1>2 DEF RequestFits, Control, Free, RequestAt
  <1>6. \A g \in Handler \ {h} : RequestFits(g)'
    BY <1>2 DEF RequestFits, Apart, Control
  <1> QED
    BY <1>1, <1>2, <1>3, <1>4, <1>5, <1>6 DEF Control

-----------------------------------------------------------------------------
(* What the checks read.                                                   *)

LEMMA SameFits ==
  ASSUME UNCHANGED <<published, windows, bookings>>
  PROVE  \A slot, b : Fits(slot, b)' <=> Fits(slot, b)
  <1>1. TAKE slot, b
  <1>2. published' = published /\ windows' = windows /\ bookings' = bookings
    OBVIOUS
  <1>3. Hours(slot.service)' = Hours(slot.service)
    BY <1>2 DEF Hours, Stored
  <1>4. Candidates(slot)' = Candidates(slot)
    BY <1>2, <1>3 DEF Candidates
  <1>5. Rivals(slot, b)' = Rivals(slot, b)
    BY <1>2 DEF Rivals, LiveBooking, Stored
  <1>6. \A w : HasRoom(slot, b, w)' <=> HasRoom(slot, b, w)
    BY <1>2, <1>5 DEF HasRoom
  <1> QED
    BY <1>2, <1>3, <1>4, <1>6 DEF Fits

LEMMA SameRows ==
  ASSUME rows' = rows
  PROVE  /\ \A r : Known(r)' <=> Known(r)
         /\ \A r, l : CheckedFor(r, l)' <=> CheckedFor(r, l)
  <1>1. published' = published /\ windows' = windows /\ bookings' = bookings
        /\ submissions' = submissions
    BY DEF rows
  <1>2. \A slot, b : Fits(slot, b)' <=> Fits(slot, b)
    BY <1>1, SameFits
  <1>3. \A s : Convertible(s)' <=> Convertible(s)
    BY <1>1, <1>2 DEF Convertible, Stored
  <1>4. \A id, r : ChangeAllowed(id, r)' <=> ChangeAllowed(id, r)
    BY <1>1, <1>2 DEF ChangeAllowed
  <1>5. \A r : Known(r)' <=> Known(r)
    BY <1>1 DEF Known, Stored
  <1>6. \A r, l : CheckedFor(r, l)' <=> CheckedFor(r, l)
    BY <1>1, <1>2, <1>3, <1>4 DEF CheckedFor, Stored
  <1> QED
    BY <1>5, <1>6

LEMMA RequestData ==
  ASSUME NEW r \in Request
  PROVE  /\ r.op \in {"change", "drop"} => r.id \in Id
         /\ r.op = "change" =>
              /\ r.to \in Status \cup {None} /\ r.day \in Day \cup {None}
              /\ r.time \in Interval \cup {None}
         /\ r.op \in {"submit", "convert", "withdraw"} => r.sub \in SubId /\ r.sub \in Id
         /\ r.op \in {"book", "submit"} => r.slot \in Slot
         /\ r.op = "window" => r.id \in WindowId /\ r.as \in Window \cup {None}
         /\ r.op = "service" => r.service \in Service /\ r.as \in BOOLEAN
  BY DEF Request, Id

\* The others wait, and no row they know goes away.
LEMMA OthersKeep ==
  ASSUME BookingsInv, NEW h \in Handler, siteLock = h, Apart(h),
         \A b \in Id : Stored(bookings[b]) => Stored(bookings'[b]),
         \A s \in SubId : Stored(submissions[s]) => Stored(submissions'[s])
  PROVE  \A g \in Handler \ {h} : CheckInv(g)'
  <1>1. ASSUME NEW g \in Handler, g # h, pc[g] # "idle"
        PROVE  CheckInv(g)'
    <2>1. /\ pc'[g] = pc[g] /\ req'[g] = req[g] /\ pc[g] = "site"
          /\ req[g] \in Request /\ Known(req[g])
      BY <1>1, InvParts DEF Apart, Control, LockInv, Free, RequestFits, CheckInv
    <2>2. PICK r \in Request : r = req[g]
      BY <2>1
    <2>3. Known(r)'
      BY <2>1, <2>2, RequestData DEF Known, Stored
    <2> QED
      BY <2>1, <2>2, <2>3 DEF CheckInv, CheckedFor
  <1>2. ASSUME NEW g \in Handler, g # h, pc[g] = "idle"
        PROVE  CheckInv(g)'
    BY <1>2 DEF Apart, CheckInv
  <1> QED
    BY <1>1, <1>2

LEMMA SameData ==
  ASSUME DataInv, rows' = rows, siteDeleted' \in BOOLEAN
  PROVE  DataInv'
  BY DEF DataInv, DataType, rows, MadeOfStored, DeletedIsResolved, FiniteRows, Stored

LEMMA Together ==
  ASSUME DataInv', Control', \A h \in Handler : CheckInv(h)'
  PROVE  BookingsInv'
  BY InvParts DEF BookingsInv, DataInv, DataType, Control, TypeOK

\* Steps that write nothing.
LEMMA QuietStep ==
  ASSUME BookingsInv, NEW h \in Handler, rows' = rows, siteDeleted' = siteDeleted, Control',
         Apart(h), CheckInv(h)'
  PROVE  BookingsInv'
  <1>1. DataInv'
    BY InvParts, SameData DEF DataInv, DataType
  <1>2. ASSUME NEW g \in Handler, g # h
        PROVE  CheckInv(g)'
    BY <1>2, InvParts, SameRows DEF Apart, CheckInv
  <1> QED
    BY <1>1, <1>2, Together

LEMMA RejectStep ==
  ASSUME BookingsInv, NEW h \in Handler, Reject(h)
  PROVE  BookingsInv'
  <1>1. Control' /\ Apart(h) /\ pc'[h] = "idle" /\ rows' = rows /\ siteDeleted' = siteDeleted
    BY InvParts, FinishControl DEF Reject, rows
  <1> QED
    BY <1>1, QuietStep DEF CheckInv

LEMMA BeginStep ==
  ASSUME BookingsInv, NEW h \in Handler, NEW r \in Workload, Begin(h, r)
  PROVE  BookingsInv'
  <1>1. /\ pc[h] = "idle" /\ Found(r) /\ pc' = [pc EXCEPT ![h] = "site"]
        /\ req' = [req EXCEPT ![h] = r]
        /\ siteLock' = siteLock /\ rows' = rows /\ siteDeleted' = siteDeleted
    BY DEF Begin, Goto, rows
  <1>2. Control /\ r \in Request
    BY InvParts, WorkloadAssumption
  <1>3. Apart(h) /\ pc'[h] = "site" /\ req'[h] = r
    BY <1>1, <1>2 DEF Control, Apart
  <1>4. Control'
    <2>1. pc' \in [Handler -> Labels] /\ req' \in [Handler -> Request \cup {None}]
      BY <1>1, <1>2 DEF Control, Labels
    <2>2. LockInv'
      BY <1>1, <1>2, <1>3 DEF LockInv, Control, Apart, Free
    <2>3. RequestFits(h)'
      BY <1>2, <1>3 DEF RequestFits, RequestAt
    <2>4. \A g \in Handler \ {h} : RequestFits(g)'
      BY <1>2, <1>3 DEF RequestFits, Apart, Control
    <2> QED
      BY <1>1, <1>2, <2>1, <2>2, <2>3, <2>4 DEF Control
  <1>5. CheckInv(h)'
    <2>1. Known(r)
      BY <1>1 DEF Found, Known
    <2>2. Known(r)'
      BY <1>1, <2>1, SameRows
    <2> QED
      BY <1>3, <2>2 DEF CheckInv, CheckedFor
  <1> QED
    BY <1>1, <1>3, <1>4, <1>5, QuietStep

LEMMA EnterStep ==
  ASSUME BookingsInv, NEW h \in Handler, EnterSite(h)
  PROVE  BookingsInv'
  <1>1. CASE siteDeleted
    BY <1>1, RejectStep DEF EnterSite
  <1>2. CASE ~siteDeleted
    <2>1. /\ pc[h] = "site" /\ siteLock = None /\ siteLock' = h
          /\ pc' = [pc EXCEPT ![h] = "load"] /\ req' = req
          /\ rows' = rows /\ siteDeleted' = siteDeleted
      BY <1>2 DEF EnterSite, Goto, rows
    <2>2. Control /\ CheckInv(h)
      BY InvParts
    <2>3. Apart(h) /\ pc'[h] = "load"
      BY <2>1, <2>2 DEF Control, Apart
    <2>4. pc' \in [Handler -> Labels]
      BY <2>1, <2>2 DEF Control, Labels
    <2>5. LockInv'
      <3>1. None \notin Handler
        BY NoneAssumption
      <3>2. ASSUME NEW g \in Handler
            PROVE  siteLock' = g <=> pc'[g] \notin Free
        BY <2>1, <2>2, <2>3, <3>1 DEF LockInv, Control, Apart, Free
      <3> QED
        BY <3>2 DEF LockInv
    <2>6. RequestFits(h)'
      BY <2>1, <2>2, <2>3 DEF RequestFits, RequestAt, Control
    <2>7. \A g \in Handler \ {h} : RequestFits(g)'
      BY <2>2, <2>3 DEF RequestFits, Apart, Control
    <2>8. Control'
      BY <2>1, <2>2, <2>4, <2>5, <2>6, <2>7 DEF Control
    <2>9. CheckInv(h)'
      <3>1. Known(req[h])
        BY <2>1, <2>2 DEF CheckInv
      <3>2. Known(req[h])'
        BY <2>1, <3>1 DEF Known, Stored, rows
      <3> QED
        BY <2>1, <2>3, <3>2 DEF CheckInv, CheckedFor
    <2> QED
      BY <2>1, <2>3, <2>8, <2>9, QuietStep
  <1> QED
    BY <1>1, <1>2

\* A check: the handler goes on with what it has seen, ...
LEMMA ProceedStep ==
  ASSUME BookingsInv, NEW h \in Handler, NEW l \in Labels \ Free, Proceed(h, l),
         pc[h] \notin Free, RequestAt(req[h], l), CheckedFor(req[h], l)
  PROVE  BookingsInv'
  <1>1. rows' = rows /\ siteDeleted' = siteDeleted
    BY DEF Proceed, rows
  <1>2. Control' /\ Apart(h) /\ pc'[h] = l /\ req' = req
    BY InvParts, GotoControl DEF Proceed
  <1>3. Known(req[h])
    BY InvParts DEF CheckInv, Free
  <1>4. CheckInv(h)'
    <2>1. \A q : Known(q)' <=> Known(q)
      BY <1>1, SameRows
    <2>2. \A q, k : CheckedFor(q, k)' <=> CheckedFor(q, k)
      BY <1>1, SameRows
    <2> QED
      BY <1>2, <1>3, <2>1, <2>2 DEF CheckInv
  <1> QED
    BY <1>1, <1>2, <1>4, QuietStep

\* ... or it is done.
LEMMA ReadStep ==
  ASSUME BookingsInv, NEW h \in Handler, Read(h)
  PROVE  BookingsInv'
  <1>1. CASE Reject(h)
    BY <1>1, RejectStep
  <1>2. CASE ~Reject(h)
    <2>1. /\ pc[h] \in {"load", "convert"} /\ pc[h] \notin Free
          /\ RequestFits(h) /\ CheckInv(h)
      BY InvParts
         DEF Read, LoadBook, LoadChange, LoadDrop, LoadSubmit, LoadConvert, Convert, LoadWithdraw,
             LoadWindow, LoadService, Serving, Free, Control
    <2>2. Known(req[h]) /\ CheckedFor(req[h], pc[h]) /\ RequestAt(req[h], pc[h])
      BY <2>1 DEF CheckInv, RequestFits, Free
    <2>3. PICK l \in Labels \ Free :
            Proceed(h, l) /\ RequestAt(req[h], l) /\ CheckedFor(req[h], l)
      <3>1. CASE LoadBook(h)
        BY <1>2, <3>1 DEF LoadBook, Serving, RequestAt, CheckedFor, Labels, Free
      <3>2. CASE LoadChange(h)
        BY <1>2, <3>2 DEF LoadChange, Serving, RequestAt, CheckedFor, Labels, Free
      <3>3. CASE LoadDrop(h)
        BY <1>2, <3>3 DEF LoadDrop, Serving, RequestAt, CheckedFor, Labels, Free
      <3>4. CASE LoadSubmit(h)
        BY <1>2, <3>4 DEF LoadSubmit, Serving, RequestAt, CheckedFor, Labels, Free
      <3>5. CASE LoadConvert(h)
        BY <1>2, <2>2, <3>5 DEF LoadConvert, Serving, RequestAt, Known, CheckedFor, Labels, Free
      <3>6. CASE Convert(h)
        BY <1>2, <2>2, <3>6 DEF Convert, RequestAt, CheckedFor, Labels, Free
      <3>7. CASE LoadWithdraw(h)
        BY <1>2, <3>7 DEF LoadWithdraw, Serving, RequestAt, CheckedFor, Labels, Free
      <3>8. CASE LoadWindow(h)
        BY <1>2, <3>8 DEF LoadWindow, Serving, RequestAt, CheckedFor, Labels, Free
      <3>9. CASE LoadService(h)
        BY <1>2, <3>9 DEF LoadService, Serving, RequestAt, CheckedFor, Labels, Free
      <3> QED
        BY <3>1, <3>2, <3>3, <3>4, <3>5, <3>6, <3>7, <3>8, <3>9 DEF Read
    <2> QED
      BY <2>1, <2>3, ProceedStep
  <1> QED
    BY <1>1, <1>2

-----------------------------------------------------------------------------
(* Writes.  Whoever writes holds the lock of the site.                     *)

LEMMA HolderFacts ==
  ASSUME BookingsInv, NEW h \in Handler, pc[h] \notin Free
  PROVE  /\ Control /\ DataInv /\ siteLock = h
         /\ req[h] \in Request /\ RequestAt(req[h], pc[h])
         /\ Known(req[h]) /\ CheckedFor(req[h], pc[h])
  BY InvParts DEF Control, LockInv, RequestFits, CheckInv, Free

\* The row of a booking.
LEMMA BookingWrite ==
  ASSUME BookingsInv, NEW h \in Handler, pc[h] \notin Free, Finish(h),
         UNCHANGED <<siteDeleted, published, windows, submissions>>,
         NEW b \in Id, NEW row \in Booking, bookings' = [bookings EXCEPT ![b] = row],
         row.deleted => row.status \in {"pending", "cancelled"},
         b \in SubId => Stored(submissions[b])
  PROVE  BookingsInv'
  <1>1. Control /\ DataInv /\ siteLock = h
    BY HolderFacts
  <1>2. Control' /\ Apart(h) /\ pc'[h] = "idle"
    BY <1>1, FinishControl
  <1>3. /\ bookings' \in [Id -> Booking \cup {None}] /\ bookings'[b] = row
        /\ \A c \in Id \ {b} : bookings'[c] = bookings[c]
    BY <1>1 DEF DataInv, DataType
  <1>4. row # None
    BY NoneAssumption
  <1>5. DataType' /\ submissions' = submissions
    BY <1>1, <1>3 DEF DataInv, DataType
  <1>6. MadeOfStored'
    BY <1>1, <1>3, <1>5 DEF DataInv, MadeOfStored, Stored, Id
  <1>7. DeletedIsResolved'
    BY <1>1, <1>3 DEF DataInv, DeletedIsResolved, Stored
  <1>8. FiniteRows'
    <2> DEFINE S == {c \in Id : Stored(bookings[c])}
    <2>1. IsFiniteSet(S \cup {b})
      BY <1>1, FS_AddElement DEF DataInv, FiniteRows
    <2>2. {c \in Id : Stored(bookings'[c])} \subseteq S \cup {b}
      BY <1>3 DEF Stored
    <2>3. IsFiniteSet({c \in Id : Stored(bookings'[c])})
      BY <2>1, <2>2, FS_Subset
    <2> QED
      BY <2>3 DEF FiniteRows, Stored
  <1>9. \A g \in Handler \ {h} : CheckInv(g)'
    BY <1>1, <1>2, <1>3, <1>4, <1>5, OthersKeep DEF Stored
  <1>10. CheckInv(h)'
    BY <1>2 DEF CheckInv
  <1> QED
    BY <1>2, <1>5, <1>6, <1>7, <1>8, <1>9, <1>10, Together DEF DataInv

LEMMA FreshIsBooking ==
  ASSUME NEW slot \in Slot
  PROVE  /\ Fresh(slot) \in Booking /\ Fresh(slot).deleted = FALSE
         /\ Fresh(slot).status = "pending" /\ Fresh(slot).slot = slot
  BY DEF Fresh, Booking, Status

LEMMA PatchedIsBooking ==
  ASSUME NEW row \in Booking, NEW r \in Request, r.op = "change"
  PROVE  /\ Patched(row, r) \in Booking /\ Patched(row, r).deleted = row.deleted
  <1>1. /\ row.slot \in Slot /\ row.status \in Status /\ row.deleted \in BOOLEAN
    BY DEF Booking
  <1>2. row.slot.service \in Service /\ row.slot.day \in Day /\ row.slot.time \in Interval
    BY <1>1 DEF Slot
  <1>3. /\ (IF r.day = None THEN row.slot.day ELSE r.day) \in Day
        /\ (IF r.time = None THEN row.slot.time ELSE r.time) \in Interval
        /\ (IF r.to = None THEN row.status ELSE r.to) \in Status
    BY <1>1, <1>2, RequestData
  <1> QED
    BY <1>1, <1>2, <1>3 DEF Patched, Booking, Slot

LEMMA HiddenRows ==
  /\ \A row \in Booking : /\ Hidden(row) \in Booking /\ Hidden(row).deleted = TRUE
                          /\ Hidden(row).status = row.status
  /\ \A row \in Submission : /\ Hidden(row) \in Submission /\ Hidden(row).slot = row.slot
                             /\ Hidden(row).deleted = TRUE
  BY DEF Hidden, Booking, Submission

LEMMA InsertBookingStep ==
  ASSUME BookingsInv, NEW h \in Handler, InsertBooking(h)
  PROVE  BookingsInv'
  <1>1. pc[h] \notin Free /\ pc[h] = "insertBooking" /\ Finish(h)
        /\ UNCHANGED <<siteDeleted, published, windows, submissions>>
    BY DEF InsertBooking, Free
  <1>2. PICK b \in BookingId : bookings' = [bookings EXCEPT ![b] = Fresh(req[h].slot)]
    BY DEF InsertBooking
  <1>3. b \in Id /\ b \notin SubId
    BY NoneAssumption DEF Id
  <1>4. req[h].slot \in Slot
    BY <1>1, HolderFacts, RequestData DEF RequestAt
  <1>5. Fresh(req[h].slot) \in Booking /\ ~Fresh(req[h].slot).deleted
    BY <1>4, FreshIsBooking
  <1> QED
    BY <1>1, <1>2, <1>3, <1>5, BookingWrite

LEMMA WriteBookingStep ==
  ASSUME BookingsInv, NEW h \in Handler, WriteBooking(h)
  PROVE  BookingsInv'
  <1> DEFINE b == req[h].id
             row == Patched(bookings[b], req[h])
  <1>1. pc[h] \notin Free /\ pc[h] = "writeBooking" /\ Finish(h)
        /\ UNCHANGED <<siteDeleted, published, windows, submissions>>
        /\ bookings' = [bookings EXCEPT ![b] = row]
    BY DEF WriteBooking, Free
  <1>2. /\ req[h] \in Request /\ req[h].op = "change" /\ b \in Id /\ DataInv
        /\ Stored(bookings[b]) /\ ~bookings[b].deleted
    BY <1>1, HolderFacts, RequestData DEF RequestAt, Known, CheckedFor, ChangeAllowed
  <1>3. bookings[b] \in Booking
    BY <1>2 DEF DataInv, DataType, Stored
  <1>4. row \in Booking /\ ~row.deleted
    BY <1>2, <1>3, PatchedIsBooking
  <1>5. b \in SubId => Stored(submissions[b])
    BY <1>2 DEF DataInv, MadeOfStored
  <1> QED
    BY <1>1, <1>2, <1>4, <1>5, BookingWrite

LEMMA HideBookingStep ==
  ASSUME BookingsInv, NEW h \in Handler, HideBooking(h)
  PROVE  BookingsInv'
  <1> DEFINE b == req[h].id
             row == Hidden(bookings[b])
  <1>1. pc[h] \notin Free /\ pc[h] = "hideBooking" /\ Finish(h)
        /\ UNCHANGED <<siteDeleted, published, windows, submissions>>
        /\ bookings' = [bookings EXCEPT ![b] = row]
    BY DEF HideBooking, Free
  <1>2. /\ b \in Id /\ DataInv /\ Stored(bookings[b])
        /\ bookings[b].status \in {"pending", "cancelled"}
    BY <1>1, HolderFacts, RequestData DEF RequestAt, Known, CheckedFor, Droppable
  <1>3. bookings[b] \in Booking
    BY <1>2 DEF DataInv, DataType, Stored
  <1>4. row \in Booking /\ row.status \in {"pending", "cancelled"}
    BY <1>2, <1>3, HiddenRows
  <1>5. b \in SubId => Stored(submissions[b])
    BY <1>2 DEF DataInv, MadeOfStored
  <1> QED
    BY <1>1, <1>2, <1>4, <1>5, BookingWrite

LEMMA InsertConvertedStep ==
  ASSUME BookingsInv, NEW h \in Handler, InsertConverted(h)
  PROVE  BookingsInv'
  <1> DEFINE b == req[h].sub
             row == Fresh(submissions[b].slot)
  <1>1. pc[h] \notin Free /\ pc[h] = "insertConverted" /\ Finish(h)
        /\ UNCHANGED <<siteDeleted, published, windows, submissions>>
        /\ bookings' = [bookings EXCEPT ![b] = row]
    BY DEF InsertConverted, Free
  <1>2. b \in Id /\ b \in SubId /\ DataInv /\ Stored(submissions[b])
    BY <1>1, HolderFacts, RequestData DEF RequestAt, CheckedFor
  <1>3. submissions[b].slot \in Slot
    BY <1>2 DEF DataInv, DataType, Stored, Submission
  <1>4. row \in Booking /\ ~row.deleted
    BY <1>3, FreshIsBooking
  <1> QED
    BY <1>1, <1>2, <1>4, BookingWrite

\* The row of a submission.
LEMMA SubmissionWrite ==
  ASSUME BookingsInv, NEW h \in Handler, pc[h] \notin Free, Control', Apart(h), CheckInv(h)',
         UNCHANGED <<siteDeleted, published, windows, bookings>>,
         NEW s \in SubId, NEW row \in Submission,
         submissions' = [submissions EXCEPT ![s] = row]
  PROVE  BookingsInv'
  <1>1. Control /\ DataInv /\ siteLock = h
    BY HolderFacts
  <1>2. /\ submissions' \in [SubId -> Submission \cup {None}] /\ submissions'[s] = row
        /\ \A t \in SubId \ {s} : submissions'[t] = submissions[t]
    BY <1>1 DEF DataInv, DataType
  <1>3. row # None
    BY NoneAssumption
  <1>4. DataInv'
    BY <1>1, <1>2, <1>3
       DEF DataInv, DataType, MadeOfStored, DeletedIsResolved, FiniteRows, Stored
  <1>5. \A g \in Handler \ {h} : CheckInv(g)'
    BY <1>1, <1>2, <1>3, OthersKeep DEF Stored
  <1> QED
    BY <1>4, <1>5, Together

LEMMA InsertSubmissionStep ==
  ASSUME BookingsInv, NEW h \in Handler, InsertSubmission(h)
  PROVE  BookingsInv'
  <1>1. pc[h] \notin Free /\ pc[h] = "insertSubmission"
    BY DEF InsertSubmission, Free
  <1>2. PICK r \in Request :
          /\ r = req[h] /\ r.op = "submit" /\ r.sub \in SubId /\ r.slot \in Slot
          /\ Fits(r.slot, None) /\ ~Stored(submissions[r.sub])
    BY <1>1, HolderFacts, RequestData DEF RequestAt, CheckedFor
  <1> DEFINE s == r.sub
             row == [slot |-> r.slot, deleted |-> FALSE]
  <1>3. /\ submissions' = [submissions EXCEPT ![s] = row] /\ Goto(h, "convert")
        /\ siteDeleted' = siteDeleted /\ published' = published /\ windows' = windows
        /\ bookings' = bookings /\ siteLock' = siteLock /\ req' = req
    BY <1>2 DEF InsertSubmission
  <1>4. row \in Submission /\ row.slot = r.slot
    BY <1>2 DEF Submission
  <1>5. Control /\ DataInv
    BY InvParts
  <1>6. Control' /\ Apart(h) /\ pc'[h] = "convert"
    BY <1>1, <1>2, <1>3, <1>5, GotoControl DEF Labels, Free, RequestAt
  <1> HIDE DEF row
  <1>7. submissions'[s] = row /\ row # None
    BY <1>2, <1>3, <1>4, <1>5, NoneAssumption DEF DataInv, DataType
  <1>8. CheckInv(h)'
    <2>1. ~Stored(bookings[s])
      BY <1>2, <1>5 DEF DataInv, MadeOfStored
    <2>2. Fits(r.slot, None)'
      BY <1>2, <1>3, SameFits
    <2>3. Convertible(s)'
      BY <1>3, <1>4, <1>7, <2>1, <2>2 DEF Convertible, Stored
    <2>4. Known(r)' /\ CheckedFor(r, "convert")'
      BY <1>2, <1>7, <2>3 DEF Known, CheckedFor, Stored
    <2> QED
      BY <1>2, <1>3, <1>6, <2>4 DEF CheckInv
  <1> QED
    BY <1>1, <1>2, <1>3, <1>4, <1>6, <1>8, SubmissionWrite

LEMMA HideSubmissionStep ==
  ASSUME BookingsInv, NEW h \in Handler, HideSubmission(h)
  PROVE  BookingsInv'
  <1> DEFINE s == req[h].sub
             row == Hidden(submissions[s])
  <1>1. /\ pc[h] \notin Free /\ pc[h] = "hideSubmission" /\ Finish(h)
        /\ UNCHANGED <<siteDeleted, published, windows, bookings>>
        /\ submissions' = [submissions EXCEPT ![s] = row]
    BY DEF HideSubmission, Free
  <1>2. s \in SubId /\ DataInv /\ Stored(submissions[s]) /\ Control
    BY <1>1, HolderFacts, RequestData DEF RequestAt, Known
  <1>3. submissions[s] \in Submission
    BY <1>2 DEF DataInv, DataType, Stored
  <1>4. row \in Submission
    BY <1>3, HiddenRows
  <1>5. Control' /\ Apart(h) /\ pc'[h] = "idle"
    BY <1>1, <1>2, FinishControl
  <1> QED
    BY <1>1, <1>2, <1>4, <1>5, SubmissionWrite DEF CheckInv

\* The hours and the services.
LEMMA OfferStep ==
  ASSUME BookingsInv, NEW h \in Handler, WriteWindow(h) \/ WriteService(h)
  PROVE  BookingsInv'
  <1>1. /\ pc[h] \notin Free /\ Finish(h) /\ siteDeleted' = siteDeleted
        /\ bookings' = bookings /\ submissions' = submissions
    BY DEF WriteWindow, WriteService, Free
  <1>2. /\ Control /\ DataInv /\ siteLock = h /\ req[h] \in Request
        /\ RequestAt(req[h], pc[h])
    BY <1>1, HolderFacts
  <1>3. windows' \in [WindowId -> Window \cup {None}] /\ published' \subseteq Service
    <2>1. CASE WriteWindow(h)
      BY <1>2, <2>1, RequestData DEF WriteWindow, RequestAt, DataInv, DataType
    <2>2. CASE WriteService(h)
      BY <1>2, <2>2, RequestData DEF WriteService, RequestAt, DataInv, DataType
    <2> QED
      BY <2>1, <2>2
  <1>4. DataInv'
    BY <1>1, <1>2, <1>3
       DEF DataInv, DataType, MadeOfStored, DeletedIsResolved, FiniteRows, Stored
  <1>5. Control' /\ Apart(h) /\ pc'[h] = "idle"
    BY <1>1, <1>2, FinishControl
  <1>6. \A g \in Handler \ {h} : CheckInv(g)'
    BY <1>1, <1>2, <1>5, OthersKeep
  <1> QED
    BY <1>4, <1>5, <1>6, Together DEF CheckInv

LEMMA StepInv ==
  ASSUME BookingsInv, [Next]_vars
  PROVE  BookingsInv'
  <1>1. CASE UNCHANGED vars
    <2>1. /\ rows' = rows /\ siteDeleted' = siteDeleted /\ siteLock' = siteLock /\ pc' = pc
          /\ req' = req
      BY <1>1 DEF vars
    <2>2. DataInv'
      BY <2>1, InvParts, SameData DEF DataInv, DataType
    <2>3. Control'
      BY <2>1, InvParts DEF Control, LockInv, RequestFits
    <2>4. \A h \in Handler : CheckInv(h)'
      BY <2>1, InvParts, SameRows DEF CheckInv
    <2> QED
      BY <2>2, <2>3, <2>4, Together
  <1>2. CASE DeleteSite
    <2>1. /\ rows' = rows /\ siteDeleted' \in BOOLEAN /\ siteLock' = siteLock /\ pc' = pc
          /\ req' = req
      BY <1>2 DEF DeleteSite, rows
    <2>2. DataInv'
      BY <2>1, InvParts, SameData
    <2>3. Control'
      BY <2>1, InvParts DEF Control, LockInv, RequestFits
    <2>4. \A h \in Handler : CheckInv(h)'
      BY <2>1, InvParts, SameRows DEF CheckInv
    <2> QED
      BY <2>2, <2>3, <2>4, Together
  <1>3. ASSUME NEW h \in Handler, Write(h)
        PROVE  BookingsInv'
    BY <1>3, InsertBookingStep, WriteBookingStep, HideBookingStep, InsertSubmissionStep,
       InsertConvertedStep, HideSubmissionStep, OfferStep DEF Write
  <1> QED
    BY <1>1, <1>2, <1>3, BeginStep, EnterStep, ReadStep, RejectStep DEF Next, Step, Abort

LEMMA InitInv ==
  ASSUME Init
  PROVE  BookingsInv
  <1>1. DataInv
    <2>1. {b \in Id : Stored(bookings[b])} = {}
      BY DEF Init, Stored
    <2>2. FiniteRows
      BY <2>1, FS_EmptySet DEF FiniteRows
    <2>3. MadeOfStored /\ DeletedIsResolved
      BY DEF Init, MadeOfStored, DeletedIsResolved, Stored, Id
    <2> QED
      BY <2>2, <2>3 DEF Init, DataInv, DataType
  <1>2. Control
    BY NoneAssumption DEF Init, Control, LockInv, RequestFits, Labels, Free
  <1>3. \A h \in Handler : CheckInv(h)
    BY DEF Init, CheckInv
  <1> QED
    BY <1>1, <1>2, <1>3, InvParts

\* The invariant of bookings.  Of any number of requests only the one that
\* holds the lock of the site is past its checks, and what it has checked is
\* still so: the slot fits, the change is allowed, the booking may be deleted,
\* the submission is there and can be converted.
THEOREM BookingsInvariance == Spec => []BookingsInv
  <1>1. Init => BookingsInv
    BY InitInv
  <1>2. BookingsInv /\ [Next]_vars => BookingsInv'
    BY StepInv
  <1> QED
    BY <1>1, <1>2, PTL DEF Spec

\* submit and convert_submission: what was checked before a submission was
\* stored still holds when it is converted.
THEOREM StoredConverts == Spec => []StoredIsConvertible
  <1>1. BookingsInv => StoredIsConvertible
    BY DEF BookingsInv, CheckInv, CheckedFor, StoredIsConvertible
  <1> QED
    BY <1>1, BookingsInvariance, PTL

\* delete_booking: only a booking that was pending or cancelled is deleted,
\* whatever is confirmed while the deletion is under way.
THEOREM DeletedResolved == Spec => []DeletedIsResolved
  <1>1. BookingsInv => DeletedIsResolved
    BY DEF BookingsInv
  <1> QED
    BY <1>1, BookingsInvariance, PTL

-----------------------------------------------------------------------------
(* The sweep finds the busiest minute.                                     *)

Times == {i \in [from : Nat, to : Nat] : i.from < i.to}

\* The bookings that matter, and their two events.
Near(w, F) == {o \in DOMAIN F : Overlaps(F[o], w)}
StartOf(w, F, o) == <<Later(w.from, F[o].from), 1, o>>
EndOf(w, F, o) == <<Earlier(w.to, F[o].to), -1, o>>

EventType(F) == Int \X Int \X DOMAIN F

LEMMA EventTimes ==
  ASSUME NEW w \in Times, NEW S, NEW F \in [S -> Times], NEW o \in Near(w, F)
  PROVE  /\ StartOf(w, F, o) \in EventType(F) /\ EndOf(w, F, o) \in EventType(F)
         /\ StartOf(w, F, o)[2] = 1 /\ EndOf(w, F, o)[2] = -1
         /\ StartOf(w, F, o)[3] = o /\ EndOf(w, F, o)[3] = o
         /\ StartOf(w, F, o)[1] \in w.from .. (w.to - 1)
         /\ StartOf(w, F, o)[1] < EndOf(w, F, o)[1]
         /\ \A m \in w.from .. (w.to - 1) :
              /\ StartOf(w, F, o)[1] <= m <=> F[o].from <= m
              /\ EndOf(w, F, o)[1] <= m <=> F[o].to <= m
  <1>1. /\ w.from \in Nat /\ w.to \in Nat /\ w.from < w.to /\ o \in S /\ o \in DOMAIN F
        /\ F[o].from \in Nat /\ F[o].to \in Nat /\ F[o].from < F[o].to
        /\ F[o].from < w.to /\ F[o].to > w.from
    BY DEF Times, Near, Overlaps
  <1> QED
    BY <1>1 DEF StartOf, EndOf, EventType, Later, Earlier

LEMMA EventParts ==
  ASSUME NEW w \in Times, NEW S, IsFiniteSet(S), NEW F \in [S -> Times]
  PROVE  /\ Events(w, F) \in SUBSET EventType(F) /\ IsFiniteSet(Events(w, F))
         /\ \A e \in Events(w, F) : \E o \in Near(w, F) : e \in {StartOf(w, F, o), EndOf(w, F, o)}
         /\ \A o \in Near(w, F) : StartOf(w, F, o) \in Events(w, F) /\ EndOf(w, F, o) \in Events(w, F)
  <1> DEFINE N == Near(w, F)
             Starts == {StartOf(w, F, o) : o \in N}
             Ends == {EndOf(w, F, o) : o \in N}
  <1>1. Events(w, F) = Starts \cup Ends
    BY DEF Events, Near, StartOf, EndOf
  <1>2. IsFiniteSet(N)
    <2>1. N \in SUBSET S
      BY DEF Near
    <2> QED
      BY <2>1, FS_Subset
  <1>3. IsFiniteSet(Starts)
    <2> DEFINE f == [o \in N |-> StartOf(w, F, o)]
    <2>1. f \in Surjection(N, Starts)
      BY DEF Surjection
    <2> HIDE DEF N, Starts, f
    <2> QED
      BY <1>2, <2>1, FS_Surjection
  <1>4. IsFiniteSet(Ends)
    <2> DEFINE f == [o \in N |-> EndOf(w, F, o)]
    <2>1. f \in Surjection(N, Ends)
      BY DEF Surjection
    <2> HIDE DEF N, Ends, f
    <2> QED
      BY <1>2, <2>1, FS_Surjection
  <1>5. IsFiniteSet(Starts \cup Ends)
    BY <1>3, <1>4, FS_Union
  <1>6. \A e \in Starts \cup Ends : e \in EventType(F)
    BY EventTimes
  <1> QED
    BY <1>1, <1>5, <1>6

LEMMA LatestIsLast ==
  ASSUME NEW D, NEW E \in SUBSET (Int \X Int \X D), IsFiniteSet(E), NEW s \in SUBSET E, s # {}
  PROVE  Latest(s) \in s /\ \A f \in s : ~Before(Latest(s), f)
  <1> DEFINE Last(t, e) == e \in t /\ \A f \in t : ~Before(e, f)
             Good == {t \in SUBSET E : t # {} => \E e \in t : Last(t, e)}
  <1>1. \A e \in E : e[1] \in Int /\ e[2] \in Int
    OBVIOUS
  <1>2. ASSUME NEW t \in SUBSET E, \A u \in SUBSET t : u # t => u \in Good
        PROVE  t \in Good
    <2> SUFFICES ASSUME t # {} PROVE \E e \in t : Last(t, e)
      OBVIOUS
    <2>1. PICK x \in t : TRUE
      OBVIOUS
    <2>2. CASE t = {x}
      BY <1>1, <2>1, <2>2 DEF Before
    <2>3. CASE t # {x}
      <3>1. t \ {x} \in SUBSET t /\ t \ {x} # t /\ t \ {x} # {}
        BY <2>1, <2>3
      <3>2. PICK e \in t \ {x} : Last(t \ {x}, e)
        BY <1>2, <3>1
      <3>3. CASE Before(e, x)
        <4>1. ASSUME NEW f \in t PROVE ~Before(x, f)
          <5>1. f = x \/ ~Before(e, f)
            BY <3>2
          <5>2. e \in E /\ x \in E /\ f \in E
            OBVIOUS
          <5> QED
            BY <1>1, <3>3, <5>1, <5>2 DEF Before
        <4> QED
          BY <4>1, <2>1
      <3>4. CASE ~Before(e, x)
        BY <3>2, <3>4
      <3> QED
        BY <3>3, <3>4
    <2> QED
      BY <2>2, <2>3
  <1>3. SUBSET E \subseteq Good
    <2> HIDE DEF Good
    <2> QED
      BY <1>2, SubsetInduction
  <1>4. \E e \in s : \A f \in s : ~Before(e, f)
    BY <1>3
  <1> QED
    BY <1>4 DEF Latest

\* The runs of the loop over the events of a set, for every set of events.
Runs(E, h) ==
  /\ h \in [SUBSET E -> [now : Int, high : Int]]
  /\ h[{}] = [now |-> 0, high |-> 0]
  /\ \A s \in SUBSET E : s # {} => h[s] = Turn(Latest(s), h[s \ {Latest(s)}])

LEMMA PeakRuns ==
  ASSUME NEW w \in Times, NEW S, IsFiniteSet(S), NEW F \in [S -> Times]
  PROVE  \E h : Runs(Events(w, F), h) /\ Peak(w, F) = h[Events(w, F)].high
  <1> DEFINE E == Events(w, F)
             V == [now : Int, high : Int]
             base == [now |-> 0, high |-> 0]
             op == [p \in E \X V |-> Turn(p[1], p[2])]
             pick == [s \in SUBSET E |-> Latest(s)]
             Loop(g) == g = [s \in SUBSET E |->
                               IF s = {} THEN base ELSE Turn(Latest(s), g[s \ {Latest(s)}])]
             h == CHOOSE g : Loop(g)
  <1>1. E \in SUBSET (Int \X Int \X DOMAIN F) /\ IsFiniteSet(E)
    BY EventParts DEF EventType
  <1>2. \A s \in SUBSET E : s # {} => Latest(s) \in s
    BY <1>1, LatestIsLast
  <1>3. \A s \in SUBSET E : s # {} => pick[s] = Latest(s) /\ pick[s] \in s
    BY <1>2
  <1>4. ASSUME NEW e \in E, NEW r \in V
        PROVE  Turn(e, r) \in V
    <2>1. e[2] \in Int /\ r.now \in Int /\ r.high \in Int
      BY <1>1
    <2> QED
      BY <2>1 DEF Turn, Later
  <1>5. op \in [E \X V -> V] /\ base \in V
    BY <1>4
  <1>6. \A e \in E, r \in V : op[<<e, r>>] = Turn(e, r)
    OBVIOUS
  <1>7. \E g : Loop(g)
    <2>1. PICK g \in [SUBSET E -> V] : FoldOf(g, E, pick, base, op)
      <3> HIDE DEF op, pick, base, V, E
      <3> QED
        BY <1>1, <1>3, <1>5, FoldExists
    <2>2. ASSUME NEW s \in SUBSET E, s # {}
          PROVE  op[<<pick[s], g[s \ {pick[s]}]>>] = Turn(Latest(s), g[s \ {Latest(s)}])
      <3>1. pick[s] = Latest(s) /\ Latest(s) \in E /\ g[s \ {Latest(s)}] \in V
        BY <1>2, <1>3, <2>1, <2>2
      <3> HIDE DEF op, pick
      <3> QED
        BY <1>6, <3>1
    <2> HIDE DEF op, pick, base
    <2>3. Loop(g)
      BY <2>1, <2>2 DEF FoldOf
    <2> QED
      BY <2>3
  <1>8. h = [s \in SUBSET E |-> IF s = {} THEN base ELSE Turn(Latest(s), h[s \ {Latest(s)}])]
    BY <1>7
  <1>9. Peak(w, F) = h[E].high
    BY DEF Peak, MapThenFoldSet
  <1> HIDE DEF h
  <1>10. \A s \in SUBSET E : h[s] \in V
    <2> DEFINE Good == {s \in SUBSET E : h[s] \in V}
    <2>1. ASSUME NEW s \in SUBSET E, \A t \in SUBSET s : t # s => t \in Good
          PROVE  s \in Good
      <3>1. CASE s = {}
        BY <1>8, <1>5, <3>1
      <3>2. CASE s # {}
        <4>1. h[s] = Turn(Latest(s), h[s \ {Latest(s)}]) /\ Latest(s) \in s
          BY <1>2, <1>8, <3>2
        <4>2. h[s \ {Latest(s)}] \in V
          BY <2>1, <4>1
        <4> QED
          BY <1>4, <4>1, <4>2
      <3> QED
        BY <3>1, <3>2
    <2>2. SUBSET E \subseteq Good
      <3> HIDE DEF Good
      <3> QED
        BY <1>1, <2>1, SubsetInduction
    <2> QED
      BY <2>2
  <1>11. /\ h \in [SUBSET E -> V] /\ h[{}] = base
         /\ \A s \in SUBSET E : s # {} => h[s] = Turn(Latest(s), h[s \ {Latest(s)}])
    <2> HIDE DEF V, base, E
    <2> QED
      BY <1>8, <1>10
  <1> QED
    BY <1>9, <1>11 DEF Runs

\* The bookings that have begun and not ended with the events of a set.
Open(w, F, s) == {o \in Near(w, F) : StartOf(w, F, o) \in s /\ EndOf(w, F, o) \notin s}

\* The events up to a minute, and any set of first events.
UpTo(w, F, m) == {e \in Events(w, F) : e[1] <= m}
First(E, s) == \A e \in s, f \in E \ s : ~Before(f, e)

LEMMA OpenUpTo ==
  ASSUME NEW w \in Times, NEW S, IsFiniteSet(S), NEW F \in [S -> Times],
         NEW m \in w.from .. (w.to - 1)
  PROVE  Occupied(m, F) = Open(w, F, UpTo(w, F, m))
  <1>1. /\ w.from \in Nat /\ w.to \in Nat /\ m \in Nat /\ DOMAIN F = S
        /\ w.from <= m /\ m < w.to
    BY DEF Times
  <1>2. ASSUME NEW o \in S, F[o].from <= m, m < F[o].to
        PROVE  o \in Near(w, F)
    <2>1. F[o].from \in Nat /\ F[o].to \in Nat
      BY DEF Times
    <2> QED
      BY <1>1, <1>2, <2>1 DEF Near, Overlaps
  <1>3. ASSUME NEW o \in Near(w, F)
        PROVE  o \in Open(w, F, UpTo(w, F, m)) <=> F[o].from <= m /\ m < F[o].to
    <2>1. /\ StartOf(w, F, o) \in Events(w, F) /\ EndOf(w, F, o) \in Events(w, F)
          /\ StartOf(w, F, o)[1] <= m <=> F[o].from <= m
          /\ EndOf(w, F, o)[1] <= m <=> F[o].to <= m
      BY EventParts, EventTimes
    <2>2. o \in S /\ F[o].to \in Nat
      BY <1>1 DEF Near, Times
    <2> QED
      BY <1>1, <2>1, <2>2 DEF Open, UpTo
  <1>4. Near(w, F) \subseteq S /\ Open(w, F, UpTo(w, F, m)) \subseteq Near(w, F)
    BY <1>1 DEF Near, Open
  <1> QED
    BY <1>1, <1>2, <1>3, <1>4 DEF Occupied

\* The last event e of s opens or closes a booking.
Opens(w, F, s, e) ==
  \/ \E o \in Near(w, F) : /\ e = StartOf(w, F, o) /\ o \notin Open(w, F, s \ {e})
                           /\ Open(w, F, s) = Open(w, F, s \ {e}) \cup {o}
  \/ \E o \in Near(w, F) : /\ e = EndOf(w, F, o) /\ o \in Open(w, F, s \ {e})
                           /\ Open(w, F, s) = Open(w, F, s \ {e}) \ {o}

\* The loop without its last turn.
LEMMA LastTurn ==
  ASSUME NEW w \in Times, NEW S, IsFiniteSet(S), NEW F \in [S -> Times],
         NEW s \in SUBSET Events(w, F), s # {}, First(Events(w, F), s)
  PROVE  /\ Latest(s) \in s /\ First(Events(w, F), s \ {Latest(s)})
         /\ Opens(w, F, s, Latest(s))
  <1> DEFINE E == Events(w, F)
             N == Near(w, F)
             e == Latest(s)
             t == s \ {e}
  <1>1. e \in s /\ \A f \in s : ~Before(e, f)
    BY EventParts, LatestIsLast DEF EventType
  <1>2. First(E, t)
    BY <1>1 DEF First
  <1>3. \A o \in N : /\ StartOf(w, F, o) \in E /\ EndOf(w, F, o) \in E
                     /\ StartOf(w, F, o)[2] = 1 /\ EndOf(w, F, o)[2] = -1
                     /\ StartOf(w, F, o)[3] = o /\ EndOf(w, F, o)[3] = o
                     /\ Before(StartOf(w, F, o), EndOf(w, F, o))
    BY EventParts, EventTimes DEF Before
  <1>4. PICK o \in N : e = StartOf(w, F, o) \/ e = EndOf(w, F, o)
    BY <1>1, EventParts
  <1> HIDE DEF e, E, N
  <1>5. CASE e = StartOf(w, F, o)
    <2>1. EndOf(w, F, o) \notin s
      BY <1>1, <1>3, <1>5
    <2>2. o \notin Open(w, F, t) /\ o \in Open(w, F, s)
      BY <1>1, <1>5, <2>1 DEF Open, N
    <2>3. \A p \in N \ {o} : /\ StartOf(w, F, p) \in s <=> StartOf(w, F, p) \in t
                             /\ EndOf(w, F, p) \in s <=> EndOf(w, F, p) \in t
      BY <1>3, <1>5
    <2>4. Open(w, F, s) = Open(w, F, t) \cup {o}
      BY <2>2, <2>3 DEF Open, N
    <2> QED
      BY <1>1, <1>2, <1>5, <2>2, <2>4 DEF Opens, e, E, N
  <1>6. CASE e = EndOf(w, F, o)
    <2>1. StartOf(w, F, o) \in s /\ StartOf(w, F, o) # e
      BY <1>1, <1>3, <1>6 DEF First, E
    <2>2. o \in Open(w, F, t) /\ o \notin Open(w, F, s)
      BY <1>1, <1>6, <2>1 DEF Open, N
    <2>3. \A p \in N \ {o} : /\ StartOf(w, F, p) \in s <=> StartOf(w, F, p) \in t
                             /\ EndOf(w, F, p) \in s <=> EndOf(w, F, p) \in t
      BY <1>3, <1>6
    <2>4. Open(w, F, s) = Open(w, F, t) \ {o}
      BY <2>2, <2>3 DEF Open, N
    <2> QED
      BY <1>1, <1>2, <1>6, <2>2, <2>4 DEF Opens, e, E, N
  <1> QED
    BY <1>4, <1>5, <1>6

\* What the loop has counted after the events of a set.
Counted(w, F, s, run) ==
  LET M == w.from .. (w.to - 1) IN
  /\ run.now = Cardinality(Open(w, F, s)) /\ run.now <= run.high
  /\ \A m \in M : UpTo(w, F, m) \subseteq s => Cardinality(Occupied(m, F)) <= run.high
  /\ \E m \in M : run.high <= Cardinality(Occupied(m, F))

LEMMA FiniteOccupied ==
  ASSUME NEW w \in Times, NEW S, IsFiniteSet(S), NEW F \in [S -> Times]
  PROVE  /\ \A m : IsFiniteSet(Occupied(m, F)) /\ Cardinality(Occupied(m, F)) \in Nat
         /\ \A s : IsFiniteSet(Open(w, F, s)) /\ Cardinality(Open(w, F, s)) \in Nat
  <1>1. \A m : Occupied(m, F) \in SUBSET S
    BY DEF Occupied
  <1>2. \A s : Open(w, F, s) \in SUBSET S
    BY DEF Open, Near
  <1> QED
    BY <1>1, <1>2, FS_Subset, FS_CardinalityType

LEMMA EmptyCounted ==
  ASSUME NEW w \in Times, NEW S, IsFiniteSet(S), NEW F \in [S -> Times]
  PROVE  Counted(w, F, {}, [now |-> 0, high |-> 0])
  <1>1. Open(w, F, {}) = {} /\ Cardinality({}) = 0
    BY FS_EmptySet DEF Open
  <1>2. ASSUME NEW m \in w.from .. (w.to - 1), UpTo(w, F, m) \subseteq {}
        PROVE  Cardinality(Occupied(m, F)) <= 0
    <2>1. UpTo(w, F, m) = {}
      BY <1>2
    <2>2. Occupied(m, F) = {}
      BY <1>1, <2>1, OpenUpTo
    <2> QED
      BY <1>1, <2>2
  <1>3. w.from \in w.from .. (w.to - 1)
    BY DEF Times
  <1>4. 0 <= Cardinality(Occupied(w.from, F))
    BY FiniteOccupied
  <1> QED
    BY <1>1, <1>2, <1>3, <1>4 DEF Counted

\* One more event of the sorted list.
LEMMA TurnCounted ==
  ASSUME NEW w \in Times, NEW S, IsFiniteSet(S), NEW F \in [S -> Times],
         NEW s \in SUBSET Events(w, F), s # {}, First(Events(w, F), s),
         NEW run \in [now : Int, high : Int],
         Counted(w, F, s \ {Latest(s)}, run)
  PROVE  Counted(w, F, s, Turn(Latest(s), run))
  <1> DEFINE E == Events(w, F)
             N == Near(w, F)
             M == w.from .. (w.to - 1)
             e == Latest(s)
             t == s \ {e}
             next == Turn(e, run)
  <1>1. /\ run.now = Cardinality(Open(w, F, t)) /\ run.now <= run.high
        /\ \A m \in M : UpTo(w, F, m) \subseteq t => Cardinality(Occupied(m, F)) <= run.high
        /\ run.now \in Int /\ run.high \in Int
    BY DEF Counted
  <1>2. PICK m0 \in M : run.high <= Cardinality(Occupied(m0, F))
    BY DEF Counted
  <1>3. e \in s /\ \A f \in s : ~Before(e, f)
    BY EventParts, LatestIsLast DEF EventType
  <1>4. \A f \in E : f[1] \in Int /\ f[2] \in Int
    BY EventParts DEF EventType
  <1>5. /\ next.now = run.now + e[2]
        /\ next.high = Later(run.high, run.now + e[2])
    BY DEF Turn
  <1>6. \/ \E o \in N : /\ e = StartOf(w, F, o) /\ o \notin Open(w, F, t)
                        /\ Open(w, F, s) = Open(w, F, t) \cup {o}
        \/ \E o \in N : /\ e = EndOf(w, F, o) /\ o \in Open(w, F, t)
                        /\ Open(w, F, s) = Open(w, F, t) \ {o}
    <2>1. Opens(w, F, s, e)
      BY LastTurn
    <2> QED
      BY <2>1 DEF Opens
  <1> HIDE DEF e, next
  <1>7. /\ e \in E
        /\ next.now \in Int /\ next.high \in Int
        /\ next.now <= next.high /\ run.high <= next.high
        /\ next.high \in {run.high, next.now}
    BY <1>1, <1>3, <1>4, <1>5 DEF Later
  <1>8. next.now = Cardinality(Open(w, F, s))
    <2>1. ASSUME NEW o \in N, e = StartOf(w, F, o), o \notin Open(w, F, t),
                 Open(w, F, s) = Open(w, F, t) \cup {o}
          PROVE  next.now = Cardinality(Open(w, F, s))
      <3>1. e[2] = 1
        BY <2>1, EventTimes
      <3>2. Cardinality(Open(w, F, s)) = Cardinality(Open(w, F, t)) + 1
        BY <2>1, FiniteOccupied, FS_AddElement
      <3> QED
        BY <1>1, <1>5, <3>1, <3>2
    <2>2. ASSUME NEW o \in N, e = EndOf(w, F, o), o \in Open(w, F, t),
                 Open(w, F, s) = Open(w, F, t) \ {o}
          PROVE  next.now = Cardinality(Open(w, F, s))
      <3>1. e[2] = -1
        BY <2>2, EventTimes
      <3>2. IsFiniteSet(Open(w, F, t))
        BY FiniteOccupied
      <3>3. Cardinality(Open(w, F, t) \ {o}) = Cardinality(Open(w, F, t)) - 1
        BY <2>2, <3>2, FS_RemoveElement
      <3> QED
        BY <1>1, <1>5, <2>2, <3>1, <3>3
    <2> QED
      BY <1>6, <2>1, <2>2
  \* A minute whose events are all counted is counted, at the latest by now.
  <1>9. ASSUME NEW m \in M, UpTo(w, F, m) \subseteq s
        PROVE  Cardinality(Occupied(m, F)) <= next.high
    <2>1. CASE UpTo(w, F, m) \subseteq t
      BY <1>1, <1>7, <2>1, FiniteOccupied
    <2>2. CASE ~(UpTo(w, F, m) \subseteq t)
      <3>1. e \in UpTo(w, F, m)
        BY <1>9, <2>2
      <3>2. e[1] <= m /\ m \in Int
        BY <3>1 DEF UpTo, Times
      <3>3. ASSUME NEW f \in s PROVE f \in UpTo(w, F, m)
        <4>1. ~Before(e, f) /\ f \in E
          BY <1>3
        <4>2. f[1] <= e[1]
          BY <1>4, <1>7, <4>1 DEF Before
        <4>3. f[1] <= m
          BY <1>4, <1>7, <3>2, <4>1, <4>2
        <4> QED
          BY <4>1, <4>3 DEF UpTo
      <3>4. UpTo(w, F, m) = s
        BY <1>9, <3>3
      <3>5. Occupied(m, F) = Open(w, F, s)
        BY <3>4, OpenUpTo
      <3> QED
        BY <1>7, <1>8, <3>5
    <2> QED
      BY <2>1, <2>2
  \* The highest count is that of a minute: a start raises it to that of its own.
  <1>10. \E m \in M : next.high <= Cardinality(Occupied(m, F))
    <2>1. CASE next.high = run.high
      BY <1>2, <2>1
    <2>2. CASE next.high # run.high
      <3>1. next.high = next.now /\ next.now > run.high
        BY <1>1, <1>5, <1>7, <2>2 DEF Later
      <3>2. e[2] > 0
        BY <1>1, <1>4, <1>5, <1>7, <3>1
      <3>3. PICK o \in N : e = StartOf(w, F, o)
        BY <1>6, <3>2, EventTimes
      <3> DEFINE m == e[1]
      <3>4. m \in M
        BY <3>3, EventTimes
      <3>5. Open(w, F, s) \subseteq Occupied(m, F)
        <4> SUFFICES ASSUME NEW p \in Open(w, F, s)
                     PROVE  p \in Open(w, F, UpTo(w, F, m))
          BY <3>4, OpenUpTo
        <4>1. p \in N /\ StartOf(w, F, p) \in s /\ EndOf(w, F, p) \notin s
          BY DEF Open
        <4>2. /\ StartOf(w, F, p) \in E /\ EndOf(w, F, p) \in E
              /\ EndOf(w, F, p)[2] = -1
          BY <4>1, EventParts, EventTimes
        <4>3. StartOf(w, F, p)[1] <= m
          <5>1. ~Before(e, StartOf(w, F, p))
            BY <1>3, <4>1
          <5> QED
            BY <1>4, <1>7, <4>2, <5>1 DEF Before
        <4>4. ~(EndOf(w, F, p)[1] <= m)
          <5>1. ~Before(EndOf(w, F, p), e)
            BY <1>3, <4>1, <4>2 DEF First
          <5> QED
            BY <1>4, <1>7, <3>2, <4>2, <5>1 DEF Before
        <4> QED
          BY <4>1, <4>2, <4>3, <4>4 DEF Open, UpTo
      <3>6. Cardinality(Open(w, F, s)) <= Cardinality(Occupied(m, F))
        BY <3>5, FiniteOccupied, FS_Subset
      <3> QED
        BY <1>8, <3>1, <3>4, <3>6
    <2> QED
      BY <2>1, <2>2
  <1> QED
    BY <1>7, <1>8, <1>9, <1>10 DEF Counted, e, next

\* _booking_slot: whatever bookings it is given, and however they overlap, touch
\* or enclose each other, the peak of the sweep is the busiest minute.
LEMMA PeakIsExact ==
  ASSUME NEW w \in Times, NEW S, IsFiniteSet(S), NEW F \in [S -> Times]
  PROVE  Busiest(Peak(w, F), w, F)
  <1> DEFINE E == Events(w, F)
             M == w.from .. (w.to - 1)
  <1>1. PICK h : Runs(E, h) /\ Peak(w, F) = h[E].high
    BY PeakRuns
  <1>2. /\ h \in [SUBSET E -> [now : Int, high : Int]]
        /\ h[{}] = [now |-> 0, high |-> 0]
        /\ \A s \in SUBSET E : s # {} => h[s] = Turn(Latest(s), h[s \ {Latest(s)}])
    BY <1>1 DEF Runs
  <1> DEFINE Good == {s \in SUBSET E : First(E, s) => Counted(w, F, s, h[s])}
  <1>3. ASSUME NEW s \in SUBSET E, \A t \in SUBSET s : t # s => t \in Good
        PROVE  s \in Good
    <2> SUFFICES ASSUME First(E, s) PROVE Counted(w, F, s, h[s])
      OBVIOUS
    <2>1. CASE s = {}
      BY <1>2, <2>1, EmptyCounted
    <2>2. CASE s # {}
      <3> DEFINE t == s \ {Latest(s)}
      <3>1. Latest(s) \in s /\ First(E, t)
        BY <2>2, LastTurn
      <3>2. t \in SUBSET s /\ t # s /\ t \in SUBSET E
        BY <3>1
      <3>3. Counted(w, F, t, h[t]) /\ h[t] \in [now : Int, high : Int]
        BY <1>2, <1>3, <3>1, <3>2
      <3>4. h[s] = Turn(Latest(s), h[t])
        BY <1>2, <2>2
      <3> HIDE DEF E
      <3> QED
        BY <2>2, <3>3, <3>4, TurnCounted DEF E
    <2> QED
      BY <2>1, <2>2
  <1>4. SUBSET E \subseteq Good
    <2>1. IsFiniteSet(E)
      BY EventParts
    <2> HIDE DEF Good, E
    <2> QED
      BY <1>3, <2>1, SubsetInduction
  <1>5. First(E, E)
    BY DEF First
  <1>6. Counted(w, F, E, h[E])
    BY <1>4, <1>5
  <1>7. \A m \in M : UpTo(w, F, m) \subseteq E
    BY DEF UpTo
  <1>8. \A m \in M : Cardinality(Occupied(m, F)) <= h[E].high
    BY <1>6, <1>7 DEF Counted
  <1>9. PICK m \in M : h[E].high <= Cardinality(Occupied(m, F))
    BY <1>6 DEF Counted
  <1>10. h[E].high \in Int
    BY <1>2
  <1>11. Cardinality(Occupied(m, F)) = h[E].high
    BY <1>8, <1>9, <1>10, FiniteOccupied
  <1> QED
    BY <1>1, <1>8, <1>11 DEF Busiest

LEMMA ListFinite ==
  ASSUME NEW D, NEW l \in Seq(D)
  PROVE  IsFiniteSet(DOMAIN l) /\ l \in [DOMAIN l -> D]
  <1>1. Len(l) \in Nat /\ DOMAIN l = 1 .. Len(l)
    OBVIOUS
  <1>2. IsFiniteSet(1 .. Len(l))
    BY <1>1, FS_Interval
  <1> QED
    BY <1>1, <1>2

\* _booking_slot: for every wanted interval and every list of bookings beside it
\* the sweep computes the number of bookings at the busiest minute.
THEOREM SweepFindsBusiest == SweepSpec => []PeakIsBusiest
  <1> DEFINE Asked == want \in Stretch /\ others \in Seq(Stretch)
  <1>1. SweepInit => Asked
    BY DEF SweepInit
  <1>2. Asked /\ [SweepNext]_<<want, others>> => Asked'
    <2> SUFFICES ASSUME Asked, [SweepNext]_<<want, others>> PROVE Asked'
      OBVIOUS
    <2>1. ASSUME NEW i \in Stretch, Take(i) PROVE Asked'
      BY <2>1 DEF Take
    <2> QED
      BY <2>1 DEF SweepNext
  <1>3. Asked => PeakIsBusiest
    <2> SUFFICES ASSUME Asked PROVE Busiest(Peak(want, others), want, others)
      BY DEF PeakIsBusiest
    <2>1. Stretch \subseteq Times
      BY StretchAssumption DEF Times
    <2>2. want \in Times /\ others \in Seq(Times)
      BY <2>1
    <2>3. IsFiniteSet(DOMAIN others) /\ others \in [DOMAIN others -> Times]
      BY <2>2, ListFinite
    <2> QED
      BY <2>2, <2>3, PeakIsExact
  <1> QED
    BY <1>1, <1>2, <1>3, PTL DEF SweepSpec

-----------------------------------------------------------------------------
(* A booking that was written has its place.                               *)
\* What fits beside the others, without itself, is placed when it is written.
LEMMA FitsPlaces ==
  ASSUME DataType, FiniteRows,
         NEW b \in Id, NEW slot \in Slot, NEW e, e = b \/ (e = None /\ bookings[b] = None),
         Fits(slot, e), published' = published, windows' = windows,
         \A c \in Id \ {b} : bookings'[c] = bookings[c], bookings'[b].slot = slot
  PROVE  Placed(b)'
  <1> DEFINE t == slot.time
             R == Rivals(slot, e)
             F == [c \in R |-> bookings[c].slot.time]
  <1>1. /\ slot.service \in published
        /\ Hours(slot.service) = {} \/ \E w \in Candidates(slot) : HasRoom(slot, e, w)
    BY DEF Fits
  <1>2. Hours(slot.service)' = Hours(slot.service)
    BY DEF Hours, Stored
  <1>3. Candidates(slot)' = Candidates(slot)
    BY <1>2 DEF Candidates
  <1>4. t \in Interval
    BY DEF Slot
  <1>5. R \subseteq Id /\ IsFiniteSet(R)
    <2>1. R \subseteq {c \in Id : Stored(bookings[c])}
      BY DEF Rivals, LiveBooking
    <2> QED
      BY <2>1, FS_Subset DEF FiniteRows
  <1>6. F \in [R -> Interval]
    <2>1. \A c \in R : bookings[c] \in Booking
      BY DEF Rivals, LiveBooking, Stored, DataType
    <2> QED
      BY <2>1 DEF Booking, Slot
  <1>7. Busiest(Peak(t, F), t, F)
    <2>1. Interval \subseteq Times
      BY IntervalAssumption DEF Times
    <2>2. t \in Times /\ F \in [R -> Times]
      BY <1>4, <1>6, <2>1
    <2> HIDE DEF t, F, R
    <2> QED
      BY <1>5, <2>2, PeakIsExact
  <1> DEFINE p == Peak(t, F)
  <1>8. \A m : Occupied(m, F) \subseteq R /\ IsFiniteSet(Occupied(m, F))
    BY <1>5, FS_Subset DEF Occupied
  <1>9. p \in Nat /\ \A m \in t.from .. t.to - 1 : Cardinality(Occupied(m, F)) <= p
    BY <1>7, <1>8, FS_CardinalityType DEF Busiest
  <1>10. ASSUME NEW w \in Candidates(slot), HasRoom(slot, e, w), windows[w].max # 0,
                NEW m \in t.from .. t.to - 1
         PROVE  Cardinality(Guests(slot.service, slot.day, m)') <= windows[w].max
    <2> DEFINE G == Guests(slot.service, slot.day, m)'
               O == Occupied(m, F)
    <2>1. p < windows[w].max
      BY <1>10 DEF HasRoom
    <2>2. windows[w].max \in Nat
      BY IntervalAssumption, <1>10 DEF Candidates, Hours, Stored, DataType, Window
    <2>3. G \subseteq O \cup {b}
      <3>1. ASSUME NEW c \in G, c # b
            PROVE  c \in O
        <4>1. /\ c \in Id /\ bookings'[c] = bookings[c] /\ LiveBooking(c)
              /\ bookings[c].slot.service = slot.service /\ bookings[c].slot.day = slot.day
              /\ bookings[c].slot.time.from <= m /\ m < bookings[c].slot.time.to
          BY <3>1 DEF Guests, LiveBooking, Stored
        <4>2. c # None
          BY <4>1, NoneAssumption DEF Id
        <4>3. c \in R
          BY <3>1, <4>1, <4>2 DEF Rivals
        <4> QED
          BY <4>1, <4>3 DEF Occupied
      <3> QED
        BY <3>1
    <2>4. IsFiniteSet(O) /\ Cardinality(O) \in Nat /\ Cardinality(O) <= p
      BY <1>8, <1>9, FS_CardinalityType
    <2> HIDE DEF O, G, p
    <2>5. IsFiniteSet(O \cup {b}) /\ Cardinality(O \cup {b}) <= p + 1
          /\ Cardinality(O \cup {b}) \in Nat
      <3>1. Cardinality(O \cup {b}) \in {Cardinality(O), Cardinality(O) + 1}
        BY <2>4, FS_AddElement
      <3> QED
        BY <1>9, <2>4, <3>1, FS_AddElement, FS_CardinalityType
    <2>6. Cardinality(G) <= p + 1 /\ Cardinality(G) \in Nat
      <3>1. IsFiniteSet(G) /\ Cardinality(G) <= Cardinality(O \cup {b})
        BY <2>3, <2>5, FS_Subset
      <3>2. Cardinality(G) \in Nat
        BY <3>1, FS_CardinalityType
      <3> QED
        BY <1>9, <2>5, <3>1, <3>2
    <2>7. Cardinality(G) <= windows[w].max
      BY <1>9, <2>1, <2>2, <2>6
    <2> QED
      BY <2>7 DEF G
  <1> QED
    BY <1>1, <1>2, <1>3, <1>10 DEF Placed

LEMMA PlacedStep ==
  ASSUME BookingsInv, [Next]_vars, NEW b \in Id,
         LiveBooking(b)', bookings'[b] # bookings[b]
  PROVE  Placed(b)'
  <1>1. DataType /\ FiniteRows
    BY InvParts DEF DataInv
  <1>2. ASSUME NEW h \in Handler, InsertBooking(h)
        PROVE  Placed(b)'
    <2>1. PICK c \in BookingId :
            bookings[c] = None /\ bookings' = [bookings EXCEPT ![c] = Fresh(req[h].slot)]
      BY <1>2 DEF InsertBooking
    <2>2. c = b
      BY <1>1, <2>1 DEF DataType, Id
    <2>3. /\ req[h].slot \in Slot /\ Fits(req[h].slot, None)
          /\ published' = published /\ windows' = windows
      BY <1>2, HolderFacts, RequestData DEF InsertBooking, Free, RequestAt, CheckedFor
    <2>4. /\ \A d \in Id \ {b} : bookings'[d] = bookings[d]
          /\ bookings'[b] = Fresh(req[h].slot)
      BY <1>1, <2>1, <2>2 DEF DataType
    <2>5. PICK slot \in Slot : slot = req[h].slot
      BY <2>3
    <2>6. bookings'[b].slot = slot
      BY <2>4, <2>5, FreshIsBooking
    <2> QED
      BY <1>1, <2>1, <2>2, <2>3, <2>4, <2>5, <2>6, FitsPlaces
  <1>3. ASSUME NEW h \in Handler, WriteBooking(h)
        PROVE  Placed(b)'
    <2> DEFINE row == Patched(bookings[b], req[h])
    <2>1. /\ DataInv /\ req[h] \in Request /\ req[h].op = "change" /\ req[h].id \in Id
          /\ Stored(bookings[req[h].id]) /\ ChangeAllowed(req[h].id, req[h])
          /\ published' = published /\ windows' = windows
          /\ bookings' = [bookings EXCEPT ![req[h].id] =
                            Patched(bookings[req[h].id], req[h])]
      BY <1>3, HolderFacts, RequestData
         DEF WriteBooking, Free, RequestAt, Known, CheckedFor
    <2>2. req[h].id = b
      BY <1>1, <2>1 DEF DataType
    <2>3. /\ \A d \in Id \ {b} : bookings'[d] = bookings[d]
          /\ bookings'[b] = row
      BY <1>1, <2>1, <2>2 DEF DataType
    <2>4. row \in Booking
      BY <1>1, <2>1, <2>2, PatchedIsBooking DEF DataType, Stored
    <2>5. row.status \in Live
      BY <2>3 DEF LiveBooking
    <2>6. Fits(row.slot, b)
      BY <2>1, <2>2, <2>5 DEF ChangeAllowed
    <2>7. PICK slot \in Slot : slot = row.slot
      BY <2>4 DEF Booking
    <2> QED
      BY <1>1, <2>1, <2>3, <2>6, <2>7, FitsPlaces
  <1>4. ASSUME NEW h \in Handler, InsertConverted(h)
        PROVE  Placed(b)'
    <2>1. /\ DataInv /\ req[h].sub \in Id /\ req[h].sub \in SubId
          /\ Stored(submissions[req[h].sub]) /\ Convertible(req[h].sub)
          /\ published' = published /\ windows' = windows
          /\ bookings' = [bookings EXCEPT ![req[h].sub] =
                            Fresh(submissions[req[h].sub].slot)]
      BY <1>4, HolderFacts, RequestData DEF InsertConverted, Free, RequestAt, CheckedFor
    <2>2. req[h].sub = b
      BY <1>1, <2>1 DEF DataType
    <2>3. PICK slot \in Slot : slot = submissions[b].slot
      BY <2>1, <2>2 DEF DataInv, DataType, Stored, Submission
    <2>4. bookings[b] = None /\ Fits(slot, None)
      BY <2>1, <2>2, <2>3 DEF Convertible, Stored
    <2>5. /\ \A d \in Id \ {b} : bookings'[d] = bookings[d]
          /\ bookings'[b] = Fresh(slot)
      BY <1>1, <2>1, <2>2, <2>3 DEF DataType
    <2>6. bookings'[b].slot = slot
      BY <2>5, FreshIsBooking
    <2> QED
      BY <1>1, <2>1, <2>4, <2>5, <2>6, FitsPlaces
  <1>5. ASSUME NEW h \in Handler, HideBooking(h)
        PROVE  FALSE
    <2>1. /\ DataInv /\ req[h].id \in Id /\ Stored(bookings[req[h].id])
          /\ bookings' = [bookings EXCEPT ![req[h].id] = Hidden(bookings[req[h].id])]
      BY <1>5, HolderFacts, RequestData DEF HideBooking, Free, RequestAt, Known
    <2>2. req[h].id = b
      BY <1>1, <2>1 DEF DataType
    <2>3. bookings[b] \in Booking /\ bookings'[b] = Hidden(bookings[b])
      BY <1>1, <2>1, <2>2 DEF DataType, Stored
    <2>4. bookings'[b].deleted = TRUE
      BY <2>3, HiddenRows
    <2> QED
      BY <2>4 DEF LiveBooking
  <1>6. CASE /\ ~\E h \in Handler : InsertBooking(h) \/ WriteBooking(h) \/ HideBooking(h)
                                      \/ InsertConverted(h)
    <2>1. bookings' = bookings
      BY <1>6
         DEF Next, vars, rows, Begin, Step, Abort, Reject, EnterSite, Read, LoadBook, LoadChange,
             LoadDrop, LoadSubmit, LoadConvert, Convert, LoadWithdraw, LoadWindow, LoadService,
             Proceed, Write, InsertSubmission, HideSubmission, WriteWindow, WriteService,
             DeleteSite
    <2> QED
      BY <2>1
  <1> QED
    BY <1>2, <1>3, <1>4, <1>5, <1>6

\* _booking_slot is a check, the write comes later, and a public booking is
\* written two calls later still: whoever races for the slot, a booking that
\* becomes live, moves or is confirmed has its place when it is written.
THEOREM WrittenArePlaced == Spec => WrittenBookingsArePlaced
  <1>1. BookingsInv /\ [Next]_vars =>
          [\A b \in Id : (LiveBooking(b)' /\ bookings'[b] # bookings[b]) => Placed(b)']_vars
    BY PlacedStep
  <1> QED
    BY <1>1, BookingsInvariance, PTL DEF Spec, WrittenBookingsArePlaced
=============================================================================
