--------------------------- MODULE AnalyticsProofs ---------------------------
(***************************************************************************)
(* Theorems about the collector, the rollup and the insights, for every    *)
(* number of events, tasks, days, properties, jobs and items.              *)
(*                                                                         *)
(* Each part has an invariant of its own that its steps keep: what a flush *)
(* holds, what an aggregation has computed and found, what a job has found *)
(* of its item are still so when they write.                               *)
(***************************************************************************)
EXTENDS Collector, Dashboards, Insights, FoldProofs

(* The collector.                                                          *)

\* Events that are taken are being written, and a recorder that brings one has
\* not added it.
CollectorInv ==
  /\ buffer \in Seq(Event) /\ stopping \in BOOLEAN
  /\ pc \in [Task -> {"idle", "lock", "add", "take", "write", "cancelled", "stopped"}]
  /\ adding \in [Recorder -> Event \cup {None}]
  /\ batch \in [Task -> Seq(Event)] /\ tried \in [Task -> Nat]
  /\ \A t \in Task : batch[t] # <<>> => pc[t] = "write"
  /\ \A t \in Recorder : adding[t] # None => pc[t] \in {"lock", "add"}
  /\ \A t \in Task : pc[t] = "add" => t \in Recorder /\ adding[t] # None
  /\ ~stopping => pc[Stopper] = "idle"

LEMMA Tasks ==
  /\ Recorder \subseteq Task /\ Periodic \in Task /\ Stopper \in Task
  /\ Periodic \notin Recorder /\ Stopper \notin Recorder /\ Stopper # Periodic
BY CollectorAssumption DEF Task

LEMMA MinOfTwo ==
  ASSUME NEW a \in Int, NEW b \in Int
  PROVE  Min({a, b}) = IF a <= b THEN a ELSE b
BY DEF Min

\* The parts of a list are the list.
LEMMA ToSetParts ==
  ASSUME NEW b \in Seq(Event)
  PROVE  /\ \A e \in Event : ToSet(Append(b, e)) = ToSet(b) \cup {e}
         /\ b # <<>> => /\ Head(b) \in Event /\ Tail(b) \in Seq(Event)
                        /\ ToSet(b) = {Head(b)} \cup ToSet(Tail(b))
         /\ ToSet(<<>>) = {}
<1>1. ASSUME NEW e \in Event
      PROVE  ToSet(Append(b, e)) = ToSet(b) \cup {e}
  <2>1. PICK n \in Nat : n = Len(b)
    OBVIOUS
  <2>2. /\ DOMAIN b = 1 .. n /\ DOMAIN Append(b, e) = 1 .. n + 1
        /\ \A i \in 1 .. n : Append(b, e)[i] = b[i]
        /\ Append(b, e)[n + 1] = e /\ n + 1 \in 1 .. n + 1
    BY <2>1
  <2>3. ASSUME NEW i \in 1 .. n + 1
        PROVE  Append(b, e)[i] \in ToSet(b) \cup {e}
    <3>1. CASE i = n + 1
      BY <2>2, <3>1
    <3>2. CASE i # n + 1
      <4>1. i \in 1 .. n
        BY <3>2
      <4> QED  BY <2>2, <4>1 DEF ToSet
    <3> QED  BY <3>1, <3>2
  <2>4. ASSUME NEW i \in 1 .. n
        PROVE  b[i] \in ToSet(Append(b, e))
    <3>1. i \in 1 .. n + 1
      OBVIOUS
    <3> QED  BY <2>2, <3>1 DEF ToSet
  <2>5. e \in ToSet(Append(b, e))
    BY <2>2 DEF ToSet
  <2> QED  BY <2>2, <2>3, <2>4, <2>5 DEF ToSet
<1>2. ASSUME b # <<>>
      PROVE  /\ Head(b) \in Event /\ Tail(b) \in Seq(Event)
             /\ ToSet(b) = {Head(b)} \cup ToSet(Tail(b))
  <2>1. PICK n \in Nat : n = Len(b) /\ n # 0
    BY <1>2
  <2>2. /\ Tail(b) \in Seq(Event) /\ DOMAIN Tail(b) = 1 .. n - 1 /\ Head(b) = b[1]
        /\ \A i \in 1 .. n - 1 : Tail(b)[i] = b[i + 1]
    BY <1>2, <2>1
  <2>3. DOMAIN b = 1 .. n /\ 1 \in 1 .. n
    BY <2>1
  <2>4. ASSUME NEW i \in 1 .. n
        PROVE  b[i] \in {Head(b)} \cup ToSet(Tail(b))
    <3>1. CASE i = 1
      BY <2>2, <3>1
    <3>2. CASE i # 1
      <4>1. i - 1 \in 1 .. n - 1 /\ (i - 1) + 1 = i
        BY <2>1, <3>2
      <4>2. Tail(b)[i - 1] = b[i]
        BY <2>2, <4>1
      <4> QED  BY <2>2, <4>1, <4>2 DEF ToSet
    <3> QED  BY <3>1, <3>2
  <2>5. ASSUME NEW i \in 1 .. n - 1
        PROVE  Tail(b)[i] \in ToSet(b)
    <3>1. i + 1 \in 1 .. n
      BY <2>1
    <3> QED  BY <2>2, <2>3, <3>1 DEF ToSet
  <2>6. Head(b) \in ToSet(b) /\ Head(b) \in Event
    BY <2>2, <2>3 DEF ToSet
  <2> QED  BY <2>2, <2>3, <2>4, <2>5, <2>6 DEF ToSet
<1>3. ToSet(<<>>) = {}
  BY DEF ToSet
<1> QED  BY <1>1, <1>2, <1>3

LEMMA ToSetCut ==
  ASSUME NEW b \in Seq(Event), NEW n \in 0 .. Len(b)
  PROVE  /\ SubSeq(b, n + 1, Len(b)) \in Seq(Event)
         /\ ToSet(b) \subseteq ToSet(SubSeq(b, 1, n)) \cup ToSet(SubSeq(b, n + 1, Len(b)))
<1>1. PICK m \in Nat : m = Len(b)
  OBVIOUS
<1>2. /\ SubSeq(b, 1, n) = [i \in 1 .. n |-> b[i]]
      /\ SubSeq(b, n + 1, m) = [i \in 1 .. m - n |-> b[i + n]]
      /\ SubSeq(b, n + 1, m) \in Seq(Event)
  BY <1>1
<1>3. ASSUME NEW i \in 1 .. m
      PROVE  b[i] \in ToSet(SubSeq(b, 1, n)) \cup ToSet(SubSeq(b, n + 1, m))
  <2>1. CASE i <= n
    <3>1. i \in 1 .. n
      BY <1>1, <2>1
    <3>2. SubSeq(b, 1, n)[i] = b[i]
      BY <1>2, <3>1
    <3> QED  BY <1>2, <3>1, <3>2 DEF ToSet
  <2>2. CASE i > n
    <3>1. i - n \in 1 .. m - n /\ (i - n) + n = i
      BY <1>1, <2>2
    <3>2. SubSeq(b, n + 1, m)[i - n] = b[i]
      BY <1>2, <3>1
    <3> QED  BY <1>2, <3>1, <3>2 DEF ToSet
  <2> QED  BY <1>1, <2>1, <2>2
<1> QED  BY <1>1, <1>2, <1>3 DEF ToSet

\* What a failed call takes with it is a part of the batch.
LEMMA ChunkFits ==
  ASSUME NEW b \in Seq(Event), NEW k \in Nat
  PROVE  Min({ChunkSize - (k % ChunkSize), Len(b)}) \in 0 .. Len(b)
<1>1. PICK c \in Nat \ {0}, m \in Nat : c = ChunkSize /\ m = Len(b)
  BY CollectorAssumption
<1>2. k % c \in 0 .. c - 1
  BY <1>1
<1>3. PICK j \in 0 .. c - 1 : j = k % c
  BY <1>2
<1>4. PICK r \in Nat : r = c - j
  OBVIOUS
<1>5. Min({r, m}) \in 0 .. m
  BY MinOfTwo
<1>6. Min({c - (k % c), m}) \in 0 .. m
  BY <1>3, <1>4, <1>5
<1> QED  BY <1>1, <1>6

LEMMA BatchEvents ==
  ASSUME CollectorInv, NEW t \in Task
  PROVE  batch[t] \in Seq(Event) /\ tried[t] \in Nat
BY DEF CollectorInv

-----------------------------------------------------------------------------
\* Known events, part by part.
KnownParts(e) ==
  \/ e \in ToSet(buffer) \/ e \in stored \/ e \in rejected
  \/ \E t \in Task : e \in ToSet(batch[t])
  \/ \E t \in Recorder : e = adding[t] /\ adding[t] # None

LEMMA KnownIsParts == \A e : e \in Known <=> KnownParts(e)
<1> TAKE e
<1>1. e \in UNION {ToSet(batch[t]) : t \in Task} <=> \E t \in Task : e \in ToSet(batch[t])
  OBVIOUS
<1>2. e \in {adding[t] : t \in Recorder} \ {None}
        <=> \E t \in Recorder : e = adding[t] /\ adding[t] # None
  OBVIOUS
<1> QED  BY <1>1, <1>2 DEF Known, KnownParts

LEMMA KnownIsPartsNext == \A e : e \in Known' <=> KnownParts(e)'
<1> TAKE e
<1>1. e \in UNION {ToSet(batch'[t]) : t \in Task} <=> \E t \in Task : e \in ToSet(batch'[t])
  OBVIOUS
<1>2. e \in {adding'[t] : t \in Recorder} \ {None}
        <=> \E t \in Recorder : e = adding'[t] /\ adding'[t] # None
  OBVIOUS
<1> QED  BY <1>1, <1>2 DEF Known, KnownParts

LEMMA TaskStep ==
  ASSUME CollectorInv, NEW t \in Task,
         Acquire(t) \/ Flush(t) \/ EndFlush(t) \/ \E e \in Event : t \in Recorder /\ Record(t, e)
  PROVE  CollectorInv' /\ \A e : KnownParts(e) => KnownParts(e)'
<1>1. CASE Acquire(t)
  BY <1>1 DEF CollectorInv, Acquire, Goto, Adds, KnownParts, store
<1>2. CASE Flush(t)
  BY <1>2 DEF CollectorInv, Flush, Goto, KnownParts, store
<1>3. CASE EndFlush(t)
  <2>1. tried' \in [Task -> Nat]
    BY <1>3 DEF CollectorInv, EndFlush
  <2> QED  BY <1>3, <2>1 DEF CollectorInv, EndFlush, Goto, Rest, KnownParts, store
<1>4. ASSUME NEW e \in Event, t \in Recorder, Record(t, e)
      PROVE  CollectorInv' /\ \A x : KnownParts(x) => KnownParts(x)'
  <2>1. pc[t] = "idle" /\ adding' = [adding EXCEPT ![t] = e] /\ pc' = [pc EXCEPT ![t] = "lock"]
        /\ UNCHANGED <<buffer, lock, batch, tried, stored, rejected, stopping>>
    BY <1>4 DEF Record, Goto, store
  <2>2. adding[t] = None /\ e # None
    BY <1>4, <2>1, CollectorAssumption DEF CollectorInv
  <2>3. CollectorInv'
    BY <1>4, <2>1, <2>2, Tasks DEF CollectorInv
  <2>4. \A x : KnownParts(x) => KnownParts(x)'
    BY <1>4, <2>1, <2>2 DEF KnownParts, CollectorInv
  <2> QED  BY <2>3, <2>4
<1> QED  BY <1>1, <1>2, <1>3, <1>4

LEMMA AddStep ==
  ASSUME CollectorInv, NEW t \in Task, Add(t)
  PROVE  CollectorInv' /\ \A e : KnownParts(e) => KnownParts(e)'
<1>1. t \in Recorder /\ pc[t] = "add" /\ adding[t] # None
  BY DEF Add, CollectorInv
<1>2. PICK e \in Event : e = adding[t]
  BY <1>1 DEF CollectorInv
<1>3. /\ buffer' = Append(buffer, e) /\ adding' = [adding EXCEPT ![t] = None]
      /\ UNCHANGED <<batch, tried, stored, rejected, stopping>>
  BY <1>2 DEF Add, store
<1>4. PICK s \in {"take", "stopped", "idle"} : pc' = [pc EXCEPT ![t] = s]
  BY DEF Add, Goto, Rest
<1>5. buffer' \in Seq(Event) /\ ToSet(buffer') = ToSet(buffer) \cup {e}
  BY <1>3, ToSetParts DEF CollectorInv
<1>6. batch[t] = <<>>
  BY <1>1 DEF CollectorInv
<1>7. CollectorInv'
  BY <1>1, <1>3, <1>4, <1>5, <1>6, Tasks DEF CollectorInv
<1>8. \A x : KnownParts(x) => KnownParts(x)'
  BY <1>1, <1>2, <1>3, <1>5 DEF KnownParts, CollectorInv
<1> QED  BY <1>7, <1>8

LEMMA TakeStep ==
  ASSUME CollectorInv, NEW t \in Task, Take(t)
  PROVE  CollectorInv' /\ \A e : KnownParts(e) => KnownParts(e)'
<1>1. /\ pc[t] = "take" /\ batch' = [batch EXCEPT ![t] = buffer] /\ buffer' = <<>>
      /\ tried' = [tried EXCEPT ![t] = 0] /\ pc' = [pc EXCEPT ![t] = "write"]
      /\ UNCHANGED <<adding, stored, rejected, stopping>>
  BY DEF Take, Taken, Left, Goto, store
<1>2. batch[t] = <<>> /\ ToSet(<<>>) = {}
  BY <1>1, ToSetParts DEF CollectorInv
<1>3. CollectorInv'
  BY <1>1 DEF CollectorInv
<1>4. batch'[t] = buffer /\ \A u \in Task \ {t} : batch'[u] = batch[u]
  BY <1>1 DEF CollectorInv
<1>5. \A e : KnownParts(e) => KnownParts(e)'
  BY <1>1, <1>2, <1>4 DEF KnownParts
<1> QED  BY <1>3, <1>5

\* The next event of a batch, or a part of it, is stored or given up.
LEMMA WriteStep ==
  ASSUME CollectorInv, NEW t \in Task, pc[t] = "write", batch[t] # <<>>,
         NEW b \in Seq(Event), batch' = [batch EXCEPT ![t] = b], tried' \in [Task -> Nat],
         stored \subseteq stored', rejected \subseteq rejected',
         ToSet(batch[t]) \subseteq ToSet(b) \cup stored' \cup rejected',
         UNCHANGED <<buffer, pc, adding, stopping>>
  PROVE  CollectorInv' /\ \A e : KnownParts(e) => KnownParts(e)'
<1>1. batch'[t] = b /\ \A u \in Task \ {t} : batch'[u] = batch[u]
  BY DEF CollectorInv
<1>2. CollectorInv'
  BY <1>1 DEF CollectorInv
<1>3. ASSUME NEW e, NEW u \in Task, e \in ToSet(batch[u])
      PROVE  KnownParts(e)'
  <2>1. CASE u = t
    BY <1>1, <1>3, <2>1 DEF KnownParts
  <2>2. CASE u # t
    <3>1. batch'[u] = batch[u]
      BY <1>1, <2>2
    <3>2. e \in ToSet(batch'[u])
      BY <1>3, <3>1
    <3> QED  BY <3>2 DEF KnownParts
  <2> QED  BY <2>1, <2>2
<1>4. \A e : KnownParts(e) => KnownParts(e)'
  BY <1>3 DEF KnownParts
<1> QED  BY <1>2, <1>4

LEMMA StoreStep ==
  ASSUME CollectorInv, NEW t \in Task, Store(t)
  PROVE  CollectorInv' /\ \A e : KnownParts(e) => KnownParts(e)'
<1>1. pc[t] = "write" /\ batch[t] # <<>> /\ UNCHANGED <<buffer, pc, adding, stopping>>
      /\ stored' = stored \cup {Head(batch[t])} /\ rejected' = rejected
  BY DEF Store
<1>2. PICK old \in Seq(Event) : old = batch[t]
  BY BatchEvents
<1>3. PICK b \in Seq(Event) : b = Tail(old)
  BY <1>1, <1>2, ToSetParts
<1>4. ToSet(old) = {Head(old)} \cup ToSet(b)
  BY <1>1, <1>2, <1>3, ToSetParts
<1>5. batch' = [batch EXCEPT ![t] = b]
  BY <1>2, <1>3 DEF Store, CollectorInv
<1>6. tried' \in [Task -> Nat]
  BY DEF Store, CollectorInv
<1>7. ToSet(batch[t]) \subseteq ToSet(b) \cup stored' \cup rejected'
  BY <1>1, <1>2, <1>4
<1>8. stored \subseteq stored' /\ rejected \subseteq rejected'
  BY <1>1
<1> QED  BY <1>1, <1>5, <1>6, <1>7, <1>8, WriteStep

LEMMA RejectStep ==
  ASSUME CollectorInv, NEW t \in Task, Reject(t)
  PROVE  CollectorInv' /\ \A e : KnownParts(e) => KnownParts(e)'
<1>1. pc[t] = "write" /\ batch[t] # <<>> /\ UNCHANGED <<buffer, pc, adding, stopping>>
      /\ stored \subseteq stored'
  BY DEF Reject
<1>2. PICK old \in Seq(Event) : old = batch[t]
  BY BatchEvents
<1>3. PICK k \in Nat : k = tried[t]
  BY BatchEvents
<1>4. PICK n \in 0 .. Len(old) : n = Min({ChunkSize - (k % ChunkSize), Len(old)})
  BY ChunkFits
<1>5. PICK b \in Seq(Event) : b = SubSeq(old, n + 1, Len(old))
  BY ToSetCut
<1>6. ToSet(old) \subseteq ToSet(SubSeq(old, 1, n)) \cup ToSet(b)
  BY <1>5, ToSetCut
<1>7. /\ rejected' = rejected \cup ToSet(SubSeq(old, 1, n))
      /\ batch' = [batch EXCEPT ![t] = b]
      /\ tried' = [tried EXCEPT ![t] = k + n]
  BY <1>2, <1>3, <1>4, <1>5 DEF Reject, CollectorInv
<1>8. tried' \in [Task -> Nat]
  <2>1. k + n \in Nat
    BY <1>4
  <2> QED  BY <1>7, <2>1 DEF CollectorInv
<1>9. ToSet(batch[t]) \subseteq ToSet(b) \cup stored' \cup rejected'
  BY <1>2, <1>6, <1>7
<1> QED  BY <1>1, <1>7, <1>8, <1>9, WriteStep

\* Only the stop may forget an event.
LEMMA CancelPeriodicStep ==
  ASSUME CollectorInv, CancelPeriodic
  PROVE  CollectorInv' /\ stopping'
<1>1. /\ pc' = [pc EXCEPT ![Periodic] = "cancelled", ![Stopper] = "lock"]
      /\ batch' = [batch EXCEPT ![Periodic] = <<>>] /\ tried' = [tried EXCEPT ![Periodic] = 0]
      /\ UNCHANGED <<buffer, adding>> /\ stopping' = TRUE
  BY DEF CancelPeriodic
<1>2. pc' \in [Task -> {"idle", "lock", "add", "take", "write", "cancelled", "stopped"}]
  BY <1>1, Tasks DEF CollectorInv
<1>3. batch' \in [Task -> Seq(Event)] /\ tried' \in [Task -> Nat]
  <2>1. <<>> \in Seq(Event)
    OBVIOUS
  <2> QED  BY <1>1, <2>1 DEF CollectorInv
<1>4. CollectorInv'
  <2>1. batch[Stopper] = <<>>
    BY Tasks DEF CollectorInv, CancelPeriodic
  <2>2. ASSUME NEW t \in Task, batch'[t] # <<>>
        PROVE  pc'[t] = "write"
    <3>1. t # Periodic
      BY <1>1, <2>2 DEF CollectorInv
    <3>2. t # Stopper
      BY <1>1, <2>1, <2>2, <3>1 DEF CollectorInv
    <3>3. batch[t] # <<>>
      BY <1>1, <2>2, <3>1 DEF CollectorInv
    <3> QED  BY <1>1, <3>1, <3>2, <3>3 DEF CollectorInv
  <2>3. ASSUME NEW t \in Recorder, adding'[t] # None
        PROVE  pc'[t] \in {"lock", "add"}
    BY <1>1, <2>3, Tasks DEF CollectorInv
  <2>4. ASSUME NEW t \in Task, pc'[t] = "add"
        PROVE  t \in Recorder /\ adding'[t] # None
    BY <1>1, <2>4, Tasks DEF CollectorInv
  <2> QED  BY <1>1, <1>2, <1>3, <2>2, <2>3, <2>4 DEF CollectorInv
<1> QED  BY <1>1, <1>4

LEMMA CollectorUnchanged ==
  ASSUME CollectorInv, UNCHANGED vars
  PROVE  CollectorInv' /\ \A e : KnownParts(e) => KnownParts(e)'
BY DEF CollectorInv, KnownParts, vars

LEMMA CollectorStep ==
  ASSUME CollectorInv, [Next]_vars
  PROVE  CollectorInv' /\ (~stopping' => \A e : KnownParts(e) => KnownParts(e)')
<1>1. ASSUME NEW t \in Task, Step(t) \/ Flush(t)
      PROVE  CollectorInv' /\ \A e : KnownParts(e) => KnownParts(e)'
  BY <1>1, TaskStep, AddStep, TakeStep, StoreStep, RejectStep DEF Step
<1>2. ASSUME NEW t \in Recorder, NEW e \in Event, Record(t, e)
      PROVE  CollectorInv' /\ \A x : KnownParts(x) => KnownParts(x)'
  BY <1>2, Tasks, TaskStep
<1>3. CASE CancelPeriodic
  BY <1>3, CancelPeriodicStep
<1> QED  BY <1>1, <1>2, <1>3, CollectorUnchanged DEF Next

\* What the collector knows of an event is in one of its hands: record_event,
\* flush and stop keep it, whoever awaits what.
THEOREM CollectorInvariance == Spec => []CollectorInv
<1>1. Init => CollectorInv
  <2> SUFFICES ASSUME Init PROVE CollectorInv
    OBVIOUS
  <2>1. <<>> \in Seq(Event) /\ None \in Event \cup {None} /\ 0 \in Nat
    OBVIOUS
  <2>2. batch \in [Task -> Seq(Event)] /\ adding \in [Recorder -> Event \cup {None}]
    BY <2>1 DEF Init
  <2>3. /\ tried \in [Task -> Nat]
        /\ pc \in [Task -> {"idle", "lock", "add", "take", "write", "cancelled", "stopped"}]
    BY DEF Init
  <2> QED  BY <2>1, <2>2, <2>3, Tasks DEF Init, CollectorInv
<1>2. CollectorInv /\ [Next]_vars => CollectorInv'
  BY CollectorStep
<1> QED  BY <1>1, <1>2, PTL DEF Spec

\* However many requests record and flush at the same time, and at whatever await
\* they stand: an event that was handed in is in the buffer, in a batch, stored or
\* given up with a failed call, until stop() is called.
THEOREM KeptWhileRunning == Spec => LostOnlyByFailure
<1>1. CollectorInv /\ [Next]_vars => [~stopping' => \A e \in Known : e \in Known']_vars
  <2> SUFFICES ASSUME CollectorInv, [Next]_vars, ~stopping', NEW e \in Known
               PROVE  e \in Known'
    OBVIOUS
  <2>1. KnownParts(e)
    BY KnownIsParts
  <2>2. KnownParts(e)'
    BY <2>1, CollectorStep
  <2> QED  BY <2>2, KnownIsPartsNext
<1> QED  BY <1>1, CollectorInvariance, PTL DEF Spec, LostOnlyByFailure

-----------------------------------------------------------------------------
(* The rollup.                                                             *)

EventSet == [day : Day, product : Product \cup {Nil}, kept : BOOLEAN]
RowSet   == [product : Product \cup {Nil}, views : Nat]
CleanSet == [page : Nat, cutoff : Int, items : SUBSET Nat, size : Nat, deleted : Nat, total : Nat]
Working  == {"fetch", "lookup", "store"}

\* The events that were stored for a day, and for a row of it.
DayEvents(d) == {e \in DOMAIN event : event[e].day = d}
RowEvents(d, p) == {e \in DOMAIN event : event[e].day = d /\ p \in {Nil, event[e].product}}

\* Nothing of the day is gone, a page takes it, and nobody else has worked on it.
Steady(d) ==
  d >= today - Retention /\ Cardinality(DayEvents(d)) <= PageSize /\ d \notin overlapped

\* A day that the retention is over for.
TooOld(d) == d < today - Retention

\* Only what is too old is deleted, or about to be: the cutoff of a cleanup, begun
\* today or before, is not beyond it.
EventControl ==
  /\ today \in Day /\ event \in Seq(EventSet)
  /\ clean \in CleanSet /\ clean.cutoff <= today - Retention
  /\ \A e \in DOMAIN event : event[e].kept \/ TooOld(event[e].day)
  /\ \A e \in clean.items : e \in DOMAIN event /\ TooOld(event[e].day)

\* Two aggregations of one day are known to overlap.
DayControl ==
  /\ phase \in [Roller -> {"idle", "list", "delete"} \cup Working]
  /\ span \in [Roller -> [day : Day, last : 0 .. LastDay]]
  /\ overlapped \subseteq Day
  /\ \A r, q \in Roller :
       r # q /\ phase[r] \in Working /\ phase[q] \in Working /\ span[r].day = span[q].day
         => span[r].day \in overlapped

\* The rows that are to be written for a day count stored events, agree with each
\* other, and none is below the row it replaces on a steady day.
QueueFor(d, q) ==
  /\ q # <<>>
  /\ \A k \in DOMAIN q : q[k].views <= Cardinality(RowEvents(d, q[k].product))
  /\ \A k, m \in DOMAIN q : q[k].product = q[m].product => q[k].views = q[m].views
  /\ Steady(d) => \A k \in DOMAIN q : \A i \in RowsOf(<<d, q[k].product>>) :
                     aggs[i].views <= q[k].views

\* What the look for a row has found is still so.
TargetFor(d, p, t) ==
  /\ t # 0 => t \in RowsOf(<<d, p>>)
  /\ t = 0 /\ d \notin overlapped => RowsOf(<<d, p>>) = {}

RollerControl(r) ==
  /\ phase[r] \in {"lookup", "store"} => QueueFor(span[r].day, queue[r])
  /\ phase[r] = "store" => TargetFor(span[r].day, Head(queue[r]).product, target[r])

AggregateControl == aggs \in Seq(Aggregate) /\ DuplicatesNeedOverlap /\ RowsCountStoredEvents

RollupInv ==
  /\ EventControl /\ DayControl /\ AggregateControl
  /\ queue \in [Roller -> Seq(RowSet)] /\ target \in [Roller -> Nat]
  /\ \A r \in Roller : RollerControl(r)

-----------------------------------------------------------------------------
(* The operators of the community modules that the model uses.             *)

LEMMA MinMember ==
  ASSUME NEW S \in SUBSET Nat, S # {}
  PROVE  Min(S) \in S
<1> DEFINE Less == {ss \in Nat \X Nat : ss[1] < ss[2]}
<1>1. IsWellFoundedOn(Less, Nat)
  BY NatLessThanWellFounded DEF OpToRel
<1> HIDE DEF Less
<1>2. PICK x \in S : \A y \in S : ~(<<y, x>> \in Less)
  BY <1>1, WFMin
<1>3. \A y \in S : x <= y
  <2> SUFFICES ASSUME NEW y \in S PROVE x <= y
    OBVIOUS
  <2>1. x \in Nat /\ y \in Nat /\ <<y, x>> \in Nat \X Nat
    OBVIOUS
  <2>2. <<y, x>>[1] = y /\ <<y, x>>[2] = x
    OBVIOUS
  <2>3. ~(y < x)
    BY <1>2, <2>1, <2>2 DEF Less
  <2> QED  BY <2>1, <2>3
<1> QED  BY <1>3 DEF Min

LEMMA MaxOfTwo ==
  ASSUME NEW a \in Int, NEW b \in Int
  PROVE  Max({a, b}) = IF a >= b THEN a ELSE b
BY DEF Max

LEMMA SetToSeqMember ==
  ASSUME NEW S, IsFiniteSet(S), NEW i \in 1 .. Cardinality(S)
  PROVE  SetToSeq(S)[i] \in S
<1>1. \E f \in [1 .. Cardinality(S) -> S] : IsInjective(f)
  BY FS_CardinalityType DEF ExistsBijection, Bijection, Injection
<1>2. SetToSeq(S) \in [1 .. Cardinality(S) -> S]
  BY <1>1 DEF SetToSeq
<1> QED  BY <1>2

LEMMA FiniteProducts ==
  ASSUME NEW events, IsFiniteSet(events)
  PROVE  IsFiniteSet({event[e].product : e \in events} \ {Nil})
<1> DEFINE all == {event[e].product : e \in events}
           f == [e \in events |-> event[e].product]
<1>1. f \in Surjection(events, all)
  BY DEF Surjection
<1>2. IsFiniteSet(all)
  BY <1>1, FS_Surjection DEF ExistsSurjection
<1> QED  BY <1>2, FS_Subset

-----------------------------------------------------------------------------
(* Events only become more, and days only pass.                            *)

LEMMA FiniteEvents ==
  ASSUME EventControl, NEW S \in SUBSET DOMAIN event
  PROVE  IsFiniteSet(S) /\ Cardinality(S) \in Nat
<1>1. PICK n \in Nat : DOMAIN event = 1 .. n
  BY DEF EventControl
<1>2. IsFiniteSet(1 .. n)
  BY FS_Interval
<1> QED  BY <1>1, <1>2, FS_Subset, FS_CardinalityType

\* What was stored stays in the count.
Grows ==
  /\ overlapped \subseteq overlapped' /\ today <= today'
  /\ \A e \in DOMAIN event :
       e \in DOMAIN event' /\ event'[e].day = event[e].day /\ event'[e].product = event[e].product

LEMMA CountsGrow ==
  ASSUME EventControl, EventControl', Grows, NEW d \in Day
  PROVE  /\ \A p : Cardinality(RowEvents(d, p)) <= Cardinality(RowEvents(d, p)')
         /\ \A p : Cardinality(RowEvents(d, p)) \in Nat /\ Cardinality(RowEvents(d, p)') \in Nat
         /\ Steady(d)' => Steady(d)
<1>1. ASSUME NEW p
      PROVE  /\ Cardinality(RowEvents(d, p)) <= Cardinality(RowEvents(d, p)')
             /\ Cardinality(RowEvents(d, p)) \in Nat /\ Cardinality(RowEvents(d, p)') \in Nat
  <2>1. RowEvents(d, p) \subseteq RowEvents(d, p)'
    BY DEF Grows, RowEvents
  <2>2. IsFiniteSet(RowEvents(d, p)') /\ Cardinality(RowEvents(d, p)') \in Nat
    <3>1. IsFiniteSet(DOMAIN event')
      BY FS_Interval DEF EventControl
    <3> QED  BY <3>1, FS_Subset, FS_CardinalityType DEF RowEvents
  <2>3. Cardinality(RowEvents(d, p)) \in Nat
    BY FiniteEvents DEF RowEvents
  <2> QED  BY <2>1, <2>2, <2>3, FS_Subset
<1>2. ASSUME Steady(d)'
      PROVE  Steady(d)
  <2>1. DayEvents(d) \subseteq DayEvents(d)'
    BY DEF Grows, DayEvents
  <2>2. IsFiniteSet(DayEvents(d)') /\ Cardinality(DayEvents(d)') \in Nat
    <3>1. IsFiniteSet(DOMAIN event')
      BY FS_Interval DEF EventControl
    <3> QED  BY <3>1, FS_Subset, FS_CardinalityType DEF DayEvents
  <2>3. Cardinality(DayEvents(d)) \in Nat
    BY FiniteEvents DEF DayEvents
  <2>4. Cardinality(DayEvents(d)) <= Cardinality(DayEvents(d)')
    BY <2>1, <2>2, FS_Subset
  <2>5. PICK a \in Nat, b \in Nat : a = Cardinality(DayEvents(d)) /\ b = Cardinality(DayEvents(d)')
    BY <2>2, <2>3
  <2>6. d >= today' - Retention /\ b <= PageSize /\ d \notin overlapped'
    BY <1>2, <2>5 DEF Steady
  <2>7. d >= today - Retention /\ a <= PageSize /\ d \notin overlapped
    <3>1. today \in Int /\ today' \in Int /\ today <= today' /\ Retention \in Int /\ d \in Int
      BY RollupAssumption DEF Grows, EventControl, Day
    <3>2. a <= b /\ PageSize \in Nat /\ overlapped \subseteq overlapped'
      BY <2>4, <2>5, RollupAssumption DEF Grows
    <3>3. a <= PageSize /\ d \notin overlapped
      BY <2>6, <3>2
    <3>4. d >= today - Retention
      <4>1. PICK n \in Int, x \in Int, y \in Int, z \in Int :
              n = d /\ x = today /\ y = today' /\ z = Retention
        BY <3>1
      <4>2. n >= y - z /\ x <= y
        BY <2>6, <3>1, <4>1
      <4>3. n >= x - z
        BY <4>2
      <4> QED  BY <4>1, <4>3
    <3> QED  BY <3>3, <3>4
  <2> QED  BY <2>5, <2>7 DEF Steady
<1> QED  BY <1>1, <1>2

\* The rows that wait to be written, and the aggregates, bear that.
LEMMA QueueGrows ==
  ASSUME EventControl, EventControl', Grows, UNCHANGED aggs,
         NEW d \in Day, NEW q \in Seq(RowSet), QueueFor(d, q)
  PROVE  QueueFor(d, q)'
<1>1. /\ \A p : Cardinality(RowEvents(d, p)) <= Cardinality(RowEvents(d, p)')
      /\ \A p : Cardinality(RowEvents(d, p)) \in Nat /\ Cardinality(RowEvents(d, p)') \in Nat
      /\ Steady(d)' => Steady(d)
  BY CountsGrow
<1>2. \A k \in DOMAIN q : q[k].views \in Nat
  <2>1. \A k \in DOMAIN q : q[k] \in RowSet
    OBVIOUS
  <2> QED  BY <2>1 DEF RowSet
<1>3. \A k \in DOMAIN q : q[k].views <= Cardinality(RowEvents(d, q[k].product)')
  BY <1>1, <1>2 DEF QueueFor
<1>4. \A key : RowsOf(key)' = RowsOf(key)
  BY DEF RowsOf
<1> QED  BY <1>1, <1>3, <1>4 DEF QueueFor

LEMMA TargetGrows ==
  ASSUME Grows, UNCHANGED aggs, NEW d, NEW p, NEW t, TargetFor(d, p, t)
  PROVE  TargetFor(d, p, t)'
BY DEF Grows, TargetFor, RowsOf

LEMMA AggregatesGrow ==
  ASSUME EventControl, EventControl', Grows, UNCHANGED aggs, AggregateControl
  PROVE  AggregateControl'
<1>1. DuplicatesNeedOverlap'
  BY DEF AggregateControl, DuplicatesNeedOverlap, Grows
<1>2. \A i \in DOMAIN aggs : aggs[i] \in Aggregate
  BY DEF AggregateControl
<1>3. ASSUME NEW i \in DOMAIN aggs
      PROVE  aggs[i].views <= Cardinality(RowEvents(aggs[i].day, aggs[i].product)')
  <2>1. PICK d \in Day, p \in Product \cup {Nil}, v \in Nat :
          d = aggs[i].day /\ p = aggs[i].product /\ v = aggs[i].views
    BY <1>2 DEF Aggregate
  <2>2. v <= Cardinality(RowEvents(d, p))
    BY <2>1 DEF AggregateControl, RowsCountStoredEvents, RowEvents
  <2>3. v <= Cardinality(RowEvents(d, p)')
    BY <2>2, CountsGrow
  <2> QED  BY <2>1, <2>3
<1>4. RowsCountStoredEvents'
  BY <1>3 DEF RowsCountStoredEvents, RowEvents
<1> QED  BY <1>1, <1>4 DEF AggregateControl

-----------------------------------------------------------------------------
(* An aggregation goes from day to day.                                    *)

OtherRollers(r) == \A q \in Roller \ {r} :
  phase'[q] = phase[q] /\ span'[q] = span[q] /\ queue'[q] = queue[q] /\ target'[q] = target[q]

\* An aggregation that takes up a day which somebody else works on is noted.
LEMMA DayTaken ==
  ASSUME DayControl, NEW r \in Roller, NEW s \in {"idle", "list", "delete"} \cup Working,
         NEW sp \in [day : Day, last : 0 .. LastDay],
         phase' = [phase EXCEPT ![r] = s], span' = [span EXCEPT ![r] = sp],
         overlapped \subseteq overlapped', overlapped' \subseteq Day,
         s \in Working /\ sp.day \in Busy(r) => sp.day \in overlapped'
  PROVE  DayControl'
<1>1. phase' \in [Roller -> {"idle", "list", "delete"} \cup Working]
      /\ span' \in [Roller -> [day : Day, last : 0 .. LastDay]]
  BY DEF DayControl
<1>2. phase'[r] = s /\ span'[r] = sp
      /\ \A q \in Roller \ {r} : phase'[q] = phase[q] /\ span'[q] = span[q]
  BY DEF DayControl
<1>3. \A q \in Roller \ {r} : phase[q] \in Working => span[q].day \in Busy(r)
  BY DEF Busy, Working
<1>4. ASSUME NEW a \in Roller, NEW b \in Roller, a # b, phase'[a] \in Working,
             phase'[b] \in Working, span'[a].day = span'[b].day
      PROVE  span'[a].day \in overlapped'
  <2>1. CASE a = r
    BY <1>2, <1>3, <1>4, <2>1
  <2>2. CASE b = r
    BY <1>2, <1>3, <1>4, <2>2
  <2>3. CASE a # r /\ b # r
    BY <1>2, <1>4, <2>3 DEF DayControl
  <2> QED  BY <2>1, <2>2, <2>3
<1> QED  BY <1>1, <1>4 DEF DayControl

LEMMA SameDay ==
  ASSUME DayControl, NEW r \in Roller, phase[r] \in Working, NEW s \in Working,
         phase' = [phase EXCEPT ![r] = s], UNCHANGED <<span, overlapped>>
  PROVE  DayControl' /\ phase'[r] = s /\ \A q \in Roller \ {r} : phase'[q] = phase[q]
<1>1. span' = [span EXCEPT ![r] = span[r]] /\ span[r] \in [day : Day, last : 0 .. LastDay]
      /\ overlapped \subseteq overlapped' /\ overlapped' \subseteq Day
  BY DEF DayControl
<1>2. span[r].day \in Busy(r) => span[r].day \in overlapped'
  BY DEF Busy, DayControl, Working
<1>3. DayControl'
  BY <1>1, <1>2, DayTaken
<1> QED  BY <1>3 DEF DayControl

LEMMA NextDayKeeps ==
  ASSUME DayControl, NEW r \in Roller, NextDay(r)
  PROVE  /\ DayControl' /\ overlapped \subseteq overlapped'
         /\ phase'[r] \notin {"lookup", "store"}
         /\ \A q \in Roller \ {r} : phase'[q] = phase[q] /\ span'[q] = span[q]
         /\ clean' \in {clean, NewSweep}
<1>1. PICK s \in [day : Day, last : 0 .. LastDay] : s = span[r]
  BY DEF DayControl
<1> DEFINE more == s.day < s.last
<1>2. PICK sp : sp = IF more THEN [s EXCEPT !.day = s.day + 1] ELSE [day |-> 1, last |-> 0]
  OBVIOUS
<1>3. PICK st : st = IF more THEN "fetch" ELSE IF r = Scheduler THEN "list" ELSE "idle"
  OBVIOUS
<1>4. /\ span' = [span EXCEPT ![r] = sp] /\ phase' = [phase EXCEPT ![r] = st]
      /\ clean' \in {clean, NewSweep}
      /\ overlapped' = IF more THEN overlapped \cup ({s.day + 1} \cap Busy(r)) ELSE overlapped
  BY <1>1, <1>2, <1>3 DEF NextDay
<1>5. s.day \in 1 .. LastDay /\ s.last \in 0 .. LastDay /\ LastDay \in Nat \ {0}
  BY RollupAssumption DEF Day
<1>6. sp \in [day : Day, last : 0 .. LastDay] /\ (more => sp.day = s.day + 1)
  <2>1. more => s.day + 1 \in 1 .. LastDay
    BY <1>5
  <2>2. 1 \in 1 .. LastDay /\ 0 \in 0 .. LastDay
    BY <1>5
  <2>3. more => [s EXCEPT !.day = s.day + 1] \in [day : Day, last : 0 .. LastDay]
                /\ [s EXCEPT !.day = s.day + 1].day = s.day + 1
    BY <2>1 DEF Day
  <2>4. [day |-> 1, last |-> 0] \in [day : Day, last : 0 .. LastDay]
    BY <2>2 DEF Day
  <2> QED  BY <1>2, <2>3, <2>4
<1>7. st \in {"idle", "list", "delete"} \cup Working /\ st \notin {"lookup", "store"}
      /\ (st \in Working => more)
  BY <1>3 DEF Working
<1>8. Busy(r) \subseteq Day
  BY DEF Busy, DayControl
<1>9. overlapped \subseteq overlapped' /\ overlapped' \subseteq Day
       /\ (st \in Working /\ sp.day \in Busy(r) => sp.day \in overlapped')
  BY <1>4, <1>6, <1>7, <1>8 DEF DayControl
<1>10. DayControl'
  BY <1>4, <1>6, <1>7, <1>9, DayTaken
<1> QED  BY <1>4, <1>7, <1>9, <1>10 DEF DayControl

-----------------------------------------------------------------------------
(* The steps that write no row.                                            *)

LEMMA RollerGrows ==
  ASSUME RollupInv, EventControl', Grows, UNCHANGED aggs, NEW r \in Roller,
         phase'[r] = phase[r], span'[r] = span[r], queue'[r] = queue[r], target'[r] = target[r]
  PROVE  RollerControl(r)'
<1>1. PICK d \in Day : d = span[r].day
  BY DEF RollupInv, DayControl
<1>2. PICK q \in Seq(RowSet) : q = queue[r]
  BY DEF RollupInv
<1>3. PICK t \in Nat : t = target[r]
  BY DEF RollupInv
<1>4. /\ phase[r] \in {"lookup", "store"} => QueueFor(d, q)
      /\ phase[r] = "store" => TargetFor(d, Head(q).product, t)
  BY <1>1, <1>2, <1>3 DEF RollupInv, RollerControl
<1>5. /\ phase[r] \in {"lookup", "store"} => QueueFor(d, q)'
      /\ phase[r] = "store" => TargetFor(d, Head(q).product, t)'
  BY <1>4, QueueGrows, TargetGrows DEF RollupInv
<1>6. span'[r].day = d /\ queue'[r] = q /\ target'[r] = t
  BY <1>1, <1>2, <1>3
<1> QED  BY <1>5, <1>6 DEF RollerControl

LEMMA NoRowWritten ==
  ASSUME RollupInv, EventControl', Grows, UNCHANGED aggs, DayControl',
         queue' \in [Roller -> Seq(RowSet)], target' \in [Roller -> Nat],
         \A r \in Roller :
           \/ /\ phase'[r] = phase[r] /\ span'[r] = span[r]
              /\ queue'[r] = queue[r] /\ target'[r] = target[r]
           \/ phase'[r] \notin {"lookup", "store"}
           \/ RollerControl(r)'
  PROVE  RollupInv'
<1>1. \A r \in Roller : phase'[r] \notin {"lookup", "store"} => RollerControl(r)'
  BY DEF RollerControl
<1>2. \A r \in Roller : RollerControl(r)'
  BY <1>1, RollerGrows
<1>3. AggregateControl'
  BY AggregatesGrow DEF RollupInv
<1> QED  BY <1>2, <1>3 DEF RollupInv

\* Where no time passes and no event comes or goes.
LEMMA EventsStay ==
  ASSUME EventControl, UNCHANGED <<today, event>>,
         clean' \in CleanSet, clean'.cutoff <= today - Retention,
         \A e \in clean'.items : e \in DOMAIN event /\ TooOld(event[e].day)
  PROVE  EventControl'
BY DEF EventControl, TooOld

LEMMA EventsStayGrows ==
  ASSUME EventControl, UNCHANGED <<today, event>>, overlapped \subseteq overlapped'
  PROVE  Grows
BY DEF EventControl, Grows, Day

LEMMA NewSweepIsClean ==
  ASSUME today \in Day
  PROVE  /\ NewSweep \in CleanSet /\ NewSweep.items = {} /\ NewSweep.cutoff <= today - Retention
         /\ NoClean \in CleanSet /\ NoClean.items = {} /\ NoClean.cutoff <= today - Retention
<1>1. today \in Nat /\ Retention \in Nat
  BY RollupAssumption DEF Day
<1>2. PICK a \in Int, b \in Int : a = Cutoff(0) /\ b = Cutoff(today) /\ b = today - Retention /\ a <= b
  BY <1>1 DEF Cutoff
<1>3. NoClean = [page |-> 0, cutoff |-> a, items |-> {}, size |-> 0, deleted |-> 0, total |-> 0]
  BY <1>2 DEF NoClean
<1>4. NoClean \in CleanSet /\ NoClean.items = {} /\ NoClean.cutoff = a
  BY <1>3 DEF CleanSet
<1>5. PICK c \in CleanSet : c = NoClean /\ c.items = {}
  BY <1>4
<1>6. NewSweep = [c EXCEPT !.page = 1, !.cutoff = b]
  BY <1>2, <1>5 DEF NewSweep, FirstPage
<1>7. NewSweep \in CleanSet /\ NewSweep.items = {} /\ NewSweep.cutoff = b
  BY <1>5, <1>6 DEF CleanSet
<1> QED  BY <1>2, <1>4, <1>7

LEMMA OccurStep ==
  ASSUME RollupInv, NEW p \in Product \cup {Nil}, NEW d \in Day, Occur(p, d)
  PROVE  RollupInv'
<1>1. PICK e : e = [day |-> d, product |-> p, kept |-> TRUE]
  OBVIOUS
<1>2. event' = Append(event, e) /\ e \in EventSet /\ e.kept = TRUE /\ event \in Seq(EventSet)
  BY <1>1 DEF Occur, EventSet, RollupInv, EventControl
<1>3. /\ event' \in Seq(EventSet)
      /\ \A i \in DOMAIN event : i \in DOMAIN event' /\ event'[i] = event[i]
      /\ \A i \in DOMAIN event' : i \in DOMAIN event \/ event'[i] = e
  BY <1>2
<1>4. UNCHANGED <<today, aggs, phase, span, queue, target, clean, overlapped>>
  BY DEF Occur
<1>5. \A i \in DOMAIN event' : event'[i].kept \/ TooOld(event'[i].day)
  BY <1>2, <1>3 DEF RollupInv, EventControl
<1>6. \A i \in clean.items : i \in DOMAIN event' /\ TooOld(event'[i].day)
  BY <1>3 DEF RollupInv, EventControl
<1>7. EventControl'
  BY <1>3, <1>4, <1>5, <1>6 DEF RollupInv, EventControl, TooOld
<1>8. Grows
  BY <1>3, <1>4 DEF Grows, RollupInv, EventControl, Day
<1>9. DayControl'
  BY <1>4 DEF RollupInv, DayControl
<1> QED  BY <1>4, <1>7, <1>8, <1>9, NoRowWritten DEF RollupInv

\* What is too old stays too old.
LEMMA MidnightStep ==
  ASSUME RollupInv, Midnight
  PROVE  RollupInv'
<1>1. UNCHANGED <<event, aggs, phase, span, queue, target, clean, overlapped>>
  BY DEF Midnight
<1>2. today \in Nat /\ today' = today + 1 /\ today' \in Day /\ Retention \in Nat
  BY RollupAssumption DEF Midnight, RollupInv, EventControl, Day
<1>3. \A d \in Day : TooOld(d) => TooOld(d)'
  <2> SUFFICES ASSUME NEW d \in Day, TooOld(d)
               PROVE  TooOld(d)'
    OBVIOUS
  <2>1. d \in Int /\ d < today - Retention
    BY DEF TooOld, Day
  <2>2. d < (today + 1) - Retention
    BY <1>2, <2>1
  <2> QED  BY <1>2, <2>2 DEF TooOld
<1>4. \A e \in DOMAIN event : event[e].day \in Day
  <2>1. \A e \in DOMAIN event : event[e] \in EventSet
    BY DEF RollupInv, EventControl
  <2> QED  BY <2>1 DEF EventSet
<1>5. EventControl'
  <2>1. \A e \in DOMAIN event : TooOld(event[e].day) => TooOld(event[e].day)'
    BY <1>1, <1>3, <1>4 DEF TooOld
  <2>2. clean.cutoff <= today' - Retention
    <3>1. PICK c \in Int : c = clean.cutoff
      BY DEF RollupInv, EventControl, CleanSet
    <3>2. c <= today - Retention
      BY <3>1 DEF RollupInv, EventControl
    <3>3. c <= (today + 1) - Retention
      BY <1>2, <3>2
    <3> QED  BY <1>2, <3>1, <3>3
  <2> QED  BY <1>1, <1>2, <2>1, <2>2 DEF RollupInv, EventControl, TooOld
<1>6. Grows
  BY <1>1, <1>2 DEF Grows
<1>7. DayControl'
  BY <1>1 DEF RollupInv, DayControl
<1> QED  BY <1>1, <1>5, <1>6, <1>7, NoRowWritten DEF RollupInv

\* An aggregation begins.
LEMMA BeginStep ==
  ASSUME RollupInv, NEW r \in Roller, phase[r] = "idle",
         NEW first \in Day, NEW last \in Day, Begin(r, first, last)
  PROVE  RollupInv'
<1>1. PICK sp : sp = [day |-> first, last |-> last]
  OBVIOUS
<1>2. sp \in [day : Day, last : 0 .. LastDay] /\ sp.day = first
  BY <1>1 DEF Day
<1>3. /\ phase' = [phase EXCEPT ![r] = "fetch"] /\ span' = [span EXCEPT ![r] = sp]
      /\ overlapped' = overlapped \cup ({first} \cap Busy(r))
      /\ UNCHANGED <<today, event, aggs, queue, target, clean>>
  BY <1>1 DEF Begin
<1>4. overlapped \subseteq overlapped' /\ overlapped' \subseteq Day
      /\ (first \in Busy(r) => first \in overlapped')
  BY <1>3 DEF RollupInv, DayControl
<1>5. "fetch" \in {"idle", "list", "delete"} \cup Working
  BY DEF Working
<1>6. DayControl'
  BY <1>2, <1>3, <1>4, <1>5, DayTaken DEF RollupInv
<1>7. EventControl' /\ Grows
  BY <1>3, <1>4, EventsStay, EventsStayGrows DEF RollupInv, EventControl
<1>8. phase'[r] = "fetch" /\ \A q \in Roller \ {r} : phase'[q] = phase[q] /\ span'[q] = span[q]
  BY <1>3 DEF RollupInv, DayControl
<1> QED  BY <1>3, <1>6, <1>7, <1>8, NoRowWritten DEF RollupInv

LEMMA SchedulerRolls == Scheduler \in Roller /\ Manual \subseteq Roller
BY DEF Roller

\* The cleanup goes on, or the night ends, and the events stay.
LEMMA CleanGoesOn ==
  ASSUME RollupInv, UNCHANGED <<today, event, aggs, span, queue, target, overlapped>>,
         NEW s \in {"idle", "list", "delete"}, phase' = [phase EXCEPT ![Scheduler] = s],
         clean' \in CleanSet, clean'.cutoff <= today - Retention,
         \A e \in clean'.items : e \in DOMAIN event /\ TooOld(event[e].day)
  PROVE  RollupInv'
<1>1. PICK sp : sp = span[Scheduler]
  OBVIOUS
<1>2. sp \in [day : Day, last : 0 .. LastDay] /\ span' = [span EXCEPT ![Scheduler] = sp]
  BY <1>1, SchedulerRolls DEF RollupInv, DayControl
<1>3. s \notin Working /\ overlapped \subseteq overlapped' /\ overlapped' \subseteq Day
  BY DEF Working, RollupInv, DayControl
<1>4. DayControl'
  BY <1>2, <1>3, SchedulerRolls, DayTaken DEF RollupInv
<1>5. EventControl' /\ Grows
  BY <1>3, EventsStay, EventsStayGrows DEF RollupInv
<1>6. phase'[Scheduler] = s /\ \A q \in Roller \ {Scheduler} : phase'[q] = phase[q]
  BY SchedulerRolls DEF RollupInv, DayControl
<1> QED  BY <1>4, <1>5, <1>6, NoRowWritten DEF RollupInv

LEMMA NightStep ==
  ASSUME RollupInv, Night
  PROVE  RollupInv'
<1>1. CASE Begin(Scheduler, today - 1, today - 1)
  <2>1. today - 1 \in Day
    BY RollupAssumption DEF Night, RollupInv, EventControl, Day
  <2> QED  BY <1>1, <2>1, SchedulerRolls, BeginStep DEF Night
<1>2. CASE ~IsActive
  <2>1. phase' = [phase EXCEPT ![Scheduler] = "list"] /\ clean' = NewSweep
        /\ UNCHANGED <<today, event, aggs, span, queue, target, overlapped>>
    BY <1>2 DEF Night
  <2>2. NewSweep \in CleanSet /\ NewSweep.items = {} /\ NewSweep.cutoff <= today - Retention
    BY NewSweepIsClean DEF RollupInv, EventControl
  <2> QED  BY <2>1, <2>2, CleanGoesOn
<1> QED  BY <1>1, <1>2 DEF Night

LEMMA AskStep ==
  ASSUME RollupInv, NEW r \in Manual, NEW first \in Day, NEW last \in Day, Ask(r, first, last)
  PROVE  RollupInv'
BY SchedulerRolls, BeginStep DEF Ask

LEMMA ListExpiredStep ==
  ASSUME RollupInv, ListExpired
  PROVE  RollupInv'
<1>1. PICK items \in PageSets(ExpiredEvents, clean.page) :
        clean' = [clean EXCEPT !.items = items, !.size = Cardinality(items),
                               !.total = Cardinality(ExpiredEvents)]
  BY DEF ListExpired
<1>2. clean \in CleanSet /\ DOMAIN event \subseteq Nat /\ EventControl
  BY DEF RollupInv, EventControl
<1>3. items \subseteq ExpiredEvents /\ ExpiredEvents \subseteq DOMAIN event
  BY DEF PageSets, kSubset, ExpiredEvents, Kept
<1>4. Cardinality(items) \in Nat /\ Cardinality(ExpiredEvents) \in Nat
  BY <1>2, <1>3, FiniteEvents
<1>5. clean' \in CleanSet /\ clean'.items = items /\ clean'.cutoff = clean.cutoff
  BY <1>1, <1>2, <1>3, <1>4 DEF CleanSet
<1>6. ASSUME NEW e \in items
      PROVE  e \in DOMAIN event /\ TooOld(event[e].day)
  <2>1. e \in DOMAIN event /\ event[e].day < clean.cutoff /\ event[e] \in EventSet
    BY <1>2, <1>3 DEF ExpiredEvents, EventControl
  <2>2. PICK d \in Nat, c \in Int, t \in Nat : d = event[e].day /\ c = clean.cutoff /\ t = today
    BY <1>2, <2>1 DEF EventSet, CleanSet, EventControl, Day
  <2>3. d < c /\ c <= t - Retention /\ Retention \in Nat
    BY <1>2, <2>1, <2>2, RollupAssumption DEF EventControl
  <2>4. d < t - Retention
    BY <2>3
  <2> QED  BY <2>1, <2>2, <2>4 DEF TooOld
<1>7. clean.cutoff <= today - Retention
  BY <1>2 DEF EventControl
<1> QED  BY <1>5, <1>6, <1>7, CleanGoesOn DEF ListExpired

LEMMA EndNightStep ==
  ASSUME RollupInv, EndNight, UNCHANGED <<today, event, aggs, span, queue, target, overlapped>>
  PROVE  RollupInv'
<1>1. NoClean \in CleanSet /\ NoClean.items = {} /\ NoClean.cutoff <= today - Retention
  BY NewSweepIsClean DEF RollupInv, EventControl
<1> QED  BY <1>1, CleanGoesOn DEF EndNight

LEMMA TurnPageStep ==
  ASSUME RollupInv, TurnPage
  PROVE  RollupInv'
<1>1. CASE EndNight
  BY <1>1, EndNightStep DEF TurnPage
<1>2. CASE clean' = [clean EXCEPT !.page = @ + 1] /\ phase' = [phase EXCEPT ![Scheduler] = "list"]
  <2>1. clean' \in CleanSet /\ clean'.items = {} /\ clean'.cutoff <= today - Retention
    <3>1. clean \in CleanSet /\ clean.items = {} /\ clean.cutoff <= today - Retention
      BY DEF TurnPage, RollupInv, EventControl
    <3> QED  BY <1>2, <3>1 DEF CleanSet
  <2> QED  BY <1>2, <2>1, CleanGoesOn DEF TurnPage
<1> QED  BY <1>1, <1>2 DEF TurnPage

\* Only what is too old goes.
LEMMA DeleteEventStep ==
  ASSUME RollupInv, NEW gone \in BOOLEAN, NEW told \in BOOLEAN, DeleteEvent(gone, told)
  PROVE  RollupInv'
<1>1. PICK e : e = Min(clean.items)
  OBVIOUS
<1>2. PICK c \in CleanSet : c = clean
  BY DEF RollupInv, EventControl
<1>3. PICK n : n = c.deleted + (IF told THEN 1 ELSE 0)
  OBVIOUS
<1>4. clean' = [c EXCEPT !.items = c.items \ {e}, !.deleted = n]
      /\ event' = (IF gone THEN [event EXCEPT ![e] = Gone(event[e])] ELSE event)
      /\ UNCHANGED <<today, aggs, phase, span, queue, target, overlapped>> /\ c.items # {}
  BY <1>1, <1>2, <1>3 DEF DeleteEvent
<1>5. c.items \subseteq Nat /\ n \in Nat
  BY <1>3 DEF CleanSet
<1>6. e \in c.items
  BY <1>1, <1>2, <1>4, <1>5, MinMember
<1>7. clean' \in CleanSet /\ clean'.items = c.items \ {e} /\ clean'.cutoff = c.cutoff
  BY <1>4, <1>5 DEF CleanSet
<1>8. e \in DOMAIN event /\ event[e] \in EventSet /\ TooOld(event[e].day)
      /\ event \in Seq(EventSet)
  BY <1>2, <1>6 DEF RollupInv, EventControl
<1>9. PICK g \in EventSet : g = Gone(event[e]) /\ g.day = event[e].day /\ g.product = event[e].product
  <2>1. PICK old \in EventSet : old = event[e]
    BY <1>8
  <2>2. Gone(old) \in EventSet /\ Gone(old).day = old.day /\ Gone(old).product = old.product
    BY DEF Gone, EventSet
  <2> QED  BY <2>1, <2>2
<1>10. event' \in Seq(EventSet) /\ DOMAIN event' = DOMAIN event
       /\ \A i \in DOMAIN event : /\ event'[i].day = event[i].day
                                  /\ event'[i].product = event[i].product
                                  /\ event'[i] = event[i] \/ i = e
  BY <1>4, <1>8, <1>9
<1>11. EventControl'
  <2>1. today' = today
    BY <1>4
  <2>2. \A i \in DOMAIN event' : event'[i].kept \/ TooOld(event'[i].day)
    BY <1>8, <1>10 DEF RollupInv, EventControl
  <2>3. \A i \in clean'.items : i \in DOMAIN event' /\ TooOld(event'[i].day)
    BY <1>2, <1>7, <1>10 DEF RollupInv, EventControl
  <2>4. clean'.cutoff <= today - Retention
    BY <1>2, <1>7 DEF RollupInv, EventControl
  <2> QED  BY <1>7, <1>10, <2>1, <2>2, <2>3, <2>4 DEF RollupInv, EventControl, TooOld
<1>12. Grows
  BY <1>4, <1>10 DEF Grows, RollupInv, EventControl, Day
<1>13. DayControl'
  BY <1>4 DEF RollupInv, DayControl
<1> QED  BY <1>4, <1>11, <1>12, <1>13, NoRowWritten DEF RollupInv

-----------------------------------------------------------------------------
(* What an aggregation has read.                                           *)

\* The first page of a day that fits has all of its events.
LEMMA PageOfSteadyDay ==
  ASSUME EventControl, NEW d \in Day, NEW events \in PageSets(OfDay(d), 1)
  PROVE  events \subseteq DayEvents(d) /\ (Steady(d) => events = DayEvents(d))
<1>1. OfDay(d) \subseteq DayEvents(d) /\ DayEvents(d) \subseteq DOMAIN event
  BY DEF OfDay, Kept, DayEvents
<1>2. PICK n \in Nat : n = Cardinality(OfDay(d))
  BY <1>1, FiniteEvents
<1>3. PICK page \in Nat : page = PageSize
  BY RollupAssumption
<1>4. (1 - 1) * page = 0
  OBVIOUS
<1>5. events \in SUBSET OfDay(d) /\ Cardinality(events) = Max({0, Min({page, n})})
  <2>1. n - (1 - 1) * page = n
    BY <1>4
  <2> QED  BY <1>2, <1>3, <2>1 DEF PageSets, kSubset
<1>6. ASSUME Steady(d)
      PROVE  events = DayEvents(d)
  <2>1. d >= today - Retention /\ Cardinality(DayEvents(d)) <= page
    BY <1>3, <1>6 DEF Steady
  <2>2. ~TooOld(d)
    BY <2>1, RollupAssumption DEF TooOld, EventControl, Day
  <2>3. OfDay(d) = DayEvents(d)
    BY <2>2 DEF EventControl, OfDay, Kept, DayEvents
  <2>4. n <= page
    BY <1>2, <2>1, <2>3
  <2>5. Cardinality(events) = n
    BY <1>5, <2>4, MinOfTwo, MaxOfTwo
  <2>6. IsFiniteSet(OfDay(d))
    BY <1>1, FiniteEvents
  <2> QED  BY <1>2, <1>5, <2>3, <2>5, <2>6, FS_Subset
<1> QED  BY <1>1, <1>5, <1>6

LEMMA ComputedRow ==
  ASSUME EventControl, NEW d \in Day, NEW events \in SUBSET DayEvents(d),
         NEW q, q = Computed(events)
  PROVE  /\ q \in Seq(RowSet) /\ q # <<>>
         /\ \A i \in DOMAIN q : q[i].views = Views(events, q[i].product)
<1> DEFINE products == {event[e].product : e \in events} \ {Nil}
           Of(i) == IF i = 1 THEN Nil ELSE SetToSeq(products)[i - 1]
<1>1. IsFiniteSet(events) /\ events \subseteq DOMAIN event
  BY FiniteEvents DEF DayEvents
<1>2. IsFiniteSet(products)
  BY <1>1, FiniteProducts
<1>3. products \subseteq Product
  <2>1. \A e \in events : event[e] \in EventSet
    BY <1>1 DEF EventControl
  <2> QED  BY <2>1 DEF EventSet
<1>4. PICK n \in Nat : n = Cardinality(products)
  BY <1>2, FS_CardinalityType
<1>5. \A i \in 1 .. 1 + n : Of(i) \in Product \cup {Nil}
  <2> SUFFICES ASSUME NEW i \in 1 .. 1 + n, i # 1
               PROVE  SetToSeq(products)[i - 1] \in Product
    OBVIOUS
  <2>1. i - 1 \in 1 .. Cardinality(products)
    BY <1>4
  <2> QED  BY <1>2, <1>3, <2>1, SetToSeqMember
<1>6. \A p : Views(events, p) \in Nat
  <2> SUFFICES ASSUME NEW p
               PROVE  Views(events, p) \in Nat
    OBVIOUS
  <2>1. {e \in events : p = Nil \/ event[e].product = p} \in SUBSET DOMAIN event
    BY <1>1
  <2> QED  BY <2>1, FiniteEvents DEF Views
<1>7. q = [i \in 1 .. 1 + n |-> [product |-> Of(i), views |-> Views(events, Of(i))]]
  BY <1>4 DEF Computed
<1> HIDE DEF Of, products
<1>8. \A i \in 1 .. 1 + n : [product |-> Of(i), views |-> Views(events, Of(i))] \in RowSet
  BY <1>5, <1>6 DEF RowSet
<1>9. q \in [1 .. 1 + n -> RowSet] /\ 1 + n \in Nat
  BY <1>7, <1>8
<1>10. q \in Seq(RowSet) /\ DOMAIN q = 1 .. 1 + n /\ 1 \in DOMAIN q
  BY <1>9
<1>11. q # <<>>
  BY <1>10
<1>12. \A i \in DOMAIN q : q[i].views = Views(events, q[i].product)
  BY <1>7, <1>10
<1> QED  BY <1>10, <1>11, <1>12

LEMMA ComputedQueue ==
  ASSUME EventControl, AggregateControl, NEW d \in Day,
         NEW events \in PageSets(OfDay(d), 1), NEW q, q = Computed(events)
  PROVE  q \in Seq(RowSet) /\ QueueFor(d, q)
<1>1. events \in SUBSET DayEvents(d) /\ (Steady(d) => events = DayEvents(d))
  BY PageOfSteadyDay
<1>2. /\ q \in Seq(RowSet) /\ q # <<>>
      /\ \A i \in DOMAIN q : q[i].views = Views(events, q[i].product)
  BY <1>1, ComputedRow
<1>3. \A p : Views(events, p) <= Cardinality(RowEvents(d, p))
  <2> SUFFICES ASSUME NEW p
               PROVE  Views(events, p) <= Cardinality(RowEvents(d, p))
    OBVIOUS
  <2>1. {e \in events : p = Nil \/ event[e].product = p} \in SUBSET RowEvents(d, p)
    BY <1>1 DEF DayEvents, RowEvents
  <2>2. IsFiniteSet(RowEvents(d, p))
    BY FiniteEvents DEF RowEvents
  <2> QED  BY <2>1, <2>2, FS_Subset DEF Views
<1>4. ASSUME Steady(d), NEW k \in DOMAIN q, NEW i \in RowsOf(<<d, q[k].product>>)
      PROVE  aggs[i].views <= q[k].views
  <2>1. i \in DOMAIN aggs /\ aggs[i].day = d /\ aggs[i].product = q[k].product
    BY DEF RowsOf
  <2>2. aggs[i].views <= Cardinality(RowEvents(d, q[k].product))
    BY <2>1 DEF AggregateControl, RowsCountStoredEvents, RowEvents
  <2>3. RowEvents(d, q[k].product)
          = {e \in events : q[k].product = Nil \/ event[e].product = q[k].product}
    BY <1>1, <1>4 DEF RowEvents, DayEvents
  <2> QED  BY <1>2, <2>2, <2>3 DEF Views
<1> QED  BY <1>2, <1>3, <1>4 DEF QueueFor

LEMMA TailQueue ==
  ASSUME NEW d, NEW q \in Seq(RowSet), QueueFor(d, q), Len(q) > 1
  PROVE  Tail(q) \in Seq(RowSet) /\ QueueFor(d, Tail(q))
<1>1. Tail(q) \in Seq(RowSet) /\ Len(Tail(q)) = Len(q) - 1
  OBVIOUS
<1>2. Len(Tail(q)) # 0
  BY <1>1
<1>3. Len(<<>>) = 0
  OBVIOUS
<1>4. Tail(q) # <<>>
  BY <1>2, <1>3
<1>5. \A k \in DOMAIN Tail(q) : k + 1 \in DOMAIN q /\ Tail(q)[k] = q[k + 1]
  BY <1>1
<1> QED  BY <1>1, <1>4, <1>5 DEF QueueFor

-----------------------------------------------------------------------------
(* The steps of an aggregation.                                            *)

LEMMA FetchStep ==
  ASSUME RollupInv, NEW r \in Roller, Fetch(r)
  PROVE  RollupInv'
<1>1. phase[r] \in Working /\ UNCHANGED <<today, event, aggs, target>>
  BY DEF Fetch, Working
<1>2. CASE \E events \in PageSets(OfDay(span[r].day), 1) :
             /\ queue' = [queue EXCEPT ![r] = Computed(events)]
             /\ phase' = [phase EXCEPT ![r] = "lookup"]
             /\ UNCHANGED <<span, clean, overlapped>>
  <2>1. PICK d \in Day : d = span[r].day
    BY DEF RollupInv, DayControl
  <2>2. PICK events \in PageSets(OfDay(d), 1) :
             /\ queue' = [queue EXCEPT ![r] = Computed(events)]
             /\ phase' = [phase EXCEPT ![r] = "lookup"]
             /\ UNCHANGED <<span, clean, overlapped>>
    BY <1>2, <2>1
  <2>3. PICK q : q = Computed(events)
    OBVIOUS
  <2>4. q \in Seq(RowSet) /\ QueueFor(d, q)
    BY <2>3, ComputedQueue DEF RollupInv
  <2>5. queue' = [queue EXCEPT ![r] = q] /\ queue \in [Roller -> Seq(RowSet)]
    BY <2>2, <2>3 DEF RollupInv
  <2>6. "lookup" \in Working
    BY DEF Working
  <2>7. DayControl' /\ phase'[r] = "lookup" /\ \A p \in Roller \ {r} : phase'[p] = phase[p]
    BY <1>1, <2>2, <2>6, SameDay DEF RollupInv
  <2>8. EventControl' /\ Grows
    BY <1>1, <2>2, EventsStay, EventsStayGrows DEF RollupInv, EventControl
  <2>9. QueueFor(d, q)'
    BY <1>1, <2>4, <2>8, QueueGrows DEF RollupInv
  <2>10. span'[r].day = d /\ queue'[r] = q
    BY <2>1, <2>2, <2>5
  <2>11. RollerControl(r)'
    BY <2>7, <2>9, <2>10 DEF RollerControl
  <2>12. queue' \in [Roller -> Seq(RowSet)] /\ \A p \in Roller \ {r} : queue'[p] = queue[p]
    BY <2>4, <2>5
  <2> QED  BY <1>1, <2>2, <2>7, <2>8, <2>11, <2>12, NoRowWritten DEF RollupInv
<1>3. CASE NextDay(r) /\ UNCHANGED queue
  <2>1. /\ DayControl' /\ overlapped \subseteq overlapped'
        /\ phase'[r] \notin {"lookup", "store"}
        /\ \A q \in Roller \ {r} : phase'[q] = phase[q] /\ span'[q] = span[q]
        /\ clean' \in {clean, NewSweep}
    BY <1>3, NextDayKeeps DEF RollupInv
  <2>2. EventControl' /\ Grows
    <3>1. NewSweep \in CleanSet /\ NewSweep.items = {} /\ NewSweep.cutoff <= today - Retention
      BY NewSweepIsClean DEF RollupInv, EventControl
    <3> QED  BY <1>1, <2>1, <3>1, EventsStay, EventsStayGrows DEF RollupInv, EventControl
  <2> QED  BY <1>1, <1>3, <2>1, <2>2, NoRowWritten DEF RollupInv
<1> QED  BY <1>2, <1>3 DEF Fetch

\* What is left to write is written for the same day, or the next day comes.
LEMMA NextRowKeeps ==
  ASSUME RollupInv, NEW r \in Roller, phase[r] \in {"lookup", "store"}, NextRow(r),
         UNCHANGED <<today, event>>
  PROVE  /\ DayControl' /\ EventControl' /\ Grows
         /\ queue' \in [Roller -> Seq(RowSet)] /\ target' \in [Roller -> Nat]
         /\ OtherRollers(r) /\ phase'[r] # "store"
         /\ phase'[r] = "lookup" =>
              span'[r] = span[r] /\ Len(queue[r]) > 1 /\ queue'[r] = Tail(queue[r])
<1>1. PICK q \in Seq(RowSet) : q = queue[r]
  BY DEF RollupInv
<1>2. q # <<>>
  BY <1>1 DEF RollupInv, RollerControl, QueueFor
<1>3. /\ queue' = [queue EXCEPT ![r] = Tail(q)] /\ target' = [target EXCEPT ![r] = 0]
      /\ queue \in [Roller -> Seq(RowSet)] /\ target \in [Roller -> Nat] /\ Tail(q) \in Seq(RowSet)
  BY <1>1, <1>2 DEF NextRow, RollupInv
<1>4. /\ queue' \in [Roller -> Seq(RowSet)] /\ target' \in [Roller -> Nat]
      /\ queue'[r] = Tail(queue[r])
      /\ \A p \in Roller \ {r} : queue'[p] = queue[p] /\ target'[p] = target[p]
  BY <1>1, <1>3
<1>5. CASE /\ Len(q) > 1 /\ phase' = [phase EXCEPT ![r] = "lookup"]
           /\ UNCHANGED <<span, clean, overlapped>>
  <2>1. "lookup" \in Working /\ phase[r] \in Working
    BY DEF Working
  <2>2. DayControl' /\ phase'[r] = "lookup" /\ \A p \in Roller \ {r} : phase'[p] = phase[p]
    BY <1>5, <2>1, SameDay DEF RollupInv
  <2>3. EventControl' /\ Grows
    BY <1>5, EventsStay, EventsStayGrows DEF RollupInv, EventControl
  <2> QED  BY <1>1, <1>4, <1>5, <2>2, <2>3 DEF OtherRollers
<1>6. CASE NextDay(r)
  <2>1. /\ DayControl' /\ overlapped \subseteq overlapped'
        /\ phase'[r] \notin {"lookup", "store"}
        /\ \A p \in Roller \ {r} : phase'[p] = phase[p] /\ span'[p] = span[p]
        /\ clean' \in {clean, NewSweep}
    BY <1>6, NextDayKeeps DEF RollupInv
  <2>2. EventControl' /\ Grows
    <3>1. NewSweep \in CleanSet /\ NewSweep.items = {} /\ NewSweep.cutoff <= today - Retention
      BY NewSweepIsClean DEF RollupInv, EventControl
    <3> QED  BY <2>1, <3>1, EventsStay, EventsStayGrows DEF RollupInv, EventControl
  <2> QED  BY <1>4, <2>1, <2>2 DEF OtherRollers
<1> QED  BY <1>1, <1>5, <1>6 DEF NextRow

LEMMA LookupStep ==
  ASSUME RollupInv, NEW r \in Roller, Lookup(r)
  PROVE  RollupInv'
<1>1. phase[r] = "lookup" /\ UNCHANGED <<today, event, aggs>>
  BY DEF Lookup
<1>2. PICK d \in Day : d = span[r].day
  BY DEF RollupInv, DayControl
<1>3. PICK q \in Seq(RowSet) : q = queue[r]
  BY DEF RollupInv
<1>4. QueueFor(d, q)
  BY <1>1, <1>2, <1>3 DEF RollupInv, RollerControl
<1>5. CASE /\ \E i \in Existing(Key(r)) : target' = [target EXCEPT ![r] = i]
           /\ phase' = [phase EXCEPT ![r] = "store"]
           /\ UNCHANGED <<span, queue, clean, overlapped>>
  <2>1. PICK p : p = Head(q).product
    OBVIOUS
  <2>2. PICK t \in Existing(<<d, p>>) : target' = [target EXCEPT ![r] = t]
    BY <1>2, <1>3, <1>5, <2>1 DEF Key
  <2>3. t \in Nat /\ TargetFor(d, p, t)
    BY DEF Existing, RowsOf, TargetFor, RollupInv, AggregateControl
  <2>4. "store" \in Working /\ phase[r] \in Working
    BY <1>1 DEF Working
  <2>5. DayControl' /\ phase'[r] = "store" /\ \A k \in Roller \ {r} : phase'[k] = phase[k]
    BY <1>5, <2>4, SameDay DEF RollupInv
  <2>6. EventControl' /\ Grows
    BY <1>1, <1>5, EventsStay, EventsStayGrows DEF RollupInv, EventControl
  <2>7. QueueFor(d, q)' /\ TargetFor(d, p, t)'
    BY <1>1, <1>4, <2>3, <2>6, QueueGrows, TargetGrows DEF RollupInv
  <2>8. target' \in [Roller -> Nat] /\ target'[r] = t
        /\ \A k \in Roller \ {r} : target'[k] = target[k]
    BY <2>2, <2>3 DEF RollupInv
  <2>9. span'[r].day = d /\ queue'[r] = q
    BY <1>2, <1>3, <1>5
  <2>10. RollerControl(r)'
    BY <2>1, <2>5, <2>7, <2>8, <2>9 DEF RollerControl
  <2> QED  BY <1>1, <1>5, <2>5, <2>6, <2>8, <2>10, NoRowWritten DEF RollupInv
<1>6. CASE NextRow(r)
  <2>1. /\ DayControl' /\ EventControl' /\ Grows
        /\ queue' \in [Roller -> Seq(RowSet)] /\ target' \in [Roller -> Nat]
        /\ OtherRollers(r) /\ phase'[r] # "store"
        /\ phase'[r] = "lookup" =>
             span'[r] = span[r] /\ Len(queue[r]) > 1 /\ queue'[r] = Tail(queue[r])
    BY <1>1, <1>6, NextRowKeeps
  <2>2. CASE phase'[r] = "lookup"
    <3>1. Tail(q) \in Seq(RowSet) /\ QueueFor(d, Tail(q))
      BY <1>3, <1>4, <2>1, <2>2, TailQueue
    <3>2. PICK tail \in Seq(RowSet) : tail = Tail(q)
      BY <3>1
    <3>3. QueueFor(d, tail)'
      BY <1>1, <2>1, <3>1, <3>2, QueueGrows DEF RollupInv
    <3>4. span'[r].day = d /\ queue'[r] = tail
      BY <1>2, <1>3, <2>1, <2>2, <3>2
    <3>5. RollerControl(r)'
      BY <2>2, <3>3, <3>4 DEF RollerControl
    <3> QED  BY <1>1, <2>1, <3>5, NoRowWritten DEF OtherRollers
  <2>3. CASE phase'[r] # "lookup"
    BY <1>1, <2>1, <2>3, NoRowWritten DEF OtherRollers
  <2> QED  BY <2>2, <2>3
<1> QED  BY <1>5, <1>6 DEF Lookup

-----------------------------------------------------------------------------
(* The write of a row.                                                     *)

\* What an upsert may do to the aggregates: other rows stay as they are, the row
\* that was found counts v, and new rows are of the key, all but one sent again.
Written(d, p, v, t) ==
  /\ aggs' \in Seq(Aggregate)
  /\ \A i \in DOMAIN aggs :
       /\ i \in DOMAIN aggs' /\ aggs'[i].day = aggs[i].day /\ aggs'[i].product = aggs[i].product
       /\ aggs'[i].again = aggs[i].again
       /\ aggs'[i].views = aggs[i].views \/ (i = t /\ aggs'[i].views = v)
  /\ \A i \in DOMAIN aggs' : i \notin DOMAIN aggs =>
       /\ t = 0 /\ aggs'[i].day = d /\ aggs'[i].product = p /\ aggs'[i].views = v
       /\ i # Len(aggs) + 1 => aggs'[i].again

LEMMA StoredIsWritten ==
  ASSUME AggregateControl, NEW d \in Day, NEW p \in Product \cup {Nil}, NEW v \in Nat, NEW t \in Nat,
         t # 0 => t \in RowsOf(<<d, p>>),
         aggs' \in Stored(aggs, t, [day |-> d, product |-> p, views |-> v, again |-> FALSE])
  PROVE  Written(d, p, v, t)
<1>1. PICK new \in Aggregate : new = [day |-> d, product |-> p, views |-> v, again |-> FALSE]
                               /\ new.day = d /\ new.product = p /\ new.views = v
  <2>1. [day |-> d, product |-> p, views |-> v, again |-> FALSE] \in Aggregate
    BY DEF Aggregate
  <2> QED  BY <2>1
<1>2. PICK second \in Aggregate : second = [new EXCEPT !.again = TRUE] /\ second.again
                               /\ second.day = d /\ second.product = p /\ second.views = v
  <2>1. [new EXCEPT !.again = TRUE] \in Aggregate
    BY DEF Aggregate
  <2> QED  BY <1>1, <2>1 DEF Aggregate
<1>3. aggs \in Seq(Aggregate)
  BY DEF AggregateControl
<1>4. CASE aggs' = aggs
  BY <1>3, <1>4 DEF Written
<1>5. CASE t # 0 /\ aggs' = [aggs EXCEPT ![t] = [new EXCEPT !.again = aggs[t].again]]
  <2>1. t \in DOMAIN aggs /\ aggs[t].day = d /\ aggs[t].product = p /\ aggs[t] \in Aggregate
    BY <1>3, <1>5 DEF RowsOf
  <2>2. PICK a \in BOOLEAN : a = aggs[t].again
    BY <2>1 DEF Aggregate
  <2>3. PICK row \in Aggregate : row = [new EXCEPT !.again = a] /\ row.again = a
                               /\ row.day = d /\ row.product = p /\ row.views = v
    <3>1. [new EXCEPT !.again = a] \in Aggregate
      BY DEF Aggregate
    <3> QED  BY <1>1, <3>1 DEF Aggregate
  <2>4. aggs' = [aggs EXCEPT ![t] = row]
    BY <1>5, <2>2, <2>3
  <2>5. aggs' \in Seq(Aggregate) /\ DOMAIN aggs' = DOMAIN aggs /\ aggs'[t] = row
        /\ \A i \in DOMAIN aggs : i # t => aggs'[i] = aggs[i]
    BY <1>3, <2>1, <2>4
  <2> QED  BY <2>1, <2>2, <2>3, <2>5 DEF Written
<1>6. CASE t = 0 /\ aggs' = Append(aggs, new)
  <2>1. aggs' \in Seq(Aggregate) /\ DOMAIN aggs' = DOMAIN aggs \cup {Len(aggs) + 1}
        /\ aggs'[Len(aggs) + 1] = new /\ \A i \in DOMAIN aggs : aggs'[i] = aggs[i]
    BY <1>3, <1>6
  <2> QED  BY <1>1, <1>6, <2>1 DEF Written
<1>7. CASE t = 0 /\ aggs' = aggs \o <<new, second>>
  <2>1. /\ aggs' \in Seq(Aggregate)
        /\ DOMAIN aggs' = DOMAIN aggs \cup {Len(aggs) + 1, Len(aggs) + 2}
        /\ aggs'[Len(aggs) + 1] = new /\ aggs'[Len(aggs) + 2] = second
        /\ \A i \in DOMAIN aggs : aggs'[i] = aggs[i]
    BY <1>3, <1>7
  <2> QED  BY <1>1, <1>2, <1>7, <2>1 DEF Written
<1> QED  BY <1>1, <1>2, <1>4, <1>5, <1>6, <1>7 DEF Stored

\* A write keeps one row per key, unless the day is known to be shared.
LEMMA WrittenAggregates ==
  ASSUME RollupInv, NEW d \in Day, NEW p \in Product \cup {Nil}, NEW v \in Nat, NEW t \in Nat,
         TargetFor(d, p, t), Written(d, p, v, t), v <= Cardinality(RowEvents(d, p)),
         EventControl', Grows, UNCHANGED event
  PROVE  AggregateControl'
<1>1. aggs \in Seq(Aggregate) /\ DuplicatesNeedOverlap /\ RowsCountStoredEvents
  BY DEF RollupInv, AggregateControl
<1>2. ASSUME NEW i \in DOMAIN aggs', i \notin DOMAIN aggs
      PROVE  /\ t = 0 /\ aggs'[i].day = d /\ aggs'[i].product = p /\ aggs'[i].views = v
             /\ i # Len(aggs) + 1 => aggs'[i].again
             /\ d \in overlapped \/ \A j \in DOMAIN aggs : <<aggs[j].day, aggs[j].product>> # <<d, p>>
  BY <1>2 DEF Written, TargetFor, RowsOf
<1>3. DuplicatesNeedOverlap'
  <2> SUFFICES ASSUME NEW i \in DOMAIN aggs', NEW j \in DOMAIN aggs', i # j,
                      aggs'[i].day = aggs'[j].day, aggs'[i].product = aggs'[j].product
               PROVE  aggs'[i].day \in overlapped' \/ aggs'[i].again \/ aggs'[j].again
    BY DEF DuplicatesNeedOverlap
  <2>1. overlapped \subseteq overlapped'
    BY DEF Grows
  <2>2. CASE i \in DOMAIN aggs /\ j \in DOMAIN aggs
    BY <1>1, <2>1, <2>2 DEF Written, DuplicatesNeedOverlap
  <2>3. CASE i \notin DOMAIN aggs /\ j \in DOMAIN aggs
    BY <1>2, <2>1, <2>3 DEF Written
  <2>4. CASE i \in DOMAIN aggs /\ j \notin DOMAIN aggs
    BY <1>2, <2>1, <2>4 DEF Written
  <2>5. CASE i \notin DOMAIN aggs /\ j \notin DOMAIN aggs
    BY <1>2, <2>5
  <2> QED  BY <2>2, <2>3, <2>4, <2>5
<1>4. ASSUME NEW i \in DOMAIN aggs'
      PROVE  aggs'[i].views <= Cardinality(RowEvents(aggs'[i].day, aggs'[i].product))
  <2>1. CASE i \in DOMAIN aggs /\ aggs'[i].views = aggs[i].views
    BY <1>1, <2>1 DEF Written, RowsCountStoredEvents, RowEvents
  <2>2. CASE i \in DOMAIN aggs /\ i = t /\ aggs'[i].views = v
    <3>1. t # 0
      BY <1>1, <2>2
    <3>2. aggs[i].day = d /\ aggs[i].product = p
      BY <2>2, <3>1 DEF TargetFor, RowsOf
    <3> QED  BY <2>2, <3>2 DEF Written
  <2>3. CASE i \notin DOMAIN aggs
    BY <1>2, <2>3
  <2> QED  BY <2>1, <2>2, <2>3 DEF Written
<1>5. RowsCountStoredEvents'
  BY <1>4 DEF RowsCountStoredEvents, RowEvents
<1>6. aggs' \in Seq(Aggregate)
  BY DEF Written
<1> QED  BY <1>3, <1>5, <1>6 DEF AggregateControl

\* The rows that another aggregation is about to write are of another day, or
\* the day is known to be shared.
LEMMA WrittenOthers ==
  ASSUME RollupInv, NEW r \in Roller, NEW a \in Roller, a # r, phase[r] = "store",
         NEW d \in Day, d = span[r].day,
         NEW p \in Product \cup {Nil}, NEW v \in Nat, NEW t \in Nat,
         TargetFor(d, p, t), Written(d, p, v, t),
         EventControl', Grows, UNCHANGED event, OtherRollers(r)
  PROVE  RollerControl(a)'
<1>1. PICK b \in Day : b = span[a].day
  BY DEF RollupInv, DayControl
<1>2. PICK q \in Seq(RowSet) : q = queue[a]
  BY DEF RollupInv
<1>3. PICK u \in Nat : u = target[a]
  BY DEF RollupInv
<1>4. span'[a].day = b /\ queue'[a] = q /\ target'[a] = u /\ phase'[a] = phase[a]
  BY <1>1, <1>2, <1>3 DEF OtherRollers
<1>5. /\ phase[a] \in {"lookup", "store"} => QueueFor(b, q)
      /\ phase[a] = "store" => TargetFor(b, Head(q).product, u)
  BY <1>1, <1>2, <1>3 DEF RollupInv, RollerControl
<1>6. phase[a] \in {"lookup", "store"} /\ b = d => d \in overlapped /\ d \in overlapped'
  <2>1. overlapped \subseteq overlapped'
    BY DEF Grows
  <2> QED  BY <1>1, <2>1 DEF RollupInv, DayControl, Working
<1>7. \A c : RowsOf(<<b, c>>) \subseteq RowsOf(<<b, c>>)'
  BY DEF RowsOf, Written
<1>8. b # d => \A c : RowsOf(<<b, c>>)' = RowsOf(<<b, c>>)
  BY DEF RowsOf, Written
<1>9. b # d => \A c : \A i \in RowsOf(<<b, c>>) : aggs'[i].views = aggs[i].views
  <2> SUFFICES ASSUME b # d, NEW c, NEW i \in RowsOf(<<b, c>>)
               PROVE  aggs'[i].views = aggs[i].views
    OBVIOUS
  <2>1. i \in DOMAIN aggs /\ aggs[i].day = b
    BY DEF RowsOf
  <2>2. i # 0
    BY <2>1 DEF RollupInv, AggregateControl
  <2>3. i # t
    BY <2>1, <2>2 DEF TargetFor, RowsOf
  <2> QED  BY <2>1, <2>3 DEF Written
<1>10. ASSUME QueueFor(b, q), b = d => d \in overlapped'
       PROVE  QueueFor(b, q)'
  <2>1. Steady(b)' => b # d /\ Steady(b)
    BY <1>10, CountsGrow DEF RollupInv, Steady
  <2>2. \A c : RowEvents(b, c)' = RowEvents(b, c)
    BY DEF RowEvents
  <2>3. Steady(b)' => \A k \in DOMAIN q : \A i \in RowsOf(<<b, q[k].product>>)' :
                        aggs'[i].views <= q[k].views
    BY <1>8, <1>9, <1>10, <2>1 DEF QueueFor
  <2> QED  BY <1>10, <2>2, <2>3 DEF QueueFor
<1>11. ASSUME TargetFor(b, Head(q).product, u), b = d => d \in overlapped'
       PROVE  TargetFor(b, Head(q).product, u)'
  <2>1. PICK c : c = Head(q).product
    OBVIOUS
  <2>2. overlapped \subseteq overlapped'
    BY DEF Grows
  <2>3. TargetFor(b, c, u)'
    BY <1>7, <1>8, <1>11, <2>1, <2>2 DEF TargetFor
  <2> QED  BY <2>1, <2>3
<1>12. /\ phase[a] \in {"lookup", "store"} => QueueFor(b, q)'
       /\ phase[a] = "store" => TargetFor(b, Head(q).product, u)'
  BY <1>5, <1>6, <1>10, <1>11
<1> QED  BY <1>4, <1>12 DEF RollerControl

LEMMA UpsertStep ==
  ASSUME RollupInv, NEW r \in Roller, Upsert(r)
  PROVE  RollupInv'
<1>1. phase[r] = "store" /\ NextRow(r) /\ UNCHANGED <<today, event>>
  BY DEF Upsert
<1>2. PICK d \in Day : d = span[r].day
  BY DEF RollupInv, DayControl
<1>3. PICK q \in Seq(RowSet) : q = queue[r]
  BY DEF RollupInv
<1>4. PICK t \in Nat : t = target[r]
  BY DEF RollupInv
<1>5. QueueFor(d, q) /\ TargetFor(d, Head(q).product, t)
  BY <1>1, <1>2, <1>3, <1>4 DEF RollupInv, RollerControl
<1>6. q # <<>> /\ Head(q) \in RowSet /\ 1 \in DOMAIN q /\ Head(q) = q[1]
  BY <1>5 DEF QueueFor
<1>7. PICK p \in Product \cup {Nil}, v \in Nat : p = Head(q).product /\ v = Head(q).views
  BY <1>6 DEF RowSet
<1>8. v <= Cardinality(RowEvents(d, p)) /\ TargetFor(d, p, t)
  BY <1>5, <1>6, <1>7 DEF QueueFor
<1>9. aggs' \in Stored(aggs, t, [day |-> d, product |-> p, views |-> v, again |-> FALSE])
  BY <1>2, <1>3, <1>4, <1>7 DEF Upsert
<1>10. Written(d, p, v, t)
  BY <1>8, <1>9, StoredIsWritten DEF RollupInv, TargetFor
<1>11. /\ DayControl' /\ EventControl' /\ Grows
       /\ queue' \in [Roller -> Seq(RowSet)] /\ target' \in [Roller -> Nat]
       /\ OtherRollers(r) /\ phase'[r] # "store"
       /\ phase'[r] = "lookup" =>
            span'[r] = span[r] /\ Len(queue[r]) > 1 /\ queue'[r] = Tail(queue[r])
  BY <1>1, NextRowKeeps
<1>12. AggregateControl'
  BY <1>1, <1>8, <1>10, <1>11, WrittenAggregates
<1>13. \A a \in Roller \ {r} : RollerControl(a)'
  BY <1>1, <1>2, <1>8, <1>10, <1>11, WrittenOthers
<1>14. ASSUME phase'[r] = "lookup"
       PROVE  RollerControl(r)'
  <2>1. Tail(q) \in Seq(RowSet) /\ QueueFor(d, Tail(q))
    BY <1>3, <1>5, <1>11, <1>14, TailQueue
  <2>2. PICK tail \in Seq(RowSet) : tail = Tail(q)
    BY <2>1
  <2>3. /\ tail # <<>>
        /\ \A k \in DOMAIN tail : tail[k].views <= Cardinality(RowEvents(d, tail[k].product))
        /\ \A k, m \in DOMAIN tail : tail[k].product = tail[m].product => tail[k].views = tail[m].views
        /\ Steady(d) => \A k \in DOMAIN tail : \A i \in RowsOf(<<d, tail[k].product>>) :
                          aggs[i].views <= tail[k].views
    BY <2>1, <2>2 DEF QueueFor
  <2>4. \A k \in DOMAIN tail : tail[k].product = p => tail[k].views = v
    <3> SUFFICES ASSUME NEW k \in DOMAIN tail, tail[k].product = p
                 PROVE  tail[k].views = v
      OBVIOUS
    <3>1. k + 1 \in DOMAIN q /\ tail[k] = q[k + 1]
      BY <1>6, <2>2
    <3> QED  BY <1>5, <1>6, <1>7, <3>1 DEF QueueFor
  <2>5. \A k \in DOMAIN tail : tail[k].views \in Nat
    <3>1. \A k \in DOMAIN tail : tail[k] \in RowSet
      OBVIOUS
    <3> QED  BY <3>1 DEF RowSet
  <2>6. ASSUME Steady(d)', NEW k \in DOMAIN tail, NEW i \in RowsOf(<<d, tail[k].product>>)'
        PROVE  aggs'[i].views <= tail[k].views
    <3>1. Steady(d)
      BY <1>11, <2>6, CountsGrow DEF RollupInv
    <3>2. i \in DOMAIN aggs' /\ aggs'[i].day = d /\ aggs'[i].product = tail[k].product
      BY <2>6 DEF RowsOf
    <3>3. CASE i \in DOMAIN aggs /\ aggs'[i].views = aggs[i].views
      BY <1>10, <2>3, <3>1, <3>2, <3>3 DEF Written, RowsOf
    <3>4. CASE i \in DOMAIN aggs /\ i = t /\ aggs'[i].views = v
      <4>1. i # 0
        BY <3>4 DEF RollupInv, AggregateControl
      <4>2. aggs[i].product = p
        BY <1>8, <3>4, <4>1 DEF TargetFor, RowsOf
      <4> QED  BY <1>10, <2>4, <3>2, <3>4, <4>2 DEF Written
    <3>5. CASE i \notin DOMAIN aggs
      BY <1>10, <2>4, <3>2, <3>5 DEF Written
    <3> QED  BY <1>10, <3>2, <3>3, <3>4, <3>5 DEF Written
  <2>7. \A c : RowEvents(d, c)' = RowEvents(d, c)
    BY <1>1 DEF RowEvents
  <2>8. QueueFor(d, tail)'
    BY <2>3, <2>6, <2>7 DEF QueueFor
  <2>9. span'[r].day = d /\ queue'[r] = tail
    BY <1>2, <1>3, <1>11, <1>14, <2>2
  <2> QED  BY <1>14, <2>8, <2>9 DEF RollerControl
<1>15. \A a \in Roller : RollerControl(a)'
  <2>1. phase'[r] # "lookup" => RollerControl(r)'
    BY <1>11 DEF RollerControl
  <2> QED  BY <1>13, <1>14, <2>1
<1> QED  BY <1>11, <1>12, <1>15 DEF RollupInv

LEMMA RollupUnchanged ==
  ASSUME RollupInv, UNCHANGED rollupVars
  PROVE  RollupInv'
<1>1. EventControl' /\ DayControl' /\ Grows
  BY DEF RollupInv, EventControl, DayControl, rollupVars, TooOld, Grows, Day
<1> QED  BY <1>1, NoRowWritten DEF RollupInv, rollupVars

LEMMA RollupStep ==
  ASSUME RollupInv, [RollupNext]_rollupVars
  PROVE  RollupInv'
<1>1. CASE UNCHANGED rollupVars
  BY <1>1, RollupUnchanged
<1>2. ASSUME NEW p \in Product \cup {Nil}, NEW d \in Day, Occur(p, d)
      PROVE  RollupInv'
  BY <1>2, OccurStep
<1>3. ASSUME NEW r \in Manual, NEW first \in Day, NEW last \in Day, Ask(r, first, last)
      PROVE  RollupInv'
  BY <1>3, AskStep
<1>4. ASSUME NEW r \in Roller, Roll(r)
      PROVE  RollupInv'
  BY <1>4, FetchStep, LookupStep, UpsertStep DEF Roll
<1>5. CASE Clean
  BY <1>5, ListExpiredStep, TurnPageStep, DeleteEventStep DEF Clean
<1>6. CASE SweepFails
  BY <1>6, EndNightStep DEF SweepFails
<1> QED  BY <1>1, <1>2, <1>3, <1>4, <1>5, <1>6, MidnightStep, NightStep DEF RollupNext

\* What an aggregation has computed and looked up still holds when it writes, on
\* every day that no other aggregation has touched meanwhile.
THEOREM RollupInvariance == RollupSpec => []RollupInv
<1>1. RollupInit => RollupInv
  <2> SUFFICES ASSUME RollupInit
               PROVE  RollupInv
    OBVIOUS
  <2>1. /\ today = 1 /\ event = <<>> /\ overlapped = {} /\ aggs = <<>>
        /\ phase = [r \in Roller |-> "idle"]
        /\ span = [r \in Roller |-> [day |-> 1, last |-> 0]]
        /\ queue = [r \in Roller |-> <<>>] /\ target = [r \in Roller |-> 0] /\ clean = NoClean
    BY DEF RollupInit, RollupStart
  <2>2. 1 \in Day /\ 0 \in 0 .. LastDay
    BY RollupAssumption DEF Day
  <2>3. EventControl
    BY <2>1, <2>2, NewSweepIsClean DEF EventControl
  <2>4. DayControl
    BY <2>1, <2>2 DEF DayControl, Working
  <2>5. AggregateControl
    BY <2>1 DEF AggregateControl, DuplicatesNeedOverlap, RowsCountStoredEvents
  <2>6. \A r \in Roller : RollerControl(r)
    BY <2>1 DEF RollerControl
  <2> QED  BY <2>1, <2>3, <2>4, <2>5, <2>6 DEF RollupInv
<1> QED  BY <1>1, RollupStep, PTL DEF RollupSpec

\* One day has one row per property, unless two aggregations of the day
\* overlapped or the answer to a create was lost.
THEOREM DuplicatesExplained == RollupSpec => []DuplicatesNeedOverlap
<1>1. RollupInv => DuplicatesNeedOverlap
  BY DEF RollupInv, AggregateControl
<1> QED  BY <1>1, RollupInvariance, PTL

\* No row counts more than the events that were stored for it, whatever runs at
\* the same time and whatever was deleted since.
THEOREM RowsCountEvents == RollupSpec => []RowsCountStoredEvents
<1>1. RollupInv => RowsCountStoredEvents
  BY DEF RollupInv, AggregateControl
<1> QED  BY <1>1, RollupInvariance, PTL

\* Aggregating a day again never lowers a number, unless the retention has eaten
\* events of the day, a page does not take them, or aggregations overlapped.
THEOREM ShrinksExplained == RollupSpec => ShrinksOnlyByCleanup
<1>1. RollupInv /\ [RollupNext]_rollupVars =>
        [\A i \in DOMAIN aggs :
           aggs'[i].views < aggs[i].views =>
             \/ aggs[i].day < today - Retention
             \/ Cardinality({e \in DOMAIN event : event[e].day = aggs[i].day}) > PageSize
             \/ aggs[i].day \in overlapped]_rollupVars
  <2> SUFFICES ASSUME RollupInv, [RollupNext]_rollupVars, NEW i \in DOMAIN aggs,
                      aggs'[i].views < aggs[i].views
               PROVE  \/ aggs[i].day < today - Retention
                      \/ Cardinality({e \in DOMAIN event : event[e].day = aggs[i].day}) > PageSize
                      \/ aggs[i].day \in overlapped
    OBVIOUS
  <2>1. aggs \in Seq(Aggregate) /\ aggs[i] \in Aggregate
    BY DEF RollupInv, AggregateControl
  <2>2. aggs[i].views \in Nat /\ aggs[i].day \in Day
    BY <2>1 DEF Aggregate
  <2>3. aggs' # aggs
    BY <2>2
  <2>4. PICK r \in Roller : Upsert(r)
    BY <2>3 DEF RollupNext, rollupVars, Occur, Midnight, Night, Begin, Ask, Roll, Fetch, Lookup,
       Clean, ListExpired, TurnPage, DeleteEvent, SweepFails
  <2>5. PICK d \in Day : d = span[r].day
    BY DEF RollupInv, DayControl
  <2>6. PICK q \in Seq(RowSet) : q = queue[r]
    BY DEF RollupInv
  <2>7. PICK t \in Nat : t = target[r]
    BY DEF RollupInv
  <2>8. QueueFor(d, q) /\ TargetFor(d, Head(q).product, t)
    BY <2>4, <2>5, <2>6, <2>7 DEF Upsert, RollupInv, RollerControl
  <2>9. q # <<>> /\ Head(q) \in RowSet /\ 1 \in DOMAIN q /\ Head(q) = q[1]
    BY <2>8 DEF QueueFor
  <2>10. PICK p \in Product \cup {Nil}, v \in Nat : p = Head(q).product /\ v = Head(q).views
    BY <2>9 DEF RowSet
  <2>11. Written(d, p, v, t)
    <3>1. aggs' \in Stored(aggs, t, [day |-> d, product |-> p, views |-> v, again |-> FALSE])
      BY <2>4, <2>5, <2>6, <2>7, <2>10 DEF Upsert
    <3> QED  BY <2>8, <2>10, <3>1, StoredIsWritten DEF RollupInv, TargetFor
  <2>12. i = t /\ aggs'[i].views = v
    BY <2>2, <2>11 DEF Written
  <2>13. i \in RowsOf(<<d, p>>)
    <3>1. i # 0
      BY <2>1
    <3> QED  BY <2>8, <2>10, <2>12, <3>1 DEF TargetFor
  <2>14. aggs[i].day = d /\ aggs[i].product = p
    BY <2>13 DEF RowsOf
  <2>15. ~Steady(d)
    <3> SUFFICES ASSUME Steady(d)
                 PROVE  FALSE
      OBVIOUS
    <3>1. aggs[i].views <= v
      BY <2>8, <2>9, <2>10, <2>13 DEF QueueFor
    <3> QED  BY <2>2, <2>12, <3>1
  <2>16. Cardinality(DayEvents(d)) \in Nat
    BY FiniteEvents DEF RollupInv, DayEvents
  <2>17. d < today - Retention \/ Cardinality(DayEvents(d)) > PageSize \/ d \in overlapped
    BY <2>15, <2>16, RollupAssumption DEF Steady, RollupInv, EventControl, Day
  <2> QED  BY <2>14, <2>17 DEF DayEvents
<1> QED  BY <1>1, RollupInvariance, PTL DEF RollupSpec, ShrinksOnlyByCleanup

-----------------------------------------------------------------------------
(* The insights.                                                           *)

WorkSet == [batch : BOOLEAN, forced : BOOLEAN, left : Seq(Seq(Item) \ {<<>>})]
AtWork == {"load", "look", "complete", "find", "save"}

\* The batches that have a slot.
Running == {j \in Job : work[j].batch /\ stage[j] \in AtWork}

\* A queued batch and a job at work have something left, and what is counted is
\* what there is.
JobControl ==
  /\ stage \in [Job -> Stage] /\ work \in [Job -> WorkSet]
  /\ \A j \in Job :
       /\ stage[j] \in {"listing", "waiting"} => work[j].batch
       /\ stage[j] \in {"waiting"} \cup AtWork => work[j].left # <<>>
  /\ IsFiniteSet(BatchTasks) /\ QueueIsBounded
  /\ IsFiniteSet(Running) /\ slots = Cardinality(Running) /\ slots <= SlotCount

Spending == spent \in [Job -> Nat] /\ OverspendIsOneCall

\* An item that no two jobs wrote at a time has one row, the one that was kept.
OneRow(i) ==
  /\ \A r \in RowsFor(i) : insights[r] = kept[i]
  /\ \A r, q \in RowsFor(i) : r = q
  /\ kept[i] # NoItem => RowsFor(i) # {}

\* What a job has found of its item is still so when it writes.
FoundIsThere(j) ==
  /\ found[j] # 0 => found[j] \in RowsFor(Current(j))
  /\ Current(j) \notin shared =>
       (found[j] = 0 => RowsFor(Current(j)) = {}) /\ ~Writing(j, Current(j))

RowControl ==
  /\ found \in [Job -> Nat] /\ insights \in Seq(Insight)
  /\ kept \in [Item -> Insight \cup {NoItem}] /\ shared \subseteq Item
  /\ \A i \in Item \ shared : OneRow(i)
  /\ \A j \in Job : stage[j] = "save" => FoundIsThere(j)

InsightsInv == JobControl /\ Spending /\ RowControl /\ closed \in BOOLEAN

-----------------------------------------------------------------------------
\* The items of a job at work.
LEMMA AtWorkHas ==
  ASSUME JobControl, NEW j \in Job, stage[j] \in AtWork
  PROVE  /\ work[j] \in WorkSet /\ work[j].left # <<>>
         /\ Head(work[j].left) \in Seq(Item) /\ Head(work[j].left) # <<>>
         /\ Tail(work[j].left) \in Seq(Seq(Item) \ {<<>>})
         /\ Current(j) \in Item
         /\ Tail(Head(work[j].left)) \in Seq(Item)
<1> DEFINE left == work[j].left
<1>1. work[j] \in WorkSet /\ left # <<>> /\ left \in Seq(Seq(Item) \ {<<>>})
  BY DEF JobControl, WorkSet
<1>2. Head(left) \in Seq(Item) \ {<<>>} /\ Tail(left) \in Seq(Seq(Item) \ {<<>>})
  BY <1>1
<1>3. Head(Head(left)) \in Item /\ Tail(Head(left)) \in Seq(Item)
  BY <1>2
<1> QED  BY <1>1, <1>2, <1>3 DEF Current

\* What is left changes nothing else of a job.
LEMMA LeftIsWork ==
  ASSUME NEW w \in WorkSet, NEW left \in Seq(Seq(Item) \ {<<>>})
  PROVE  WithLeft(w, left) \in WorkSet /\ WithLeft(w, left).batch = w.batch
         /\ WithLeft(w, left).left = left
BY DEF WorkSet, WithLeft

\* A job that goes on with what is left, or is done, keeps the count.
LEMMA JobGoesOn ==
  ASSUME JobControl, NEW j \in Job, stage[j] \in AtWork,
         NEW w \in WorkSet, w.batch = work[j].batch, work' = [work EXCEPT ![j] = w],
         NEW s \in AtWork \cup {"done"}, Enter(j, s),
         \/ s # "done" /\ w.left # <<>> /\ slots' = slots
         \/ s = "done" /\ slots' = IF work[j].batch THEN slots - 1 ELSE slots
  PROVE  JobControl'
<1> USE DEF JobControl, Enter, AtWork, Stage
<1>1. stage' \in [Job -> Stage] /\ work' \in [Job -> WorkSet]
  OBVIOUS
<1>2. \A k \in Job \ {j} : stage'[k] = stage[k] /\ work'[k] = work[k]
  OBVIOUS
<1>3. stage'[j] = s /\ work'[j] = w
  OBVIOUS
<1>4. \A k \in Job :
        /\ stage'[k] \in {"listing", "waiting"} => work'[k].batch
        /\ stage'[k] \in {"waiting"} \cup AtWork => work'[k].left # <<>>
  BY <1>2, <1>3
<1>5. CASE s # "done"
  <2>1. BatchTasks' = BatchTasks /\ Running' = Running /\ slots' = slots
    BY <1>2, <1>3, <1>5 DEF BatchTasks, Running
  <2> QED  BY <1>1, <1>4, <2>1 DEF QueueIsBounded
<1>6. CASE s = "done"
  <2>1. BatchTasks' = BatchTasks \ {j} /\ Running' = Running \ {j}
    BY <1>2, <1>3, <1>6 DEF BatchTasks, Running
  <2>2. IsFiniteSet(BatchTasks') /\ Cardinality(BatchTasks') <= QueueLimit
    BY <2>1, FS_Subset, FS_CardinalityType, InsightsAssumption DEF QueueIsBounded
  <2>3. work[j].batch <=> j \in Running
    BY DEF Running
  <2>4. /\ IsFiniteSet(Running') /\ slots' = Cardinality(Running') /\ slots' <= SlotCount
    BY <1>6, <2>1, <2>3, FS_RemoveElement, FS_CardinalityType, InsightsAssumption
  <2> QED  BY <1>1, <1>4, <2>2, <2>4 DEF QueueIsBounded
<1> QED  BY <1>5, <1>6

\* The next property, or the end.
LEMMA NextPropertyControl ==
  ASSUME JobControl, NEW j \in Job, stage[j] \in AtWork, NEW failed, NextProperty(j, failed)
  PROVE  /\ JobControl'
         /\ \A k \in Job \ {j} : stage'[k] = stage[k] /\ work'[k] = work[k]
         /\ stage'[j] # "save"
<1> DEFINE left == Tail(work[j].left)
           w == WithLeft(work[j], left)
           s == IF left = <<>> THEN "done" ELSE "load"
<1>1. work[j] \in WorkSet /\ left \in Seq(Seq(Item) \ {<<>>})
  BY AtWorkHas
<1>2. w \in WorkSet /\ w.batch = work[j].batch /\ w.left = left
  BY <1>1, LeftIsWork
<1>3. work' = [work EXCEPT ![j] = w] /\ Enter(j, s)
      /\ slots' = IF left = <<>> THEN Freed(j, failed) ELSE slots
  BY DEF NextProperty, JobControl
<1>4. s \in AtWork \cup {"done"}
  BY DEF AtWork
<1>5. \/ s # "done" /\ w.left # <<>> /\ slots' = slots
      \/ s = "done" /\ slots' = IF work[j].batch THEN slots - 1 ELSE slots
  BY <1>2, <1>3 DEF Freed
<1>6. stage \in [Job -> Stage] /\ work \in [Job -> WorkSet]
  BY DEF JobControl
<1> HIDE DEF w, s, left
<1>7. JobControl'
  BY <1>2, <1>3, <1>4, <1>5, JobGoesOn
<1>8. /\ \A k \in Job \ {j} : stage'[k] = stage[k] /\ work'[k] = work[k]
      /\ stage'[j] = s
  BY <1>3, <1>6 DEF Enter
<1> QED  BY <1>7, <1>8 DEF s

\* The next item, or the next property.
LEMMA NextItemControl ==
  ASSUME JobControl, NEW j \in Job, stage[j] \in AtWork, NextItem(j)
  PROVE  /\ JobControl'
         /\ \A k \in Job \ {j} : stage'[k] = stage[k] /\ work'[k] = work[k]
         /\ stage'[j] # "save"
<1> DEFINE items == Tail(Head(work[j].left))
           left == <<items>> \o Tail(work[j].left)
           w == WithLeft(work[j], left)
           s == FirstStep(j)
<1>1. CASE items = <<>>
  BY <1>1, NextPropertyControl DEF NextItem
<1>2. CASE items # <<>>
  <2>1. /\ work[j] \in WorkSet /\ items \in Seq(Item)
        /\ Tail(work[j].left) \in Seq(Seq(Item) \ {<<>>})
    BY AtWorkHas
  <2>2. left \in Seq(Seq(Item) \ {<<>>}) /\ left # <<>>
    BY <1>2, <2>1
  <2>3. work' = [work EXCEPT ![j] = w] /\ Enter(j, s) /\ slots' = slots
    BY <1>2 DEF NextItem, JobControl
  <2>4. s \in AtWork \cup {"done"} /\ s # "done" /\ s # "save"
    BY DEF AtWork, FirstStep
  <2>5. stage \in [Job -> Stage] /\ work \in [Job -> WorkSet]
    BY DEF JobControl
  <2> HIDE DEF left
  <2>6. w \in WorkSet /\ w.batch = work[j].batch /\ w.left = left
    BY <2>1, <2>2, LeftIsWork
  <2> HIDE DEF w, s
  <2>7. JobControl'
    BY <2>2, <2>3, <2>4, <2>6, JobGoesOn
  <2>8. /\ \A k \in Job \ {j} : stage'[k] = stage[k] /\ work'[k] = work[k]
        /\ stage'[j] = s
    BY <2>3, <2>5 DEF Enter
  <2> QED  BY <2>4, <2>7, <2>8
<1> QED  BY <1>1, <1>2

\* A job that only goes from one stage to another.
LEMMA MoveControl ==
  ASSUME JobControl, NEW j \in Job, stage[j] \in AtWork, UNCHANGED <<work, slots>>,
         NEW s \in AtWork, Enter(j, s)
  PROVE  /\ JobControl'
         /\ \A k \in Job \ {j} : stage'[k] = stage[k] /\ work'[k] = work[k]
         /\ stage'[j] = s /\ work'[j] = work[j]
<1>1. work[j] \in WorkSet /\ work[j].left # <<>>
  BY AtWorkHas
<1>2. work' = [work EXCEPT ![j] = work[j]] /\ stage \in [Job -> Stage]
  BY DEF JobControl
<1>3. s # "done" /\ s \in AtWork \cup {"done"} /\ slots' = slots
  BY DEF AtWork
<1>4. JobControl'
  BY <1>1, <1>2, <1>3, JobGoesOn
<1> QED  BY <1>2, <1>4 DEF Enter

-----------------------------------------------------------------------------
Others(j) == \A k \in Job \ {j} : stage'[k] = stage[k] /\ work'[k] = work[k]

\* The rows and what is found stay right when no row is written and a job comes
\* from, or goes to, another stage than the write.
LEMMA RowsGoOn ==
  ASSUME RowControl, NEW j \in Job, Others(j), stage'[j] # "save",
         UNCHANGED <<insights, kept, shared>>,
         found' \in [Job -> Nat], \A k \in Job \ {j} : found'[k] = found[k]
  PROVE  RowControl'
<1>1. \A i \in Item : RowsFor(i)' = RowsFor(i)
  BY DEF RowsFor
<1>2. \A i \in Item \ shared' : OneRow(i)'
  BY <1>1 DEF RowControl, OneRow
<1>3. ASSUME NEW k \in Job, stage'[k] = "save"
      PROVE  FoundIsThere(k)'
  <2>1. k # j /\ stage[k] = "save" /\ found'[k] = found[k] /\ Current(k)' = Current(k)
    BY <1>3 DEF Others, Current
  <2>2. FoundIsThere(k)
    BY <2>1 DEF RowControl
  <2>3. RowsFor(Current(k))' = RowsFor(Current(k))
    BY <2>1 DEF RowsFor
  <2>4. \A m \in Job : stage'[m] = "save" => stage[m] = "save" /\ Current(m)' = Current(m)
    BY DEF Others, Current
  <2>5. Writing(k, Current(k))' => Writing(k, Current(k))
    BY <2>1, <2>4 DEF Writing
  <2> QED  BY <2>1, <2>2, <2>3, <2>5 DEF FoundIsThere
<1> QED  BY <1>2, <1>3 DEF RowControl

\* The rows of an item in a list, and what a write does to them.
HasItem(rows, i) == {r \in DOMAIN rows : rows[r].item = i}

Wrote(rows, i, row, n, after) ==
  /\ row.item = i
  /\ \/ n \in HasItem(rows, i) /\ after = [rows EXCEPT ![n] = row]
     \/ n = 0 /\ after = Append(rows, row)
     \/ n = 0 /\ after = rows \o <<row, row>>

LEMMA WrittenRows ==
  ASSUME NEW rows \in Seq(Insight), NEW row \in Insight, NEW i \in Item, NEW n \in Nat, NEW after,
         Wrote(rows, i, row, n, after)
  PROVE  /\ after \in Seq(Insight)
         /\ \A m \in Item : m # i => HasItem(after, m) = HasItem(rows, m)
         /\ \A m \in Item : m # i => \A r \in HasItem(rows, m) : after[r] = rows[r]
         /\ HasItem(rows, i) \subseteq HasItem(after, i)
         /\ n # 0 => HasItem(after, i) = HasItem(rows, i) /\ after[n] = row
         /\ n = 0 /\ Len(after) = Len(rows) + 1 =>
              /\ HasItem(after, i) = HasItem(rows, i) \cup {Len(rows) + 1}
              /\ after[Len(rows) + 1] = row
<1>1. row.item = i
  BY DEF Wrote
<1>2. CASE n \in HasItem(rows, i) /\ after = [rows EXCEPT ![n] = row]
  <2>1. n \in DOMAIN rows /\ rows[n].item = i /\ row.item = i
    BY <1>1, <1>2 DEF HasItem
  <2>2. after \in Seq(Insight) /\ DOMAIN after = DOMAIN rows /\ Len(after) = Len(rows)
        /\ after[n] = row /\ \A r \in DOMAIN rows : r # n => after[r] = rows[r]
    BY <1>2, <2>1
  <2>3. \A m : HasItem(after, m) = HasItem(rows, m)
    BY <2>1, <2>2 DEF HasItem
  <2>6. \A m \in Item : m # i => n \notin HasItem(rows, m)
    BY <2>1 DEF HasItem
  <2>7. \A m \in Item : m # i => \A r \in HasItem(rows, m) : after[r] = rows[r]
    BY <2>2, <2>6 DEF HasItem
  <2>8. n # 0
    BY <2>1
  <2> QED  BY <2>2, <2>3, <2>7, <2>8
<1>3. CASE n = 0 /\ after = Append(rows, row)
  <2>1. after \in Seq(Insight) /\ DOMAIN after = DOMAIN rows \cup {Len(rows) + 1}
        /\ Len(rows) + 1 \notin DOMAIN rows
        /\ after[Len(rows) + 1] = row /\ \A r \in DOMAIN rows : after[r] = rows[r]
    BY <1>3
  <2> QED  BY <1>1, <1>3, <2>1 DEF HasItem
<1>4. CASE n = 0 /\ after = rows \o <<row, row>>
  <2>1. /\ after \in Seq(Insight) /\ Len(after) = Len(rows) + 2
        /\ DOMAIN after = DOMAIN rows \cup {Len(rows) + 1, Len(rows) + 2}
        /\ Len(rows) + 1 \notin DOMAIN rows /\ Len(rows) + 2 \notin DOMAIN rows
        /\ after[Len(rows) + 1] = row /\ after[Len(rows) + 2] = row
        /\ \A r \in DOMAIN rows : after[r] = rows[r]
    BY <1>4
  <2> QED  BY <1>1, <1>4, <2>1 DEF HasItem
<1> QED  BY <1>2, <1>3, <1>4 DEF Wrote

\* The write of a job leaves one row of its item, unless the job was not alone
\* or its create made two, and leaves the rows of other items alone.
LEMMA LandKeeps ==
  ASSUME JobControl, RowControl, NEW j \in Job, stage[j] = "save", Land(j),
         Others(j), stage'[j] # "save",
         found' \in [Job -> Nat], \A k \in Job \ {j} : found'[k] = found[k]
  PROVE  RowControl'
<1>1. PICK i \in Item : i = Current(j)
  BY AtWorkHas DEF AtWork
<1>2. PICK n \in Nat : n = found[j]
  BY DEF RowControl
<1>3. PICK row \in Insight : row = [item |-> i, by |-> j] /\ row.item = i
  <2>1. [item |-> i, by |-> j] \in Insight /\ [item |-> i, by |-> j].item = i
    BY DEF Insight
  <2> QED  BY <2>1
<1>4. insights \in Seq(Insight) /\ kept \in [Item -> Insight \cup {NoItem}] /\ shared \subseteq Item
  BY DEF RowControl
<1>5. /\ n # 0 => n \in HasItem(insights, i)
      /\ i \notin shared => (n = 0 => HasItem(insights, i) = {}) /\ ~Writing(j, i)
  <2>1. FoundIsThere(j)
    BY DEF RowControl
  <2> QED  BY <1>1, <1>2, <2>1 DEF FoundIsThere, HasItem, RowsFor
<1>6. \/ n # 0 /\ insights' = [insights EXCEPT ![n] = row] /\ shared' = shared
      \/ n = 0 /\ insights' = Append(insights, row) /\ shared' = shared
      \/ n = 0 /\ insights' = insights \o <<row, row>> /\ shared' = shared \cup {i}
  BY <1>1, <1>2, <1>3 DEF Land
<1>7. kept' = [kept EXCEPT ![i] = row]
  BY <1>1, <1>3 DEF Land
<1>8. /\ insights' \in Seq(Insight)
      /\ \A m \in Item : m # i => HasItem(insights', m) = HasItem(insights, m)
      /\ \A m \in Item : m # i => \A r \in HasItem(insights, m) : insights'[r] = insights[r]
      /\ HasItem(insights, i) \subseteq HasItem(insights', i)
      /\ n # 0 => HasItem(insights', i) = HasItem(insights, i) /\ insights'[n] = row
      /\ n = 0 /\ Len(insights') = Len(insights) + 1 =>
           /\ HasItem(insights', i) = HasItem(insights, i) \cup {Len(insights) + 1}
           /\ insights'[Len(insights) + 1] = row
  <2>1. PICK after : after = insights'
    OBVIOUS
  <2>2. Wrote(insights, i, row, n, after)
    BY <1>3, <1>5, <1>6, <2>1 DEF Wrote
  <2>5. /\ after \in Seq(Insight)
        /\ \A m \in Item : m # i => HasItem(after, m) = HasItem(insights, m)
        /\ \A m \in Item : m # i => \A r \in HasItem(insights, m) : after[r] = insights[r]
        /\ HasItem(insights, i) \subseteq HasItem(after, i)
        /\ n # 0 => HasItem(after, i) = HasItem(insights, i) /\ after[n] = row
        /\ n = 0 /\ Len(after) = Len(insights) + 1 =>
             /\ HasItem(after, i) = HasItem(insights, i) \cup {Len(insights) + 1}
             /\ after[Len(insights) + 1] = row
    BY <1>4, <2>2, WrittenRows
  <2> QED  BY <2>1, <2>5
<1>9. shared' \subseteq Item /\ shared \subseteq shared' /\ kept' \in [Item -> Insight \cup {NoItem}]
      /\ kept'[i] = row /\ \A m \in Item : m # i => kept'[m] = kept[m]
  BY <1>4, <1>6, <1>7
<1>10. ASSUME NEW m \in Item, m \notin shared'
       PROVE  OneRow(m)'
  <2>1. m \notin shared /\ OneRow(m)
    BY <1>9, <1>10 DEF RowControl
  <2>2. RowsFor(m) = HasItem(insights, m) /\ RowsFor(m)' = HasItem(insights', m)
    BY DEF RowsFor, HasItem
  <2>3. CASE m # i
    BY <1>8, <1>9, <2>1, <2>2, <2>3 DEF OneRow
  <2>4. CASE m = i /\ n # 0
    BY <1>5, <1>8, <1>9, <2>1, <2>2, <2>4 DEF OneRow
  <2>5. CASE m = i /\ n = 0
    <3>1. Len(insights') = Len(insights) + 1 /\ HasItem(insights, i) = {}
      BY <1>4, <1>5, <1>6, <1>9, <1>10, <2>1, <2>5
    <3>2. \E x : HasItem(insights', i) = {x} /\ insights'[x] = row
      BY <1>8, <2>5, <3>1
    <3> QED  BY <1>9, <2>2, <2>5, <3>2 DEF OneRow
  <2> QED  BY <2>3, <2>4, <2>5
<1>11. ASSUME NEW k \in Job, stage'[k] = "save"
       PROVE  FoundIsThere(k)'
  <2>1. k # j /\ stage[k] = "save" /\ found'[k] = found[k] /\ Current(k)' = Current(k)
    BY <1>11 DEF Others, Current
  <2>2. PICK c \in Item : c = Current(k)
    BY <2>1, AtWorkHas DEF AtWork
  <2>3. FoundIsThere(k)
    BY <2>1 DEF RowControl
  <2>4. /\ found[k] # 0 => found[k] \in HasItem(insights, c)
        /\ c \notin shared => (found[k] = 0 => HasItem(insights, c) = {}) /\ ~Writing(k, c)
    BY <2>2, <2>3 DEF FoundIsThere, HasItem, RowsFor
  <2>5. Writing(k, c)' => Writing(k, c)
    BY <2>1 DEF Writing, Others, Current
  <2>6. c = i => c \in shared
    BY <1>1, <2>1, <2>4 DEF Writing
  <2>7. /\ found'[k] # 0 => found'[k] \in HasItem(insights', c)
        /\ c \notin shared' => (found'[k] = 0 => HasItem(insights', c) = {}) /\ ~Writing(k, c)'
    BY <1>8, <1>9, <2>1, <2>4, <2>5, <2>6
  <2>8. Current(k)' = c
    BY <2>1, <2>2
  <2> QED  BY <2>7, <2>8 DEF FoundIsThere, HasItem, RowsFor, Writing
<1> QED  BY <1>8, <1>9, <1>10, <1>11 DEF RowControl

-----------------------------------------------------------------------------
\* What no action of the model client changes.
LEMMA SameSpending ==
  ASSUME Spending, UNCHANGED spent
  PROVE  Spending'
BY DEF Spending, OverspendIsOneCall

LEMMA SameRows ==
  ASSUME RowControl, NEW j \in Job, Others(j), stage'[j] # "save", UNCHANGED <<found, insights, kept, shared>>
  PROVE  RowControl'
<1>1. found' \in [Job -> Nat] /\ \A k \in Job \ {j} : found'[k] = found[k]
  BY DEF RowControl
<1> QED  BY <1>1, RowsGoOn

LEMMA AnalyzeStep ==
  ASSUME InsightsInv, NEW j \in Job, NEW w \in JobWork, Analyze(j, w)
  PROVE  InsightsInv'
<1>1. stage[j] = "new" /\ work' = [work EXCEPT ![j] = w] /\ slots' = slots
      /\ stage' = [stage EXCEPT ![j] = IF w.batch THEN "listing" ELSE "load"]
  BY DEF Analyze, Enter
<1>2. stage \in [Job -> Stage] /\ work \in [Job -> WorkSet] /\ JobControl
  BY DEF InsightsInv, JobControl
<1>3. w \in WorkSet /\ (w.batch \/ w.left # <<>>)
  BY InsightsAssumption DEF WorkSet
<1>4. Others(j) /\ stage'[j] \in {"listing", "load"} /\ work'[j] = w
      /\ (stage'[j] = "listing" <=> w.batch)
  BY <1>1, <1>2, <1>3 DEF Others, WorkSet
<1>5. BatchTasks' = BatchTasks /\ Running' = Running
  BY <1>1, <1>4 DEF BatchTasks, Running, Others, AtWork
<1>6. stage' \in [Job -> Stage] /\ work' \in [Job -> WorkSet]
  BY <1>1, <1>2, <1>3 DEF Stage
<1>7. \A k \in Job :
        /\ stage'[k] \in {"listing", "waiting"} => work'[k].batch
        /\ stage'[k] \in {"waiting"} \cup AtWork => work'[k].left # <<>>
  BY <1>2, <1>3, <1>4 DEF JobControl, Others, AtWork
<1>8. JobControl'
  BY <1>1, <1>2, <1>5, <1>6, <1>7 DEF JobControl, QueueIsBounded
<1>9. RowControl'
  BY <1>4, SameRows DEF InsightsInv, Analyze
<1> QED  BY <1>8, <1>9, SameSpending DEF InsightsInv, Analyze

LEMMA EnqueueStep ==
  ASSUME InsightsInv, NEW j \in Job, Enqueue(j)
  PROVE  InsightsInv'
<1>1. stage[j] = "listing" /\ work' = work /\ slots' = slots
      /\ stage' = [stage EXCEPT ![j] = IF HasRoom("listing") /\ work[j].left # <<>>
                                         THEN "waiting" ELSE "done"]
  BY DEF Enqueue, Enter
<1>2. stage \in [Job -> Stage] /\ work \in [Job -> WorkSet] /\ JobControl
  BY DEF InsightsInv, JobControl
<1>3. Others(j) /\ stage'[j] \in {"waiting", "done"}
      /\ (stage'[j] = "waiting" => HasRoom("listing") /\ work[j].left # <<>>)
  BY <1>1, <1>2 DEF Others
<1>4. Running' = Running
  BY <1>1, <1>3 DEF Running, Others, AtWork
<1>5. IsFiniteSet(BatchTasks') /\ Cardinality(BatchTasks') <= QueueLimit
  <2>1. CASE stage'[j] = "waiting"
    <3>1. j \notin BatchTasks /\ BatchTasks' = BatchTasks \cup {j}
      BY <1>1, <1>2, <1>3, <2>1 DEF BatchTasks, Others, JobControl
    <3>2. IsFiniteSet(BatchTasks) /\ Cardinality(BatchTasks) < QueueLimit
      BY <1>2, <1>3, <2>1 DEF JobControl, HasRoom
    <3>3. IsFiniteSet(BatchTasks') /\ Cardinality(BatchTasks') = Cardinality(BatchTasks) + 1
      BY <3>1, <3>2, FS_AddElement
    <3> QED  BY <3>2, <3>3, FS_CardinalityType, InsightsAssumption
  <2>2. CASE stage'[j] = "done"
    <3>1. BatchTasks' = BatchTasks
      BY <1>1, <1>3, <2>2 DEF BatchTasks, Others
    <3> QED  BY <1>2, <3>1 DEF JobControl, QueueIsBounded
  <2> QED  BY <1>3, <2>1, <2>2
<1>6. stage' \in [Job -> Stage] /\ work' \in [Job -> WorkSet]
  BY <1>1, <1>2 DEF Stage
<1>7. \A k \in Job :
        /\ stage'[k] \in {"listing", "waiting"} => work'[k].batch
        /\ stage'[k] \in {"waiting"} \cup AtWork => work'[k].left # <<>>
  BY <1>1, <1>2, <1>3 DEF JobControl, Others, AtWork
<1>8. JobControl'
  BY <1>1, <1>2, <1>4, <1>5, <1>6, <1>7 DEF JobControl, QueueIsBounded
<1>9. RowControl'
  BY <1>3, SameRows DEF InsightsInv, Enqueue
<1> QED  BY <1>8, <1>9, SameSpending DEF InsightsInv, Enqueue

LEMMA StartBatchStep ==
  ASSUME InsightsInv, NEW j \in Job, StartBatch(j)
  PROVE  InsightsInv'
<1>1. stage[j] = "waiting" /\ work' = work /\ slots < SlotCount /\ slots' = slots + 1
      /\ stage' = [stage EXCEPT ![j] = "load"]
  BY DEF StartBatch, Enter
<1>2. stage \in [Job -> Stage] /\ work \in [Job -> WorkSet] /\ JobControl
  BY DEF InsightsInv, JobControl
<1>3. Others(j) /\ stage'[j] = "load"
  BY <1>1, <1>2 DEF Others
<1>4. work[j].batch /\ work[j].left # <<>>
  BY <1>1, <1>2 DEF JobControl
<1>5. BatchTasks' = BatchTasks /\ Running' = Running \cup {j} /\ j \notin Running
  BY <1>1, <1>3, <1>4 DEF BatchTasks, Running, Others, AtWork
<1>6. /\ IsFiniteSet(Running') /\ slots' = Cardinality(Running') /\ slots' <= SlotCount
  <2>1. IsFiniteSet(Running) /\ slots = Cardinality(Running)
    BY <1>2 DEF JobControl
  <2>2. IsFiniteSet(Running') /\ Cardinality(Running') = Cardinality(Running) + 1
    BY <1>5, <2>1, FS_AddElement
  <2> QED  BY <1>1, <2>1, <2>2, FS_CardinalityType, InsightsAssumption
<1>7. stage' \in [Job -> Stage] /\ work' \in [Job -> WorkSet]
  BY <1>1, <1>2 DEF Stage
<1>8. \A k \in Job :
        /\ stage'[k] \in {"listing", "waiting"} => work'[k].batch
        /\ stage'[k] \in {"waiting"} \cup AtWork => work'[k].left # <<>>
  BY <1>1, <1>2, <1>3, <1>4 DEF JobControl, Others
<1>9. JobControl'
  BY <1>1, <1>2, <1>5, <1>6, <1>7, <1>8 DEF JobControl, QueueIsBounded
<1>10. RowControl'
  BY <1>3, SameRows DEF InsightsInv, StartBatch
<1> QED  BY <1>9, <1>10, SameSpending DEF InsightsInv, StartBatch

\* The steps that end with a next item or property, or only go on.
LEMMA ReadStep ==
  ASSUME InsightsInv, NEW j \in Job,
         LoadProperty(j) \/ LookInsight(j) \/ UseMemo(j) \/ CompleteFails(j)
  PROVE  InsightsInv'
<1>1. JobControl /\ stage[j] \in AtWork
  BY DEF InsightsInv, LoadProperty, LookInsight, UseMemo, CompleteFails, AtWork
<1>2. \/ \E s \in AtWork : s # "save" /\ Enter(j, s) /\ UNCHANGED <<work, slots>>
      \/ NextProperty(j, TRUE) \/ NextItem(j)
  BY DEF LoadProperty, LookInsight, UseMemo, CompleteFails, FirstStep, AtWork
<1>3. UNCHANGED <<spent, found, insights, closed, kept, shared>>
  BY DEF LoadProperty, LookInsight, UseMemo, CompleteFails
<1>4. JobControl' /\ Others(j) /\ stage'[j] # "save"
  BY <1>1, <1>2, MoveControl, NextPropertyControl, NextItemControl DEF Others
<1>5. RowControl'
  BY <1>3, <1>4, SameRows DEF InsightsInv
<1> QED  BY <1>3, <1>4, <1>5, SameSpending DEF InsightsInv

\* A call is made only while the budget takes the estimate.
LEMMA CompleteStep ==
  ASSUME InsightsInv, NEW j \in Job, NEW cost \in 1 .. MaxCost, Complete(j, cost)
  PROVE  InsightsInv'
<1>1. JobControl /\ stage[j] \in AtWork /\ "find" \in AtWork
  BY DEF InsightsInv, Complete, AtWork
<1>2. Enter(j, "find") /\ UNCHANGED <<work, slots, found, insights, closed, kept, shared>>
  BY DEF Complete
<1>3. JobControl' /\ Others(j) /\ stage'[j] # "save"
  BY <1>1, <1>2, MoveControl DEF Others
<1>4. RowControl'
  BY <1>2, <1>3, SameRows DEF InsightsInv
<1>5. spent \in [Job -> Nat] /\ (Budget > 0 => \A k \in Job : spent[k] < Budget + MaxCost)
  BY DEF InsightsInv, Spending, OverspendIsOneCall
<1>6. (Budget > 0 => spent[j] + 1 <= Budget) /\ spent' = [spent EXCEPT ![j] = spent[j] + cost]
  BY <1>5 DEF Complete, Affordable, Estimate, Charged
<1>7. spent' \in [Job -> Nat] /\ (Budget > 0 => \A k \in Job : spent'[k] < Budget + MaxCost)
  BY <1>5, <1>6, InsightsAssumption
<1> QED  BY <1>2, <1>3, <1>4, <1>7 DEF InsightsInv, Spending, OverspendIsOneCall

\* A job that finds a row while another is writing its item is not alone.
LEMMA FindInsightStep ==
  ASSUME InsightsInv, NEW j \in Job, FindInsight(j)
  PROVE  InsightsInv'
<1>1. JobControl /\ RowControl /\ stage[j] \in AtWork /\ stage[j] = "find"
  BY DEF InsightsInv, FindInsight, AtWork
<1>2. UNCHANGED <<spent, insights, closed, kept>>
  BY DEF FindInsight
<1>3. CASE NextItem(j) /\ UNCHANGED <<found, shared>>
  <2>1. JobControl' /\ Others(j) /\ stage'[j] # "save"
    BY <1>1, <1>3, NextItemControl DEF Others
  <2>2. RowControl'
    BY <1>1, <1>2, <1>3, <2>1, SameRows
  <2> QED  BY <1>2, <2>1, <2>2, SameSpending DEF InsightsInv
<1>4. CASE /\ \E r \in RowToUpdate(Current(j)) : found' = [found EXCEPT ![j] = r]
           /\ shared' = IF Writing(j, Current(j)) THEN shared \cup {Current(j)} ELSE shared
           /\ Enter(j, "save")
           /\ UNCHANGED <<work, slots>>
  <2>1. JobControl' /\ Others(j) /\ stage'[j] = "save" /\ work'[j] = work[j]
    <3>1. "save" \in AtWork
      BY DEF AtWork
    <3> QED  BY <1>1, <1>4, <3>1, MoveControl DEF Others
  <2>2. PICK i \in Item : i = Current(j)
    BY <1>1, AtWorkHas
  <2>3. PICK r \in RowToUpdate(i) : found' = [found EXCEPT ![j] = r]
    BY <1>4, <2>2
  <2>4. insights \in Seq(Insight) /\ found \in [Job -> Nat] /\ shared \subseteq Item
        /\ kept \in [Item -> Insight \cup {NoItem}]
    BY <1>1 DEF RowControl
  <2>5. r \in Nat /\ (r # 0 => r \in HasItem(insights, i))
        /\ (r = 0 => HasItem(insights, i) = {})
    BY <2>4 DEF RowToUpdate, RowsFor, HasItem
  <2>6. found' \in [Job -> Nat] /\ found'[j] = r /\ \A k \in Job \ {j} : found'[k] = found[k]
    BY <2>3, <2>4, <2>5
  <2>7. shared \subseteq shared' /\ shared' \subseteq Item /\ (Writing(j, i) => i \in shared')
    BY <1>4, <2>2, <2>4
  <2>8. \A m \in Item \ shared' : OneRow(m)'
    <3>1. \A m \in Item \ shared' : OneRow(m)
      BY <1>1, <2>7 DEF RowControl
    <3> QED  BY <1>2, <3>1 DEF OneRow, RowsFor
  <2>9. Current(j)' = i
    BY <2>1, <2>2 DEF Current
  <2>10. ASSUME NEW k \in Job, stage'[k] = "save"
         PROVE  FoundIsThere(k)'
    <3>1. CASE k = j
      <4>1. Writing(j, i)' => Writing(j, i)
        BY <2>1 DEF Writing, Others, Current
      <4>2. found'[j] # 0 => found'[j] \in HasItem(insights', i)
        BY <1>2, <2>5, <2>6
      <4>3. i \notin shared' => (found'[j] = 0 => HasItem(insights', i) = {}) /\ ~Writing(j, i)'
        BY <1>2, <2>5, <2>6, <2>7, <4>1
      <4> QED  BY <2>9, <3>1, <4>2, <4>3 DEF FoundIsThere, HasItem, RowsFor, Writing
    <3>2. CASE k # j
      <4>1. stage[k] = "save" /\ found'[k] = found[k] /\ Current(k)' = Current(k)
        BY <2>1, <2>6, <2>10, <3>2 DEF Others, Current
      <4>2. PICK c \in Item : c = Current(k)
        BY <1>1, <4>1, AtWorkHas DEF AtWork
      <4>3. FoundIsThere(k)
        BY <1>1, <4>1 DEF RowControl
      <4>4. /\ found[k] # 0 => found[k] \in HasItem(insights, c)
            /\ c \notin shared => (found[k] = 0 => HasItem(insights, c) = {}) /\ ~Writing(k, c)
        BY <4>2, <4>3 DEF FoundIsThere, HasItem, RowsFor
      <4>5. c = i => Writing(j, i)
        BY <3>2, <4>1, <4>2 DEF Writing
      <4>6. c # i /\ Writing(k, c)' => Writing(k, c)
        BY <2>1, <2>9, <3>2 DEF Writing, Others, Current
      <4>7. /\ found'[k] # 0 => found'[k] \in HasItem(insights', c)
            /\ c \notin shared' => (found'[k] = 0 => HasItem(insights', c) = {}) /\ ~Writing(k, c)'
        BY <1>2, <2>7, <4>1, <4>4, <4>5, <4>6
      <4>8. Current(k)' = c
        BY <4>1, <4>2
      <4> QED  BY <4>7, <4>8 DEF FoundIsThere, HasItem, RowsFor, Writing
    <3> QED  BY <3>1, <3>2
  <2>11. RowControl'
    BY <1>2, <2>4, <2>6, <2>7, <2>8, <2>10 DEF RowControl
  <2> QED  BY <1>2, <2>1, <2>11, SameSpending DEF InsightsInv
<1> QED  BY <1>3, <1>4 DEF FindInsight

LEMMA SaveInsightStep ==
  ASSUME InsightsInv, NEW j \in Job, SaveInsight(j)
  PROVE  InsightsInv'
<1>1. JobControl /\ RowControl /\ stage[j] \in AtWork /\ stage[j] = "save"
  BY DEF InsightsInv, SaveInsight, AtWork
<1>2. NextItem(j) /\ UNCHANGED <<spent, closed>> /\ found' = [found EXCEPT ![j] = 0]
  BY DEF SaveInsight
<1>3. JobControl' /\ Others(j) /\ stage'[j] # "save"
  BY <1>1, <1>2, NextItemControl DEF Others
<1>4. found' \in [Job -> Nat] /\ \A k \in Job \ {j} : found'[k] = found[k]
  BY <1>1, <1>2 DEF RowControl
<1>5. CASE Land(j)
  BY <1>1, <1>2, <1>3, <1>4, <1>5, LandKeeps, SameSpending DEF InsightsInv
<1>6. CASE UNCHANGED <<insights, kept, shared>>
  BY <1>1, <1>2, <1>3, <1>4, <1>6, RowsGoOn, SameSpending DEF InsightsInv
<1> QED  BY <1>5, <1>6 DEF SaveInsight

LEMMA CancelStep ==
  ASSUME InsightsInv, NEW j \in Job, Cancel(j)
  PROVE  InsightsInv'
<1>1. JobControl /\ RowControl /\ j \in BatchTasks /\ work' = work
      /\ UNCHANGED <<spent, closed, found>> /\ stage' = [stage EXCEPT ![j] = "done"]
      /\ slots' = IF stage[j] = "waiting" THEN slots ELSE slots - 1
  BY DEF InsightsInv, Cancel, Enter
<1>2. stage \in [Job -> Stage] /\ work \in [Job -> WorkSet] /\ found \in [Job -> Nat]
  BY <1>1 DEF JobControl, RowControl
<1>3. Others(j) /\ stage'[j] = "done"
  BY <1>1, <1>2 DEF Others
<1>4. JobControl'
  <2>1. CASE stage[j] = "waiting"
    <3>1. BatchTasks' = BatchTasks \ {j} /\ Running' = Running
      BY <1>1, <1>3, <2>1 DEF BatchTasks, Running, Others, AtWork
    <3>2. IsFiniteSet(BatchTasks') /\ Cardinality(BatchTasks') <= QueueLimit
      BY <1>1, <3>1, FS_Subset, FS_CardinalityType, InsightsAssumption DEF QueueIsBounded, JobControl
    <3>3. stage' \in [Job -> Stage]
      BY <1>1, <1>2 DEF Stage
    <3> QED  BY <1>1, <1>3, <2>1, <3>1, <3>2, <3>3 DEF JobControl, QueueIsBounded, Others, AtWork
  <2>2. CASE stage[j] # "waiting"
    <3>1. stage[j] \in AtWork /\ work[j].batch
      BY <1>1, <1>2, <2>2 DEF BatchTasks, Stage, AtWork
    <3>2. work' = [work EXCEPT ![j] = work[j]] /\ work[j] \in WorkSet
      BY <1>1, <1>2
    <3>3. Enter(j, "done") /\ slots' = slots - 1
      BY <1>1, <2>2 DEF Enter
    <3> QED  BY <1>1, <3>1, <3>2, <3>3, JobGoesOn
  <2> QED  BY <2>1, <2>2
<1>5. found' \in [Job -> Nat] /\ \A k \in Job \ {j} : found'[k] = found[k]
  BY <1>1, <1>2
<1>6. CASE stage[j] = "save" /\ Land(j)
  BY <1>1, <1>3, <1>4, <1>5, <1>6, LandKeeps, SameSpending DEF InsightsInv
<1>7. CASE UNCHANGED <<insights, kept, shared>>
  BY <1>1, <1>3, <1>4, <1>5, <1>7, RowsGoOn, SameSpending DEF InsightsInv
<1> QED  BY <1>6, <1>7 DEF Cancel

LEMMA InsightsUnchanged ==
  ASSUME InsightsInv, UNCHANGED <<stage, work, found, slots, insights, kept, shared>>,
         Spending', closed' \in BOOLEAN
  PROVE  InsightsInv'
<1>1. JobControl'
  BY DEF InsightsInv, JobControl, BatchTasks, Running, QueueIsBounded
<1>2. RowControl'
  BY DEF InsightsInv, RowControl, OneRow, RowsFor, FoundIsThere, Current, Writing
<1> QED  BY <1>1, <1>2 DEF InsightsInv

\* A month that begins has room for more.
LEMMA NewMonthStep ==
  ASSUME InsightsInv, NewMonth
  PROVE  InsightsInv'
<1>1. spent' = [j \in Job |-> 0]
  BY DEF NewMonth
<1>2. Spending'
  BY <1>1, InsightsAssumption DEF Spending, OverspendIsOneCall
<1> QED  BY <1>2, InsightsUnchanged DEF NewMonth, InsightsInv

\* Slots and queue count the batches there are, and what a job has found of its
\* item is so when it writes, unless another job wrote the item meanwhile.
THEOREM InsightsInvariance == InsightsSpec => []InsightsInv
<1>1. InsightsInit => InsightsInv
  <2> SUFFICES ASSUME InsightsInit
               PROVE  InsightsInv
    OBVIOUS
  <2>1. BatchTasks = {} /\ Running = {}
    BY DEF InsightsInit, BatchTasks, Running, AtWork
  <2>2. JobControl
    BY <2>1, FS_EmptySet, InsightsAssumption
       DEF InsightsInit, JobControl, Stage, WorkSet, NoWork, QueueIsBounded, AtWork
  <2>3. RowControl
    BY DEF InsightsInit, RowControl, OneRow, RowsFor
  <2>4. Spending
    BY InsightsAssumption DEF InsightsInit, Spending, OverspendIsOneCall
  <2> QED  BY <2>2, <2>3, <2>4 DEF InsightsInit, InsightsInv
<1>2. InsightsInv /\ [InsightsNext]_insightVars => InsightsInv'
  <2> SUFFICES ASSUME InsightsInv, [InsightsNext]_insightVars
               PROVE  InsightsInv'
    OBVIOUS
  <2>1. CASE UNCHANGED insightVars
    BY <2>1, SameSpending, InsightsUnchanged DEF insightVars, jobVars, InsightsInv
  <2>2. ASSUME NEW j \in Job, NEW w \in JobWork, Analyze(j, w)
        PROVE  InsightsInv'
    BY <2>2, AnalyzeStep
  <2>3. ASSUME NEW j \in Job, JobStep(j)
        PROVE  InsightsInv'
    BY <2>3, EnqueueStep, StartBatchStep, ReadStep, CompleteStep, FindInsightStep,
       SaveInsightStep, CancelStep DEF JobStep
  <2>4. CASE Shutdown
    BY <2>4, SameSpending, InsightsUnchanged DEF Shutdown, jobVars, InsightsInv
  <2> QED  BY <2>1, <2>2, <2>3, <2>4, NewMonthStep DEF InsightsNext
<1> QED  BY <1>1, <1>2, PTL DEF InsightsSpec

\* However many requests pass the first check of the queue, and whatever fails in
\* the batches: no more batches wait or run than the queue takes, and no client
\* goes over its budget by a whole call.
THEOREM LimitsKept == InsightsSpec => []LimitsHold
<1>1. InsightsInv => LimitsHold
  BY DEF InsightsInv, JobControl, Spending, LimitsHold
<1> QED  BY <1>1, InsightsInvariance, PTL

\* The insight that was written last for an item is the one row that a reader
\* finds, unless two jobs were writing it or its create was sent again.
THEOREM SavedServed == InsightsSpec => []SavedIsServed
<1>1. InsightsInv => SavedIsServed
  <2> SUFFICES ASSUME InsightsInv, NEW i \in Item \ shared
               PROVE  /\ {insights[r] : r \in RowsFor(i)} = {kept[i]} \ {NoItem}
                      /\ Cardinality(RowsFor(i)) <= 1
    BY DEF SavedIsServed
  <2>1. OneRow(i) /\ insights \in Seq(Insight)
    BY DEF InsightsInv, RowControl
  <2>2. CASE RowsFor(i) = {}
    BY <2>1, <2>2, FS_EmptySet DEF OneRow
  <2>3. CASE RowsFor(i) # {}
    <3>1. PICK r : RowsFor(i) = {r} /\ insights[r] = kept[i]
      BY <2>1, <2>3 DEF OneRow
    <3>2. r \in DOMAIN insights
      BY <3>1 DEF RowsFor
    <3>3. insights[r] \in Insight
      BY <2>1, <3>2
    <3>4. kept[i] # NoItem
      BY <3>1, <3>3, InsightsAssumption DEF Insight
    <3>5. {insights[q] : q \in RowsFor(i)} = {kept[i]}
      BY <3>1
    <3>6. Cardinality(RowsFor(i)) = 1
      BY <3>1, FS_Singleton
    <3> QED  BY <3>4, <3>5, <3>6
  <2> QED  BY <2>2, <2>3
<1> QED  BY <1>1, InsightsInvariance, PTL

-----------------------------------------------------------------------------
(* The dashboards.                                                         *)

\* The views of each row.
RowViews == [i \in DOMAIN aggs |-> aggs[i].views]

LEMMA RowData ==
  ASSUME aggs \in Seq(Aggregate)
  PROVE  /\ IsFiniteSet(DOMAIN aggs) /\ RowViews \in [DOMAIN aggs -> Nat]
         /\ \A i \in DOMAIN aggs : aggs[i].day \in Day /\ aggs[i].product \in Product \cup {Nil}
  <1>1. Len(aggs) \in Nat /\ DOMAIN aggs = 1 .. Len(aggs)
    OBVIOUS
  <1>2. IsFiniteSet(1 .. Len(aggs))
    BY <1>1, FS_Interval
  <1>3. \A i \in DOMAIN aggs : aggs[i] \in Aggregate
    OBVIOUS
  <1> QED
    BY <1>1, <1>2, <1>3 DEF Aggregate, RowViews

\* SumViews is their sum.
LEMMA SumViewsAdds ==
  ASSUME aggs \in Seq(Aggregate), NEW g, Sums(g, RowViews, DOMAIN aggs),
         NEW rows \in SUBSET DOMAIN aggs
  PROVE  SumViews(rows) = g[rows]
  <1> DEFINE Loop(h) == h = [s \in SUBSET rows |->
                               IF s = {} THEN 0
                               ELSE aggs[CHOOSE x \in s : TRUE].views + h[s \ {CHOOSE x \in s : TRUE}]]
             h0 == CHOOSE h : Loop(h)
  <1>1. /\ \E h : SumLoop(h, RowViews, rows)
        /\ \A h : SumLoop(h, RowViews, rows) => h[rows] = g[rows]
    <2>1. IsFiniteSet(DOMAIN aggs) /\ RowViews \in [DOMAIN aggs -> Nat]
      BY RowData
    <2>2. PICK E, w : E = DOMAIN aggs /\ w = RowViews
      OBVIOUS
    <2>3. IsFiniteSet(E) /\ w \in [E -> Nat] /\ Sums(g, w, E) /\ rows \in SUBSET E
      BY <2>1, <2>2
    <2>4. /\ \E h : SumLoop(h, w, rows)
          /\ \A h : SumLoop(h, w, rows) => h[rows] = g[rows]
      BY <2>3, LoopSums
    <2> QED
      BY <2>2, <2>4
  <1>2. ASSUME NEW h PROVE Loop(h) <=> SumLoop(h, RowViews, rows)
    <2>1. \A s \in SUBSET rows : s # {} => (CHOOSE x \in s : TRUE) \in DOMAIN aggs
      OBVIOUS
    <2>2. \A s \in SUBSET rows : s # {} =>
            RowViews[CHOOSE x \in s : TRUE] = aggs[CHOOSE x \in s : TRUE].views
      BY <2>1 DEF RowViews
    <2> QED
      BY <2>2 DEF SumLoop
  <1>3. SumViews(rows) = h0[rows]
    BY DEF SumViews, MapThenSumSet, MapThenFoldSet
  <1>4. Loop(h0)
    <2>1. \E h : Loop(h)
      <3> HIDE DEF Loop
      <3> QED
        BY <1>1, <1>2
    <2> HIDE DEF Loop
    <2> QED
      BY <2>1
  <1> HIDE DEF Loop, h0
  <1> QED
    BY <1>1, <1>2, <1>3, <1>4

\* The values of a trend, added up.
Total(v) == (CHOOSE h : SumLoop(h, v, DOMAIN v))[DOMAIN v]

LEMMA TotalAdds ==
  ASSUME NEW D, IsFiniteSet(D), NEW v \in [D -> Nat], NEW g, Sums(g, v, D)
  PROVE  Total(v) = g[D]
  <1> DEFINE h0 == CHOOSE h : SumLoop(h, v, D)
  <1>1. /\ \E h : SumLoop(h, v, D)
        /\ \A h : SumLoop(h, v, D) => h[D] = g[D]
    BY LoopSums
  <1>2. SumLoop(h0, v, D)
    BY <1>1
  <1>3. Total(v) = h0[D]
    BY DEF Total
  <1> HIDE DEF h0
  <1> QED
    BY <1>1, <1>2, <1>3

\* Every row of the range lies in one bucket.
LEMMA TrendAddsUp ==
  ASSUME aggs \in Seq(Aggregate), NEW p, NEW start \in Int, NEW end \in Int,
         NEW weekly \in BOOLEAN
  PROVE  Total(Trend(p, start, end, weekly)) = Kpi(p, start, end)
  <1> DEFINE S == InRange(p, start, end)
             bucket == [i \in S |-> BucketDay(aggs[i].day, weekly)]
             D == {BucketDay(aggs[i].day, weekly) : i \in S}
             v == Trend(p, start, end, weekly)
  <1>1. PICK g : Sums(g, RowViews, DOMAIN aggs)
    BY RowData, SumExists
  <1>2. S \in SUBSET DOMAIN aggs
    BY DEF InRange
  <1>3. v = [b \in D |-> SumViews(Bucket(p, start, end, weekly, b))]
    BY DEF Trend
  <1>4. \A b : Bucket(p, start, end, weekly, b) = Part(S, bucket, b)
    BY DEF Bucket, Part
  <1>5. \A b : Part(S, bucket, b) \in SUBSET DOMAIN aggs
    BY <1>2 DEF Part
  <1>6. DOMAIN v = D /\ \A b \in D : v[b] = g[Part(S, bucket, b)]
    <2> HIDE DEF S, D, bucket, v
    <2> QED
      BY <1>1, <1>3, <1>4, <1>5, SumViewsAdds
  <1>7. IsFiniteSet(D)
    <2>1. IsFiniteSet(S)
      BY <1>2, RowData, FS_Subset
    <2>2. bucket \in Surjection(S, D)
      BY DEF Surjection
    <2> HIDE DEF S, D, bucket
    <2> QED
      BY <2>1, <2>2, FS_Surjection
  <1>8. v \in [D -> Nat]
    <2> HIDE DEF S, D, bucket
    <2>1. \A b \in D : v[b] \in Nat
      BY <1>1, <1>5, <1>6 DEF Sums
    <2> QED
      BY <1>3, <2>1
  <1>9. PICK h : Sums(h, v, D)
    <2> HIDE DEF D, v
    <2> QED
      BY <1>7, <1>8, SumExists
  <1>10. \A x \in S : bucket[x] \in D
    OBVIOUS
  <1>11. h[D] = g[S]
    <2>1. IsFiniteSet(DOMAIN aggs) /\ RowViews \in [DOMAIN aggs -> Nat]
      BY RowData
    <2> HIDE DEF S, D, bucket, v
    <2>2. PICK E, w : E = DOMAIN aggs /\ w = RowViews
      OBVIOUS
    <2>3. IsFiniteSet(E) /\ w \in [E -> Nat] /\ Sums(g, w, E) /\ S \in SUBSET E
      BY <1>1, <1>2, <2>1, <2>2
    <2>4. \A x \in S : bucket[x] \in D
      BY <1>10
    <2>5. \A b \in D : v[b] = g[Part(S, bucket, b)]
      BY <1>6
    <2> QED
      BY <1>7, <1>9, <2>3, <2>4, <2>5, SumOfParts
  <1>12. Kpi(p, start, end) = g[S]
    <2> HIDE DEF S
    <2> QED
      BY <1>1, <1>2, SumViewsAdds DEF Kpi, S
  <1>13. Total(v) = h[D]
    <2> HIDE DEF D, v
    <2> QED
      BY <1>7, <1>8, <1>9, TotalAdds
  <1> QED
    BY <1>11, <1>12, <1>13

\* No row lies in a period and in the one before, and none between them.
LEMMA PeriodsAddUp ==
  ASSUME aggs \in Seq(Aggregate), NEW p, NEW start \in Int, NEW end \in Int, start <= end
  PROVE  LET prev == PreviousRange(start, end) IN
         Kpi(p, prev.start, prev.end) + Kpi(p, start, end) = Kpi(p, 2 * start - end - 1, end)
  <1> DEFINE before == 2 * start - end - 1
             A == InRange(p, before, start - 1)
             B == InRange(p, start, end)
             C == InRange(p, before, end)
  <1>1. PreviousRange(start, end).start = before /\ PreviousRange(start, end).end = start - 1
    BY DEF PreviousRange
  <1>2. PICK g : Sums(g, RowViews, DOMAIN aggs)
    BY RowData, SumExists
  <1>3. /\ A \in SUBSET DOMAIN aggs /\ B \in SUBSET DOMAIN aggs /\ C \in SUBSET DOMAIN aggs
    BY DEF InRange
  <1>4. A \cap B = {} /\ A \cup B = C
    <2>1. \A i \in DOMAIN aggs : aggs[i].day \in Int
      BY RowData DEF Day
    <2>2. before <= start - 1 /\ before \in Int
      OBVIOUS
    <2> QED
      BY <2>1, <2>2 DEF InRange
  <1>5. /\ SumViews(A) = g[A] /\ SumViews(B) = g[B] /\ SumViews(C) = g[C]
    <2> HIDE DEF A, B, C
    <2> QED
      BY <1>2, <1>3, SumViewsAdds
  <1>6. g[A \cup B] = g[A] + g[B]
    <2>1. IsFiniteSet(DOMAIN aggs) /\ RowViews \in [DOMAIN aggs -> Nat]
      BY RowData
    <2> HIDE DEF A, B, C
    <2>2. PICK E, w : E = DOMAIN aggs /\ w = RowViews
      OBVIOUS
    <2>3. PICK a, b : a = A /\ b = B
      OBVIOUS
    <2>4. /\ IsFiniteSet(E) /\ w \in [E -> Nat] /\ Sums(g, w, E)
          /\ a \in SUBSET E /\ b \in SUBSET E /\ a \cap b = {}
      BY <1>2, <1>3, <1>4, <2>1, <2>2, <2>3
    <2>5. g[a \cup b] = g[a] + g[b]
      BY <2>4, SumOfUnion
    <2> QED
      BY <2>3, <2>5
  <1> QED
    BY <1>1, <1>4, <1>5, <1>6 DEF Kpi

LEMMA RowsAddUp ==
  ASSUME aggs \in Seq(Aggregate)
  PROVE  DashboardAddsUp
  <1> SUFFICES ASSUME NEW p \in Product \cup {Nil}, NEW start \in Day, NEW end \in Day,
                      NEW weekly \in BOOLEAN, start <= end
               PROVE  LET d == Dashboard(p, start, end, weekly) IN
                      /\ MapThenSumSet(LAMBDA b : d.trend[b], DOMAIN d.trend) = d.kpi
                      /\ d.before + d.kpi = Kpi(p, 2 * start - end - 1, end)
    BY DEF DashboardAddsUp
  <1>1. start \in Int /\ end \in Int
    BY DEF Day
  <1> DEFINE d == Dashboard(p, start, end, weekly)
             prev == PreviousRange(start, end)
  <1>2. /\ d.kpi = Kpi(p, start, end) /\ d.before = Kpi(p, prev.start, prev.end)
        /\ d.trend = Trend(p, start, end, weekly)
    BY DEF Dashboard
  <1>3. MapThenSumSet(LAMBDA b : d.trend[b], DOMAIN d.trend) = d.kpi
    <2> HIDE DEF d
    <2>1. Total(d.trend) = d.kpi
      BY <1>1, <1>2, TrendAddsUp
    <2>2. MapThenSumSet(LAMBDA b : d.trend[b], DOMAIN d.trend) = Total(d.trend)
      BY DEF MapThenSumSet, MapThenFoldSet, SumLoop, Total
    <2> QED
      BY <2>1, <2>2
  <1>4. d.before + d.kpi = Kpi(p, 2 * start - end - 1, end)
    BY <1>1, <1>2, PeriodsAddUp
  <1> QED
    BY <1>3, <1>4

\* A list in the order of v, and that there is one of every finite set: one of
\* all but its least element, and that one after them.
Sorted(q, v) == \A i, j \in DOMAIN q : i < j => v[q[i]] >= v[q[j]]

LEMMA LeastExists ==
  ASSUME NEW s, s # {}, NEW v, \A x \in s : v[x] \in Nat
  PROVE  \E x \in s : \A y \in s : v[x] <= v[y]
  <1> DEFINE V == {v[x] : x \in s}
             Less == {ss \in Nat \X Nat : ss[1] < ss[2]}
  <1>1. IsWellFoundedOn(Less, Nat)
    BY NatLessThanWellFounded DEF OpToRel
  <1>2. V \subseteq Nat /\ V # {}
    OBVIOUS
  <1>3. PICK n \in V : \A m \in V : <<m, n>> \notin Less
    <2> HIDE DEF V, Less
    <2> QED
      BY <1>1, <1>2, WFMin
  <1>4. ASSUME NEW m \in V PROVE n <= m
    <2>1. m \in Nat /\ n \in Nat
      BY <1>2
    <2>2. <<m, n>> \in Nat \X Nat /\ <<m, n>>[1] = m /\ <<m, n>>[2] = n
      BY <2>1
    <2>3. ~(m < n)
      BY <1>3, <2>2
    <2> QED
      BY <2>1, <2>3
  <1>5. PICK x \in s : n = v[x]
    OBVIOUS
  <1>6. \A y \in s : v[y] \in V
    OBVIOUS
  <1> QED
    BY <1>4, <1>5, <1>6

LEMMA SortedExists ==
  ASSUME NEW S, IsFiniteSet(S), NEW v, \A x \in S : v[x] \in Nat
  PROVE  \E q \in SetToSeqs(S) : Sorted(q, v)
  <1> DEFINE Good == {s \in SUBSET S : \E q \in SetToSeqs(s) : Sorted(q, v)}
  <1>1. ASSUME NEW s \in SUBSET S, \A t \in SUBSET s : t # s => t \in Good
        PROVE  s \in Good
    <2>1. CASE s = {}
      <3> DEFINE q == [i \in 1 .. 0 |-> i]
      <3>1. Cardinality(s) = 0
        BY <2>1, FS_EmptySet
      <3>2. q \in [1 .. 0 -> s] /\ \A i \in 1 .. 0 : FALSE
        OBVIOUS
      <3>3. q \in SetToSeqs(s) /\ Sorted(q, v)
        BY <3>1, <3>2 DEF SetToSeqs, Sorted
      <3> QED
        BY <3>3
    <2>2. CASE s # {}
      <3>1. PICK x \in s : \A y \in s : v[x] <= v[y]
        <4>1. \A y \in s : v[y] \in Nat
          OBVIOUS
        <4> HIDE DEF Good
        <4> QED
          BY <2>2, <4>1, LeastExists
      <3> DEFINE t == s \ {x}
                 n == Cardinality(s)
      <3>2. t \in Good
        BY <1>1
      <3>3. n \in Nat /\ n # 0 /\ Cardinality(t) = n - 1
        <4>1. IsFiniteSet(s)
          BY FS_Subset
        <4>2. Cardinality(s) \in Nat /\ (Cardinality(s) = 0 <=> s = {})
          BY <4>1, FS_CardinalityType, FS_EmptySet
        <4>3. Cardinality(s \ {x}) = Cardinality(s) - 1
          BY <4>1, FS_RemoveElement
        <4> QED
          BY <2>2, <4>2, <4>3
      <3>4. PICK r \in SetToSeqs(t) : Sorted(r, v)
        BY <3>2
      <3> HIDE DEF n
      <3>5. r \in [1 .. (n - 1) -> t] /\ \A i, j \in 1 .. (n - 1) : i # j => r[i] # r[j]
        BY <3>3, <3>4 DEF SetToSeqs
      <3> DEFINE q == [i \in 1 .. n |-> IF i = n THEN x ELSE r[i]]
      <3>6. /\ \A i \in 1 .. n : i # n => i \in 1 .. (n - 1)
            /\ n \in 1 .. n
        BY <3>3
      <3>7. \A i \in 1 .. n : i # n => q[i] = r[i] /\ r[i] \in s /\ r[i] # x
        BY <3>5, <3>6
      <3>8. q[n] = x /\ DOMAIN q = 1 .. n
        BY <3>6
      <3> HIDE DEF q
      <3>9. q \in [1 .. n -> s]
        <4>1. \A i \in 1 .. n : q[i] \in s
          BY <3>7, <3>8
        <4> QED
          BY <4>1, <3>8 DEF q
      <3>10. \A i, j \in 1 .. n : i # j => q[i] # q[j]
        BY <3>5, <3>6, <3>7, <3>8
      <3>11. Sorted(q, v)
        <4> SUFFICES ASSUME NEW i \in 1 .. n, NEW j \in 1 .. n, i < j
                     PROVE  v[q[i]] >= v[q[j]]
          BY <3>8 DEF Sorted
        <4>1. i # n /\ i \in 1 .. (n - 1) /\ q[i] = r[i] /\ r[i] \in s
          BY <3>3, <3>6, <3>7
        <4>2. CASE j = n
          BY <3>1, <3>8, <4>1, <4>2
        <4>3. CASE j # n
          BY <3>4, <3>5, <3>6, <3>7, <4>1, <4>3 DEF Sorted
        <4> QED
          BY <4>2, <4>3
      <3>12. q \in SetToSeqs(s)
        BY <3>9, <3>10 DEF SetToSeqs, n
      <3> QED
        BY <3>11, <3>12
    <2> QED
      BY <2>1, <2>2
  <1>2. SUBSET S \subseteq Good
    <2> HIDE DEF Good
    <2> QED
      BY <1>1, SubsetInduction
  <1> QED
    BY <1>2

\* Any way to list a finite set lists all of it.
LEMMA Lists ==
  ASSUME NEW S, IsFiniteSet(S), NEW q \in SetToSeqs(S)
  PROVE  /\ Cardinality(S) \in Nat /\ q \in [1 .. Cardinality(S) -> S]
         /\ \A x \in S : \E i \in 1 .. Cardinality(S) : q[i] = x
  <1> DEFINE n == Cardinality(S)
  <1>1. n \in Nat
    BY FS_CardinalityType
  <1>2. q \in [1 .. n -> S] /\ \A i, j \in 1 .. n : i # j => q[i] # q[j]
    BY DEF SetToSeqs
  <1>3. IsFiniteSet(1 .. n) /\ Cardinality(1 .. n) = n
    <2> HIDE DEF n
    <2> QED
      BY <1>1, FS_Interval
  <1>4. q \in Injection(1 .. n, S)
    BY <1>2 DEF Injection, IsInjective
  <1>5. q \in Surjection(1 .. n, S)
    BY <1>3, <1>4, FS_Injection
  <1> QED
    BY <1>1, <1>2, <1>5 DEF Surjection

\* The first of them.
Prefix(q, k) == [i \in 1 .. k |-> q[i]]

LEMMA Firsts ==
  ASSUME NEW S, NEW n \in Nat, NEW q \in [1 .. n -> S], NEW limit \in Nat
  PROVE  /\ FirstOf(q, limit) = Prefix(q, Min({limit, n}))
         /\ Min({limit, n}) \in 0 .. n /\ Min({limit, n}) <= limit
         /\ Min({limit, n}) < n => Min({limit, n}) = limit
  <1>1. q \in Seq(S) /\ Len(q) = n
    OBVIOUS
  <1> DEFINE k == Min({limit, n})
  <1>2. k \in {limit, n} /\ k <= limit /\ k <= n
    <2>1. \E x \in {limit, n} : \A y \in {limit, n} : x <= y
      OBVIOUS
    <2> QED
      BY <2>1 DEF Min
  <1> HIDE DEF k
  <1>3. k \in 0 .. n /\ (k < n => k = limit)
    BY <1>2
  <1>4. SubSeq(q, 1, k) = Prefix(q, k)
    BY <1>1, <1>3 DEF Prefix
  <1> QED
    BY <1>1, <1>2, <1>3, <1>4 DEF FirstOf, k

LEMMA RowsAreBest ==
  ASSUME aggs \in Seq(Aggregate)
  PROVE  TopIsBest
  <1> SUFFICES ASSUME NEW catalog \in SUBSET Product, NEW limit \in 1 .. 2
               PROVE  LET top == Top(1, LastDay, catalog, limit)
                          left == (catalog \cap Seen(1, LastDay)) \ ToSet(top) IN
                      /\ ToSet(top) \subseteq catalog /\ Len(top) <= limit
                      /\ left # {} => Len(top) = limit
                      /\ \A p \in ToSet(top), q \in left :
                           Kpi(p, 1, LastDay) >= Kpi(q, 1, LastDay)
    BY DEF TopIsBest
  <1> DEFINE S == Seen(1, LastDay) \cap catalog
             v == Breakdown(1, LastDay)
             q == Ranked(S, 1, LastDay)
             n == Cardinality(S)
             top == Top(1, LastDay, catalog, limit)
             left == (catalog \cap Seen(1, LastDay)) \ ToSet(top)
  <1>1. \A p \in S : v[p] \in Nat /\ v[p] = Kpi(p, 1, LastDay)
    <2> SUFFICES ASSUME NEW p \in S PROVE v[p] \in Nat /\ v[p] = Kpi(p, 1, LastDay)
      OBVIOUS
    <2>1. PICK g : Sums(g, RowViews, DOMAIN aggs)
      BY RowData, SumExists
    <2>2. {i \in DOMAIN aggs : aggs[i].day \in 1 .. LastDay /\ aggs[i].product = p}
            = InRange(p, 1, LastDay)
      BY DEF InRange
    <2>3. v[p] = SumViews(InRange(p, 1, LastDay))
      BY <2>2 DEF Breakdown
    <2>4. InRange(p, 1, LastDay) \in SUBSET DOMAIN aggs
      BY DEF InRange
    <2>5. SumViews(InRange(p, 1, LastDay)) = g[InRange(p, 1, LastDay)]
      BY <2>1, <2>4, SumViewsAdds
    <2>6. g[InRange(p, 1, LastDay)] \in Nat
      BY <2>1, <2>4 DEF Sums
    <2> HIDE DEF v
    <2> QED
      BY <2>3, <2>5, <2>6 DEF Kpi
  <1>2. IsFiniteSet(S)
    <2> DEFINE D == DOMAIN aggs
               I == {aggs[i].product : i \in D}
               f == [i \in D |-> aggs[i].product]
    <2>1. f \in Surjection(D, I)
      BY DEF Surjection
    <2>2. IsFiniteSet(D)
      BY RowData
    <2>3. IsFiniteSet(I)
      <3> HIDE DEF D, I, f
      <3> QED
        BY <2>1, <2>2, FS_Surjection
    <2>4. S \subseteq I
      BY DEF Seen
    <2> HIDE DEF S, I
    <2> QED
      BY <2>3, <2>4, FS_Subset
  <1>3. q \in SetToSeqs(S) /\ Sorted(q, v)
    <2>1. q = CHOOSE r \in SetToSeqs(S) : Sorted(r, v)
      BY DEF Ranked, Sorted
    <2> HIDE DEF q, S, v
    <2>2. \E r \in SetToSeqs(S) : Sorted(r, v)
      BY <1>1, <1>2, SortedExists
    <2> QED
      BY <2>1, <2>2
  <1> HIDE DEF q, S, v
  <1>4. n \in Nat /\ q \in [1 .. n -> S] /\ \A x \in S : \E i \in 1 .. n : q[i] = x
    BY <1>2, <1>3, Lists
  <1> HIDE DEF n
  <1> DEFINE k == Min({limit, n})
  <1>5. /\ FirstOf(q, limit) = Prefix(q, k)
        /\ k \in 0 .. n /\ k <= limit /\ (k < n => k = limit)
    <2>1. limit \in Nat
      OBVIOUS
    <2> QED
      BY <1>4, <2>1, Firsts
  <1> HIDE DEF k
  <1>6. top = [i \in 1 .. k |-> q[i]]
    BY <1>5 DEF Top, Prefix, q, S
  <1>7. 1 .. k \subseteq 1 .. n
    BY <1>4, <1>5
  <1> HIDE DEF top
  <1>8. ToSet(top) = {q[i] : i \in 1 .. k} /\ Len(top) = k
    <2>1. DOMAIN top = 1 .. k /\ k \in Nat
      BY <1>4, <1>5, <1>6
    <2>2. Len(top) = k
      <3>1. top \in [1 .. k -> S]
        BY <1>4, <1>5, <1>6, <1>7
      <3> QED
        BY <2>1, <3>1
    <2> QED
      BY <1>6, <2>1, <2>2 DEF ToSet
  <1>9. ASSUME NEW x \in left
        PROVE  \E j \in 1 .. n : q[j] = x /\ k < j
    <2>1. x \in S
      BY DEF S
    <2>2. PICK j \in 1 .. n : q[j] = x
      BY <1>4, <1>5, <2>1
    <2>3. j \notin 1 .. k
      BY <1>8, <2>2
    <2> QED
      BY <1>4, <1>5, <2>2, <2>3
  <1>10. ToSet(top) \subseteq catalog
    <2>1. S \subseteq catalog
      BY DEF S
    <2> QED
      BY <1>4, <1>5, <1>7, <1>8, <2>1
  <1>11. left # {} => Len(top) = limit
    BY <1>4, <1>5, <1>8, <1>9
  <1>12. ASSUME NEW p \in ToSet(top), NEW x \in left
         PROVE  Kpi(p, 1, LastDay) >= Kpi(x, 1, LastDay)
    <2>1. PICK i \in 1 .. k : p = q[i]
      BY <1>8
    <2>2. PICK j \in 1 .. n : q[j] = x /\ k < j
      BY <1>9
    <2>3. i \in 1 .. n /\ i < j
      BY <1>4, <1>5, <1>7, <2>1, <2>2
    <2>4. v[p] >= v[x]
      BY <1>3, <1>4, <2>1, <2>2, <2>3 DEF Sorted
    <2>5. p \in S /\ x \in S
      BY <1>4, <1>5, <2>1, <2>2, <2>3
    <2> QED
      BY <1>1, <2>4, <2>5
  <1> QED
    BY <1>5, <1>8, <1>10, <1>11, <1>12 DEF top

LEMMA DashboardOfRows ==
  ASSUME aggs \in Seq(Aggregate)
  PROVE  DashboardAddsUp /\ TopIsBest
  BY RowsAddUp, RowsAreBest

\* AnalyticsService: for every list of rows, whatever their days, properties and
\* numbers, a trend adds up to the number above it, a period and the one before to
\* both together, and the top properties are those with the most views.
THEOREM DashboardRight == DashboardSpec => []DashboardIsRight
  <1>1. DashboardInit => aggs \in Seq(Aggregate)
    BY DEF DashboardInit
  <1>2. aggs \in Seq(Aggregate) /\ [OpenDashboard]_<<aggs, opened>> => (aggs \in Seq(Aggregate))'
    BY RowsAssumption DEF OpenDashboard
  <1>3. aggs \in Seq(Aggregate) => DashboardIsRight
    BY DashboardOfRows DEF DashboardIsRight
  <1> QED
    BY <1>1, <1>2, <1>3, PTL DEF DashboardSpec

\* The same of the rows that aggregations leave, overlapped or not.
THEOREM DashboardOfRollup == RollupSpec => [](DashboardAddsUp /\ TopIsBest)
  <1>1. RollupInv => DashboardAddsUp /\ TopIsBest
    <2>1. RollupInv => aggs \in Seq(Aggregate)
      BY DEF RollupInv, AggregateControl
    <2> QED
      BY <2>1, DashboardOfRows
  <1> QED
    BY <1>1, RollupInvariance, PTL
=============================================================================
