----------------------------- MODULE Collector ------------------------------
(***************************************************************************)
(* AnalyticsCollector: events gather in a buffer in memory and go to       *)
(* PocketBase when it is full, every few seconds, on request and at the    *)
(* end.  All tasks share one asyncio.Lock, which a flush keeps while it    *)
(* awaits one create call per event; between two awaits nothing else runs. *)
(*                                                                         *)
(* The lifespan of the application stops the collector when its requests   *)
(* are done, so nothing is recorded during the stop.                       *)
(***************************************************************************)
EXTENDS Integers, FiniteSets, SequencesExt

CONSTANTS
  Event,        \* events to be recorded, each one once
  Recorder,     \* requests that record an event or ask for a flush
  Periodic,     \* the flush task
  Stopper,      \* the caller of stop()
  BufferSize,   \* the fill that starts a flush
  ChunkSize,    \* events a failed call takes with it
  None          \* no holder, no event

Task == Recorder \cup {Periodic, Stopper}

ASSUME CollectorAssumption ==
  /\ BufferSize \in Nat \ {0} /\ ChunkSize \in Nat \ {0}
  /\ None \notin Task /\ None \notin Event
  /\ Periodic \notin Recorder /\ Stopper \notin Recorder \cup {Periodic}

VARIABLES
  buffer,     \* the events not yet taken by a flush, in order
  lock,       \* the task that has the lock
  pc,         \* where each task is
  adding,     \* the event a recorder brings
  batch,      \* the events a flush has taken and not yet tried
  tried,      \* how many events of that flush were tried
  stored,     \* the events PocketBase has
  rejected,   \* the events a failed call took with it
  stopping    \* stop() was called

vars == <<buffer, lock, pc, adding, batch, tried, stored, rejected, stopping>>
store == <<stored, rejected>>

TypeOK ==
  /\ buffer \in Seq(Event)
  /\ lock \in Task \cup {None}
  /\ pc \in [Task -> {"idle", "lock", "add", "take", "write", "cancelled", "stopped"}]
  /\ adding \in [Recorder -> Event \cup {None}]
  /\ batch \in [Task -> Seq(Event)]
  /\ tried \in [Task -> Nat]
  /\ stored \subseteq Event /\ rejected \subseteq Event
  /\ stopping \in BOOLEAN

Init ==
  /\ buffer = <<>>
  /\ lock = None
  /\ pc = [t \in Task |-> "idle"]
  /\ adding = [t \in Recorder |-> None]
  /\ batch = [t \in Task |-> <<>>]
  /\ tried = [t \in Task |-> 0]
  /\ stored = {} /\ rejected = {}
  /\ stopping = FALSE

Goto(t, step) == pc' = [pc EXCEPT ![t] = step]

\* Events that were handed in.
Known ==
  ToSet(buffer) \cup stored \cup rejected
    \cup (UNION {ToSet(batch[t]) : t \in Task})
    \cup ({adding[t] : t \in Recorder} \ {None})

-----------------------------------------------------------------------------
\* record_event up to the lock.
Record(t, e) ==
  /\ pc[t] = "idle" /\ ~stopping /\ e \notin Known
  /\ adding' = [adding EXCEPT ![t] = e]
  /\ Goto(t, "lock")
  /\ UNCHANGED <<buffer, lock, batch, tried, store, stopping>>

\* flush: asked for by a request, or the interval of the task is over.
Flush(t) ==
  /\ pc[t] = "idle" /\ ~stopping /\ t # Stopper
  /\ Goto(t, "lock")
  /\ UNCHANGED <<buffer, lock, adding, batch, tried, store, stopping>>

Adds(t) == t \in Recorder /\ adding[t] # None

Acquire(t) ==
  /\ pc[t] = "lock" /\ lock = None
  /\ lock' = t
  /\ Goto(t, IF Adds(t) THEN "add" ELSE "take")
  /\ UNCHANGED <<buffer, adding, batch, tried, store, stopping>>

\* Mutant of Rest: the flush task does not loop.
RestOnce(t) == IF t \in {Stopper, Periodic} THEN "stopped" ELSE "idle"

\* A task is done: it goes back to where it waits, or stop() returns.
Rest(t) == IF t = Stopper THEN "stopped" ELSE "idle"

Full(n) == n >= BufferSize

Add(t) ==
  /\ pc[t] = "add"
  /\ buffer' = Append(buffer, adding[t])
  /\ adding' = [adding EXCEPT ![t] = None]
  /\ IF Full(Len(buffer) + 1)
       THEN Goto(t, "take") /\ UNCHANGED lock
       ELSE Goto(t, Rest(t)) /\ lock' = None
  /\ UNCHANGED <<batch, tried, store, stopping>>

\* Mutant of Taken: only the first chunk is written.
TakenChunk(events) == SubSeq(events, 1, Min({ChunkSize, Len(events)}))

Taken(events) == events

\* What a flush leaves in the buffer.
Left(events) == <<>>

\* The buffer is copied and cleared at once.
Take(t) ==
  /\ pc[t] = "take"
  /\ batch' = [batch EXCEPT ![t] = Taken(buffer)]
  /\ tried' = [tried EXCEPT ![t] = 0]
  /\ buffer' = Left(buffer)
  /\ Goto(t, "write")
  /\ UNCHANGED <<lock, adding, store, stopping>>

\* One create call succeeds, ...
Store(t) ==
  /\ pc[t] = "write" /\ batch[t] # <<>>
  /\ stored' = stored \cup {Head(batch[t])}
  /\ batch' = [batch EXCEPT ![t] = Tail(@)]
  /\ tried' = [tried EXCEPT ![t] = @ + 1]
  /\ UNCHANGED <<buffer, lock, pc, adding, rejected, stopping>>

\* ... or fails, written or not: the rest of its chunk is given up.
Reject(t) ==
  /\ pc[t] = "write" /\ batch[t] # <<>>
  /\ LET rest == ChunkSize - (tried[t] % ChunkSize)
         n == Min({rest, Len(batch[t])}) IN
     /\ rejected' = rejected \cup ToSet(SubSeq(batch[t], 1, n))
     /\ batch' = [batch EXCEPT ![t] = SubSeq(@, n + 1, Len(@))]
     /\ tried' = [tried EXCEPT ![t] = @ + n]
  /\ stored' \in {stored, stored \cup {Head(batch[t])}}
  /\ UNCHANGED <<buffer, lock, pc, adding, stopping>>

EndFlush(t) ==
  /\ pc[t] = "write" /\ batch[t] = <<>>
  /\ lock' = None
  /\ Goto(t, Rest(t))
  /\ tried' = [tried EXCEPT ![t] = 0]
  /\ UNCHANGED <<buffer, adding, batch, store, stopping>>

\* The event whose create call is awaited.
UnderWay(t) == {e \in Event : batch[t] # <<>> /\ e = Head(batch[t])}

\* stop() cancels the flush task.  CancelledError is not an Exception: it
\* leaves the flush wherever it awaits, a call under way landing or not.
CancelPeriodic ==
  /\ ~stopping /\ \A t \in Recorder : pc[t] = "idle"
  /\ stopping' = TRUE
  /\ pc' = [pc EXCEPT ![Periodic] = "cancelled", ![Stopper] = "lock"]
  /\ lock' = IF lock = Periodic THEN None ELSE lock
  /\ stored' \in {stored} \cup {stored \cup {e} : e \in UnderWay(Periodic)}
  /\ batch' = [batch EXCEPT ![Periodic] = <<>>]
  /\ tried' = [tried EXCEPT ![Periodic] = 0]
  /\ UNCHANGED <<buffer, adding, rejected>>

Step(t) ==
  \/ Acquire(t) \/ Add(t) \/ Take(t) \/ Store(t) \/ Reject(t) \/ EndFlush(t)

Next ==
  \/ \E t \in Task : Step(t) \/ Flush(t)
  \/ \E t \in Recorder, e \in Event : Record(t, e)
  \/ CancelPeriodic

\* asyncio runs what can run, its lock is first come first served, and calls
\* have timeouts; the interval of the flush task ends.
Spec ==
  /\ Init /\ [][Next]_vars
  /\ \A t \in Task : SF_vars(Step(t))
  /\ WF_vars(Flush(Periodic))

-----------------------------------------------------------------------------

\* While the collector runs it forgets an event only when a call failed.
LostOnlyByFailure ==
  [][~stopping' => \A e \in Known : e \in Known']_vars

\* An event in the buffer is tried, whoever comes and whatever fails, as the
\* flush task goes on or stop() flushes what is left.
BufferDrains ==
  \A e \in Event : e \in ToSet(buffer) ~> e \notin ToSet(buffer)

\* stop(): "Stop the flush task and flush remaining events."  Not even the
\* stop forgets an event without a try.
StopFlushesRemaining == [][\A e \in Known : e \in Known']_vars
=============================================================================
