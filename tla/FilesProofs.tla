----------------------------- MODULE FilesProofs ------------------------------
(***************************************************************************)
(* Files for every set of requests, sites, buckets and files.  The         *)
(* invariant says what a handler relies on between two of its calls: who   *)
(* holds which lock and who owns a creation that may still be rolled back; *)
(* that the row a locked handler loaded is still there and its site not    *)
(* deleted; and what became of the object of a file.                       *)
(***************************************************************************)
EXTENDS Files, TLAPS

\* The steps of the parts of a handler, and those made under a site lock.
Creating == {"checkBucket", "checkReserved", "reserve", "makeBucket", "configure",
             "dropBucket", "dropRow"}
Owning == {"makeBucket", "configure", "dropBucket", "dropRow"}
Uploading == {"ensure", "exists", "make", "publish", "name", "insert"}
Changing == {"head", "mark", "write", "dropObject", "dropFile"}
Locked == {"load"} \cup Uploading \cup Changing

FileOps == {"confirm", "rename", "remove"}

\* What kind of request is at which step.
JobFits(h) ==
  /\ at[h] \in Creating => job[h].op = "provision"
  /\ at[h] \in Uploading => job[h].op = "upload"
  /\ at[h] \in Changing \cup {"find"} => job[h].op \in FileOps
  /\ at[h] \in {"lock", "load"} => job[h].op \in FileOps \cup {"upload"}
  /\ at[h] \in Creating \cup Locked \cup {"lock"} => job[h].site \in Site
  /\ job[h].items # <<>> <=> job[h].op \in FileOps
  /\ at[h] \in {"exists", "make", "publish", "name", "insert"} => seen[h].bucket \in BucketName

JobsFit == \A h \in Handler : JobFits(h)

SiteLocks ==
  \A h \in Handler, s \in Site : holder[s] = h <=> at[h] \in Locked /\ job[h].site = s

\* Only one creation of a site is past its reservation, and it has the row.
Owns(h, s) == at[h] \in Owning /\ job[h].site = s

Creations ==
  /\ \A h \in Handler, s \in Site : Owns(h, s) => Present(s) /\ s \notin answered
  /\ \A g, h \in Handler, s \in Site : Owns(g, s) /\ Owns(h, s) => g = h

\* What a handler that loaded a row under the lock may rely on.
OwnFile(h) == file[Now(h)] # None => file[Now(h)].site = job[h].site

StillThere(h) ==
  /\ at[h] \in {"lock", "load"} /\ job[h].op # "upload" => OwnFile(h) /\ Now(h) \in minted
  /\ at[h] \in Changing => file[Now(h)] # None /\ OwnFile(h)
  /\ at[h] \in Locked \ {"load"} => ~(Present(job[h].site) /\ siteRow[job[h].site].deleted)

\* What became of the object of a file.
FileLife(f) ==
  /\ f \notin minted => file[f] = None /\ url[f] = None /\ object[f] = None
  /\ f \in minted /\ file[f] = None => f \in dropped
  /\ object[f] # None /\ file[f] = None => f \in late
  /\ file[f] # None /\ file[f].uploaded => f \in dropped \/ object[f] # None

ObjectSeen(h) ==
  /\ at[h] = "mark" => Now(h) \in dropped \/ object[Now(h)] # None
  /\ at[h] = "dropFile" =>
       Now(h) \in dropped /\ (object[Now(h)] # None => Now(h) \in late)

DataType ==
  /\ siteRow \in [Site -> SiteRecord \cup {None}]
  /\ bucket \in [BucketName -> {"absent", "bare", "public"}]
  /\ file \in [FileId -> FileRecord \cup {None}]
  /\ object \in [FileId -> ObjectRecord \cup {None}]
  /\ url \in [FileId -> BucketName \cup {None}]
  /\ minted \subseteq FileId /\ dropped \subseteq FileId /\ late \subseteq FileId
  /\ answered \subseteq Site
  /\ faults \in 0 .. MaxFaults

Job == [op : {"none", "provision", "upload", "confirm", "rename", "remove"},
        site : Site \cup {None}, items : Seq(FileId)]
Seen == [bucket : BucketName \cup {None}, named : BOOLEAN]

ControlType ==
  /\ holder \in [Site -> Handler \cup {None}]
  /\ at \in [Handler -> Steps]
  /\ job \in [Handler -> Job]
  /\ seen \in [Handler -> Seen]

\* What every handler is doing, and with which locks.
Control == ControlType /\ JobsFit /\ SiteLocks

FilesInv ==
  /\ DataType /\ ControlType /\ JobsFit /\ SiteLocks
  /\ Creations /\ ProvisionedKeepsBucket
  /\ \A h \in Handler : StillThere(h) /\ ObjectSeen(h)
  /\ \A f \in FileId : FileLife(f)

-----------------------------------------------------------------------------
LEMMA FileTypeParts ==
  FilesTypeOK <=> DataType /\ ControlType /\ stray \subseteq BucketName
  BY DEF FilesTypeOK, DataType, ControlType, Job, Seen

LEMMA InvParts ==
  FilesInv <=>
    /\ DataType /\ Control
    /\ Creations /\ ProvisionedKeepsBucket
    /\ \A h \in Handler : StillThere(h) /\ ObjectSeen(h)
    /\ \A f \in FileId : FileLife(f)
  BY DEF FilesInv, Control

-----------------------------------------------------------------------------
(* The control of a handler: who is where, with which request and lock.    *)

\* A step of h leaves the other handlers where they are.
Apart(h) ==
  \A g \in Handler \ {h} : at'[g] = at[g] /\ job'[g] = job[g] /\ seen'[g] = seen[g]

LEMMA NowIsFile ==
  ASSUME ControlType, JobsFit, NEW h \in Handler, job[h].op \in FileOps
  PROVE  Now(h) \in FileId
  <1>1. job[h].items \in Seq(FileId) /\ job[h].items # <<>>
    BY DEF ControlType, Job, JobsFit, JobFits
  <1> QED
    BY <1>1 DEF Now

LEMMA TailOfItems ==
  ASSUME NEW q \in Seq(FileId), Len(q) > 1
  PROVE  Tail(q) \in Seq(FileId) /\ Tail(q) # <<>>
  <1>1. Tail(q) \in Seq(FileId) /\ Len(Tail(q)) = Len(q) - 1
    OBVIOUS
  <1>2. Len(Tail(q)) # 0
    BY <1>1
  <1>3. Len(<<>>) = 0
    OBVIOUS
  <1>4. Tail(q) # <<>>
    BY <1>2, <1>3
  <1> QED
    BY <1>1, <1>4

\* Giving up every lock that one has, ...
LEMMA FreeLocks ==
  ASSUME Control, NEW h \in Handler, holder' = Unlocked(h), Apart(h),
         at'[h] \in {"idle", "find"}
  PROVE  SiteLocks' /\ holder' \in [Site -> Handler \cup {None}]
  <1>1. None \notin Handler
    BY FilesAssumption
  <1>2. \A s \in Site : holder'[s] = IF holder[s] = h THEN None ELSE holder[s]
    BY DEF Unlocked
  <1>3. ASSUME NEW g \in Handler, NEW s \in Site
        PROVE  holder'[s] = g <=> at'[g] \in Locked /\ job'[g].site = s
    <2>1. CASE g = h
      BY <1>1, <1>2, <2>1 DEF Locked, Uploading, Changing
    <2>2. CASE g # h
      BY <1>1, <1>2, <2>2 DEF Apart, Control, SiteLocks
    <2> QED
      BY <2>1, <2>2
  <1> QED
    BY <1>3 DEF SiteLocks, Unlocked, Control, ControlType

\* ... as a request does that is done, wholly or with one of its files.
LEMMA LeaveControl ==
  ASSUME Control, NEW h \in Handler, Done(h) \/ (NextItem(h) /\ job[h].op \in FileOps)
  PROVE  Control' /\ Apart(h) /\ at'[h] \in {"idle", "find"}
  <1>1. CASE Done(h)
    <2>1. Idle \in Job /\ [bucket |-> None, named |-> FALSE] \in Seen
      BY DEF Idle, Job, Seen
    <2>2. Apart(h) /\ at'[h] = "idle" /\ job'[h] = Idle
      BY <1>1 DEF Done, Apart, Control, ControlType
    <2>3. ControlType'
      BY <1>1, <2>1, <2>2, FreeLocks DEF Done, Control, ControlType, Steps
    <2>4. JobFits(h)'
      BY <2>2 DEF JobFits, Idle, Creating, Uploading, Changing, Locked, FileOps
    <2>5. \A g \in Handler \ {h} : JobFits(g)'
      BY <2>2 DEF JobFits, Apart, Control, JobsFit
    <2> QED
      BY <1>1, <2>2, <2>3, <2>4, <2>5, FreeLocks DEF Done, Control, JobsFit
  <1>2. CASE NextItem(h) /\ job[h].op \in FileOps /\ ~Done(h)
    <2> DEFINE next == [op |-> job[h].op, site |-> None, items |-> Tail(job[h].items)]
    <2>1. /\ Len(job[h].items) > 1 /\ at' = [at EXCEPT ![h] = "find"]
          /\ job' = [job EXCEPT ![h] = next] /\ holder' = Unlocked(h) /\ seen' = seen
      BY <1>2 DEF NextItem
    <2>2. job[h] \in Job
      BY DEF Control, ControlType
    <2>3. next \in Job /\ next.items # <<>> /\ next.op \in FileOps
      BY <1>2, <2>1, <2>2, TailOfItems DEF Job
    <2> HIDE DEF next
    <2>4. Apart(h) /\ at'[h] = "find" /\ job'[h] = next
      BY <2>1 DEF Apart, Control, ControlType
    <2>5. ControlType'
      BY <2>1, <2>3, <2>4, FreeLocks DEF Control, ControlType, Steps
    <2>6. JobFits(h)'
      BY <2>3, <2>4 DEF JobFits, Creating, Uploading, Changing, Locked, FileOps
    <2>7. \A g \in Handler \ {h} : JobFits(g)'
      BY <2>4 DEF JobFits, Apart, Control, JobsFit
    <2> QED
      BY <2>1, <2>4, <2>5, <2>6, <2>7, FreeLocks DEF Control, JobsFit
  <1> QED
    BY <1>1, <1>2

\* Going on with the same request under the same lock.
LEMMA MoveControl ==
  ASSUME Control, NEW h \in Handler, NEW l \in Steps,
         at' = [at EXCEPT ![h] = l], UNCHANGED <<holder, job>>,
         at[h] \in Locked <=> l \in Locked,
         \E x \in Seen : seen' = [seen EXCEPT ![h] = x],
         /\ l \in Creating => job[h].op = "provision"
         /\ l \in Uploading => job[h].op = "upload"
         /\ l \in Changing \cup {"find"} => job[h].op \in FileOps
         /\ l \in {"lock", "load"} => job[h].op \in FileOps \cup {"upload"}
         /\ l \in Creating \cup Locked \cup {"lock"} => job[h].site \in Site
         /\ l \in {"exists", "make", "publish", "name", "insert"} =>
              seen'[h].bucket \in BucketName
  PROVE  Control' /\ Apart(h) /\ at'[h] = l /\ job' = job
  <1>1. Apart(h) /\ at'[h] = l /\ job' = job /\ holder' = holder
    BY DEF Apart, Control, ControlType
  <1>2. ControlType'
    BY <1>1 DEF Control, ControlType
  <1>3. job[h].items # <<>> <=> job[h].op \in FileOps
    BY DEF Control, JobsFit, JobFits
  <1>4. JobFits(h)'
    BY <1>1, <1>3 DEF JobFits
  <1>5. \A g \in Handler \ {h} : JobFits(g)'
    BY <1>1 DEF JobFits, Apart, Control, JobsFit
  <1>6. SiteLocks'
    BY <1>1 DEF SiteLocks, Apart, Control
  <1> QED
    BY <1>1, <1>2, <1>4, <1>5, <1>6 DEF Control, JobsFit

LEMMA GoToControl ==
  ASSUME Control, NEW h \in Handler, NEW l \in Steps, GoTo(h, l),
         at[h] \in Locked <=> l \in Locked,
         /\ l \in Creating => job[h].op = "provision"
         /\ l \in Uploading => job[h].op = "upload"
         /\ l \in Changing \cup {"find"} => job[h].op \in FileOps
         /\ l \notin {"find", "lock", "load"},
         job[h].site \in Site,
         l \in {"exists", "make", "publish", "name", "insert"} => seen[h].bucket \in BucketName
  PROVE  Control' /\ Apart(h) /\ at'[h] = l /\ job' = job
  <1>1. seen' = seen /\ seen[h] \in Seen /\ seen' = [seen EXCEPT ![h] = seen[h]]
    BY DEF GoTo, Control, ControlType
  <1> QED
    BY <1>1, MoveControl DEF GoTo

\* A request about no file is done where it has nothing more to do.
LEMMA NothingNext ==
  ASSUME Control, NEW h \in Handler, NextItem(h)
  PROVE  Done(h) \/ (NextItem(h) /\ job[h].op \in FileOps)
  <1>1. CASE job[h].op \in FileOps
    BY <1>1
  <1>2. CASE job[h].items = <<>>
    <2>1. Len(job[h].items) = 0
      BY <1>2
    <2>2. ~(Len(job[h].items) > 1)
      BY <2>1
    <2> QED
      BY <2>2 DEF NextItem
  <1> QED
    BY <1>1, <1>2 DEF Control, JobsFit, JobFits

LEMMA FaultsType ==
  ASSUME DataType, Succeeds \/ Fails
  PROVE  faults' \in 0 .. MaxFaults
  <1>1. faults \in 0 .. MaxFaults /\ MaxFaults \in Nat
    BY FilesAssumption DEF DataType
  <1> QED
    BY <1>1 DEF Succeeds, Fails

-----------------------------------------------------------------------------
(* The parts of the invariant that a step does not touch.                  *)

LEMMA SameCreations ==
  ASSUME DataType, Creations, ProvisionedKeepsBucket, NEW h \in Handler, Apart(h),
         siteRow' = siteRow, answered' = answered,
         \A s \in Site : Owns(h, s)' => Owns(h, s),
         \A b \in BucketName : bucket[b] = "public" => bucket'[b] = "public"
  PROVE  Creations' /\ ProvisionedKeepsBucket'
  <1>1. \A g \in Handler, s \in Site : Owns(g, s)' => Owns(g, s)
    BY DEF Apart, Owns
  <1>2. Creations'
    BY <1>1 DEF Creations, Present
  <1>3. \A s \in answered : BucketOf[s] \in BucketName
    BY FilesAssumption DEF DataType
  <1>4. \A s \in Site : Alone(s)' <=> Alone(s)
    BY DEF Alone
  <1> QED
    BY <1>2, <1>3, <1>4 DEF ProvisionedKeepsBucket, Present, DataType

LEMMA SameRowsThere ==
  ASSUME \A g \in Handler : StillThere(g), NEW h \in Handler, Apart(h), StillThere(h)',
         file' = file, siteRow' = siteRow, minted' = minted
  PROVE  \A g \in Handler : StillThere(g)'
  <1>1. ASSUME NEW g \in Handler, g # h
        PROVE  StillThere(g)'
    BY <1>1 DEF Apart, StillThere, OwnFile, Now, Present
  <1> QED
    BY <1>1

LEMMA SameObjects ==
  ASSUME \A g \in Handler : ObjectSeen(g), NEW h \in Handler, Apart(h), ObjectSeen(h)',
         object' = object, dropped' = dropped, late' = late
  PROVE  \A g \in Handler : ObjectSeen(g)'
  <1>1. ASSUME NEW g \in Handler, g # h
        PROVE  ObjectSeen(g)'
    BY <1>1 DEF Apart, ObjectSeen, Now
  <1> QED
    BY <1>1

LEMMA SameLives ==
  ASSUME \A f \in FileId : FileLife(f),
         UNCHANGED <<minted, file, url, object, dropped, late>>
  PROVE  \A f \in FileId : FileLife(f)'
  BY DEF FileLife

\* A handler that left relies on nothing.
LEMMA LeftIsFree ==
  ASSUME NEW h \in Handler, at'[h] \in {"idle", "find"}
  PROVE  /\ StillThere(h)' /\ ObjectSeen(h)'
         /\ \A s \in Site : ~Owns(h, s)'
  BY DEF StillThere, ObjectSeen, Owns, Owning, Changing, Locked, Uploading

\* Steps that write nothing, ...
LEMMA QuietStep ==
  ASSUME FilesInv, NEW h \in Handler, UNCHANGED <<rows, store, ghosts>>, Succeeds \/ Fails,
         Control', Apart(h), StillThere(h)', ObjectSeen(h)',
         \A s \in Site : Owns(h, s)' => Owns(h, s)
  PROVE  FilesInv'
  <1>1. /\ siteRow' = siteRow /\ file' = file /\ bucket' = bucket /\ object' = object
        /\ url' = url /\ minted' = minted /\ answered' = answered /\ dropped' = dropped
        /\ late' = late
    BY DEF rows, store, ghosts
  <1>2. DataType'
    BY <1>1, InvParts, FaultsType DEF DataType
  <1>3. Creations' /\ ProvisionedKeepsBucket'
    BY <1>1, InvParts, SameCreations
  <1>4. \A g \in Handler : StillThere(g)' /\ ObjectSeen(g)'
    BY <1>1, InvParts, SameRowsThere, SameObjects
  <1>5. \A f \in FileId : FileLife(f)'
    BY <1>1, InvParts, SameLives
  <1> QED
    BY <1>2, <1>3, <1>4, <1>5 DEF FilesInv, Control

\* ... as those by which a request only ends, with a file or wholly.
LEMMA QuietLeave ==
  ASSUME FilesInv, NEW h \in Handler, UNCHANGED <<rows, store, ghosts>>, Succeeds \/ Fails,
         Done(h) \/ NextItem(h)
  PROVE  FilesInv'
  <1>1. Control
    BY InvParts
  <1>2. Control' /\ Apart(h) /\ at'[h] \in {"idle", "find"}
    BY <1>1, NothingNext, LeaveControl
  <1> QED
    BY <1>2, LeftIsFree, QuietStep

\* ... and those that only go on.
LEMMA QuietMove ==
  ASSUME FilesInv, NEW h \in Handler, UNCHANGED <<rows, store, ghosts>>, Succeeds \/ Fails,
         NEW l \in Steps, Control', Apart(h), at'[h] = l, job'[h] = job[h],
         l \notin Owning, l \notin {"lock", "load", "mark", "dropFile"},
         l \in Uploading \cup Changing => at[h] \in Uploading \cup Changing,
         l \in Changing => at[h] \in Changing
  PROVE  FilesInv'
  <1>1. file' = file /\ siteRow' = siteRow
    BY DEF rows
  <1>2. StillThere(h)
    BY InvParts
  <1>3. StillThere(h)'
    BY <1>1, <1>2 DEF StillThere, OwnFile, Now, Present, Locked, Uploading, Changing
  <1>4. ObjectSeen(h)' /\ \A s \in Site : ~Owns(h, s)'
    BY DEF ObjectSeen, Owns
  <1> QED
    BY <1>3, <1>4, QuietStep

LEMMA Together ==
  ASSUME DataType', Control', Creations', ProvisionedKeepsBucket',
         \A g \in Handler : StillThere(g)', \A g \in Handler : ObjectSeen(g)',
         \A f \in FileId : FileLife(f)'
  PROVE  FilesInv'
  BY DEF FilesInv, Control

\* What becomes of the buckets.
LEMMA BucketChanges ==
  ASSUME bucket \in [BucketName -> {"absent", "bare", "public"}], NEW b \in BucketName
  PROVE  /\ Made(b) \in [BucketName -> {"absent", "bare", "public"}]
         /\ Published(b) \in [BucketName -> {"absent", "bare", "public"}]
         /\ Unmade(b) \in [BucketName -> {"absent", "bare", "public"}]
         /\ \A c \in BucketName : bucket[c] = "public" =>
              Made(b)[c] = "public" /\ Published(b)[c] = "public"
         /\ InStore(b) => Published(b)[b] = "public"
         /\ \A c \in BucketName : c # b => Unmade(b)[c] = bucket[c]
  BY DEF Made, Published, Unmade, InStore

\* Nothing but buckets changes, and none that was public.
LEMMA BucketStep ==
  ASSUME FilesInv, NEW h \in Handler, Succeeds \/ Fails,
         UNCHANGED <<rows, object, url, minted, answered, dropped, late>>,
         bucket' \in [BucketName -> {"absent", "bare", "public"}],
         \A b \in BucketName : bucket[b] = "public" => bucket'[b] = "public",
         Control', Apart(h), StillThere(h)', ObjectSeen(h)',
         \A s \in Site : Owns(h, s)' => Owns(h, s)
  PROVE  FilesInv'
  <1>1. /\ siteRow' = siteRow /\ file' = file /\ object' = object /\ url' = url
        /\ minted' = minted /\ answered' = answered /\ dropped' = dropped /\ late' = late
    BY DEF rows
  <1>2. DataType'
    BY <1>1, InvParts, FaultsType DEF DataType
  <1>3. Creations' /\ ProvisionedKeepsBucket'
    BY <1>1, InvParts, SameCreations
  <1>4. \A g \in Handler : StillThere(g)' /\ ObjectSeen(g)'
    BY <1>1, InvParts, SameRowsThere, SameObjects
  <1>5. \A f \in FileId : FileLife(f)'
    BY <1>1, InvParts, SameLives
  <1> QED
    BY <1>2, <1>3, <1>4, <1>5, Together

-----------------------------------------------------------------------------
(* Requests that begin.                                                    *)

LEMMA AcceptStep ==
  ASSUME FilesInv, NEW h \in Handler, NEW r \in FileWork,
         AskSite(h, r) \/ AskUpload(h, r) \/ AskFile(h, r)
  PROVE  FilesInv'
  <1>1. PICK l \in Steps :
          /\ Accept(h, r, l)
          /\ \/ l = "checkBucket" /\ r.op = "provision"
             \/ l = "lock" /\ r.op = "upload"
             \/ l = "find" /\ r.op \in FileOps
    BY DEF AskSite, AskUpload, AskFile, Steps, FileOps
  <1>2. r \in FileRequest
    BY FilesAssumption
  <1>3. /\ r \in Job /\ (r.items # <<>> <=> r.op \in FileOps)
        /\ r.op \in {"provision", "upload"} => r.site \in Site
    <2>1. <<>> \in Seq(FileId)
      OBVIOUS
    <2> QED
      BY <1>2, <2>1 DEF FileRequest, Job, FileOps
  <1>4. /\ at[h] = "idle" /\ at' = [at EXCEPT ![h] = l] /\ job' = [job EXCEPT ![h] = r]
        /\ holder' = holder /\ seen' = seen /\ UNCHANGED <<rows, store, ghosts>> /\ Succeeds
    BY <1>1 DEF Accept, Succeeds
  <1>5. Control
    BY InvParts
  <1>6. Apart(h) /\ at'[h] = l /\ job'[h] = r
    BY <1>4, <1>5 DEF Apart, Control, ControlType
  <1>7. ControlType'
    BY <1>3, <1>4, <1>5 DEF Control, ControlType
  <1>8. JobsFit'
    <2>1. JobFits(h)'
      BY <1>1, <1>3, <1>6 DEF JobFits, Creating, Uploading, Changing, Locked, FileOps
    <2>2. \A g \in Handler \ {h} : JobFits(g)'
      BY <1>5, <1>6 DEF JobFits, Apart, Control, JobsFit
    <2> QED
      BY <2>1, <2>2 DEF JobsFit
  <1>9. SiteLocks'
    <2>1. at[h] \notin Locked /\ at'[h] \notin Locked
      BY <1>1, <1>4, <1>6 DEF Locked, Uploading, Changing
    <2> QED
      BY <1>4, <1>5, <1>6, <2>1 DEF SiteLocks, Apart, Control
  <1>10. StillThere(h)' /\ ObjectSeen(h)' /\ \A s \in Site : ~Owns(h, s)'
    BY <1>1, <1>6
       DEF StillThere, ObjectSeen, Owns, Owning, Changing, Locked, Uploading, FileOps
  <1> QED
    BY <1>4, <1>6, <1>7, <1>8, <1>9, <1>10, QuietStep DEF Control

LEMMA QuitStep ==
  ASSUME FilesInv, NEW h \in Handler, Quit(h)
  PROVE  FilesInv'
  BY QuietLeave DEF Quit

-----------------------------------------------------------------------------
(* The creation of a site.                                                 *)

LEMMA CheckStep ==
  ASSUME FilesInv, NEW h \in Handler, CheckBucket(h) \/ CheckReserved(h)
  PROVE  FilesInv'
  <1>1. CASE Done(h)
    BY <1>1, QuietLeave DEF CheckBucket, CheckReserved
  <1>2. CASE ~Done(h)
    <2>1. PICK l \in {"checkReserved", "reserve"} : GoTo(h, l)
      BY <1>2 DEF CheckBucket, CheckReserved
    <2>2. /\ at[h] \in {"checkBucket", "checkReserved"} /\ UNCHANGED <<rows, store, ghosts>>
          /\ Succeeds
      BY DEF CheckBucket, CheckReserved
    <2>3. Control /\ job[h].op = "provision" /\ job[h].site \in Site
      BY <2>2, InvParts DEF Control, JobsFit, JobFits, Creating
    <2>4. Control' /\ Apart(h) /\ at'[h] = l /\ job' = job
      BY <2>1, <2>2, <2>3, GoToControl DEF Steps, Creating, Locked, Uploading, Changing
    <2> QED
      BY <2>1, <2>2, <2>4, QuietMove DEF Steps, Owning, Uploading, Changing
  <1> QED
    BY <1>1, <1>2

LEMMA ReserveStep ==
  ASSUME FilesInv, NEW h \in Handler, Reserve(h)
  PROVE  FilesInv'
  <1> DEFINE s == job[h].site
             new == [bucket |-> BucketOf[s], deleted |-> FALSE]
  <1>1. Control /\ DataType /\ at[h] = "reserve" /\ job[h].op = "provision" /\ s \in Site
    BY InvParts DEF Reserve, Control, JobsFit, JobFits, Creating
  <1>2. CASE Done(h) /\ UNCHANGED siteRow
    BY <1>2, QuietLeave DEF Reserve, rows, store
  <1>3. ASSUME ~Present(s), siteRow' = [siteRow EXCEPT ![s] = new],
               GoTo(h, "makeBucket") \/ Done(h)
        PROVE  FilesInv'
    <2>1. /\ file' = file /\ bucket' = bucket /\ object' = object /\ url' = url
          /\ minted' = minted /\ answered' = answered /\ dropped' = dropped /\ late' = late
          /\ (Succeeds \/ Fails)
      BY DEF Reserve, store, ghosts
    <2>2. new \in SiteRecord /\ new # None /\ new.deleted = FALSE
      <3>1. BucketOf[s] \in BucketName
        BY <1>1, FilesAssumption
      <3>2. new \in SiteRecord /\ new.deleted = FALSE
        BY <3>1 DEF SiteRecord
      <3> HIDE DEF new
      <3> QED
        BY <3>2, FilesAssumption
    <2> HIDE DEF new
    <2>3. siteRow'[s] = new /\ \A t \in Site \ {s} : siteRow'[t] = siteRow[t]
      BY <1>1, <1>3 DEF DataType
    <2>4. DataType'
      BY <1>1, <1>3, <2>1, <2>2, FaultsType DEF DataType
    <2>5. /\ Control' /\ Apart(h) /\ at'[h] \in {"idle", "find", "makeBucket"}
          /\ at'[h] = "makeBucket" => job'[h] = job[h]
      <3>1. CASE Done(h)
        BY <1>1, <3>1, LeaveControl
      <3>2. CASE GoTo(h, "makeBucket")
        BY <1>1, <3>2, GoToControl DEF Steps, Creating, Locked, Uploading, Changing
      <3> QED
        BY <1>3, <3>1, <3>2
    <2>6. \A t \in Site : Present(t)' <=> Present(t) \/ t = s
      BY <2>2, <2>3 DEF Present
    <2>7. Creations'
      <3>1. \A g \in Handler, t \in Site : Owns(g, t)' => Owns(g, t) \/ (g = h /\ t = s)
        BY <2>5 DEF Apart, Owns, Owning
      <3>2. s \notin answered /\ \A g \in Handler : ~Owns(g, s)
        BY <1>1, <1>3, InvParts DEF Creations, ProvisionedKeepsBucket
      <3> QED
        BY <2>1, <2>6, <3>1, <3>2, InvParts DEF Creations
    <2>8. ProvisionedKeepsBucket'
      <3>1. \A t \in Site : Alone(t)' <=> Alone(t)
        BY DEF Alone
      <3> QED
        BY <1>1, <2>1, <2>6, <3>1, InvParts DEF ProvisionedKeepsBucket, DataType
    <2>9. \A g \in Handler : StillThere(g)'
      <3>1. StillThere(h)'
        BY <2>5 DEF StillThere, Changing, Locked, Uploading
      <3>2. ASSUME NEW g \in Handler, g # h
            PROVE  StillThere(g)'
        <4>1. StillThere(g) /\ at'[g] = at[g] /\ job'[g] = job[g]
              /\ (at[g] \in Locked => job[g].site \in Site)
          BY <1>1, <2>5, <3>2, InvParts DEF Apart, Control, JobsFit, JobFits
        <4>2. at[g] \in Locked \ {"load"} =>
                ~(Present(job[g].site)' /\ siteRow'[job[g].site].deleted)
          BY <2>2, <2>3, <2>6, <4>1 DEF StillThere
        <4> QED
          BY <2>1, <4>1, <4>2 DEF StillThere, OwnFile, Now
      <3> QED
        BY <3>1, <3>2
    <2>10. \A g \in Handler : ObjectSeen(g)'
      BY <2>1, <2>5, InvParts, SameObjects DEF ObjectSeen
    <2>11. \A f \in FileId : FileLife(f)'
      BY <2>1, InvParts, SameLives
    <2> QED
      BY <2>4, <2>5, <2>7, <2>8, <2>9, <2>10, <2>11, Together
  <1> QED
    BY <1>2, <1>3 DEF Reserve

LEMMA OwnerFacts ==
  ASSUME FilesInv, NEW h \in Handler, at[h] \in Owning
  PROVE  /\ Control /\ DataType /\ job[h].op = "provision" /\ job[h].site \in Site
         /\ Owns(h, job[h].site) /\ Present(job[h].site) /\ job[h].site \notin answered
         /\ BucketOf[job[h].site] \in BucketName
         /\ \A g \in Handler \ {h} : ~Owns(g, job[h].site)
  <1>1. Control /\ DataType /\ job[h].op = "provision" /\ job[h].site \in Site
    BY InvParts DEF Control, JobsFit, JobFits, Creating, Owning
  <1>2. Owns(h, job[h].site)
    BY DEF Owns
  <1> QED
    BY <1>1, <1>2, FilesAssumption, InvParts DEF Creations

\* An owner goes on as an owner, or leaves.
LEMMA OwnerMoves ==
  ASSUME FilesInv, NEW h \in Handler, at[h] \in Owning, NEW l \in Owning,
         GoTo(h, l) \/ Done(h)
  PROVE  /\ Control' /\ Apart(h)
         /\ StillThere(h)' /\ ObjectSeen(h)'
         /\ \A s \in Site : Owns(h, s)' => Owns(h, s)
         /\ Done(h) => \A s \in Site : ~Owns(h, s)'
  <1>1. CASE Done(h)
    BY <1>1, LeaveControl, LeftIsFree, OwnerFacts
  <1>2. CASE ~Done(h)
    <2>1. Control' /\ Apart(h) /\ at'[h] = l /\ job' = job
      BY <1>2, OwnerFacts, GoToControl
         DEF Steps, Owning, Creating, Locked, Uploading, Changing
    <2>2. StillThere(h)' /\ ObjectSeen(h)'
      BY <2>1 DEF StillThere, ObjectSeen, Owning, Locked, Uploading, Changing
    <2> QED
      BY <1>2, <2>1, <2>2 DEF Owns
  <1> QED
    BY <1>1, <1>2

LEMMA MakeBucketStep ==
  ASSUME FilesInv, NEW h \in Handler, MakeBucket(h)
  PROVE  FilesInv'
  <1> DEFINE b == BucketOf[job[h].site]
  <1>1. at[h] \in Owning /\ at[h] = "makeBucket"
    BY DEF MakeBucket, Owning
  <1>2. /\ bucket \in [BucketName -> {"absent", "bare", "public"}] /\ b \in BucketName
    BY <1>1, OwnerFacts DEF DataType
  <1>3. /\ bucket' \in [BucketName -> {"absent", "bare", "public"}]
        /\ \A c \in BucketName : bucket[c] = "public" => bucket'[c] = "public"
    BY <1>2, BucketChanges DEF MakeBucket
  <1>4. PICK l \in Owning : GoTo(h, l)
    BY DEF MakeBucket, Owning
  <1>5. /\ UNCHANGED <<rows, object, url, minted, answered, dropped, late>>
        /\ (Succeeds \/ Fails)
    BY DEF MakeBucket
  <1> QED
    BY <1>1, <1>3, <1>4, <1>5, OwnerMoves, BucketStep

LEMMA RollbackSteps == Rollback[1] = "dropBucket" /\ Rollback[2] = "dropRow"
  BY DEF Rollback

LEMMA ConfigureStep ==
  ASSUME FilesInv, NEW h \in Handler, Configure(h)
  PROVE  FilesInv'
  <1> DEFINE s == job[h].site
             b == BucketOf[s]
  <1>1. at[h] \in Owning /\ at[h] = "configure"
    BY DEF Configure, Owning
  <1>2. /\ Control /\ DataType /\ s \in Site /\ b \in BucketName
        /\ bucket \in [BucketName -> {"absent", "bare", "public"}]
        /\ Present(s) /\ \A g \in Handler \ {h} : ~Owns(g, s)
    BY <1>1, OwnerFacts DEF DataType
  <1>3. /\ bucket' \in [BucketName -> {"absent", "bare", "public"}]
        /\ \A c \in BucketName : bucket[c] = "public" => bucket'[c] = "public"
    BY <1>2, BucketChanges DEF Configure
  <1>4. CASE UNCHANGED answered /\ GoTo(h, Rollback[1])
    <2>1. GoTo(h, "dropBucket") /\ "dropBucket" \in Owning
      BY <1>4, RollbackSteps DEF Owning
    <2>2. /\ UNCHANGED <<rows, object, url, minted, answered, dropped, late>>
          /\ (Succeeds \/ Fails)
      BY <1>4 DEF Configure
    <2> QED
      BY <1>1, <1>3, <2>1, <2>2, OwnerMoves, BucketStep
  <1>5. ASSUME InStore(b), bucket' = Published(b), Done(h), Succeeds,
               answered' = answered \cup {s}
        PROVE  FilesInv'
    <2>1. /\ siteRow' = siteRow /\ file' = file /\ object' = object /\ url' = url
          /\ minted' = minted /\ dropped' = dropped /\ late' = late
      BY DEF Configure, rows
    <2>2. DataType'
      BY <1>2, <1>3, <1>5, <2>1, FaultsType DEF DataType
    <2>3. /\ Control' /\ Apart(h) /\ StillThere(h)' /\ ObjectSeen(h)'
          /\ \A t \in Site : ~Owns(h, t)'
      BY <1>1, <1>5, OwnerMoves
    <2>4. Creations'
      <3>1. \A g \in Handler, t \in Site : Owns(g, t)' => g # h /\ t # s /\ Owns(g, t)
        BY <1>2, <2>3 DEF Apart, Owns
      <3> QED
        BY <1>5, <2>1, <3>1, InvParts DEF Creations, Present
    <2>5. ProvisionedKeepsBucket'
      <3>1. bucket'[b] = "public"
        BY <1>2, <1>5, BucketChanges
      <3>2. \A t \in answered' : t \in Site /\ BucketOf[t] \in BucketName
        BY <1>2, <1>5, FilesAssumption DEF DataType
      <3>3. \A t \in Site : Alone(t)' <=> Alone(t)
        BY DEF Alone
      <3> QED
        BY <1>2, <1>3, <1>5, <2>1, <3>1, <3>2, <3>3, InvParts
           DEF ProvisionedKeepsBucket, Present
    <2>6. \A g \in Handler : StillThere(g)' /\ ObjectSeen(g)'
      BY <2>1, <2>3, InvParts, SameRowsThere, SameObjects
    <2>7. \A f \in FileId : FileLife(f)'
      BY <2>1, InvParts, SameLives
    <2> QED
      BY <2>2, <2>3, <2>4, <2>5, <2>6, <2>7, Together
  <1> QED
    BY <1>4, <1>5 DEF Configure

\* The rollback takes only the bucket of its own site.
LEMMA DropBucketStep ==
  ASSUME FilesInv, NEW h \in Handler, DropBucket(h)
  PROVE  FilesInv'
  <1> DEFINE s == job[h].site
             b == BucketOf[s]
  <1>1. at[h] \in Owning /\ at[h] = "dropBucket"
    BY DEF DropBucket, Owning
  <1>2. /\ Control /\ DataType /\ s \in Site /\ b \in BucketName /\ s \notin answered
        /\ bucket \in [BucketName -> {"absent", "bare", "public"}]
    BY <1>1, OwnerFacts DEF DataType
  <1>3. /\ bucket' \in [BucketName -> {"absent", "bare", "public"}]
        /\ \A c \in BucketName : c # b => bucket'[c] = bucket[c]
    BY <1>2, BucketChanges DEF DropBucket
  <1>4. GoTo(h, "dropRow") \/ Done(h)
    BY RollbackSteps DEF DropBucket, AfterRollback
  <1>5. /\ siteRow' = siteRow /\ file' = file /\ object' = object /\ url' = url
        /\ minted' = minted /\ answered' = answered /\ dropped' = dropped /\ late' = late
        /\ (Succeeds \/ Fails)
    BY DEF DropBucket, rows, ghosts
  <1>6. /\ Control' /\ Apart(h) /\ StillThere(h)' /\ ObjectSeen(h)'
        /\ \A t \in Site : Owns(h, t)' => Owns(h, t)
    BY <1>1, <1>4, OwnerMoves DEF Owning
  <1>7. DataType'
    BY <1>2, <1>3, <1>5, FaultsType DEF DataType
  <1>8. Creations'
    <2>1. \A g \in Handler, t \in Site : Owns(g, t)' => Owns(g, t)
      BY <1>6 DEF Apart, Owns
    <2> QED
      BY <1>5, <2>1, InvParts DEF Creations, Present
  <1>9. ProvisionedKeepsBucket'
    <2>1. ASSUME NEW t \in answered, Alone(t)
          PROVE  bucket'[BucketOf[t]] = bucket[BucketOf[t]]
      <3>1. t \in Site /\ t # s /\ BucketOf[t] \in BucketName
        BY <1>2, FilesAssumption DEF DataType
      <3>2. BucketOf[t] # b
        BY <1>2, <2>1, <3>1 DEF Alone
      <3> QED
        BY <1>3, <3>1, <3>2
    <2>2. \A t \in Site : Alone(t)' <=> Alone(t)
      BY DEF Alone
    <2> QED
      BY <1>2, <1>5, <2>1, <2>2, InvParts DEF ProvisionedKeepsBucket, Present, DataType
  <1>10. \A g \in Handler : StillThere(g)' /\ ObjectSeen(g)'
    BY <1>5, <1>6, InvParts, SameRowsThere, SameObjects
  <1>11. \A f \in FileId : FileLife(f)'
    BY <1>5, InvParts, SameLives
  <1> QED
    BY <1>6, <1>7, <1>8, <1>9, <1>10, <1>11, Together

\* ... and its own row.
LEMMA DropRowStep ==
  ASSUME FilesInv, NEW h \in Handler, DropRow(h)
  PROVE  FilesInv'
  <1> DEFINE s == job[h].site
  <1>1. at[h] \in Owning /\ at[h] = "dropRow"
    BY DEF DropRow, Owning
  <1>2. /\ Control /\ DataType /\ s \in Site /\ s \notin answered
        /\ \A g \in Handler \ {h} : ~Owns(g, s)
    BY <1>1, OwnerFacts
  <1>3. Done(h)
    BY RollbackSteps DEF DropRow, AfterRollback
  <1>4. /\ file' = file /\ bucket' = bucket /\ object' = object /\ url' = url
        /\ minted' = minted /\ answered' = answered /\ dropped' = dropped /\ late' = late
        /\ (Succeeds \/ Fails)
        /\ siteRow' \in {siteRow, [siteRow EXCEPT ![s] = None]}
    BY DEF DropRow, store, ghosts
  <1>5. /\ siteRow' \in [Site -> SiteRecord \cup {None}]
        /\ \A t \in Site : siteRow'[t] = siteRow[t] \/ (t = s /\ siteRow'[t] = None)
    BY <1>2, <1>4 DEF DataType
  <1>6. /\ Control' /\ Apart(h) /\ StillThere(h)' /\ ObjectSeen(h)'
        /\ \A t \in Site : ~Owns(h, t)'
    BY <1>1, <1>3, OwnerMoves DEF Owning
  <1>7. DataType'
    BY <1>2, <1>4, <1>5, FaultsType DEF DataType
  <1>8. Creations'
    <2>1. \A g \in Handler, t \in Site : Owns(g, t)' => t # s /\ Owns(g, t)
      BY <1>2, <1>6 DEF Apart, Owns
    <2> QED
      BY <1>4, <1>5, <2>1, InvParts DEF Creations, Present
  <1>9. ProvisionedKeepsBucket'
    <2>1. \A t \in Site : Alone(t)' <=> Alone(t)
      BY DEF Alone
    <2> QED
      BY <1>2, <1>4, <1>5, <2>1, InvParts DEF ProvisionedKeepsBucket, Present, DataType
  <1>10. \A g \in Handler : StillThere(g)'
    <2>1. ASSUME NEW g \in Handler, g # h
          PROVE  StillThere(g)'
      <3>1. StillThere(g) /\ at'[g] = at[g] /\ job'[g] = job[g]
            /\ (at[g] \in Locked => job[g].site \in Site)
        BY <1>2, <1>6, <2>1, InvParts DEF Apart, Control, JobsFit, JobFits
      <3>2. at[g] \in Locked \ {"load"} =>
              ~(Present(job[g].site)' /\ siteRow'[job[g].site].deleted)
        BY <1>5, <3>1 DEF StillThere, Present
      <3> QED
        BY <1>4, <3>1, <3>2 DEF StillThere, OwnFile, Now
    <2> QED
      BY <1>6, <2>1
  <1>11. \A g \in Handler : ObjectSeen(g)'
    BY <1>4, <1>6, InvParts, SameObjects
  <1>12. \A f \in FileId : FileLife(f)'
    BY <1>4, InvParts, SameLives
  <1> QED
    BY <1>6, <1>7, <1>8, <1>9, <1>10, <1>11, <1>12, Together

-----------------------------------------------------------------------------
(* Finding the file, waiting for the lock, and the check under the lock.   *)

LEMMA FindStep ==
  ASSUME FilesInv, NEW h \in Handler, FindFile(h)
  PROVE  FilesInv'
  <1> DEFINE f == Now(h)
             next == [op |-> job[h].op, site |-> file[f].site, items |-> job[h].items]
  <1>1. /\ Control /\ DataType /\ at[h] = "find" /\ job[h].op \in FileOps /\ job[h] \in Job
        /\ f \in FileId
    BY InvParts, NowIsFile DEF FindFile, Control, ControlType, JobsFit, JobFits
  <1>2. UNCHANGED <<rows, store, ghosts>> /\ Succeeds
    BY DEF FindFile
  <1>3. CASE NextItem(h)
    BY <1>2, <1>3, QuietLeave
  <1>4. CASE ~NextItem(h)
    <2>1. /\ file[f] # None /\ job' = [job EXCEPT ![h] = next]
          /\ at' = [at EXCEPT ![h] = "lock"] /\ holder' = holder /\ seen' = seen
      BY <1>4 DEF FindFile
    <2>2. file[f].site \in Site /\ f \in minted
      BY <1>1, <2>1, InvParts DEF DataType, FileRecord, FileLife
    <2>3. /\ next \in Job /\ next.op = job[h].op /\ next.site = file[f].site
          /\ next.items = job[h].items
      BY <1>1, <2>2 DEF Job
    <2> HIDE DEF next
    <2>4. Apart(h) /\ at'[h] = "lock" /\ job'[h] = next
      BY <1>1, <2>1 DEF Apart, Control, ControlType
    <2>5. ControlType'
      BY <1>1, <2>1, <2>3 DEF Control, ControlType, Steps
    <2>6. JobsFit'
      <3>1. JobFits(h)'
        BY <1>1, <2>2, <2>3, <2>4
           DEF JobFits, Control, JobsFit, Creating, Uploading, Changing, Locked
      <3>2. \A g \in Handler \ {h} : JobFits(g)'
        BY <1>1, <2>4 DEF JobFits, Apart, Control, JobsFit
      <3> QED
        BY <3>1, <3>2 DEF JobsFit
    <2>7. SiteLocks'
      <3>1. at[h] \notin Locked /\ at'[h] \notin Locked
        BY <1>1, <2>4 DEF Locked, Uploading, Changing
      <3> QED
        BY <1>1, <2>1, <2>4, <3>1 DEF SiteLocks, Apart, Control
    <2>8. StillThere(h)'
      <3>1. Now(h)' = f /\ file' = file /\ minted' = minted
        BY <1>2, <2>3, <2>4 DEF Now, rows, ghosts
      <3> QED
        BY <2>2, <2>3, <2>4, <3>1 DEF StillThere, OwnFile, Changing, Locked, Uploading
    <2>9. ObjectSeen(h)' /\ \A s \in Site : ~Owns(h, s)'
      BY <2>4 DEF ObjectSeen, Owns, Owning
    <2> QED
      BY <1>2, <2>4, <2>5, <2>6, <2>7, <2>8, <2>9, QuietStep DEF Control
  <1> QED
    BY <1>3, <1>4

LEMMA LockStep ==
  ASSUME FilesInv, NEW h \in Handler, LockSite(h)
  PROVE  FilesInv'
  <1> DEFINE s == job[h].site
  <1>1. /\ Control /\ at[h] = "lock" /\ job[h].op \in FileOps \cup {"upload"} /\ s \in Site
        /\ holder[s] = None
    BY InvParts DEF LockSite, Control, JobsFit, JobFits
  <1>2. /\ holder' = [holder EXCEPT ![s] = h] /\ at' = [at EXCEPT ![h] = "load"]
        /\ job' = job /\ seen' = seen /\ UNCHANGED <<rows, store, ghosts>> /\ Succeeds
    BY DEF LockSite
  <1>3. Apart(h) /\ at'[h] = "load" /\ job'[h] = job[h] /\ "load" \in Locked
    BY <1>1, <1>2 DEF Apart, Control, ControlType, Locked
  <1>4. ControlType'
    BY <1>1, <1>2 DEF Control, ControlType, Steps
  <1>5. JobsFit'
    <2>1. JobFits(h)'
      BY <1>1, <1>3 DEF JobFits, Control, JobsFit, Creating, Uploading, Changing, Locked
    <2>2. \A g \in Handler \ {h} : JobFits(g)'
      BY <1>1, <1>3 DEF JobFits, Apart, Control, JobsFit
    <2> QED
      BY <2>1, <2>2 DEF JobsFit
  <1>6. SiteLocks'
    <2>1. None \notin Handler /\ at[h] \notin Locked
      BY <1>1, FilesAssumption DEF Locked, Uploading, Changing
    <2>2. holder'[s] = h /\ \A t \in Site \ {s} : holder'[t] = holder[t]
      BY <1>1, <1>2 DEF Control, ControlType
    <2>3. ASSUME NEW g \in Handler, NEW t \in Site
          PROVE  holder'[t] = g <=> at'[g] \in Locked /\ job'[g].site = t
      BY <1>1, <1>3, <2>1, <2>2 DEF Apart, Control, SiteLocks
    <2> QED
      BY <2>3 DEF SiteLocks
  <1>7. StillThere(h)'
    <2>1. StillThere(h) /\ file' = file /\ minted' = minted
      BY <1>2, InvParts DEF rows, ghosts
    <2> QED
      BY <1>1, <1>3, <2>1 DEF StillThere, OwnFile, Now, Changing
  <1>8. ObjectSeen(h)' /\ \A t \in Site : ~Owns(h, t)'
    BY <1>3 DEF ObjectSeen, Owns, Owning
  <1> QED
    BY <1>2, <1>3, <1>4, <1>5, <1>6, <1>7, <1>8, QuietStep DEF Control

LEMMA DeletionSteps == DeleteOrder[1] = "dropObject" /\ DeleteOrder[2] = "dropFile"
  BY DEF DeleteOrder

LEMMA LoadStep ==
  ASSUME FilesInv, NEW h \in Handler, Load(h)
  PROVE  FilesInv'
  <1> DEFINE s == job[h].site
             l == FirstStep(h)
             b == IF job[h].op = "upload" THEN None ELSE file[Now(h)].bucket
             x == [bucket |-> b, named |-> FALSE]
  <1>1. UNCHANGED <<rows, store, ghosts>> /\ Succeeds /\ at[h] = "load"
    BY DEF Load
  <1>2. CASE NextItem(h) \/ Done(h)
    BY <1>1, <1>2, QuietLeave
  <1>3. CASE ~NextItem(h) /\ ~Done(h)
    <2>1. /\ Rechecked(h) /\ at' = [at EXCEPT ![h] = l] /\ seen' = [seen EXCEPT ![h] = x]
          /\ UNCHANGED <<holder, job>>
      BY <1>3 DEF Load
    <2>2. /\ Control /\ DataType /\ s \in Site /\ job[h].op \in FileOps \cup {"upload"}
          /\ "load" \in Locked
      BY <1>1, InvParts DEF Control, JobsFit, JobFits, Locked
    <2>3. /\ l \in {"ensure", "write", "dropObject", "head"}
          /\ l = "ensure" <=> job[h].op = "upload"
      BY <2>2, DeletionSteps DEF FirstStep, FileOps
    <2>4. job[h].op \in FileOps => file[Now(h)] # None /\ Now(h) \in FileId
      BY <2>1, <2>2, NowIsFile DEF Rechecked, Control, FileOps
    <2>5. x \in Seen
      <3>1. b \in BucketName \cup {None}
        BY <2>2, <2>4 DEF DataType, FileRecord
      <3> QED
        BY <3>1 DEF Seen
    <2> HIDE DEF l, x
    <2>6. Control' /\ Apart(h) /\ at'[h] = l /\ job' = job
      <3>1. l \in Steps /\ l \in Locked /\ (l \in Uploading <=> l = "ensure")
            /\ l \notin Creating /\ (l \in Changing \cup {"find"} <=> l # "ensure")
        BY <2>3 DEF Steps, Locked, Uploading, Changing, Creating
      <3>2. job[h].op \in FileOps <=> l # "ensure"
        BY <2>2, <2>3 DEF FileOps
      <3> QED
        BY <1>1, <2>1, <2>2, <2>3, <2>5, <3>1, <3>2, MoveControl
    <2>7. StillThere(h)'
      <3>1. StillThere(h) /\ file' = file /\ siteRow' = siteRow
        BY <1>1, InvParts DEF rows
      <3>2. ~(Present(s) /\ siteRow[s].deleted)
        BY <2>1 DEF Rechecked, ActiveSite
      <3>3. Now(h)' = Now(h) /\ job'[h] = job[h] /\ Present(s)' = Present(s)
        BY <2>6, <3>1 DEF Now, Present
      <3>4. l \in Changing => job[h].op \in FileOps
        BY <2>2, <2>3 DEF Changing
      <3> QED
        BY <1>1, <2>3, <2>4, <2>6, <3>1, <3>2, <3>3, <3>4 DEF StillThere, OwnFile, FileOps
    <2>8. ObjectSeen(h)' /\ \A t \in Site : ~Owns(h, t)'
      BY <2>3, <2>6 DEF ObjectSeen, Owns, Owning
    <2> QED
      BY <1>1, <2>6, <2>7, <2>8, QuietStep
  <1> QED
    BY <1>2, <1>3

-----------------------------------------------------------------------------
(* The upload URL.                                                         *)

LEMMA UploadFacts ==
  ASSUME FilesInv, NEW h \in Handler, at[h] \in Uploading
  PROVE  /\ Control /\ DataType /\ job[h].op = "upload" /\ job[h].site \in Site
         /\ at[h] \in Locked /\ at[h] \notin Owning
         /\ at[h] # "ensure" => seen[h].bucket \in BucketName
         /\ ~(Present(job[h].site) /\ siteRow[job[h].site].deleted)
  <1>1. Control /\ DataType /\ JobFits(h) /\ StillThere(h)
    BY InvParts DEF Control, JobsFit
  <1>2. at[h] \in Locked \ {"load"} /\ at[h] \notin Owning
    BY DEF Locked, Uploading, Owning
  <1> QED
    BY <1>1, <1>2 DEF JobFits, StillThere, Uploading

\* An upload goes on as an upload, or ends.
LEMMA UploadMoves ==
  ASSUME FilesInv, NEW h \in Handler, at[h] \in Uploading,
         NEW l \in Uploading \ {"ensure"}, GoTo(h, l) \/ Done(h), at[h] # "ensure"
  PROVE  /\ Control' /\ Apart(h) /\ at'[h] \in {l, "idle", "find"}
         /\ ObjectSeen(h)'
         /\ at'[h] = l => job'[h] = job[h]
         /\ \A s \in Site : ~Owns(h, s)'
         /\ file' = file /\ siteRow' = siteRow => StillThere(h)'
  <1>1. CASE Done(h)
    <2>1. Control' /\ Apart(h) /\ at'[h] \in {"idle", "find"}
      BY <1>1, LeaveControl, UploadFacts
    <2>2. l \notin {"idle", "find"}
      BY DEF Uploading
    <2> QED
      BY <2>1, <2>2, LeftIsFree
  <1>2. CASE ~Done(h)
    <2>1. l \in Steps /\ l \in Locked /\ l \notin Creating /\ l \notin Changing \cup {"find"}
      BY DEF Steps, Locked, Uploading, Creating, Changing
    <2>2. Control' /\ Apart(h) /\ at'[h] = l /\ job' = job
      BY <1>2, <2>1, UploadFacts, GoToControl DEF Uploading
    <2>3. ObjectSeen(h)' /\ \A s \in Site : ~Owns(h, s)'
      BY <2>2 DEF ObjectSeen, Owns, Owning, Uploading
    <2>4. file' = file /\ siteRow' = siteRow => StillThere(h)'
      BY <2>1, <2>2, UploadFacts DEF StillThere, OwnFile, Now, Present, Uploading
    <2> QED
      BY <2>2, <2>3, <2>4
  <1> QED
    BY <1>1, <1>2

LEMMA EnsureStep ==
  ASSUME FilesInv, NEW h \in Handler, Ensure(h)
  PROVE  FilesInv'
  <1> DEFINE s == job[h].site
             x == IF siteRow[s].bucket # None THEN [bucket |-> siteRow[s].bucket, named |-> TRUE]
                                              ELSE [bucket |-> BucketOf[s], named |-> FALSE]
  <1>1. UNCHANGED <<rows, store, ghosts>> /\ Succeeds /\ at[h] = "ensure" /\ at[h] \in Uploading
    BY DEF Ensure, Uploading
  <1>2. CASE Done(h)
    BY <1>1, <1>2, QuietLeave
  <1>3. CASE ~Done(h)
    <2>1. /\ ActiveSite(s) /\ at' = [at EXCEPT ![h] = "exists"]
          /\ seen' = [seen EXCEPT ![h] = x] /\ UNCHANGED <<holder, job>>
      BY <1>3 DEF Ensure
    <2>2. Control /\ DataType /\ job[h].op = "upload" /\ s \in Site
      BY <1>1, UploadFacts
    <2>3. siteRow[s] \in SiteRecord /\ BucketOf[s] \in BucketName
      BY <2>1, <2>2, FilesAssumption DEF ActiveSite, Present, DataType
    <2>4. x \in Seen /\ x.bucket \in BucketName
      BY <2>3 DEF SiteRecord, Seen
    <2> HIDE DEF x
    <2>5. seen'[h] = x
      BY <2>1, <2>2 DEF Control, ControlType
    <2>6. Control' /\ Apart(h) /\ at'[h] = "exists" /\ job' = job
      BY <1>1, <2>1, <2>2, <2>4, <2>5, MoveControl
         DEF Steps, Locked, Uploading, Creating, Changing
    <2> QED
      BY <1>1, <2>6, QuietMove DEF Steps, Owning, Uploading, Changing
  <1> QED
    BY <1>2, <1>3

LEMMA ExistsStep ==
  ASSUME FilesInv, NEW h \in Handler, Exists(h)
  PROVE  FilesInv'
  <1>1. PICK l \in {"insert", "name", "make"} : GoTo(h, l)
    BY DEF Exists, Naming
  <1>2. UNCHANGED <<rows, store, ghosts>> /\ Succeeds /\ at[h] = "exists" /\ at[h] \in Uploading
    BY DEF Exists, Uploading
  <1>3. file' = file /\ siteRow' = siteRow /\ l \in Uploading \ {"ensure"}
    BY <1>2 DEF rows, Uploading
  <1> QED
    BY <1>1, <1>2, <1>3, UploadMoves, QuietStep

LEMMA MakeStep ==
  ASSUME FilesInv, NEW h \in Handler, Make(h) \/ Publish(h)
  PROVE  FilesInv'
  <1> DEFINE b == seen[h].bucket
  <1>1. /\ at[h] \in Uploading /\ at[h] # "ensure" /\ (Succeeds \/ Fails)
        /\ UNCHANGED <<rows, object, url, minted, answered, dropped, late>>
        /\ file' = file /\ siteRow' = siteRow
    BY DEF Make, Publish, Uploading, rows, ghosts
  <1>2. PICK l \in Uploading \ {"ensure"} : GoTo(h, l) \/ Done(h)
    BY DEF Make, Publish, Naming, Uploading
  <1>3. b \in BucketName /\ bucket \in [BucketName -> {"absent", "bare", "public"}]
    BY <1>1, UploadFacts DEF DataType
  <1>4. /\ bucket' \in [BucketName -> {"absent", "bare", "public"}]
        /\ \A c \in BucketName : bucket[c] = "public" => bucket'[c] = "public"
    BY <1>3, BucketChanges DEF Make, Publish
  <1> QED
    BY <1>1, <1>2, <1>4, UploadMoves, BucketStep

LEMMA NameStep ==
  ASSUME FilesInv, NEW h \in Handler, NameBucket(h)
  PROVE  FilesInv'
  <1> DEFINE new == [bucket |-> seen[h].bucket, deleted |-> FALSE]
  <1>1. at[h] \in Uploading /\ at[h] = "name"
    BY DEF NameBucket, Uploading
  <1>2. Control /\ DataType /\ job[h].site \in Site /\ seen[h].bucket \in BucketName
    BY <1>1, UploadFacts
  <1>3. PICK s \in Site : s = job[h].site
    BY <1>2
  <1>4. /\ file' = file /\ bucket' = bucket /\ object' = object /\ url' = url
        /\ minted' = minted /\ answered' = answered /\ dropped' = dropped /\ late' = late
        /\ (Succeeds \/ Fails) /\ GoTo(h, "insert")
        /\ siteRow' = siteRow \/ (ActiveSite(s) /\ siteRow' = [siteRow EXCEPT ![s] = new])
    BY <1>3 DEF NameBucket, store, ghosts
  <1>5. new \in SiteRecord /\ new.deleted = FALSE
    BY <1>3, <1>2 DEF SiteRecord
  <1> HIDE DEF new
  <1>6. new # None
    BY <1>5, FilesAssumption
  <1>7. /\ siteRow' \in [Site -> SiteRecord \cup {None}]
        /\ \A t \in Site : /\ Present(t)' <=> Present(t)
                           /\ Present(t) => siteRow'[t].deleted = siteRow[t].deleted
    <2>1. CASE siteRow' = siteRow
      BY <1>2, <2>1 DEF Present, DataType
    <2>2. CASE ActiveSite(s) /\ siteRow' = [siteRow EXCEPT ![s] = new]
      <3>1. siteRow[s] \in SiteRecord /\ ~siteRow[s].deleted
        BY <1>2, <2>2 DEF ActiveSite, Present, DataType
      <3>2. siteRow[s].deleted = FALSE
        BY <3>1 DEF SiteRecord
      <3>3. siteRow'[s] = new /\ \A t \in Site \ {s} : siteRow'[t] = siteRow[t]
        BY <1>2, <2>2 DEF DataType
      <3>4. siteRow' \in [Site -> SiteRecord \cup {None}]
        BY <1>2, <1>5, <2>2 DEF DataType
      <3>5. Present(s) /\ Present(s)' /\ siteRow'[s].deleted = siteRow[s].deleted
        BY <1>5, <1>6, <2>2, <3>2, <3>3 DEF Present, ActiveSite
      <3>6. \A t \in Site \ {s} : /\ Present(t)' <=> Present(t)
                                  /\ siteRow'[t].deleted = siteRow[t].deleted
        BY <3>3 DEF Present
      <3> QED
        BY <3>4, <3>5, <3>6
    <2> QED
      BY <1>4, <2>1, <2>2
  <1>8. /\ Control' /\ Apart(h) /\ at'[h] \in {"insert", "idle", "find"} /\ ObjectSeen(h)'
        /\ at'[h] = "insert" => job'[h] = job[h]
        /\ \A t \in Site : ~Owns(h, t)'
    BY <1>1, <1>4, UploadMoves DEF Uploading
  <1>9. DataType'
    BY <1>2, <1>4, <1>7, FaultsType DEF DataType
  <1>10. Creations'
    <2>1. \A g \in Handler, t \in Site : Owns(g, t)' => Owns(g, t)
      BY <1>8 DEF Apart, Owns
    <2> QED
      BY <1>4, <1>7, <2>1, InvParts DEF Creations
  <1>11. ProvisionedKeepsBucket'
    <2>1. \A t \in Site : Alone(t)' <=> Alone(t)
      BY DEF Alone
    <2> QED
      BY <1>2, <1>4, <1>7, <2>1, InvParts DEF ProvisionedKeepsBucket, DataType
  <1>12. \A g \in Handler : StillThere(g)'
    <2>1. ASSUME NEW g \in Handler
          PROVE  /\ StillThere(g)
                 /\ at[g] \in Locked \ {"load"} =>
                      ~(siteRow'[job[g].site] # None /\ siteRow'[job[g].site].deleted)
      <3>1. StillThere(g) /\ (at[g] \in Locked => job[g].site \in Site)
        BY <1>2, InvParts DEF Control, JobsFit, JobFits
      <3> QED
        BY <1>7, <3>1 DEF StillThere, Present
    <2>2. StillThere(h)'
      <3>1. CASE at'[h] = "insert"
        BY <1>1, <1>4, <1>8, <2>1, <3>1
           DEF StillThere, OwnFile, Now, Changing, Present, Locked, Uploading
      <3> QED
        BY <1>8, <3>1, LeftIsFree
    <2>3. ASSUME NEW g \in Handler, g # h
          PROVE  StillThere(g)'
      <3>1. at'[g] = at[g] /\ job'[g] = job[g]
        BY <1>8, <2>3 DEF Apart
      <3> QED
        BY <1>4, <2>1, <3>1 DEF StillThere, OwnFile, Now, Present
    <2> QED
      BY <2>2, <2>3
  <1>13. \A g \in Handler : ObjectSeen(g)'
    BY <1>4, <1>8, InvParts, SameObjects
  <1>14. \A f \in FileId : FileLife(f)'
    BY <1>4, InvParts, SameLives
  <1> QED
    BY <1>8, <1>9, <1>10, <1>11, <1>12, <1>13, <1>14, Together

-----------------------------------------------------------------------------
(* Writes of the rows of files.                                            *)

\* Sites and buckets are not touched: what is left to show is about files.
LEMMA FileStepInv ==
  ASSUME FilesInv, NEW h \in Handler, Succeeds \/ Fails,
         Control', Apart(h), \A s \in Site : ~Owns(h, s)',
         siteRow' = siteRow, bucket' = bucket, answered' = answered,
         file' \in [FileId -> FileRecord \cup {None}],
         object' \in [FileId -> ObjectRecord \cup {None}],
         url' \in [FileId -> BucketName \cup {None}],
         minted' \subseteq FileId, dropped' \subseteq FileId, late' \subseteq FileId,
         \A g \in Handler : StillThere(g)', \A g \in Handler : ObjectSeen(g)',
         \A f \in FileId : FileLife(f)'
  PROVE  FilesInv'
  <1>1. DataType'
    BY InvParts, FaultsType DEF DataType
  <1>2. Creations' /\ ProvisionedKeepsBucket'
    BY InvParts, SameCreations
  <1> QED
    BY <1>1, <1>2, Together

LEMMA InsertStep ==
  ASSUME FilesInv, NEW h \in Handler, NEW f \in FileId, Insert(h, f)
  PROVE  FilesInv'
  <1> DEFINE new == [site |-> job[h].site, bucket |-> seen[h].bucket, uploaded |-> FALSE,
                     renamed |-> FALSE]
  <1>1. at[h] \in Uploading /\ at[h] = "insert" /\ f \notin minted
    BY DEF Insert, Uploading
  <1>2. Control /\ DataType /\ job[h].site \in Site /\ seen[h].bucket \in BucketName
    BY <1>1, UploadFacts
  <1>3. /\ siteRow' = siteRow /\ bucket' = bucket /\ answered' = answered
        /\ object' = object /\ dropped' = dropped /\ late' = late
        /\ minted' = minted \cup {f} /\ file' = [file EXCEPT ![f] = new]
        /\ url' = url \/ url' = [url EXCEPT ![f] = seen[h].bucket]
        /\ Done(h) /\ (Succeeds \/ Fails)
    BY DEF Insert
  <1>4. new \in FileRecord /\ new.uploaded = FALSE /\ new.site = job[h].site
    BY <1>2 DEF FileRecord
  <1> HIDE DEF new
  <1>5. new # None
    BY <1>4, FilesAssumption
  <1>6. /\ file'[f] = new /\ \A e \in FileId \ {f} : file'[e] = file[e]
        /\ file' \in [FileId -> FileRecord \cup {None}]
    BY <1>2, <1>3, <1>4 DEF DataType
  <1>7. /\ url' \in [FileId -> BucketName \cup {None}]
        /\ \A e \in FileId \ {f} : url'[e] = url[e]
    BY <1>2, <1>3 DEF DataType
  <1>8. Control' /\ Apart(h) /\ at'[h] \in {"idle", "find"}
    BY <1>2, <1>3, LeaveControl
  <1>9. \A g \in Handler : StillThere(g)'
    <2>1. ASSUME NEW g \in Handler, g # h
          PROVE  StillThere(g)'
      <3>1. StillThere(g) /\ at'[g] = at[g] /\ job'[g] = job[g] /\ JobFits(g)
        BY <1>2, <1>8, <2>1, InvParts DEF Apart, Control, JobsFit
      <3>2. at[g] \in {"lock", "load"} /\ job[g].op # "upload" =>
              Now(g) \in FileId /\ Now(g) # f
        BY <1>1, <1>2, <3>1, NowIsFile DEF StillThere, Control, JobFits, FileOps
      <3>3. at[g] \in Changing => Now(g) \in FileId /\ Now(g) # f
        BY <1>1, <1>2, <3>1, NowIsFile, InvParts DEF StillThere, Control, JobFits, FileLife
      <3>4. Now(g)' = Now(g) /\ Present(job[g].site)' = Present(job[g].site)
        BY <1>3, <3>1 DEF Now, Present
      <3> QED
        BY <1>3, <1>6, <3>1, <3>2, <3>3, <3>4 DEF StillThere, OwnFile
    <2> QED
      BY <1>8, <2>1, LeftIsFree
  <1>10. \A g \in Handler : ObjectSeen(g)'
    BY <1>3, <1>8, InvParts, LeftIsFree, SameObjects
  <1>11. \A e \in FileId : FileLife(e)'
    <2>1. FileLife(f)'
      BY <1>1, <1>3, <1>4, <1>5, <1>6, InvParts DEF FileLife
    <2>2. ASSUME NEW e \in FileId, e # f
          PROVE  FileLife(e)'
      BY <1>3, <1>6, <1>7, <2>2, InvParts DEF FileLife
    <2> QED
      BY <2>1, <2>2
  <1>12. minted' \subseteq FileId /\ dropped' \subseteq FileId /\ late' \subseteq FileId
         /\ object' \in [FileId -> ObjectRecord \cup {None}]
    BY <1>2, <1>3 DEF DataType
  <1> QED
    BY <1>3, <1>6, <1>7, <1>8, <1>9, <1>10, <1>11, <1>12, LeftIsFree, FileStepInv

LEMMA ChangeFacts ==
  ASSUME FilesInv, NEW h \in Handler, at[h] \in Changing
  PROVE  /\ Control /\ DataType /\ job[h].op \in FileOps /\ job[h].site \in Site
         /\ at[h] \in Locked /\ at[h] \notin Owning /\ holder[job[h].site] = h
         /\ Now(h) \in FileId /\ file[Now(h)] \in FileRecord /\ file[Now(h)] # None
         /\ Now(h) \in minted
         /\ file[Now(h)].site = job[h].site
         /\ ~(Present(job[h].site) /\ siteRow[job[h].site].deleted)
  <1>1. Control /\ DataType /\ JobFits(h) /\ StillThere(h)
    BY InvParts DEF Control, JobsFit
  <1>2. at[h] \in Locked \ {"load"} /\ at[h] \notin Owning
    BY DEF Locked, Changing, Owning
  <1>3. job[h].op \in FileOps /\ job[h].site \in Site /\ Now(h) \in FileId
    BY <1>1, <1>2, NowIsFile DEF JobFits, Control
  <1>4. holder[job[h].site] = h
    BY <1>1, <1>2, <1>3 DEF Control, SiteLocks
  <1> QED
    BY <1>1, <1>2, <1>3, <1>4, InvParts DEF StillThere, OwnFile, DataType, FileLife

\* Who works on a file under the lock of its site is alone with it.
LEMMA AloneWithFile ==
  ASSUME FilesInv, NEW h \in Handler, at[h] \in Changing,
         NEW g \in Handler, at[g] \in Changing, g # h
  PROVE  Now(g) # Now(h)
  BY ChangeFacts

LEMMA HeadStep ==
  ASSUME FilesInv, NEW h \in Handler, HeadObject(h)
  PROVE  FilesInv'
  <1>1. UNCHANGED <<rows, store, ghosts>> /\ Succeeds /\ at[h] = "head" /\ at[h] \in Changing
    BY DEF HeadObject, Changing
  <1>2. CASE Done(h)
    BY <1>1, <1>2, QuietLeave
  <1>3. CASE ~Done(h)
    <2>1. GoTo(h, "mark") /\ Complete(Now(h))
      BY <1>3 DEF HeadObject
    <2>2. Control' /\ Apart(h) /\ at'[h] = "mark" /\ job' = job
      BY <1>1, <2>1, ChangeFacts, GoToControl DEF Steps, Creating, Uploading, Changing, Locked
    <2>3. file' = file /\ siteRow' = siteRow /\ object' = object /\ dropped' = dropped
      BY <1>1 DEF rows, store, ghosts
    <2>4. StillThere(h)'
      BY <1>1, <2>2, <2>3, ChangeFacts DEF StillThere, OwnFile, Now, Present
    <2>5. ObjectSeen(h)'
      BY <2>1, <2>2, <2>3 DEF ObjectSeen, Complete, Now
    <2>6. \A s \in Site : ~Owns(h, s)'
      BY <2>2 DEF Owns, Owning
    <2> QED
      BY <1>1, <2>2, <2>4, <2>5, <2>6, QuietStep
  <1> QED
    BY <1>2, <1>3

LEMMA RowChanges ==
  ASSUME NEW row \in FileRecord
  PROVE  /\ [row EXCEPT !.uploaded = TRUE] \in FileRecord
         /\ [row EXCEPT !.uploaded = TRUE].site = row.site
         /\ [row EXCEPT !.renamed = TRUE] \in FileRecord
         /\ [row EXCEPT !.renamed = TRUE].site = row.site
         /\ [row EXCEPT !.renamed = TRUE].uploaded = row.uploaded
  BY DEF FileRecord

LEMMA RowStep ==
  ASSUME FilesInv, NEW h \in Handler, Mark(h) \/ Rename(h)
  PROVE  FilesInv'
  <1>1. /\ at[h] \in Changing /\ at[h] \in {"mark", "write"}
        /\ at[h] = "mark" => Mark(h)
        /\ at[h] = "write" => Rename(h)
    BY DEF Mark, Rename, Changing
  <1>2. PICK f \in FileId :
          /\ f = Now(h) /\ Control /\ DataType /\ f \in minted
          /\ file[f] \in FileRecord /\ file[f] # None
    BY <1>1, ChangeFacts
  <1>3. PICK new \in FileRecord :
          /\ WriteRow(h, new) /\ new.site = file[f].site
          /\ at[h] = "write" => new.uploaded = file[f].uploaded
    BY <1>1, <1>2, RowChanges DEF Mark, Rename
  <1>4. new # None
    BY FilesAssumption
  <1>5. /\ siteRow' = siteRow /\ bucket' = bucket /\ answered' = answered
        /\ object' = object /\ url' = url /\ minted' = minted
        /\ dropped' = dropped /\ late' = late
        /\ file' \in {file, [file EXCEPT ![f] = new]} /\ Done(h) /\ (Succeeds \/ Fails)
    BY <1>2, <1>3 DEF WriteRow, store, ghosts
  <1>6. /\ file' \in [FileId -> FileRecord \cup {None}]
        /\ \A e \in FileId \ {f} : file'[e] = file[e]
        /\ file'[f] \in {file[f], new}
    BY <1>2, <1>5 DEF DataType
  <1>7. Control' /\ Apart(h) /\ at'[h] \in {"idle", "find"}
    BY <1>2, <1>5, LeaveControl
  <1>8. \A e \in FileId : (file'[e] = None <=> file[e] = None)
                          /\ (file[e] # None => file'[e].site = file[e].site)
    BY <1>2, <1>3, <1>4, <1>6
  <1>9. \A g \in Handler : StillThere(g)'
    <2>1. ASSUME NEW g \in Handler, g # h
          PROVE  StillThere(g)'
      <3>1. StillThere(g) /\ at'[g] = at[g] /\ job'[g] = job[g] /\ JobFits(g)
        BY <1>2, <1>7, <2>1, InvParts DEF Apart, Control, JobsFit
      <3>2. (at[g] \in {"lock", "load"} /\ job[g].op # "upload") \/ at[g] \in Changing =>
              Now(g) \in FileId
        BY <1>2, <3>1, NowIsFile DEF Control, JobFits
      <3>3. Now(g)' = Now(g) /\ Present(job[g].site)' = Present(job[g].site)
        BY <1>5, <3>1 DEF Now, Present
      <3> QED
        BY <1>5, <1>8, <3>1, <3>2, <3>3 DEF StillThere, OwnFile
    <2> QED
      BY <1>7, <2>1, LeftIsFree
  <1>10. \A g \in Handler : ObjectSeen(g)'
    BY <1>5, <1>7, InvParts, LeftIsFree, SameObjects
  <1>11. \A e \in FileId : FileLife(e)'
    <2>1. FileLife(f)'
      <3>1. FileLife(f) /\ ObjectSeen(h)
        BY <1>2, InvParts
      <3> QED
        BY <1>1, <1>2, <1>3, <1>5, <1>6, <1>8, <3>1 DEF FileLife, ObjectSeen
    <2>2. ASSUME NEW e \in FileId, e # f
          PROVE  FileLife(e)'
      BY <1>5, <1>6, <2>2, InvParts DEF FileLife
    <2> QED
      BY <2>1, <2>2
  <1>12. /\ minted' \subseteq FileId /\ dropped' \subseteq FileId /\ late' \subseteq FileId
         /\ object' \in [FileId -> ObjectRecord \cup {None}]
         /\ url' \in [FileId -> BucketName \cup {None}]
    BY <1>2, <1>5 DEF DataType
  <1> QED
    BY <1>5, <1>6, <1>7, <1>9, <1>10, <1>11, <1>12, LeftIsFree, FileStepInv

LEMMA DropObjectStep ==
  ASSUME FilesInv, NEW h \in Handler, DropObject(h)
  PROVE  FilesInv'
  <1>1. at[h] \in Changing /\ at[h] = "dropObject"
    BY DEF DropObject, Changing
  <1>2. PICK f \in FileId :
          /\ f = Now(h) /\ Control /\ DataType /\ job[h].op \in FileOps
          /\ job[h].site \in Site /\ file[f] # None
    BY <1>1, ChangeFacts
  <1>3. /\ siteRow' = siteRow /\ file' = file /\ bucket' = bucket /\ url' = url
        /\ minted' = minted /\ answered' = answered /\ late' = late
        /\ dropped' = dropped \cup {f} /\ object' \in {object, Erased(f)}
        /\ (Succeeds \/ Fails)
    BY <1>2 DEF DropObject, rows
  <1>4. NextItem(h) \/ (GoTo(h, "dropFile") /\ object' = Erased(f))
    BY <1>2, DeletionSteps DEF DropObject, AfterDelete
  <1>5. /\ object' \in [FileId -> ObjectRecord \cup {None}]
        /\ \A e \in FileId \ {f} : object'[e] = object[e]
        /\ object'[f] \in {object[f], None}
        /\ object' = Erased(f) => object'[f] = None
    BY <1>2, <1>3 DEF Erased, DataType
  <1>6. /\ Control' /\ Apart(h) /\ at'[h] \in {"idle", "find", "dropFile"}
        /\ at'[h] = "dropFile" => job' = job /\ object'[f] = None
    <2>1. CASE NextItem(h)
      BY <1>2, <2>1, NothingNext, LeaveControl
    <2>2. CASE GoTo(h, "dropFile") /\ object' = Erased(f)
      BY <1>1, <1>2, <1>5, <2>2, GoToControl DEF Steps, Creating, Uploading, Changing, Locked
    <2> QED
      BY <1>4, <2>1, <2>2
  <1>7. \A g \in Handler : StillThere(g)'
    <2>1. StillThere(h)'
      <3>1. CASE at'[h] \in {"idle", "find"}
        BY <3>1, LeftIsFree
      <3>2. CASE at'[h] = "dropFile"
        BY <1>1, <1>3, <1>6, <3>2, ChangeFacts DEF StillThere, OwnFile, Now, Present
      <3> QED
        BY <1>6, <3>1, <3>2
    <2> QED
      BY <1>3, <1>6, <2>1, InvParts, SameRowsThere
  <1>8. \A g \in Handler : ObjectSeen(g)'
    <2>1. ObjectSeen(h)'
      BY <1>2, <1>3, <1>6 DEF ObjectSeen, Now
    <2>2. ASSUME NEW g \in Handler, g # h
          PROVE  ObjectSeen(g)'
      <3>1. ObjectSeen(g) /\ at'[g] = at[g] /\ job'[g] = job[g]
            /\ (at[g] \in {"mark", "dropFile"} => Now(g) \in FileId)
        BY <1>6, <2>2, InvParts, ChangeFacts DEF Apart, Changing
      <3> QED
        BY <1>3, <1>5, <3>1 DEF ObjectSeen, Now
    <2> QED
      BY <2>1, <2>2
  <1>9. \A e \in FileId : FileLife(e)'
    <2>1. FileLife(f)'
      BY <1>2, <1>3, <1>5, InvParts DEF FileLife
    <2>2. ASSUME NEW e \in FileId, e # f
          PROVE  FileLife(e)'
      BY <1>3, <1>5, <2>2, InvParts DEF FileLife
    <2> QED
      BY <2>1, <2>2
  <1>10. \A s \in Site : ~Owns(h, s)'
    BY <1>6 DEF Owns, Owning
  <1>11. /\ minted' \subseteq FileId /\ dropped' \subseteq FileId /\ late' \subseteq FileId
         /\ file' \in [FileId -> FileRecord \cup {None}]
         /\ url' \in [FileId -> BucketName \cup {None}]
    BY <1>2, <1>3 DEF DataType
  <1> QED
    BY <1>3, <1>5, <1>6, <1>7, <1>8, <1>9, <1>10, <1>11, FileStepInv

LEMMA DropFileStep ==
  ASSUME FilesInv, NEW h \in Handler, DropFile(h)
  PROVE  FilesInv'
  <1>1. at[h] \in Changing /\ at[h] = "dropFile"
    BY DEF DropFile, Changing
  <1>2. PICK f \in FileId : f = Now(h) /\ Control /\ DataType /\ f \in minted
    BY <1>1, ChangeFacts
  <1>3. /\ siteRow' = siteRow /\ bucket' = bucket /\ object' = object /\ url' = url
        /\ minted' = minted /\ answered' = answered /\ dropped' = dropped /\ late' = late
        /\ file' \in {file, [file EXCEPT ![f] = None]}
        /\ (Succeeds \/ Fails)
    BY <1>2 DEF DropFile, store, ghosts
  <1>4. NextItem(h)
    BY DeletionSteps DEF DropFile, AfterDelete
  <1>5. /\ file' \in [FileId -> FileRecord \cup {None}]
        /\ \A e \in FileId \ {f} : file'[e] = file[e]
        /\ file'[f] \in {file[f], None}
    BY <1>2, <1>3 DEF DataType
  <1>6. Control' /\ Apart(h) /\ at'[h] \in {"idle", "find"}
    BY <1>2, <1>4, NothingNext, LeaveControl
  <1>7. \A g \in Handler : StillThere(g)'
    <2>1. ASSUME NEW g \in Handler, g # h
          PROVE  StillThere(g)'
      <3>1. StillThere(g) /\ at'[g] = at[g] /\ job'[g] = job[g] /\ JobFits(g)
        BY <1>2, <1>6, <2>1, InvParts DEF Apart, Control, JobsFit
      <3>2. (at[g] \in {"lock", "load"} /\ job[g].op # "upload") \/ at[g] \in Changing =>
              Now(g) \in FileId
        BY <1>2, <3>1, NowIsFile DEF Control, JobFits
      <3>3. at[g] \in Changing => Now(g) # f
        BY <1>1, <1>2, <2>1, AloneWithFile
      <3>4. Now(g)' = Now(g) /\ Present(job[g].site)' = Present(job[g].site)
        BY <1>3, <3>1 DEF Now, Present
      <3>5. at[g] \in {"lock", "load"} /\ job[g].op # "upload" => OwnFile(g)' /\ Now(g) \in minted
        BY <1>5, <3>1, <3>2, <3>4 DEF StillThere, OwnFile
      <3>6. at[g] \in Changing => file'[Now(g)] = file[Now(g)]
        BY <1>5, <3>2, <3>3
      <3> QED
        BY <1>3, <3>1, <3>4, <3>5, <3>6 DEF StillThere, OwnFile
    <2> QED
      BY <1>6, <2>1, LeftIsFree
  <1>8. \A g \in Handler : ObjectSeen(g)'
    BY <1>3, <1>6, InvParts, LeftIsFree, SameObjects
  <1>9. \A e \in FileId : FileLife(e)'
    <2>1. FileLife(f)'
      BY <1>1, <1>2, <1>3, <1>5, InvParts DEF FileLife, ObjectSeen
    <2>2. ASSUME NEW e \in FileId, e # f
          PROVE  FileLife(e)'
      BY <1>3, <1>5, <2>2, InvParts DEF FileLife
    <2> QED
      BY <2>1, <2>2
  <1>10. /\ minted' \subseteq FileId /\ dropped' \subseteq FileId /\ late' \subseteq FileId
         /\ object' \in [FileId -> ObjectRecord \cup {None}]
         /\ url' \in [FileId -> BucketName \cup {None}]
    BY <1>2, <1>3 DEF DataType
  <1> QED
    BY <1>3, <1>5, <1>6, <1>7, <1>8, <1>9, <1>10, LeftIsFree, FileStepInv

-----------------------------------------------------------------------------
(* Browsers and the deletion of a site.                                    *)

LEMMA PutStep ==
  ASSUME FilesInv, NEW f \in FileId, Put(f)
  PROVE  FilesInv'
  <1>1. PICK whole \in BOOLEAN :
          object' = [object EXCEPT ![f] = [bucket |-> url[f], whole |-> whole]]
    BY DEF Put
  <1>2. /\ url[f] # None /\ siteRow' = siteRow /\ file' = file /\ bucket' = bucket /\ url' = url
        /\ holder' = holder /\ job' = job /\ at' = at /\ seen' = seen /\ faults' = faults
        /\ minted' = minted /\ answered' = answered /\ dropped' = dropped
        /\ late' = IF f \in dropped THEN late \cup {f} ELSE late
    BY DEF Put, rows
  <1> DEFINE new == [bucket |-> url[f], whole |-> whole]
  <1>3. Control /\ DataType
    BY InvParts
  <1>4. new \in ObjectRecord
    BY <1>2, <1>3 DEF DataType, ObjectRecord
  <1>5. new # None
    BY <1>4, FilesAssumption
  <1> HIDE DEF new
  <1>6. /\ object' \in [FileId -> ObjectRecord \cup {None}] /\ object'[f] = new
        /\ \A e \in FileId \ {f} : object'[e] = object[e]
    BY <1>1, <1>3, <1>4 DEF DataType, new
  <1>7. DataType'
    BY <1>2, <1>3, <1>6 DEF DataType
  <1>8. Control'
    BY <1>2, <1>3 DEF Control, ControlType, JobsFit, JobFits, SiteLocks
  <1>9. Creations' /\ ProvisionedKeepsBucket'
    BY <1>2, InvParts DEF Creations, Owns, ProvisionedKeepsBucket, Present, Alone
  <1>10. \A g \in Handler : StillThere(g)'
    BY <1>2, InvParts DEF StillThere, OwnFile, Now, Present
  <1>11. \A g \in Handler : ObjectSeen(g)'
    <2>1. ASSUME NEW g \in Handler
          PROVE  ObjectSeen(g)'
      <3>1. ObjectSeen(g) /\ (at[g] \in {"mark", "dropFile"} => Now(g) \in FileId)
        BY InvParts, ChangeFacts DEF Changing
      <3> QED
        BY <1>2, <1>5, <1>6, <3>1 DEF ObjectSeen, Now
    <2> QED
      BY <2>1
  <1>12. \A e \in FileId : FileLife(e)'
    <2>1. FileLife(f)'
      BY <1>2, <1>5, <1>6, InvParts DEF FileLife
    <2>2. ASSUME NEW e \in FileId, e # f
          PROVE  FileLife(e)'
      BY <1>2, <1>6, <2>2, InvParts DEF FileLife
    <2> QED
      BY <2>1, <2>2
  <1> QED
    BY <1>7, <1>8, <1>9, <1>10, <1>11, <1>12, Together

LEMMA RetireStep ==
  ASSUME FilesInv, NEW s \in Site, Retire(s)
  PROVE  FilesInv'
  <1> DEFINE new == [bucket |-> siteRow[s].bucket, deleted |-> TRUE]
  <1>1. /\ holder[s] = None /\ ActiveSite(s) /\ siteRow' = [siteRow EXCEPT ![s] = new]
        /\ file' = file /\ bucket' = bucket /\ object' = object /\ url' = url
        /\ holder' = holder /\ job' = job /\ at' = at /\ seen' = seen /\ faults' = faults
        /\ minted' = minted /\ answered' = answered /\ dropped' = dropped /\ late' = late
    BY DEF Retire, store, ghosts
  <1>2. Control /\ DataType
    BY InvParts
  <1>3. siteRow[s] \in SiteRecord
    BY <1>1, <1>2 DEF ActiveSite, Present, DataType
  <1>4. new \in SiteRecord
    BY <1>3 DEF SiteRecord
  <1> HIDE DEF new
  <1>5. /\ siteRow' \in [Site -> SiteRecord \cup {None}] /\ siteRow'[s] = new
        /\ \A t \in Site \ {s} : siteRow'[t] = siteRow[t]
    BY <1>1, <1>2, <1>4 DEF DataType
  <1>6. \A t \in Site : Present(t)' <=> Present(t)
    BY <1>1, <1>4, <1>5, FilesAssumption DEF Present, ActiveSite
  <1>7. DataType'
    BY <1>1, <1>2, <1>5 DEF DataType
  <1>8. Control'
    BY <1>1, <1>2 DEF Control, ControlType, JobsFit, JobFits, SiteLocks
  <1>9. Creations' /\ ProvisionedKeepsBucket'
    <2>1. \A g \in Handler, t \in Site : Owns(g, t)' <=> Owns(g, t)
      BY <1>1 DEF Owns
    <2>2. \A t \in Site : Alone(t)' <=> Alone(t)
      BY DEF Alone
    <2>3. Creations'
      BY <1>1, <1>6, <2>1, InvParts DEF Creations
    <2>4. ProvisionedKeepsBucket'
      BY <1>1, <1>2, <1>6, <2>2, InvParts DEF ProvisionedKeepsBucket, DataType
    <2> QED
      BY <2>3, <2>4
  <1>10. ASSUME NEW g \in Handler
         PROVE  StillThere(g)'
    <2>1. /\ StillThere(g) /\ job'[g] = job[g]
          /\ at[g] \in Locked => job[g].site \in Site /\ job[g].site # s
      BY <1>1, <1>2, FilesAssumption, InvParts DEF Control, JobsFit, JobFits, SiteLocks
    <2>2. at[g] \in Locked \ {"load"} =>
            ~(Present(job[g].site)' /\ siteRow'[job[g].site].deleted)
      BY <1>5, <1>6, <2>1 DEF StillThere
    <2> QED
      BY <1>1, <2>1, <2>2 DEF StillThere, OwnFile, Now
  <1>11. \A g \in Handler : ObjectSeen(g)'
    BY <1>1, InvParts DEF ObjectSeen, Now
  <1>12. \A e \in FileId : FileLife(e)'
    BY <1>1, InvParts, SameLives
  <1> QED
    BY <1>7, <1>8, <1>9, <1>10, <1>11, <1>12, Together

-----------------------------------------------------------------------------
(* Every step preserves the invariant.                                     *)

LEMMA StepInv ==
  ASSUME FilesInv, [FilesNext]_fileVars
  PROVE  FilesInv'
  <1>1. ASSUME NEW h \in Handler, NEW r \in FileWork,
               AskSite(h, r) \/ AskUpload(h, r) \/ AskFile(h, r)
        PROVE  FilesInv'
    BY <1>1, AcceptStep
  <1>2. ASSUME NEW h \in Handler, Provision(h)
        PROVE  FilesInv'
    BY <1>2, CheckStep, ReserveStep, MakeBucketStep, ConfigureStep, DropBucketStep, DropRowStep
       DEF Provision
  <1>3. ASSUME NEW h \in Handler, Upload(h)
        PROVE  FilesInv'
    BY <1>3, EnsureStep, ExistsStep, MakeStep, NameStep, InsertStep DEF Upload
  <1>4. ASSUME NEW h \in Handler, FileStep(h)
        PROVE  FilesInv'
    BY <1>4, FindStep, LockStep, LoadStep, HeadStep, RowStep, DropObjectStep, DropFileStep
       DEF FileStep
  <1>5. CASE UNCHANGED fileVars
    <2>1. /\ siteRow' = siteRow /\ bucket' = bucket /\ file' = file /\ object' = object
          /\ url' = url /\ minted' = minted /\ holder' = holder /\ job' = job /\ at' = at
          /\ seen' = seen /\ faults' = faults /\ answered' = answered /\ dropped' = dropped
          /\ late' = late
      BY <1>5 DEF fileVars
    <2>2. /\ DataType' /\ ControlType' /\ JobsFit' /\ SiteLocks'
          /\ Creations' /\ ProvisionedKeepsBucket'
      BY <2>1 DEF FilesInv, DataType, ControlType, JobsFit, JobFits, SiteLocks, Creations, Owns,
                  Present, ProvisionedKeepsBucket, Alone
    <2>3. \A g \in Handler : StillThere(g)' /\ ObjectSeen(g)'
      BY <2>1 DEF FilesInv, StillThere, OwnFile, ObjectSeen, Now, Present
    <2>4. \A f \in FileId : FileLife(f)'
      BY <2>1 DEF FilesInv, FileLife
    <2> QED
      BY <2>2, <2>3, <2>4 DEF FilesInv
  <1> QED
    BY <1>1, <1>2, <1>3, <1>4, <1>5, QuitStep, PutStep, RetireStep DEF FilesNext

LEMMA InitInv ==
  ASSUME FilesInit
  PROVE  FilesInv
  <1>1. DataType
    <2> DEFINE old == [bucket |-> None, deleted |-> FALSE]
    <2>1. old \in SiteRecord /\ siteRow \in [Site -> {None, old}]
      BY DEF FilesInit, SiteRecord
    <2> HIDE DEF old
    <2> QED
      BY <2>1, FilesAssumption DEF FilesInit, DataType
  <1>2. ControlType
    <2>1. Idle \in Job /\ [bucket |-> None, named |-> FALSE] \in Seen
      BY DEF Idle, Job, Seen
    <2> QED
      BY <2>1 DEF FilesInit, ControlType, Steps
  <1>3. \A h \in Handler : at[h] = "idle" /\ job[h] = Idle
    BY DEF FilesInit
  <1>4. JobsFit
    BY <1>3 DEF JobsFit, JobFits, Idle, Creating, Locked, Uploading, Changing, FileOps
  <1>5. SiteLocks
    BY <1>3, FilesAssumption DEF FilesInit, SiteLocks, Locked, Uploading, Changing
  <1>6. Creations /\ ProvisionedKeepsBucket
    BY <1>3 DEF FilesInit, Creations, Owns, Owning, ProvisionedKeepsBucket
  <1>7. \A h \in Handler : StillThere(h) /\ ObjectSeen(h)
    BY <1>3 DEF StillThere, ObjectSeen, Locked, Uploading, Changing
  <1>8. \A f \in FileId : FileLife(f)
    BY DEF FilesInit, FileLife
  <1> QED
    BY <1>1, <1>2, <1>4, <1>5, <1>6, <1>7, <1>8, InvParts DEF Control

\* The invariant of the storage of sites.  Of any number of requests, each of
\* whose calls may fail or take effect unanswered, no two hold the lock of one
\* site or are past the reservation of one site; a request that changes a file
\* finds the row it loaded, and its site not deleted; and every file handed
\* out has its row, or somebody asked for its deletion.
THEOREM FilesInvariance == FilesSpec => []FilesInv
  <1>1. FilesInit => FilesInv
    BY InitInv
  <1>2. FilesInv /\ [FilesNext]_fileVars => FilesInv'
    BY StepInv
  <1> QED
    BY <1>1, <1>2, PTL DEF FilesSpec

\* create_site_record: a creation that was answered with success keeps its row
\* whatever other creations, rollbacks and uploads go on, and its public bucket
\* when no other id is normalized to the name of it.
THEOREM ProvisionedKeep == FilesSpec => []ProvisionedKeepsBucket
  <1>1. FilesInv => ProvisionedKeepsBucket
    BY DEF FilesInv
  <1> QED
    BY <1>1, FilesInvariance, PTL

\* confirm_upload: a row says "uploaded" only of an object in the store, until
\* somebody asks for its deletion.
THEOREM UploadedStored == FilesSpec => []UploadedIsStored
  <1>1. FilesInv => UploadedIsStored
    BY DEF FilesInv, FileLife, UploadedIsStored
  <1> QED
    BY <1>1, FilesInvariance, PTL

-----------------------------------------------------------------------------
(* Buckets that no row stands for.                                         *)

\* A site stands for a bucket if it has a row that no handler is about to give
\* back without deleting the bucket.
Tied == {"makeBucket", "dropRow"}

StandsFor(s, b) ==
  /\ Present(s) /\ BucketOf[s] = b
  /\ \A h \in Handler : at[h] \in Tied => job[h].site # s

StraysInv ==
  /\ stray \subseteq BucketName
  /\ \A b \in BucketName : InStore(b) /\ b \notin stray => \E s \in Site : StandsFor(s, b)

\* A step of h leaves the others where they are, and h somewhere.
Elsewhere(h) == \A g \in Handler \ {h} : at'[g] = at[g] /\ job'[g] = job[g]

LEMMA GoesElsewhere ==
  ASSUME ControlType, NEW h \in Handler, NEW l, GoTo(h, l)
  PROVE  Elsewhere(h) /\ at'[h] = l /\ job'[h] = job[h]
  BY DEF ControlType, GoTo, Elsewhere

LEMMA LeavesElsewhere ==
  ASSUME ControlType, NEW h \in Handler, Done(h) \/ NextItem(h)
  PROVE  Elsewhere(h) /\ at'[h] \notin Tied
  BY DEF ControlType, Done, NextItem, Elsewhere, Tied

LEMMA StoreChanges ==
  ASSUME bucket \in [BucketName -> {"absent", "bare", "public"}], NEW b \in BucketName
  PROVE  /\ \A c \in BucketName \ {b} : Made(b)[c] = bucket[c]
         /\ \A c \in BucketName :
              /\ Published(b)[c] # "absent" => bucket[c] # "absent"
              /\ Unmade(b)[c] # "absent" => bucket[c] # "absent"
         /\ Empty(b) => Unmade(b)[b] = "absent"
  BY DEF Made, Published, Unmade

\* What a step must keep.
LEMMA StraysKept ==
  ASSUME StraysInv, NEW h \in Handler, Elsewhere(h), stray' \subseteq BucketName,
         \A b \in BucketName : InStore(b)' /\ b \notin stray' => InStore(b) /\ b \notin stray,
         \A b \in BucketName, s \in Site : InStore(b)' /\ StandsFor(s, b) =>
           Present(s)' /\ (at'[h] \in Tied => job'[h].site # s)
  PROVE  StraysInv'
  <1>1. ASSUME NEW b \in BucketName, InStore(b)', b \notin stray'
        PROVE  \E s \in Site : StandsFor(s, b)'
    <2>1. PICK s \in Site : StandsFor(s, b)
      BY <1>1 DEF StraysInv
    <2>2. Present(s)' /\ (at'[h] \in Tied => job'[h].site # s)
      BY <1>1, <2>1
    <2>3. StandsFor(s, b)'
      BY <2>1, <2>2 DEF StandsFor, Elsewhere
    <2> QED
      BY <2>3
  <1> QED
    BY <1>1 DEF StraysInv

\* Steps after which no bucket is new, no row is gone and h is at neither of the
\* two steps.
LEMMA FreeStrays ==
  ASSUME StraysInv, NEW h \in Handler, Elsewhere(h), at'[h] \notin Tied, stray' = stray,
         \A b \in BucketName : InStore(b)' => InStore(b),
         \A s \in Site : Present(s) => Present(s)'
  PROVE  StraysInv'
  <1>1. stray' \subseteq BucketName
    BY DEF StraysInv
  <1>2. \A b \in BucketName, s \in Site : StandsFor(s, b) => Present(s)'
    BY DEF StandsFor
  <1> QED
    BY <1>1, <1>2, StraysKept

LEMMA QuietStrays ==
  ASSUME FilesInv, StraysInv, NEW h \in Handler,
         \/ CheckBucket(h) \/ CheckReserved(h) \/ Ensure(h) \/ Exists(h)
         \/ FileStep(h) \/ Quit(h) \/ \E f \in FileId : Insert(h, f)
         \/ \E r \in FileWork : AskSite(h, r) \/ AskUpload(h, r) \/ AskFile(h, r)
  PROVE  StraysInv'
  <1>1. ControlType
    BY DEF FilesInv
  <1>2. siteRow' = siteRow /\ bucket' = bucket /\ stray' = stray
    BY DEF CheckBucket, CheckReserved, Ensure, Exists, FileStep, FindFile, LockSite, Load,
           HeadObject, Mark, Rename, WriteRow, DropObject, DropFile, Quit, Insert,
           AskSite, AskUpload, AskFile, Accept, rows, store, ghosts
  <1>3. \/ Done(h) \/ NextItem(h)
        \/ \E l \in Steps \ Tied : GoTo(h, l)
        \/ \E l \in Steps \ Tied :
             /\ at' = [at EXCEPT ![h] = l]
             /\ job' = job \/ \E r : job' = [job EXCEPT ![h] = r]
    <2>1. CASE CheckBucket(h) \/ CheckReserved(h) \/ Exists(h) \/ HeadObject(h)
      BY <2>1 DEF CheckBucket, CheckReserved, Exists, Naming, HeadObject, Steps, Tied
    <2>2. CASE Ensure(h) \/ FindFile(h) \/ LockSite(h)
      BY <2>2 DEF Ensure, FindFile, LockSite, Steps, Tied
    <2>3. CASE Load(h)
      BY <2>3 DEF Load, FirstStep, DeleteOrder, Steps, Tied
    <2>4. CASE Mark(h) \/ Rename(h) \/ Quit(h) \/ \E f \in FileId : Insert(h, f)
      BY <2>4 DEF Mark, Rename, WriteRow, Quit, Insert
    <2>5. CASE DropObject(h) \/ DropFile(h)
      BY <2>5 DEF DropObject, DropFile, AfterDelete, DeleteOrder, Steps, Tied
    <2>6. CASE \E r \in FileWork : AskSite(h, r) \/ AskUpload(h, r) \/ AskFile(h, r)
      BY <2>6 DEF AskSite, AskUpload, AskFile, Accept, Steps, Tied
    <2> QED
      BY <2>1, <2>2, <2>3, <2>4, <2>5, <2>6 DEF FileStep
  <1>4. Elsewhere(h) /\ at'[h] \notin Tied
    <2>1. CASE Done(h) \/ NextItem(h)
      BY <1>1, <2>1, LeavesElsewhere
    <2>2. CASE \E l \in Steps \ Tied : GoTo(h, l)
      BY <1>1, <2>2, GoesElsewhere
    <2>3. CASE \E l \in Steps \ Tied :
                 /\ at' = [at EXCEPT ![h] = l]
                 /\ job' = job \/ \E r : job' = [job EXCEPT ![h] = r]
      BY <1>1, <2>3 DEF ControlType, Elsewhere
    <2> QED
      BY <1>3, <2>1, <2>2, <2>3
  <1>5. /\ \A b \in BucketName : InStore(b)' => InStore(b)
        /\ \A s \in Site : Present(s) => Present(s)'
    BY <1>2 DEF InStore, Present
  <1> QED
    BY <1>2, <1>4, <1>5, FreeStrays

\* A row is reserved for a site that had none.
LEMMA ReserveStrays ==
  ASSUME FilesInv, StraysInv, NEW h \in Handler, Reserve(h)
  PROVE  StraysInv'
  <1> DEFINE s == job[h].site
  <1>1. DataType /\ ControlType /\ s \in Site /\ BucketOf[s] \in BucketName
    BY FilesAssumption DEF FilesInv, Reserve, JobsFit, JobFits, Creating
  <1>2. bucket' = bucket /\ stray' = stray /\ (at'[h] \in Tied => job'[h].site = s /\ ~Present(s))
    BY <1>1, LeavesElsewhere, GoesElsewhere DEF Reserve, store, ghosts
  <1>3. Elsewhere(h)
    BY <1>1, LeavesElsewhere, GoesElsewhere DEF Reserve
  <1>4. \A t \in Site : Present(t) => Present(t)'
    <2>1. [bucket |-> BucketOf[s], deleted |-> FALSE] \in SiteRecord
      BY <1>1 DEF SiteRecord
    <2> QED
      BY <1>1, <2>1, FilesAssumption DEF Reserve, Present, DataType
  <1>5. \A b \in BucketName, t \in Site : StandsFor(t, b) =>
          Present(t)' /\ (at'[h] \in Tied => job'[h].site # t)
    BY <1>2, <1>4 DEF StandsFor
  <1>6. stray' \subseteq BucketName /\ \A b \in BucketName : InStore(b)' => InStore(b)
    BY <1>2 DEF StraysInv, InStore
  <1> QED
    BY <1>2, <1>3, <1>5, <1>6, StraysKept

\* A creation that made its bucket stands for it; one that was never told does
\* not, and makes it a stray.
LEMMA MakeBucketStrays ==
  ASSUME FilesInv, StraysInv, NEW h \in Handler, MakeBucket(h)
  PROVE  StraysInv'
  <1>1. at[h] \in Owning /\ at[h] = "makeBucket" /\ at[h] \in Tied
    BY DEF MakeBucket, Owning, Tied
  <1>2. PICK s \in Site, b \in BucketName : s = job[h].site /\ b = BucketOf[s]
    BY <1>1, OwnerFacts
  <1>3. /\ ControlType /\ Present(s)
        /\ \A g \in Handler \ {h} : ~Owns(g, s)
        /\ bucket \in [BucketName -> {"absent", "bare", "public"}]
    BY <1>2, <1>1, OwnerFacts DEF Control, DataType
  <1>4. siteRow' = siteRow
    BY DEF MakeBucket, rows
  <1>5. ASSUME bucket' = Made(b), GoTo(h, "configure"), stray' = stray
        PROVE  StraysInv'
    <2>1. Elsewhere(h) /\ at'[h] = "configure"
      BY <1>3, <1>5, GoesElsewhere
    <2>2. at'[h] \notin Tied
      BY <2>1 DEF Tied
    <2>3. StandsFor(s, b)'
      <3>1. \A g \in Handler : at'[g] \in Tied => job'[g].site # s
        BY <1>3, <2>1, <2>2 DEF Elsewhere, Owns, Owning, Tied
      <3> QED
        BY <1>2, <1>3, <1>4, <3>1 DEF StandsFor, Present
    <2>4. ASSUME NEW c \in BucketName, c # b, InStore(c)', c \notin stray'
          PROVE  \E t \in Site : StandsFor(t, c)'
      <3>1. InStore(c)
        BY <1>3, <1>5, <2>4, StoreChanges DEF InStore
      <3>2. PICK t \in Site : StandsFor(t, c)
        BY <1>5, <2>4, <3>1 DEF StraysInv
      <3>3. StandsFor(t, c)'
        BY <1>4, <2>1, <2>2, <3>2 DEF StandsFor, Elsewhere, Present
      <3> QED
        BY <3>3
    <2> QED
      BY <1>3, <1>5, <2>3, <2>4 DEF StraysInv
  <1>6. ASSUME bucket' \in {bucket, Made(b)}, GoTo(h, "dropRow"), stray' = Strayed(b)
        PROVE  StraysInv'
    <2>1. Elsewhere(h) /\ job'[h].site = s
      BY <1>2, <1>3, <1>6, GoesElsewhere
    <2>2. stray' \subseteq BucketName
      BY <1>3, <1>6 DEF StraysInv, Strayed
    <2>3. \A c \in BucketName : InStore(c)' /\ c \notin stray' => InStore(c) /\ c \notin stray
      BY <1>3, <1>6, StoreChanges DEF InStore, Strayed
    <2>4. \A c \in BucketName, t \in Site : StandsFor(t, c) =>
            Present(t)' /\ (at'[h] \in Tied => job'[h].site # t)
      BY <1>2, <1>1, <1>4, <2>1 DEF StandsFor, Present
    <2> QED
      BY <2>1, <2>2, <2>3, <2>4, StraysKept
  <1> QED
    BY <1>2, <1>5, <1>6 DEF MakeBucket

\* An upload that makes a bucket makes it a stray.
LEMMA MakeStrays ==
  ASSUME FilesInv, StraysInv, NEW h \in Handler, Make(h)
  PROVE  StraysInv'
  <1> DEFINE b == seen[h].bucket
  <1>1. at[h] \in Uploading /\ at[h] # "ensure"
    BY DEF Make, Uploading
  <1>2. ControlType /\ b \in BucketName /\ bucket \in [BucketName -> {"absent", "bare", "public"}]
    BY <1>1, UploadFacts DEF FilesInv, DataType
  <1>3. /\ siteRow' = siteRow /\ bucket' \in {bucket, Made(b)} /\ stray' = Strayed(b)
        /\ GoTo(h, "publish") \/ Done(h)
    BY DEF Make, rows
  <1>4. Elsewhere(h) /\ at'[h] \notin Tied
    BY <1>2, <1>3, GoesElsewhere, LeavesElsewhere DEF Tied
  <1>5. stray' \subseteq BucketName
    BY <1>2, <1>3 DEF StraysInv, Strayed
  <1>6. \A c \in BucketName : InStore(c)' /\ c \notin stray' => InStore(c) /\ c \notin stray
    BY <1>2, <1>3, StoreChanges DEF InStore, Strayed
  <1>7. \A c \in BucketName, t \in Site : StandsFor(t, c) => Present(t)'
    BY <1>3 DEF StandsFor, Present
  <1> QED
    BY <1>4, <1>5, <1>6, <1>7, StraysKept

\* A policy makes no bucket.
LEMMA PublishStrays ==
  ASSUME FilesInv, StraysInv, NEW h \in Handler, Configure(h) \/ Publish(h)
  PROVE  StraysInv'
  <1>1. ControlType /\ bucket \in [BucketName -> {"absent", "bare", "public"}]
    BY DEF FilesInv, DataType
  <1>2. PICK b \in BucketName : bucket' \in {bucket, Published(b)}
    <2>1. CASE Configure(h)
      <3>1. at[h] \in Owning
        BY <2>1 DEF Configure, Owning
      <3> QED
        BY <2>1, <3>1, OwnerFacts DEF Configure
    <2>2. CASE Publish(h)
      <3>1. at[h] \in Uploading /\ at[h] # "ensure"
        BY <2>2 DEF Publish, Uploading
      <3> QED
        BY <2>2, <3>1, UploadFacts DEF Publish
    <2> QED
      BY <2>1, <2>2
  <1>3. siteRow' = siteRow /\ stray' = stray
    BY DEF Configure, Publish, rows, ghosts
  <1>4. Done(h) \/ \E l \in {"dropBucket", "insert", "name"} : GoTo(h, l)
    BY RollbackSteps DEF Configure, Publish, Naming
  <1>5. Elsewhere(h) /\ at'[h] \notin Tied
    BY <1>1, <1>4, GoesElsewhere, LeavesElsewhere DEF Tied
  <1>6. /\ \A c \in BucketName : InStore(c)' => InStore(c)
        /\ \A s \in Site : Present(s) => Present(s)'
    BY <1>1, <1>2, <1>3, StoreChanges DEF InStore, Present
  <1> QED
    BY <1>3, <1>5, <1>6, FreeStrays

\* The rollback gives the row back only after it saw the bucket deleted.
LEMMA DropBucketStrays ==
  ASSUME FilesInv, StraysInv, NEW h \in Handler, DropBucket(h)
  PROVE  StraysInv'
  <1> DEFINE s == job[h].site
             b == BucketOf[s]
  <1>1. at[h] \in Owning
    BY DEF DropBucket, Owning
  <1>2. /\ ControlType /\ s \in Site /\ b \in BucketName
        /\ bucket \in [BucketName -> {"absent", "bare", "public"}]
    BY <1>1, OwnerFacts DEF Control, DataType
  <1>3. /\ siteRow' = siteRow /\ bucket' \in {bucket, Unmade(b)} /\ stray' = StraysLeft
        /\ \/ Done(h)
           \/ Empty(b) /\ bucket' = Unmade(b) /\ GoTo(h, "dropRow")
    BY RollbackSteps DEF DropBucket, AfterRollback, rows
  <1>4. /\ Elsewhere(h)
        /\ at'[h] \in Tied => job'[h].site = s /\ bucket'[b] = "absent"
    BY <1>2, <1>3, GoesElsewhere, LeavesElsewhere, StoreChanges
  <1>5. stray' \subseteq BucketName
    BY <1>3 DEF StraysInv, StraysLeft
  <1>6. \A c \in BucketName : InStore(c)' /\ c \notin stray' => InStore(c) /\ c \notin stray
    BY <1>2, <1>3, StoreChanges DEF InStore, StraysLeft
  <1>7. \A c \in BucketName, t \in Site : InStore(c)' /\ StandsFor(t, c) =>
          Present(t)' /\ (at'[h] \in Tied => job'[h].site # t)
    BY <1>3, <1>4 DEF StandsFor, Present, InStore
  <1> QED
    BY <1>4, <1>5, <1>6, <1>7, StraysKept

LEMMA DropRowStrays ==
  ASSUME FilesInv, StraysInv, NEW h \in Handler, DropRow(h)
  PROVE  StraysInv'
  <1> DEFINE s == job[h].site
  <1>1. at[h] \in Owning /\ at[h] \in Tied
    BY DEF DropRow, Owning, Tied
  <1>2. ControlType /\ DataType /\ s \in Site
    BY <1>1, OwnerFacts DEF Control
  <1>3. /\ siteRow' \in {siteRow, [siteRow EXCEPT ![s] = None]} /\ bucket' = bucket
        /\ stray' = stray /\ Done(h)
    BY RollbackSteps DEF DropRow, AfterRollback, store, ghosts
  <1>4. Elsewhere(h) /\ at'[h] \notin Tied
    BY <1>2, <1>3, LeavesElsewhere
  <1>5. stray' \subseteq BucketName /\ \A b \in BucketName : InStore(b)' => InStore(b)
    BY <1>3 DEF StraysInv, InStore
  <1>6. \A t \in Site : t # s /\ Present(t) => Present(t)'
    BY <1>2, <1>3 DEF Present, DataType
  <1>7. \A b \in BucketName, t \in Site : StandsFor(t, b) => Present(t)'
    BY <1>1, <1>6 DEF StandsFor
  <1> QED
    BY <1>3, <1>4, <1>5, <1>7, StraysKept

\* Rows that are written stay.
LEMMA NameStrays ==
  ASSUME FilesInv, StraysInv, NEW h \in Handler, NameBucket(h)
  PROVE  StraysInv'
  <1> DEFINE new == [bucket |-> seen[h].bucket, deleted |-> FALSE]
  <1>1. at[h] \in Uploading /\ at[h] # "ensure"
    BY DEF NameBucket, Uploading
  <1>2. ControlType /\ DataType /\ seen[h].bucket \in BucketName
    BY <1>1, UploadFacts DEF FilesInv
  <1>3. new \in SiteRecord
    BY <1>2 DEF SiteRecord
  <1> HIDE DEF new
  <1>4. /\ siteRow' \in {siteRow, [siteRow EXCEPT ![job[h].site] = new]} /\ bucket' = bucket
        /\ stray' = stray /\ GoTo(h, "insert")
    BY DEF NameBucket, store, ghosts, new
  <1>5. Elsewhere(h) /\ at'[h] \notin Tied
    BY <1>2, <1>4, GoesElsewhere DEF Tied
  <1>6. /\ \A b \in BucketName : InStore(b)' => InStore(b)
        /\ \A s \in Site : Present(s) => Present(s)'
    BY <1>2, <1>3, <1>4, FilesAssumption DEF InStore, Present, DataType
  <1> QED
    BY <1>4, <1>5, <1>6, FreeStrays

LEMMA WorldStrays ==
  ASSUME FilesInv, StraysInv,
         (\E f \in FileId : Put(f)) \/ (\E s \in Site : Retire(s)) \/ UNCHANGED fileVars
  PROVE  StraysInv'
  <1>1. at' = at /\ job' = job /\ bucket' = bucket /\ stray' = stray
    BY DEF Put, Retire, fileVars, store, ghosts
  <1>2. \A s \in Site : Present(s) => Present(s)'
    <2>1. CASE siteRow' = siteRow
      BY <2>1 DEF Present
    <2>2. CASE \E s \in Site : Retire(s)
      <3>1. PICK s \in Site : Retire(s)
        BY <2>2
      <3> DEFINE new == [bucket |-> siteRow[s].bucket, deleted |-> TRUE]
      <3>2. siteRow \in [Site -> SiteRecord \cup {None}] /\ siteRow[s] # None
        BY <3>1 DEF FilesInv, DataType, Retire, ActiveSite, Present
      <3>3. new \in SiteRecord
        BY <3>2 DEF SiteRecord
      <3>4. siteRow' = [siteRow EXCEPT ![s] = new]
        BY <3>1 DEF Retire
      <3> HIDE DEF new
      <3> QED
        BY <3>2, <3>3, <3>4, FilesAssumption DEF Present
    <2> QED
      BY <2>1, <2>2 DEF Put, fileVars, rows
  <1>3. \A s \in Site, b \in BucketName : StandsFor(s, b) => StandsFor(s, b)'
    BY <1>1, <1>2 DEF StandsFor
  <1> QED
    BY <1>1, <1>3 DEF StraysInv, InStore

LEMMA StraysStep ==
  ASSUME FilesInv, StraysInv, [FilesNext]_fileVars
  PROVE  StraysInv'
  <1>1. ASSUME NEW h \in Handler, Provision(h) \/ Upload(h)
        PROVE  StraysInv'
    BY <1>1, QuietStrays, ReserveStrays, MakeBucketStrays, PublishStrays, DropBucketStrays,
       DropRowStrays, MakeStrays, NameStrays DEF Provision, Upload
  <1> QED
    BY <1>1, QuietStrays, WorldStrays DEF FilesNext

\* create_site_record: every bucket that is no stray has a row that stands for
\* it: a creation that made its bucket gives its row back only after that bucket.
THEOREM StraysInvariance == FilesSpec => []StraysInv
  <1>1. FilesInit => StraysInv
    BY DEF FilesInit, StraysInv, InStore
  <1>2. FilesInv /\ StraysInv /\ [FilesNext]_fileVars => StraysInv'
    BY StraysStep
  <1> QED
    BY <1>1, <1>2, FilesInvariance, PTL DEF FilesSpec

\* Type correctness of the rows, the store and every handler.
THEOREM FilesTypes == FilesSpec => []FilesTypeOK
  <1>1. FilesInv /\ StraysInv => FilesTypeOK
    BY FileTypeParts DEF FilesInv, StraysInv
  <1> QED
    BY <1>1, FilesInvariance, StraysInvariance, PTL

\* delete_file, "object first", and the rollback of create_site_record: an object
\* without a row was uploaded after the deletion of its file had begun, and a
\* bucket without a row was made by an upload or by a call that failed.
THEOREM OrphansExplained == FilesSpec => []OrphansAreExplained
  <1>1. FilesInv => OrphanObjectsAreLate
    BY DEF FilesInv, FileLife, OrphanObjectsAreLate
  <1>2. StraysInv => OrphanBucketsAreStray
    BY DEF StraysInv, OrphanBucketsAreStray, StandsFor
  <1> QED
    BY <1>1, <1>2, FilesInvariance, StraysInvariance, PTL DEF OrphansAreExplained

-----------------------------------------------------------------------------
(* Files of deleted sites.                                                 *)

Frozen(f, s) ==
  /\ file[f] # None /\ file[f].site = s => file'[f] = file[f]
  /\ file[f] = None /\ file'[f] # None => file'[f].site # s

\* Who writes the row of a file holds the lock of its site, under which that
\* site was seen not deleted and cannot be deleted.
LEMMA WritesAreUnderLock ==
  ASSUME FilesInv, FilesNext, NEW f \in FileId, file'[f] # file[f]
  PROVE  \/ \E h \in Handler :
              /\ at[h] \in Uploading /\ file[f] = None /\ file'[f].site = job[h].site
         \/ \E h \in Handler :
              /\ at[h] \in Changing /\ file[f] # None /\ file[f].site = job[h].site
  <1>1. DataType
    BY InvParts
  <1>2. CASE \E h \in Handler, e \in FileId : Insert(h, e)
    <2>1. PICK h \in Handler, e \in FileId : Insert(h, e)
      BY <1>2
    <2>2. /\ at[h] \in Uploading /\ e \notin minted
          /\ file' = [file EXCEPT ![e] = [site |-> job[h].site, bucket |-> seen[h].bucket,
                                          uploaded |-> FALSE, renamed |-> FALSE]]
      BY <2>1 DEF Insert, Uploading
    <2>3. e = f
      BY <1>1, <2>2 DEF DataType
    <2>4. file[f] = None
      BY <2>2, <2>3, InvParts DEF FileLife
    <2>5. file'[f].site = job[h].site
      BY <1>1, <2>2, <2>3 DEF DataType
    <2> QED
      BY <2>2, <2>4, <2>5
  <1>3. CASE \E h \in Handler : Mark(h) \/ Rename(h) \/ DropFile(h)
    <2>1. PICK h \in Handler : Mark(h) \/ Rename(h) \/ DropFile(h)
      BY <1>3
    <2>2. /\ at[h] \in Changing
          /\ \E row : file' \in {file, [file EXCEPT ![Now(h)] = row]}
      BY <2>1 DEF Mark, Rename, WriteRow, DropFile, Changing
    <2>3. f = Now(h)
      BY <1>1, <2>2 DEF DataType
    <2> QED
      BY <2>2, <2>3, ChangeFacts
  <1>4. CASE /\ ~\E h \in Handler, e \in FileId : Insert(h, e)
             /\ ~\E h \in Handler : Mark(h) \/ Rename(h) \/ DropFile(h)
    <2>1. file' = file
      BY <1>4
         DEF FilesNext, AskSite, AskUpload, AskFile, Accept, Provision, CheckBucket,
             CheckReserved, Reserve, MakeBucket, Configure, DropBucket, DropRow, Upload, Ensure,
             Exists, Make, Publish, NameBucket, FileStep, FindFile, LockSite, Load, HeadObject,
             DropObject, Quit, Put, Retire, rows
    <2> QED
      BY <2>1
  <1> QED
    BY <1>2, <1>3, <1>4

LEMMA FrozenStep ==
  ASSUME FilesInv, [FilesNext]_fileVars, NEW f \in FileId, NEW s \in Site,
         Present(s), siteRow[s].deleted
  PROVE  Frozen(f, s)
  <1>1. CASE file'[f] = file[f]
    BY <1>1 DEF Frozen
  <1>2. CASE file'[f] # file[f]
    <2>1. FilesNext
      BY <1>2 DEF fileVars
    <2>2. \/ \E h \in Handler :
               /\ at[h] \in Uploading /\ file[f] = None /\ file'[f].site = job[h].site
          \/ \E h \in Handler :
               /\ at[h] \in Changing /\ file[f] # None /\ file[f].site = job[h].site
      BY <1>2, <2>1, WritesAreUnderLock
    <2>3. \A h \in Handler : at[h] \in Uploading \cup Changing => job[h].site # s
      BY UploadFacts, ChangeFacts
    <2> QED
      BY <2>2, <2>3 DEF Frozen
  <1> QED
    BY <1>1, <1>2

\* The files of a deleted site stay as they are and it gets no new ones, by
\* whatever requests were under way when it was deleted.
THEOREM RetiredFrozen == FilesSpec => RetiredFilesFrozen
  <1>1. FilesInv /\ [FilesNext]_fileVars =>
          [\A f \in FileId, s \in Site :
             Present(s) /\ siteRow[s].deleted =>
               /\ file[f] # None /\ file[f].site = s => file'[f] = file[f]
               /\ file[f] = None /\ file'[f] # None => file'[f].site # s]_fileVars
    BY FrozenStep DEF Frozen
  <1> QED
    BY <1>1, FilesInvariance, PTL DEF FilesSpec, RetiredFilesFrozen
=============================================================================
