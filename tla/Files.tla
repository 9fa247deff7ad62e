------------------------------- MODULE Files --------------------------------
(***************************************************************************)
(* The storage of sites: creation of a site with its bucket and its        *)
(* rollback (site_lifecycle_service.create_site_record), and the files of  *)
(* a site, media and documents alike: SiteFileService, bucket_resolver,    *)
(* routes/media, routes/storage and StorageClient.                         *)
(*                                                                         *)
(* Rows are in PocketBase, buckets and objects in an S3 store; no          *)
(* transaction spans them.  Every call is a step of its own that succeeds, *)
(* fails, or takes effect though its answer is lost.  A browser uploads an *)
(* object by itself, with the signed URL it was given, whenever it likes:  *)
(* that URLs expire only takes behaviours away.  A handler may also end    *)
(* anywhere (Quit), which frees its lock; creation takes no lock at all.   *)
(*                                                                         *)
(* A bucket is "bare" until its public policy is set; CORS rules are part  *)
(* of that step.  Keys of objects are unique, as are file ids, so an       *)
(* object is named by its file.                                            *)
(***************************************************************************)
EXTENDS Naturals, Sequences, FiniteSets

CONSTANTS
  Handler,       \* requests in flight together
  Site,          \* site ids
  BucketName,    \* names of buckets
  BucketOf,      \* sanitize_bucket_name
  FileId,        \* file ids to be minted
  FileWork,      \* the requests people may send
  MaxFaults,     \* bound on failed calls and dead handlers
  None           \* no row, no bucket, no object, no holder

\* A request about files names one at least: the deletion of none does nothing.
FileRequest ==
       [op : {"provision", "upload"}, site : Site, items : {<<>>}]
  \cup [op : {"confirm", "rename", "remove"}, site : {None}, items : Seq(FileId) \ {<<>>}]

SiteRecord == [bucket : BucketName \cup {None}, deleted : BOOLEAN]
FileRecord == [site : Site, bucket : BucketName, uploaded : BOOLEAN, renamed : BOOLEAN]
ObjectRecord == [bucket : BucketName, whole : BOOLEAN]

ASSUME FilesAssumption ==
  /\ BucketOf \in [Site -> BucketName]
  /\ MaxFaults \in Nat
  /\ FileWork \subseteq FileRequest
  /\ None \notin Handler /\ None \notin BucketName /\ None \notin Site
  /\ None \notin FileRecord /\ None \notin SiteRecord /\ None \notin ObjectRecord

VARIABLES
  siteRow,     \* the sites rows: their bucket and their deletion marker
  bucket,      \* what each bucket is: "absent", "bare" or "public"
  file,        \* the file rows
  object,      \* the stored objects, and whether they are as declared
  url,         \* the bucket an upload URL leads to
  minted,      \* the file ids handed out
  holder,      \* who holds the lock of each site
  job, at,     \* the request of each handler and its next step
  seen,        \* the bucket each handler works on, and whether the row has it
  faults,      \* how many calls failed
  answered,    \* ghost: the sites whose creation was answered with success
  dropped,     \* ghost: the files whose object a deletion asked to delete
  late,        \* ghost: the files uploaded after that
  stray        \* ghost: the buckets that an upload made, or a call that failed

fileVars == <<siteRow, bucket, file, object, url, minted, holder, job, at, seen, faults,
              answered, dropped, late, stray>>

rows == <<siteRow, file>>
store == <<bucket, object, url>>
ghosts == <<minted, answered, dropped, late, stray>>

Idle == [op |-> "none", site |-> None, items |-> <<>>]

Steps ==
  {"idle", "checkBucket", "checkReserved", "reserve", "makeBucket", "configure", "dropBucket",
   "dropRow", "find", "lock", "load", "ensure", "exists", "make", "publish", "name", "insert",
   "head", "mark", "write", "dropObject", "dropFile"}

FilesTypeOK ==
  /\ siteRow \in [Site -> SiteRecord \cup {None}]
  /\ bucket \in [BucketName -> {"absent", "bare", "public"}]
  /\ file \in [FileId -> FileRecord \cup {None}]
  /\ object \in [FileId -> ObjectRecord \cup {None}]
  /\ url \in [FileId -> BucketName \cup {None}]
  /\ holder \in [Site -> Handler \cup {None}]
  /\ at \in [Handler -> Steps]
  /\ job \in [Handler -> [op : {"none", "provision", "upload", "confirm", "rename", "remove"},
                         site : Site \cup {None}, items : Seq(FileId)]]
  /\ seen \in [Handler -> [bucket : BucketName \cup {None}, named : BOOLEAN]]
  /\ minted \subseteq FileId /\ dropped \subseteq FileId /\ late \subseteq FileId
  /\ answered \subseteq Site /\ stray \subseteq BucketName
  /\ faults \in 0 .. MaxFaults

\* Some sites may be there, with rows older than bucket names.
FilesInit ==
  /\ siteRow \in [Site -> {None, [bucket |-> None, deleted |-> FALSE]}]
  /\ bucket = [b \in BucketName |-> "absent"]
  /\ file = [f \in FileId |-> None]
  /\ object = [f \in FileId |-> None]
  /\ url = [f \in FileId |-> None]
  /\ minted = {}
  /\ holder = [s \in Site |-> None]
  /\ job = [h \in Handler |-> Idle]
  /\ at = [h \in Handler |-> "idle"]
  /\ seen = [h \in Handler |-> [bucket |-> None, named |-> FALSE]]
  /\ faults = 0
  /\ answered = {} /\ dropped = {} /\ late = {} /\ stray = {}

-----------------------------------------------------------------------------
(* Steps and calls.                                                        *)

Unlocked(h) == [s \in Site |-> IF holder[s] = h THEN None ELSE holder[s]]

\* The handler goes on at a step, ...
GoTo(h, step) ==
  /\ at' = [at EXCEPT ![h] = step]
  /\ UNCHANGED <<holder, job, seen>>

\* ... it is done, ...
Done(h) ==
  /\ at' = [at EXCEPT ![h] = "idle"]
  /\ job' = [job EXCEPT ![h] = Idle]
  /\ seen' = [seen EXCEPT ![h] = [bucket |-> None, named |-> FALSE]]
  /\ holder' = Unlocked(h)

\* ... or done with one file of its list.
NextItem(h) ==
  IF Len(job[h].items) > 1
    THEN /\ at' = [at EXCEPT ![h] = "find"]
         /\ job' = [job EXCEPT ![h] =
                      [op |-> job[h].op, site |-> None, items |-> Tail(job[h].items)]]
         /\ holder' = Unlocked(h)
         /\ UNCHANGED seen
    ELSE Done(h)

\* A call succeeds, or one more call fails.
Succeeds == UNCHANGED faults
Fails == faults < MaxFaults /\ faults' = faults + 1

Present(s) == siteRow[s] # None
ActiveSite(s) == Present(s) /\ ~siteRow[s].deleted

\* The file that a request is at.
Now(h) == job[h].items[1]

\* A request is accepted, and begins with a step.
Accept(h, r, step) ==
  /\ at[h] = "idle"
  /\ job' = [job EXCEPT ![h] = r]
  /\ at' = [at EXCEPT ![h] = step]
  /\ UNCHANGED <<rows, store, ghosts, holder, seen, faults>>

AskSite(h, r) == r.op = "provision" /\ Accept(h, r, "checkBucket")

\* Bounded by the ids there are.
AskUpload(h, r) ==
  /\ r.op = "upload" /\ Accept(h, r, "lock")
  /\ Cardinality(minted) + Cardinality({g \in Handler : job[g].op = "upload"}) < Cardinality(FileId)

AskFile(h, r) == r.op \in {"confirm", "rename", "remove"} /\ Accept(h, r, "find")

\* A refusal outside the model, a failed read, a dead process.
Quit(h) ==
  /\ at[h] # "idle"
  /\ Fails /\ Done(h)
  /\ UNCHANGED <<rows, store, ghosts>>

-----------------------------------------------------------------------------
(* What the store does.                                                    *)

InStore(b) == bucket[b] # "absent"

\* A bucket of ours that is there already is taken for a success.
Made(b) == [bucket EXCEPT ![b] = IF @ = "absent" THEN "bare" ELSE @]

Published(b) == [bucket EXCEPT ![b] = IF @ = "absent" THEN @ ELSE "public"]

\* A bucket with objects in it is not deleted.
Empty(b) == \A f \in FileId : object[f] # None => object[f].bucket # b
Unmade(b) == [bucket EXCEPT ![b] = IF Empty(b) THEN "absent" ELSE @]

\* The strays when a bucket is made that no creation is told of, ...
Strayed(b) == IF bucket' = bucket THEN stray ELSE stray \cup {b}

\* ... and when one is deleted.
StraysLeft == {b \in stray : bucket'[b] # "absent"}

\* Deleting an object that is not there succeeds.
Erased(f) == [object EXCEPT ![f] = None]

-----------------------------------------------------------------------------
(* Creation of a site.                                                     *)

\* 409 if the bucket exists, ...
CheckBucket(h) ==
  /\ at[h] = "checkBucket"
  /\ IF InStore(BucketOf[job[h].site]) THEN Done(h) ELSE GoTo(h, "checkReserved")
  /\ Succeeds /\ UNCHANGED <<rows, store, ghosts>>

\* ... and if any row, of a deleted site too, has its name.
CheckReserved(h) ==
  /\ at[h] = "checkReserved"
  /\ IF \E s \in Site : Present(s) /\ siteRow[s].bucket = BucketOf[job[h].site]
       THEN Done(h) ELSE GoTo(h, "reserve")
  /\ Succeeds /\ UNCHANGED <<rows, store, ghosts>>

\* The unique site_id of the row reserves the identity.  A row written though
\* the call failed stays: the rollback begins after this call.
Reserve(h) ==
  LET s == job[h].site IN
  /\ at[h] = "reserve"
  /\ \/ Present(s) /\ Done(h) /\ Succeeds /\ UNCHANGED siteRow
     \/ /\ ~Present(s)
        /\ siteRow' = [siteRow EXCEPT ![s] = [bucket |-> BucketOf[s], deleted |-> FALSE]]
        /\ (GoTo(h, "makeBucket") /\ Succeeds) \/ (Done(h) /\ Fails)
  /\ UNCHANGED <<file, store, ghosts>>

\* Mutant of Rollback: the row is given back before the bucket is gone.
RollbackRowFirst == <<"dropRow", "dropBucket">>

\* What the rollback does when the bucket was made.
Rollback == <<"dropBucket", "dropRow">>

\* The bucket is made; if the call fails, made or not, only the row is rolled back.
MakeBucket(h) ==
  /\ at[h] = "makeBucket"
  /\ LET b == BucketOf[job[h].site] IN
     \/ bucket' = Made(b) /\ GoTo(h, "configure") /\ Succeeds /\ UNCHANGED stray
     \/ bucket' \in {bucket, Made(b)} /\ GoTo(h, "dropRow") /\ Fails /\ stray' = Strayed(b)
  /\ UNCHANGED <<rows, object, url, minted, answered, dropped, late>>

\* Policy and CORS of the bucket; the request is answered.
Configure(h) ==
  LET b == BucketOf[job[h].site] IN
  /\ at[h] = "configure"
  /\ bucket' \in {bucket, Published(b)}
  /\ \/ /\ InStore(b) /\ bucket' = Published(b) /\ Done(h) /\ Succeeds
        /\ answered' = answered \cup {job[h].site}
     \/ /\ Fails \/ (~InStore(b) /\ Succeeds)
        /\ GoTo(h, Rollback[1])
        /\ UNCHANGED answered
  /\ UNCHANGED <<rows, object, url, minted, dropped, late, stray>>

\* The step of the rollback that follows one that succeeded.
AfterRollback(h, step) == IF step = Rollback[1] THEN GoTo(h, Rollback[2]) ELSE Done(h)

\* The bucket that was just made, if nobody has uploaded into it.
DropBucket(h) ==
  LET b == BucketOf[job[h].site] IN
  /\ at[h] = "dropBucket"
  /\ \/ Empty(b) /\ bucket' = Unmade(b) /\ AfterRollback(h, "dropBucket") /\ Succeeds
     \/ ~Empty(b) /\ Done(h) /\ Succeeds /\ UNCHANGED bucket
     \/ bucket' \in {bucket, Unmade(b)} /\ Done(h) /\ Fails
  /\ stray' = StraysLeft
  /\ UNCHANGED <<rows, object, url, minted, answered, dropped, late>>

DropRow(h) ==
  LET gone == [siteRow EXCEPT ![job[h].site] = None] IN
  /\ at[h] = "dropRow"
  /\ \/ siteRow' = gone /\ AfterRollback(h, "dropRow") /\ Succeeds
     \/ siteRow' \in {siteRow, gone} /\ Done(h) /\ Fails
  /\ UNCHANGED <<file, store, ghosts>>

Provision(h) ==
  \/ CheckBucket(h) \/ CheckReserved(h) \/ Reserve(h) \/ MakeBucket(h) \/ Configure(h)
  \/ DropBucket(h) \/ DropRow(h)

-----------------------------------------------------------------------------
(* The upload URL of a new file.                                           *)

\* The file is looked up to learn its site.
FindFile(h) ==
  /\ at[h] = "find"
  /\ IF file[Now(h)] = None THEN NextItem(h)
     ELSE /\ job' = [job EXCEPT ![h] =
                      [op |-> job[h].op, site |-> file[Now(h)].site, items |-> job[h].items]]
          /\ at' = [at EXCEPT ![h] = "lock"]
          /\ UNCHANGED <<holder, seen>>
  /\ Succeeds /\ UNCHANGED <<rows, store, ghosts>>

LockSite(h) ==
  /\ at[h] = "lock" /\ holder[job[h].site] = None
  /\ holder' = [holder EXCEPT ![job[h].site] = h]
  /\ at' = [at EXCEPT ![h] = "load"]
  /\ Succeeds
  /\ UNCHANGED <<job, seen, rows, store, ghosts>>

\* Mutant of Rechecked: only the file is read again.
RecheckedFile(h) == job[h].op # "upload" => file[Now(h)] # None

\* Under the lock the file must be there and its site active.
Rechecked(h) ==
  /\ ActiveSite(job[h].site)
  /\ job[h].op # "upload" => file[Now(h)] # None

\* Mutant of DeleteOrder: the row goes first.
DeleteOrderRowFirst == <<"dropFile", "dropObject">>

\* "Object first": the alternative orphans the object.
DeleteOrder == <<"dropObject", "dropFile">>

FirstStep(h) ==
  IF job[h].op = "upload" THEN "ensure"
  ELSE IF job[h].op = "rename" THEN "write"
  ELSE IF job[h].op = "remove" THEN DeleteOrder[1]
  ELSE "head"

ConfirmedBefore(h) == job[h].op = "confirm" /\ file[Now(h)].uploaded

\* The record is read again; a file confirmed before is answered as it is.
Load(h) ==
  /\ at[h] = "load"
  /\ IF ~Rechecked(h) THEN NextItem(h)
     ELSE IF ConfirmedBefore(h) THEN Done(h)
     ELSE /\ at' = [at EXCEPT ![h] = FirstStep(h)]
          /\ seen' = [seen EXCEPT ![h] =
               [bucket |-> IF job[h].op = "upload" THEN None ELSE file[Now(h)].bucket,
                named |-> FALSE]]
          /\ UNCHANGED <<holder, job>>
  /\ Succeeds /\ UNCHANGED <<rows, store, ghosts>>

\* ensure_site_bucket reads the site once more, as creation may have rolled it
\* back, and takes the bucket of the row or the one of its id.
Ensure(h) ==
  LET s == job[h].site IN
  /\ at[h] = "ensure"
  /\ IF ~ActiveSite(s) THEN Done(h)
     ELSE /\ seen' = [seen EXCEPT ![h] =
                IF siteRow[s].bucket # None THEN [bucket |-> siteRow[s].bucket, named |-> TRUE]
                                            ELSE [bucket |-> BucketOf[s], named |-> FALSE]]
          /\ at' = [at EXCEPT ![h] = "exists"]
          /\ UNCHANGED <<holder, job>>
  /\ Succeeds /\ UNCHANGED <<rows, store, ghosts>>

\* Whether the bucket is still to be named in the row.
Naming(h) == IF seen[h].named THEN "insert" ELSE "name"

Exists(h) ==
  /\ at[h] = "exists"
  /\ GoTo(h, IF InStore(seen[h].bucket) THEN Naming(h) ELSE "make")
  /\ Succeeds /\ UNCHANGED <<rows, store, ghosts>>

Make(h) ==
  /\ at[h] = "make"
  /\ \/ bucket' = Made(seen[h].bucket) /\ GoTo(h, "publish") /\ Succeeds
     \/ bucket' \in {bucket, Made(seen[h].bucket)} /\ Done(h) /\ Fails
  /\ stray' = Strayed(seen[h].bucket)
  /\ UNCHANGED <<rows, object, url, minted, answered, dropped, late>>

\* Only who makes a bucket sets its policy; a failure leaves it without one.
Publish(h) ==
  /\ at[h] = "publish"
  /\ \/ /\ bucket' = Published(seen[h].bucket) /\ Succeeds
        /\ IF ~InStore(seen[h].bucket) THEN Done(h) ELSE GoTo(h, Naming(h))
     \/ bucket' \in {bucket, Published(seen[h].bucket)} /\ Done(h) /\ Fails
  /\ UNCHANGED <<rows, object, url, ghosts>>

\* The gateway writes a name only into an active row that has none; whatever
\* comes of it is logged, and the upload goes on.
NameBucket(h) ==
  LET s == job[h].site
      named == [siteRow EXCEPT ![s] = [bucket |-> seen[h].bucket, deleted |-> FALSE]] IN
  /\ at[h] = "name"
  /\ GoTo(h, "insert")
  /\ \/ /\ Succeeds
        /\ siteRow' = IF ActiveSite(s) /\ siteRow[s].bucket = None THEN named ELSE siteRow
     \/ Fails /\ UNCHANGED siteRow
  /\ UNCHANGED <<file, store, ghosts>>

\* The row of the file, under a fresh id; the URL goes out with the answer.
Insert(h, f) ==
  LET row == [site |-> job[h].site, bucket |-> seen[h].bucket, uploaded |-> FALSE,
              renamed |-> FALSE] IN
  /\ at[h] = "insert" /\ f \notin minted
  /\ minted' = minted \cup {f}
  /\ file' = [file EXCEPT ![f] = row]
  /\ \/ Succeeds /\ url' = [url EXCEPT ![f] = seen[h].bucket]
     \/ Fails /\ UNCHANGED url
  /\ Done(h)
  /\ UNCHANGED <<answered, dropped, late, stray, siteRow, bucket, object>>

Upload(h) ==
  \/ Ensure(h) \/ Exists(h) \/ Make(h) \/ Publish(h) \/ NameBucket(h)
  \/ \E f \in FileId : Insert(h, f)

-----------------------------------------------------------------------------
(* Operations on a file, under the lock of its site.                       *)

\* Mutant of Complete: the size of the stored object is not looked at.
CompleteAny(f) == TRUE

\* HEAD finds the object, as declared.
Complete(f) == object[f] # None /\ object[f].whole

\* 409 without an object, 422 for another one.
HeadObject(h) ==
  /\ at[h] = "head"
  /\ IF Complete(Now(h)) THEN GoTo(h, "mark") ELSE Done(h)
  /\ Succeeds /\ UNCHANGED <<rows, store, ghosts>>

\* A row is written, answered or not.
WriteRow(h, row) ==
  /\ \/ file' = [file EXCEPT ![Now(h)] = row] /\ Succeeds
     \/ file' \in {file, [file EXCEPT ![Now(h)] = row]} /\ Fails
  /\ Done(h)
  /\ UNCHANGED <<siteRow, store, ghosts>>

Mark(h) ==
  /\ at[h] = "mark"
  /\ WriteRow(h, [file[Now(h)] EXCEPT !.uploaded = TRUE])

Rename(h) ==
  /\ at[h] = "write"
  /\ WriteRow(h, [file[Now(h)] EXCEPT !.renamed = TRUE])

AfterDelete(h, step) == IF step = DeleteOrder[1] THEN GoTo(h, DeleteOrder[2]) ELSE NextItem(h)

\* An item that fails, as for want of its bucket, is reported, and the next
\* one is taken up.
DropObject(h) ==
  LET f == Now(h) IN
  /\ at[h] = "dropObject"
  /\ dropped' = dropped \cup {f}
  /\ \/ /\ InStore(seen[h].bucket)
        /\ object' = Erased(f) /\ AfterDelete(h, "dropObject") /\ Succeeds
     \/ ~InStore(seen[h].bucket) /\ NextItem(h) /\ Succeeds /\ UNCHANGED object
     \/ object' \in {object, Erased(f)} /\ NextItem(h) /\ Fails
  /\ UNCHANGED <<minted, answered, late, stray, rows, bucket, url>>

DropFile(h) ==
  LET gone == [file EXCEPT ![Now(h)] = None] IN
  /\ at[h] = "dropFile"
  /\ \/ file' = gone /\ AfterDelete(h, "dropFile") /\ Succeeds
     \/ file' \in {file, gone} /\ NextItem(h) /\ Fails
  /\ UNCHANGED <<siteRow, store, ghosts>>

FileStep(h) ==
  \/ FindFile(h) \/ LockSite(h) \/ Load(h)
  \/ HeadObject(h) \/ Mark(h) \/ Rename(h) \/ DropObject(h) \/ DropFile(h)

-----------------------------------------------------------------------------
(* The rest of the world.                                                  *)

\* A browser uses its URL; what it sends may not be what was declared.
Put(f) ==
  /\ url[f] # None /\ InStore(url[f])
  /\ \E whole \in BOOLEAN : object' = [object EXCEPT ![f] = [bucket |-> url[f], whole |-> whole]]
  /\ late' = IF f \in dropped THEN late \cup {f} ELSE late
  /\ UNCHANGED <<rows, bucket, url, holder, job, at, seen, faults,
                 minted, answered, dropped, stray>>

\* A site is deleted under its lock; row, bucket and files are retained.
Retire(s) ==
  /\ holder[s] = None /\ ActiveSite(s)
  /\ siteRow' = [siteRow EXCEPT ![s] = [bucket |-> siteRow[s].bucket, deleted |-> TRUE]]
  /\ UNCHANGED <<file, store, ghosts, holder, job, at, seen, faults>>

FilesNext ==
  \/ \E h \in Handler, r \in FileWork : AskSite(h, r) \/ AskUpload(h, r) \/ AskFile(h, r)
  \/ \E h \in Handler : Provision(h) \/ Upload(h) \/ FileStep(h) \/ Quit(h)
  \/ \E f \in FileId : Put(f)
  \/ \E s \in Site : Retire(s)

FilesSpec == FilesInit /\ [][FilesNext]_fileVars

-----------------------------------------------------------------------------
\* No other site id is normalized to the bucket name of this one.
Alone(s) == \A t \in Site \ {s} : BucketOf[t] # BucketOf[s]

\* A site whose creation was answered with success keeps its row, and a bucket
\* that the public can read if no other id stands for its name, whatever other
\* creations, rollbacks and uploads go on.
ProvisionedKeepsBucket ==
  \A s \in answered : Present(s) /\ (Alone(s) => bucket[BucketOf[s]] = "public")

\* delete_file: "the alternative orphans the object".  An object without a row
\* was uploaded after the deletion of its file had begun, with a URL that was
\* still valid.
OrphanObjectsAreLate ==
  \A f \in FileId : object[f] # None /\ file[f] = None => f \in late

\* "site provisioning rollback incomplete": a bucket that no row stands for, which
\* refuses its site ids for ever, was made by a call whose answer the creation
\* never had, or by an upload before the creation was rolled back.
OrphanBucketsAreStray ==
  \A b \in BucketName :
    InStore(b) /\ b \notin stray => \E s \in Site : Present(s) /\ BucketOf[s] = b

\* What no row knows is explained: the objects and the buckets.
OrphansAreExplained == OrphanObjectsAreLate /\ OrphanBucketsAreStray

\* A row says "uploaded" only of an object that is stored, until somebody asks
\* for its deletion: no rollback takes the bucket from under it.
UploadedIsStored ==
  \A f \in FileId :
    file[f] # None /\ f \notin dropped =>
      (file[f].uploaded => object[f] # None)

\* The files of a deleted site stay as they are, and it gets no new ones, even
\* by requests that passed their first checks before the deletion.
RetiredFilesFrozen ==
  [][\A f \in FileId, s \in Site :
       Present(s) /\ siteRow[s].deleted =>
         /\ file[f] # None /\ file[f].site = s => file'[f] = file[f]
         /\ file[f] = None /\ file'[f] # None => file'[f].site # s]_fileVars

\* "The existence/reservation checks below prevent normalized-name collisions":
\* no two sites have one bucket.
BucketsAreExclusive ==
  \A s, t \in Site :
    s # t /\ Present(s) /\ Present(t) =>
      siteRow[s].bucket = None \/ siteRow[s].bucket # siteRow[t].bucket
=============================================================================
