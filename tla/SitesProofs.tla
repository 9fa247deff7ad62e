---------------------------- MODULE SitesProofs -----------------------------
(***************************************************************************)
(* What the three kinds of locks achieve, for any number of requests,      *)
(* sites, domains and builds: a domain has one site, a deleted site is     *)
(* quiet, a deployment rests on what was chosen, a site goes live only if  *)
(* it is served, and builds run undisturbed.  All five come from one       *)
(* invariant, which says of each request what locks it holds and that what *)
(* it has read under them is still so.                                     *)
(*                                                                         *)
(* And what the names of the sites come to at Cloudflare, for any number   *)
(* of names, zones and attempts: two handlers are never about one name, so *)
(* what one of them has set up or taken back stays so until it is done.    *)
(***************************************************************************)
EXTENDS Sites, Domains, FiniteSetTheorems, WellFoundedInduction, TLAPS

\* The site of a request under way.
SiteAt(h) == IF req[h].op \in {"edit", "drop"} THEN mem[h].site ELSE req[h].site

FirstLock(h)  == IF req[h].op \in BuildOps THEN SiteAt(h) ELSE "domain"
SecondLock(h) == IF req[h].op \in BuildOps THEN "build" ELSE SiteAt(h)
Holds(h) == lock[FirstLock(h)] = h /\ lock[SecondLock(h)] = h

\* Past the waits, a request holds the locks of its path.
LockInv(h) == pc[h] # "idle" =>
  /\ req[h] \in Request /\ SiteAt(h) \in Site
  /\ pc[h] = "lock" =>
       \/ todo[h] = <<FirstLock(h), SecondLock(h)>>
       \/ todo[h] = <<SecondLock(h)>> /\ lock[FirstLock(h)] = h
       \/ todo[h] = <<"build">> /\ req[h].op = "delete" /\ Holds(h)
  /\ pc[h] # "lock" => Holds(h)
  /\ pc[h] \in {"recheck", "checkBuilds", "writeDeleted"} =>
       req[h].op = "delete" /\ lock["build"] = h

\* What POST serve has read and chosen is still so, and what it has brought to
\* Pages is there.
ServeInv(h) == pc[h] \in {"pick", "fresh", "markServing"} \cup Deploying =>
  /\ req[h].op = "serve" /\ mem[h] \in ServeMem
  /\ ~sites[req[h].site].deleted /\ sites[req[h].site].domain = mem[h].domain
  /\ pc[h] # "pick" => mem[h].build \in Completed(req[h].site)
  /\ pc[h] \in Deploying => sites[req[h].site].serve = "serving"
  /\ pc[h] \in {"bind", "markLive"} => pages[req[h].site].content = builds[mem[h].build].id
  /\ pc[h] = "markLive" => NameOf(mem[h].domain) \in pages[req[h].site].names

\* No build of the site waits or runs.
NoneActive(s) ==
  \A b \in BuildId : builds[b] # None /\ builds[b].site = s => builds[b].status \notin Active

\* The checks of a change and of a deletion of a site.
ChangeInv(h) ==
  /\ pc[h] = "writeSite" =>
       /\ req[h].op = "update" /\ mem[h] \in SiteRow /\ ~mem[h].deleted
       /\ req[h].domain \in Domain => Unowned(req[h].domain, req[h].site)
  /\ pc[h] \in {"checkBuilds", "writeDeleted"} => sites[req[h].site].serve \notin Served
  /\ pc[h] = "writeDeleted" => NoneActive(req[h].site)

\* The checks of a request about a build.  An id names one build of one site.
BuildInv(h) ==
  /\ pc[h] = "insertBuild" => req[h].op = "create" /\ IsActive(req[h].site)
  /\ pc[h] # "idle" /\ req[h].op \in {"edit", "drop"} =>
       /\ mem[h] \in BuildRow /\ mem[h].id <= made
       /\ LET row == builds[req[h].build] IN
          /\ row # None /\ row.id = mem[h].id => row.site = mem[h].site
          /\ pc[h] \in {"writeBuild", "dropBuild"} =>
               /\ row # None /\ row.id = mem[h].id /\ row.status # "building"
               /\ IsActive(mem[h].site)
  /\ pc[h] = "writeBuild" => req[h].op = "edit" /\ req[h].status \notin {"building", "completed"}
  /\ pc[h] = "dropBuild" => req[h].op = "drop"

HandlerInv(h) == LockInv(h) /\ ServeInv(h) /\ ChangeInv(h) /\ BuildInv(h)

\* Ids are counted, and a completed build has its image.
RowInv ==
  \A b \in BuildId : builds[b] # None =>
    builds[b].id <= made /\ (builds[b].status = "completed" => builds[b].image)

SitesInv ==
  /\ TypeOK /\ RowInv
  /\ \A h \in Handler : HandlerInv(h)
  /\ DomainsAreExclusive /\ DeletedIsQuiet

-----------------------------------------------------------------------------
LEMMA SitesInitInv == Init => SitesInv
  <1> SUFFICES ASSUME Init PROVE SitesInv
    OBVIOUS
  <1>1. TypeOK
    <2>1. <<>> \in Seq(Lock)
      OBVIOUS
    <2> QED
      BY <2>1, SitesAssumption
      DEF Init, TypeOK, SiteRow, SiteStatus, Pages
  <1>2. RowInv /\ DomainsAreExclusive /\ DeletedIsQuiet
    BY DEF Init, RowInv, DomainsAreExclusive, DeletedIsQuiet
  <1>3. \A h \in Handler : HandlerInv(h)
    BY DEF Init, HandlerInv, LockInv, ServeInv, ChangeInv, BuildInv, Deploying
  <1> QED
    BY <1>1, <1>2, <1>3 DEF SitesInv

-----------------------------------------------------------------------------
(* What the pieces of a row are after a write.                             *)

LEMMA RequestFields ==
  ASSUME NEW r \in Request
  PROVE  /\ r.op \in {"status", "serve", "stop", "delete", "update", "create", "edit", "drop"}
         /\ r.op \notin {"edit", "drop"} => r.site \in Site
         /\ r.op \in {"create", "edit", "drop"} => r.build \in BuildId
         /\ r.op = "status" => r.to \in ManualServeStatus
         /\ r.op = "update" => /\ r.domain \in Domain \cup {None, "same"}
                               /\ r.status \in SiteStatus \cup {"same"} /\ r.config \in BOOLEAN
         /\ r.op = "edit" => r.status \in BuildStatus \cup {"same"} /\ r.config \in BOOLEAN
  BY DEF Request

LEMMA BuildChanges ==
  ASSUME NEW row \in BuildRow, NEW status \in BuildStatus
  PROVE  /\ Claimed(row) \in BuildRow /\ Claimed(row).id = row.id /\ Claimed(row).site = row.site
         /\ Claimed(row).status = "building" /\ Claimed(row).image = row.image
         /\ Ended(row, status) \in BuildRow /\ Ended(row, status).id = row.id
         /\ Ended(row, status).site = row.site /\ Ended(row, status).status = status
         /\ Ended(row, status).image = (status = "completed")
  BY DEF BuildRow, BuildStatus, Claimed, Ended

LEMMA BuildEdits ==
  ASSUME NEW row \in BuildRow, NEW r \in Request, r.op = "edit", NEW read \in BuildRow
  PROVE  /\ Requeued(row, r, read) \in BuildRow /\ Requeued(row, r, read).id = row.id
         /\ Requeued(row, r, read).site = row.site /\ Requeued(row, r, read).status = "queued"
         /\ Edited(row, r, read) \in BuildRow /\ Edited(row, r, read).id = row.id
         /\ Edited(row, r, read).site = row.site /\ Edited(row, r, read).image = row.image
         /\ Edited(row, r, read).status = Given(r.status, row.status)
  <1>1. r.status \in BuildStatus \cup {"same"} /\ r.config \in BOOLEAN
    BY RequestFields
  <1>2. Given(r.status, row.status) \in BuildStatus
    BY <1>1 DEF Given, BuildRow
  <1>3. (IF r.config THEN read.attempt ELSE row.attempt) \in BOOLEAN
    BY DEF BuildRow
  <1> QED
    BY <1>1, <1>2, <1>3 DEF BuildRow, BuildStatus, Requeued, Edited

LEMMA PageChanges ==
  ASSUME NEW p \in Pages, NEW id \in 1 .. MaxBuilds, NEW name \in Name, NEW gone \in SUBSET Name
  PROVE  /\ Deployed(p, id) \in Pages /\ Deployed(p, id).content = id
         /\ Deployed(p, id).names = p.names
         /\ Bound(p, name) \in Pages /\ Bound(p, name).content = p.content
         /\ Bound(p, name).names = p.names \cup {name}
         /\ Released(p, gone) \in Pages
  BY DEF Pages, Deployed, Bound, Released

-----------------------------------------------------------------------------
(* What one step of a request does to the rest.                            *)

Mem == SiteRow \cup BuildRow \cup ServeMem \cup StopMem \cup {None}
Steps == {"idle", "lock", "load", "writeStatus", "pick", "fresh",
          "markServing", "upload", "bind", "markLive", "markFailed",
          "unbind", "markStopped", "writeSite", "recheck", "checkBuilds",
          "writeDeleted", "insertBuild", "writeBuild", "dropBuild"}

DataType ==
  /\ sites \in [Site -> SiteRow]
  /\ builds \in [BuildId -> BuildRow \cup {None}]
  /\ made \in 0 .. MaxBuilds
  /\ pages \in [Site -> Pages]

ControlType ==
  /\ lock \in [Lock -> Handler \cup {None}]
  /\ pc \in [Handler -> Steps]
  /\ req \in [Handler -> Request \cup {None}]
  /\ todo \in [Handler -> Seq(Lock)]
  /\ mem \in [Handler -> Mem]

\* The others go on where they were, with the locks they have.
Apart(h) ==
  /\ \A g \in Handler : g # h => /\ pc'[g] = pc[g] /\ req'[g] = req[g]
                                 /\ todo'[g] = todo[g] /\ mem'[g] = mem[g]
  /\ \A g \in Handler, l \in Lock : g # h /\ lock[l] = g => lock'[l] = g

\* A row is written under its locks, and no row changes its site or its id.
Locked(h) ==
  /\ \A s \in Site : /\ sites'[s] # sites[s] => lock[s] = h
                     /\ sites'[s].domain # sites[s].domain => lock["domain"] = h
                     /\ pages'[s] # pages[s] => lock[s] = h
  /\ made <= made'
  /\ \A b \in BuildId : builds'[b] # builds[b] =>
       /\ lock["build"] = h
       /\ builds[b] # None => lock[builds[b].site] = h
       /\ builds'[b] # None =>
            \/ /\ builds[b] # None
               /\ builds'[b].id = builds[b].id /\ builds'[b].site = builds[b].site
            \/ builds'[b].id > made

LEMMA TypeParts == TypeOK <=> DataType /\ ControlType
  BY DEF TypeOK, DataType, ControlType, Mem, Steps

LEMMA FinishControl ==
  ASSUME ControlType, NEW h \in Handler, Finish(h)
  PROVE  ControlType' /\ Apart(h) /\ pc'[h] = "idle" /\ HandlerInv(h)'
  <1>1. ControlType'
    <2>1. <<>> \in Seq(Lock)
      OBVIOUS
    <2> QED
      BY <2>1 DEF Finish, ControlType, Steps, Mem
  <1>2. pc'[h] = "idle"
    BY DEF Finish, ControlType
  <1>3. HandlerInv(h)'
    BY <1>2 DEF HandlerInv, LockInv, ServeInv, ChangeInv, BuildInv, Deploying
  <1>4. Apart(h)
    BY SitesAssumption DEF Finish, ControlType, Apart
  <1> QED
    BY <1>1, <1>2, <1>3, <1>4

LEMMA ContinueControl ==
  ASSUME ControlType, NEW h \in Handler, NEW next \in Steps \ {"idle", "lock"}, NEW v \in Mem,
         Continue(h, next, v),
         LockInv(h), pc[h] \notin {"idle", "lock"},
         req[h].op \in {"edit", "drop"} => v.site = mem[h].site,
         next \in {"recheck", "checkBuilds", "writeDeleted"} =>
           req[h].op = "delete" /\ lock["build"] = h
  PROVE  /\ ControlType' /\ Apart(h) /\ LockInv(h)'
         /\ pc'[h] = next /\ mem'[h] = v /\ req' = req /\ lock' = lock
  <1>1. ControlType' /\ Apart(h) /\ pc'[h] = next /\ mem'[h] = v /\ req' = req /\ lock' = lock
    BY DEF Continue, Goto, Remember, ControlType, Apart
  <1>2. SiteAt(h)' = SiteAt(h)
    BY <1>1 DEF SiteAt
  <1>3. Holds(h)'
    BY <1>1, <1>2 DEF Holds, FirstLock, SecondLock, LockInv
  <1> QED
    BY <1>1, <1>2, <1>3 DEF LockInv

\* The others can still rely on what they have read.
LEMMA OthersKeep ==
  ASSUME SitesInv, DataType', NEW h \in Handler, Apart(h), Locked(h),
         NEW g \in Handler, g # h
  PROVE  HandlerInv(g)'
  <1>1. /\ pc'[g] = pc[g] /\ req'[g] = req[g] /\ todo'[g] = todo[g] /\ mem'[g] = mem[g]
        /\ \A l \in Lock : lock[l] = g => lock'[l] = g
        /\ \A l \in Lock : lock[l] = g => lock[l] # h
    BY DEF Apart
  <1>2. DataType /\ HandlerInv(g) /\ RowInv
    BY TypeParts DEF SitesInv
  <1>3. /\ SiteAt(g)' = SiteAt(g) /\ FirstLock(g)' = FirstLock(g)
        /\ SecondLock(g)' = SecondLock(g)
    BY <1>1 DEF SiteAt, FirstLock, SecondLock
  <1>4. LockInv(g)'
    <2>1. pc[g] # "idle" => FirstLock(g) \in Lock /\ SecondLock(g) \in Lock
      BY <1>2 DEF HandlerInv, LockInv, FirstLock, SecondLock, Lock
    <2>2. "build" \in Lock
      BY DEF Lock
    <2>3. Holds(g) /\ pc[g] # "idle" => Holds(g)'
      BY <1>1, <1>3, <2>1 DEF Holds
    <2> QED
      BY <1>1, <1>2, <1>3, <2>1, <2>2, <2>3 DEF HandlerInv, LockInv
  <1>5. \A s \in Site : lock[s] = g => sites'[s] = sites[s] /\ pages'[s] = pages[s]
    BY <1>1 DEF Locked, Lock
  <1>6. \A b \in BuildId : builds[b] # None /\ lock[builds[b].site] = g => builds'[b] = builds[b]
    <2>1. \A b \in BuildId : builds[b] # None => builds[b].site \in Lock
      BY <1>2 DEF DataType, BuildRow, Lock
    <2> QED
      BY <1>1, <2>1 DEF Locked
  <1>7. lock["build"] = g => builds' = builds
    BY <1>1, <1>2 DEF Locked, Lock, DataType
  <1>8. ServeInv(g)'
    <2> SUFFICES ASSUME pc[g] \in {"pick", "fresh", "markServing"} \cup Deploying
                 PROVE  ServeInv(g)'
      BY <1>1 DEF ServeInv
    <2>1. req[g].op = "serve" /\ req[g].site \in Site /\ lock[req[g].site] = g
      BY <1>2 DEF HandlerInv, ServeInv, LockInv, SiteAt, Holds, SecondLock, BuildOps, Deploying
    <2>2. sites'[req[g].site] = sites[req[g].site] /\ pages'[req[g].site] = pages[req[g].site]
      BY <1>5, <2>1
    <2>3. ServeInv(g)
      BY <1>2 DEF HandlerInv
    <2>4. pc[g] # "pick" => /\ mem[g].build \in Completed(req[g].site)'
                            /\ builds'[mem[g].build] = builds[mem[g].build]
      BY <1>1, <1>6, <2>1, <2>3 DEF ServeInv, Completed
    <2> QED
      BY <1>1, <2>1, <2>2, <2>3, <2>4 DEF ServeInv, Deploying
  <1>9. ChangeInv(g)'
    <2> USE <1>1 DEF Lock
    <2>1. ChangeInv(g) /\ LockInv(g)
      BY <1>2 DEF HandlerInv
    <2>2. ASSUME pc[g] = "writeSite"
          PROVE  /\ req[g].op = "update" /\ mem[g] \in SiteRow /\ ~mem[g].deleted
                 /\ req[g].domain \in Domain => Unowned(req[g].domain, req[g].site)'
      <3>1. req[g].op = "update" /\ lock["domain"] = g
        BY <2>1, <2>2 DEF ChangeInv, LockInv, Holds, FirstLock, BuildOps
      <3>2. \A t \in Site : sites'[t].domain = sites[t].domain
        BY <3>1 DEF Locked
      <3> QED
        BY <2>1, <2>2, <3>2 DEF ChangeInv, Unowned
    <2>3. ASSUME pc[g] \in {"checkBuilds", "writeDeleted"}
          PROVE  sites'[req[g].site].serve \notin Served
      <3>1. req[g].site \in Site /\ lock[req[g].site] = g
        BY <2>1, <2>3 DEF LockInv, Holds, SecondLock, SiteAt, BuildOps
      <3> QED
        BY <1>5, <2>1, <2>3, <3>1 DEF ChangeInv
    <2>4. ASSUME pc[g] = "writeDeleted" PROVE NoneActive(req[g].site)'
      <3>1. lock["build"] = g
        BY <2>1, <2>4 DEF LockInv
      <3> QED
        BY <1>7, <2>1, <2>4, <3>1 DEF ChangeInv, NoneActive
    <2> QED
      BY <2>2, <2>3, <2>4 DEF ChangeInv
  <1>10. BuildInv(g)'
    <2>1. BuildInv(g) /\ LockInv(g)
      BY <1>2 DEF HandlerInv
    <2>2. ASSUME pc[g] = "insertBuild"
          PROVE  req[g].op = "create" /\ ~sites'[req[g].site].deleted
      <3>1. req[g].op = "create" /\ req[g].site \in Site /\ lock[req[g].site] = g
        BY <2>1, <2>2 DEF BuildInv, LockInv, Holds, FirstLock, SiteAt, BuildOps
      <3> QED
        BY <1>5, <2>1, <2>2, <3>1 DEF BuildInv, IsActive
    <2>3. ASSUME pc[g] # "idle", req[g].op \in {"edit", "drop"}
          PROVE  /\ mem[g] \in BuildRow /\ mem[g].id <= made'
                 /\ builds'[req[g].build] # None /\ builds'[req[g].build].id = mem[g].id
                      => builds'[req[g].build].site = mem[g].site
      <3>1. req[g].build \in BuildId
        BY <2>1, <2>3, RequestFields DEF LockInv
      <3>2. mem[g] \in BuildRow /\ mem[g].id \in Nat /\ mem[g].id <= made
        BY <2>1, <2>3 DEF BuildInv, BuildRow
      <3>3. made \in Nat /\ made' \in Nat /\ made <= made'
        BY <1>2 DEF DataType, Locked
      <3>4. builds[req[g].build] # None /\ builds[req[g].build].id = mem[g].id
              => builds[req[g].build].site = mem[g].site
        BY <2>1, <2>3 DEF BuildInv
      <3>5. builds'[req[g].build] = None \/ builds'[req[g].build] \in BuildRow
        BY <3>1 DEF DataType
      <3> QED
        BY <3>1, <3>2, <3>3, <3>4, <3>5 DEF Locked, BuildRow
    <2>4. ASSUME pc[g] \in {"writeBuild", "dropBuild"}, req[g].op \in {"edit", "drop"}
          PROVE  /\ builds'[req[g].build] # None /\ builds'[req[g].build].id = mem[g].id
                 /\ builds'[req[g].build].status # "building" /\ ~sites'[mem[g].site].deleted
      <3>1. lock["build"] = g /\ lock[mem[g].site] = g /\ mem[g].site \in Site
        BY <2>1, <2>4 DEF LockInv, Holds, FirstLock, SecondLock, SiteAt, BuildOps
      <3> QED
        BY <1>5, <1>7, <2>1, <2>4, <3>1 DEF BuildInv, IsActive
    <2> QED
      BY <1>1, <2>1, <2>2, <2>3, <2>4 DEF BuildInv, IsActive
  <1> QED
    BY <1>4, <1>8, <1>9, <1>10 DEF HandlerInv

-----------------------------------------------------------------------------
(* The rows after a step: reads, and the three kinds of writes.            *)

GoodData(h) ==
  DataType' /\ Locked(h) /\ RowInv' /\ DomainsAreExclusive' /\ DeletedIsQuiet'

LEMMA ReadIsGood ==
  ASSUME SitesInv, UNCHANGED data, NEW h \in Handler
  PROVE  GoodData(h)
  <1>1. DataType
    BY TypeParts DEF SitesInv
  <1>2. made \in Nat
    BY <1>1 DEF DataType
  <1> QED
    BY <1>1, <1>2
    DEF SitesInv, GoodData, data, DataType, Locked, RowInv, DomainsAreExclusive, DeletedIsQuiet

LEMMA SiteWriteIsGood ==
  ASSUME SitesInv, NEW h \in Handler, NEW s \in Site, lock[s] = h,
         NEW row \in SiteRow, WriteRow(s, row), UNCHANGED <<builds, made, pages>>,
         \/ row.domain = sites[s].domain
         \/ lock["domain"] = h /\ (row.domain # None => Unowned(row.domain, s)),
         row.deleted => row.serve \notin Served /\ NoneActive(s)
  PROVE  GoodData(h) /\ sites'[s] = row /\ ~sites[s].deleted
  <1>1. DataType /\ RowInv /\ DomainsAreExclusive /\ DeletedIsQuiet
    BY TypeParts DEF SitesInv
  <1>2. sites' = [sites EXCEPT ![s] = row] /\ ~sites[s].deleted
    BY DEF WriteRow, IsActive
  <1>3. DataType' /\ sites'[s] = row /\ \A t \in Site \ {s} : sites'[t] = sites[t]
    BY <1>1, <1>2 DEF DataType
  <1>4. Locked(h)
    <2>1. made \in Nat
      BY <1>1 DEF DataType
    <2> QED
      BY <1>3, <2>1 DEF Locked
  <1>5. RowInv'
    BY <1>1 DEF RowInv
  <1>6. DomainsAreExclusive'
    BY <1>1, <1>3 DEF DomainsAreExclusive, Unowned
  <1>7. DeletedIsQuiet'
    BY <1>1, <1>3 DEF DeletedIsQuiet, NoneActive
  <1> QED
    BY <1>2, <1>3, <1>4, <1>5, <1>6, <1>7 DEF GoodData

LEMMA BuildWriteIsGood ==
  ASSUME SitesInv, NEW h \in Handler, NEW b \in BuildId, lock["build"] = h,
         NEW row \in BuildRow \cup {None},
         builds' = [builds EXCEPT ![b] = row], UNCHANGED <<sites, pages>>,
         builds[b] # None => lock[builds[b].site] = h,
         row # None =>
           /\ lock[row.site] = h /\ ~sites[row.site].deleted
           /\ row.status = "completed" => row.image,
         \/ made' = made /\ row = None
         \/ /\ made' = made /\ row # None /\ builds[b] # None
            /\ row.id = builds[b].id /\ row.site = builds[b].site
         \/ made < MaxBuilds /\ made' = made + 1 /\ row # None /\ row.id = made + 1
  PROVE  GoodData(h)
  <1>1. DataType /\ RowInv /\ DomainsAreExclusive /\ DeletedIsQuiet
    BY TypeParts DEF SitesInv
  <1>2. made \in Nat /\ made' \in 0 .. MaxBuilds /\ made <= made'
    BY <1>1, SitesAssumption DEF DataType
  <1>3. DataType' /\ builds'[b] = row /\ \A c \in BuildId \ {b} : builds'[c] = builds[c]
    BY <1>1, <1>2 DEF DataType
  <1>4. Locked(h)
    BY <1>2, <1>3 DEF Locked
  <1>5. RowInv'
    <2>1. \A c \in BuildId : builds[c] # None => builds[c].id \in Nat
      BY <1>1 DEF DataType, BuildRow
    <2> QED
      BY <1>1, <1>2, <1>3, <2>1 DEF RowInv
  <1>6. DomainsAreExclusive'
    BY <1>1 DEF DomainsAreExclusive
  <1>7. DeletedIsQuiet'
    BY <1>1, <1>3 DEF DeletedIsQuiet
  <1> QED
    BY <1>3, <1>4, <1>5, <1>6, <1>7 DEF GoodData

LEMMA PageWriteIsGood ==
  ASSUME SitesInv, NEW h \in Handler, NEW s \in Site, lock[s] = h,
         NEW page \in Pages, pages' \in {pages, [pages EXCEPT ![s] = page]},
         UNCHANGED <<sites, builds, made>>
  PROVE  GoodData(h)
  <1>1. DataType /\ RowInv /\ DomainsAreExclusive /\ DeletedIsQuiet
    BY TypeParts DEF SitesInv
  <1>2. made \in Nat /\ DataType' /\ \A t \in Site \ {s} : pages'[t] = pages[t]
    BY <1>1 DEF DataType
  <1>3. Locked(h)
    BY <1>2 DEF Locked
  <1> QED
    BY <1>1, <1>2, <1>3 DEF GoodData, RowInv, DomainsAreExclusive, DeletedIsQuiet

-----------------------------------------------------------------------------
(* Requests and locks.                                                     *)

GoodControl(h) == ControlType' /\ Apart(h) /\ HandlerInv(h)'
Good(h) == GoodData(h) /\ GoodControl(h)

LEMMA FinishIsGood ==
  ASSUME SitesInv, NEW h \in Handler, Finish(h)
  PROVE  GoodControl(h)
  BY TypeParts, FinishControl DEF SitesInv, GoodControl

LEMMA TodoFacts ==
  ASSUME NEW a \in Lock, NEW b \in Lock
  PROVE  /\ <<a, b>> \in Seq(Lock) /\ Len(<<a, b>>) = 2
         /\ Head(<<a, b>>) = a /\ Tail(<<a, b>>) = <<b>>
         /\ <<a>> \in Seq(Lock) /\ Len(<<a>>) = 1
         /\ Head(<<a>>) = a /\ Tail(<<a>>) = <<>> /\ <<>> \in Seq(Lock)
  OBVIOUS

LEMMA BeginIsGood ==
  ASSUME SitesInv, NEW h \in Handler, NEW r \in Workload, Begin(h, r)
  PROVE  Good(h)
  <1>1. DataType /\ ControlType /\ RowInv
    BY TypeParts DEF SitesInv
  <1>2. r \in Request
    BY SitesAssumption
  <1> DEFINE v == IF r.op \in {"edit", "drop"} THEN builds[r.build] ELSE None
  <1>3. /\ r.op \in {"edit", "drop"} => builds[r.build] \in BuildRow /\ builds[r.build].id <= made
                                        /\ builds[r.build].site \in Site
        /\ SiteOf(r) \in Site
    BY <1>1, <1>2, RequestFields DEF Begin, DataType, RowInv, SiteOf, BuildRow
  <1>4. v \in Mem
    BY <1>3 DEF Mem
  <1>5. Path(r.op, SiteOf(r)) \in Seq(Lock)
    <2>1. SiteOf(r) \in Lock /\ "domain" \in Lock /\ "build" \in Lock
      BY <1>3 DEF Lock
    <2> QED
      BY <2>1, TodoFacts DEF Path, BuildPath, SitePath
  <1>6. ControlType'
    BY <1>1, <1>2, <1>4, <1>5 DEF Begin, Goto, Remember, ControlType, Steps
  <1>7. Apart(h)
    BY <1>1 DEF Begin, Goto, Remember, Apart, ControlType
  <1>8. pc'[h] = "lock" /\ req'[h] = r /\ mem'[h] = v /\ todo'[h] = Path(r.op, SiteOf(r))
    BY <1>1 DEF Begin, Goto, Remember, ControlType
  <1>9. SiteAt(h)' = SiteOf(r)
    BY <1>8 DEF SiteAt, SiteOf
  <1>10. LockInv(h)'
    BY <1>2, <1>3, <1>8, <1>9 DEF LockInv, FirstLock, SecondLock, Path, BuildPath, SitePath
  <1>11. ServeInv(h)' /\ ChangeInv(h)'
    BY <1>8 DEF ServeInv, ChangeInv, Deploying
  <1>12. BuildInv(h)'
    BY <1>3, <1>8 DEF BuildInv, Begin, data
  <1>13. GoodData(h)
    BY ReadIsGood DEF Begin
  <1> QED
    BY <1>6, <1>7, <1>10, <1>11, <1>12, <1>13 DEF Good, GoodControl, HandlerInv

LEMMA AcquireIsGood ==
  ASSUME SitesInv, NEW h \in Handler, Acquire(h)
  PROVE  Good(h)
  <1>1. DataType /\ ControlType /\ LockInv(h) /\ BuildInv(h)
    BY TypeParts DEF SitesInv, HandlerInv
  <1> DEFINE l == Head(todo[h])
  <1>2. /\ pc[h] = "lock" /\ req[h] \in Request /\ SiteAt(h) \in Site
        /\ FirstLock(h) \in Lock /\ SecondLock(h) \in Lock
        /\ \/ todo[h] = <<FirstLock(h), SecondLock(h)>>
           \/ todo[h] = <<SecondLock(h)>> /\ lock[FirstLock(h)] = h
           \/ todo[h] = <<"build">> /\ req[h].op = "delete" /\ Holds(h)
    BY <1>1 DEF Acquire, LockInv, FirstLock, SecondLock, Lock
  <1>3. l \in Lock /\ lock[l] = None /\ Tail(todo[h]) \in Seq(Lock)
    <2>1. "build" \in Lock
      BY DEF Lock
    <2>2. lock[l] = None
      BY DEF Acquire
    <2>3. ASSUME NEW a \in Lock, NEW b \in Lock, todo[h] = <<a, b>>
          PROVE  Head(todo[h]) \in Lock /\ Tail(todo[h]) \in Seq(Lock)
      BY <2>3, TodoFacts
    <2>4. ASSUME NEW a \in Lock, todo[h] = <<a>>
          PROVE  Head(todo[h]) \in Lock /\ Tail(todo[h]) \in Seq(Lock)
      BY <2>4, TodoFacts
    <2>5. Head(todo[h]) \in Lock /\ Tail(todo[h]) \in Seq(Lock)
      BY <1>2, <2>1, <2>3, <2>4
    <2> QED
      BY <2>2, <2>5
  <1>4. /\ lock' = [lock EXCEPT ![l] = h] /\ todo' = [todo EXCEPT ![h] = Tail(@)]
        /\ req' = req /\ mem' = mem /\ UNCHANGED data
        /\ pc' = [pc EXCEPT ![h] = IF Len(todo[h]) > 1 THEN "lock"
                                   ELSE IF req[h].op = "delete" /\ l = "build" THEN "recheck"
                                   ELSE "load"]
    BY DEF Acquire, Goto
  <1> HIDE DEF l
  <1>5. ControlType' /\ Apart(h)
    BY <1>1, <1>3, <1>4, SitesAssumption DEF ControlType, Apart, Steps
  <1>6. SiteAt(h)' = SiteAt(h) /\ FirstLock(h)' = FirstLock(h) /\ SecondLock(h)' = SecondLock(h)
    BY <1>4 DEF SiteAt, FirstLock, SecondLock
  <1>7. LockInv(h)'
    <2>1. /\ lock'[l] = h /\ todo'[h] = Tail(todo[h])
          /\ \A k \in Lock : lock[k] = h => lock'[k] = h
          /\ pc'[h] = IF Len(todo[h]) > 1 THEN "lock"
                      ELSE IF req[h].op = "delete" /\ l = "build" THEN "recheck" ELSE "load"
      BY <1>1, <1>3, <1>4 DEF ControlType
    <2>2. CASE todo[h] = <<FirstLock(h), SecondLock(h)>>
      <3>1. l = FirstLock(h) /\ Len(todo[h]) = 2 /\ Tail(todo[h]) = <<SecondLock(h)>>
        BY <2>2 DEF l
      <3> QED
        BY <1>2, <1>4, <1>6, <2>1, <3>1 DEF LockInv
    <2>3. CASE todo[h] = <<SecondLock(h)>> /\ lock[FirstLock(h)] = h
      <3>1. l = SecondLock(h) /\ Len(todo[h]) = 1
        BY <2>3 DEF l
      <3>2. Holds(h)'
        BY <1>2, <1>6, <2>1, <2>3, <3>1 DEF Holds
      <3> QED
        BY <1>2, <1>4, <1>6, <2>1, <3>1, <3>2 DEF LockInv
    <2>4. CASE todo[h] = <<"build">> /\ req[h].op = "delete" /\ Holds(h)
      <3>1. l = "build" /\ Len(todo[h]) = 1
        BY <2>4 DEF l
      <3>2. Holds(h)'
        BY <1>2, <1>6, <2>1, <2>4 DEF Holds
      <3> QED
        BY <1>2, <1>4, <1>6, <2>1, <2>4, <3>1, <3>2 DEF LockInv
    <2> QED
      BY <1>2, <2>2, <2>3, <2>4
  <1>8. pc'[h] \in {"lock", "recheck", "load"} /\ pc[h] = "lock"
    BY <1>1, <1>2, <1>4 DEF ControlType
  <1>9. ServeInv(h)' /\ ChangeInv(h)'
    BY <1>8 DEF ServeInv, ChangeInv, Deploying
  <1>10. BuildInv(h)'
    BY <1>1, <1>4, <1>8 DEF BuildInv, data
  <1>11. GoodData(h)
    BY <1>4, ReadIsGood
  <1> QED
    BY <1>5, <1>7, <1>9, <1>10, <1>11 DEF Good, GoodControl, HandlerInv

LEMMA AbortIsGood ==
  ASSUME SitesInv, NEW h \in Handler, Abort(h)
  PROVE  Good(h)
  BY FinishIsGood, ReadIsGood DEF Abort, Good

-----------------------------------------------------------------------------
(* Requests about a site.                                                  *)

LEMMA SiteLocks ==
  ASSUME SitesInv, NEW h \in Handler, pc[h] \notin {"idle", "lock"},
         req[h].op \in {"status", "serve", "stop", "update", "delete"}
  PROVE  /\ req[h] \in Request /\ req[h].site \in Site
         /\ lock[req[h].site] = h /\ lock["domain"] = h
         /\ sites[req[h].site] \in SiteRow /\ pages[req[h].site] \in Pages
         /\ \A v : req[h].op \in {"edit", "drop"} => v.site = mem[h].site
  BY TypeParts
  DEF SitesInv, HandlerInv, LockInv, Holds, FirstLock, SecondLock, SiteAt, BuildOps, DataType

\* A step of a request about a site to its next await.
LEMMA SiteContinues ==
  ASSUME SitesInv, NEW h \in Handler, NEW next \in Steps \ {"idle", "lock"}, NEW v \in Mem,
         Continue(h, next, v), pc[h] \notin {"idle", "lock"},
         req[h].op \in {"status", "serve", "stop", "update", "delete"},
         next \in {"recheck", "checkBuilds", "writeDeleted"} =>
           req[h].op = "delete" /\ lock["build"] = h,
         next \notin {"insertBuild", "writeBuild", "dropBuild"},
         next \in {"pick", "fresh", "markServing"} \cup Deploying => ServeInv(h)',
         next \in {"writeSite", "checkBuilds", "writeDeleted"} => ChangeInv(h)'
  PROVE  GoodControl(h)
  <1>1. ControlType /\ LockInv(h)
    BY TypeParts DEF SitesInv, HandlerInv
  <1>2. /\ ControlType' /\ Apart(h) /\ LockInv(h)'
        /\ pc'[h] = next /\ mem'[h] = v /\ req' = req /\ lock' = lock
    BY <1>1, SiteLocks, ContinueControl
  <1>3. ServeInv(h)' /\ ChangeInv(h)'
    BY <1>2 DEF ServeInv, ChangeInv
  <1>4. BuildInv(h)'
    BY <1>2 DEF BuildInv
  <1> QED
    BY <1>2, <1>3, <1>4 DEF GoodControl, HandlerInv

\* What a continuing step leaves to the handler.
LEMMA Continued ==
  ASSUME SitesInv, NEW h \in Handler, NEW next, NEW v, Continue(h, next, v)
  PROVE  pc'[h] = next /\ mem'[h] = v /\ req' = req /\ lock' = lock
  BY TypeParts DEF SitesInv, ControlType, Continue, Goto, Remember

\* A change of a row that keeps its domain and its deletion marker.
LEMMA RowChangeIsGood ==
  ASSUME SitesInv, NEW h \in Handler, NEW s \in Site, lock[s] = h,
         NEW row \in SiteRow, WriteRow(s, row), UNCHANGED <<builds, made, pages>>,
         row.domain = sites[s].domain, row.deleted = sites[s].deleted
  PROVE  GoodData(h) /\ sites'[s] = row /\ ~sites[s].deleted
  BY SiteWriteIsGood DEF WriteRow, IsActive

LEMMA SetServeIsGood ==
  ASSUME SitesInv, NEW h \in Handler, NEW s \in Site, lock[s] = h,
         NEW status \in ServeStatus, SetServe(s, status), UNCHANGED <<builds, made, pages>>
  PROVE  GoodData(h) /\ sites'[s] = [sites[s] EXCEPT !.serve = status] /\ ~sites[s].deleted
  <1>1. sites[s] \in SiteRow
    BY TypeParts DEF SitesInv, DataType
  <1>2. [sites[s] EXCEPT !.serve = status] \in SiteRow
    BY <1>1 DEF SiteRow
  <1> QED
    BY <1>1, <1>2, RowChangeIsGood DEF SetServe, SiteRow

LEMMA StatusIsGood ==
  ASSUME SitesInv, NEW h \in Handler, LoadStatus(h) \/ WriteStatus(h)
  PROVE  Good(h)
  <1>1. CASE LoadStatus(h)
    <2>1. GoodControl(h)
      BY <1>1, SiteContinues DEF LoadStatus, At, Steps, Mem, Deploying
    <2> QED
      BY <1>1, <2>1, ReadIsGood DEF LoadStatus, Good
  <1>2. CASE WriteStatus(h)
    <2>1. req[h].site \in Site /\ lock[req[h].site] = h /\ req[h].to \in ServeStatus
      BY <1>2, SiteLocks, RequestFields DEF WriteStatus, At, ManualServeStatus, ServeStatus
    <2> QED
      BY <1>2, <2>1, SetServeIsGood, FinishIsGood DEF WriteStatus, Good
  <1> QED
    BY <1>1, <1>2

LEMMA ServeReadIsGood ==
  ASSUME SitesInv, NEW h \in Handler, LoadServe(h) \/ PickBuild(h) \/ ReadFresh(h)
  PROVE  Good(h)
  <1>1. GoodData(h) /\ UNCHANGED data
    BY ReadIsGood DEF LoadServe, PickBuild, ReadFresh
  <1>2. /\ req[h].op = "serve" /\ pc[h] \in {"load", "pick", "fresh"}
        /\ req[h].site \in Site /\ sites[req[h].site] \in SiteRow
    BY SiteLocks DEF LoadServe, PickBuild, ReadFresh, At
  <1>3. ServeInv(h)
    BY DEF SitesInv, HandlerInv
  <1>4. CASE LoadServe(h)
    <2> DEFINE v == [domain |-> sites[req[h].site].domain, build |-> None]
    <2>1. Continue(h, "pick", v) /\ ~sites[req[h].site].deleted
      BY <1>4 DEF LoadServe, IsActive
    <2>2. v \in ServeMem
      BY <1>2 DEF ServeMem, SiteRow
    <2>3. pc'[h] = "pick" /\ mem'[h] = v /\ req' = req
      BY <2>1, Continued
    <2>4. ServeInv(h)'
      BY <1>1, <1>2, <2>1, <2>2, <2>3 DEF ServeInv, data, Deploying
    <2>5. GoodControl(h)
      BY <1>2, <2>1, <2>2, <2>4, SiteContinues DEF Steps, Mem
    <2> QED
      BY <1>1, <2>5 DEF Good
  <1>5. CASE PickBuild(h)
    <2>1. PICK b \in Completed(req[h].site) : Continue(h, "fresh", [mem[h] EXCEPT !.build = b])
      BY <1>5 DEF PickBuild
    <2> DEFINE v == [mem[h] EXCEPT !.build = b]
    <2>2. b \in BuildId /\ mem[h] \in ServeMem
      BY <1>3, <1>5 DEF PickBuild, At, Completed, ServeInv
    <2>3. v \in ServeMem /\ v.domain = mem[h].domain /\ v.build = b
      BY <2>2 DEF ServeMem
    <2>4. pc'[h] = "fresh" /\ mem'[h] = v /\ req' = req
      BY <2>1, Continued
    <2>5. ServeInv(h)'
      BY <1>1, <1>3, <1>5, <2>1, <2>3, <2>4 DEF ServeInv, PickBuild, At, data, Deploying, Completed
    <2>6. GoodControl(h)
      BY <1>2, <2>1, <2>3, <2>5, SiteContinues DEF Steps, Mem
    <2> QED
      BY <1>1, <2>6 DEF Good
  <1>6. CASE ReadFresh(h)
    <2>1. Continue(h, "markServing", mem[h]) /\ pc[h] = "fresh" /\ mem[h] \in ServeMem
      BY <1>3, <1>6 DEF ReadFresh, At, ServeInv
    <2>2. pc'[h] = "markServing" /\ mem'[h] = mem[h] /\ req' = req
      BY <2>1, Continued
    <2>3. ServeInv(h)'
      BY <1>1, <1>3, <2>1, <2>2 DEF ServeInv, data, Deploying, Completed
    <2>4. GoodControl(h)
      BY <1>2, <2>1, <2>3, SiteContinues DEF Steps, Mem
    <2> QED
      BY <1>1, <2>4 DEF Good
  <1> QED
    BY <1>4, <1>5, <1>6

LEMMA MarkServingIsGood ==
  ASSUME SitesInv, NEW h \in Handler, MarkServing(h)
  PROVE  Good(h)
  <1>1. /\ req[h].op = "serve" /\ pc[h] = "markServing" /\ Continue(h, "upload", mem[h])
        /\ req[h].site \in Site /\ sites[req[h].site] \in SiteRow /\ lock[req[h].site] = h
    BY SiteLocks DEF MarkServing, At
  <1>2. ServeInv(h) /\ mem[h] \in ServeMem
    BY <1>1 DEF SitesInv, HandlerInv, ServeInv
  <1>3. /\ GoodData(h) /\ ~sites[req[h].site].deleted
        /\ sites'[req[h].site] = [sites[req[h].site] EXCEPT !.serve = "serving"]
    BY <1>1, SetServeIsGood DEF MarkServing, ServeStatus
  <1>4. pc'[h] = "upload" /\ mem'[h] = mem[h] /\ req' = req
    BY <1>1, Continued
  <1>5. UNCHANGED <<builds, pages>>
    BY DEF MarkServing
  <1>6. ServeInv(h)'
    BY <1>1, <1>2, <1>3, <1>4, <1>5 DEF ServeInv, Deploying, Completed, SiteRow
  <1>7. GoodControl(h)
    BY <1>1, <1>2, <1>6, SiteContinues DEF Steps, Mem
  <1> QED
    BY <1>3, <1>7 DEF Good

LEMMA UploadIsGood ==
  ASSUME SitesInv, NEW h \in Handler, Upload(h)
  PROVE  Good(h)
  <1> DEFINE s == req[h].site
  <1>1. /\ req[h].op = "serve" /\ pc[h] = "upload"
        /\ s \in Site /\ lock[s] = h /\ pages[s] \in Pages
    BY SiteLocks DEF Upload, At
  <1>2. /\ ServeInv(h) /\ mem[h] \in ServeMem
        /\ mem[h].build \in BuildId /\ builds[mem[h].build] # None
    BY <1>1 DEF SitesInv, HandlerInv, ServeInv, Completed, Deploying
  <1> DEFINE id == builds[mem[h].build].id
             page == Deployed(pages[s], id)
  <1>3. id \in 1 .. MaxBuilds
    BY <1>2, TypeParts DEF SitesInv, DataType, BuildRow
  <1>4. page \in Pages /\ page.content = id
    BY <1>1, <1>3, PageChanges DEF Name
  <1>5. PICK ok \in BOOLEAN, landed \in BOOLEAN :
          /\ ok => landed
          /\ pages' = IF landed THEN [pages EXCEPT ![s] = page] ELSE pages
          /\ Continue(h, IF ok THEN "bind" ELSE "markFailed", mem[h])
    BY DEF Upload
  <1>6. UNCHANGED <<sites, builds, made>>
    BY DEF Upload
  <1> HIDE DEF page, id
  <1>7. GoodData(h)
    BY <1>1, <1>4, <1>5, <1>6, PageWriteIsGood
  <1>8. pages \in [Site -> Pages]
    BY TypeParts DEF SitesInv, DataType
  <1>9. /\ pc'[h] = (IF ok THEN "bind" ELSE "markFailed") /\ mem'[h] = mem[h] /\ req' = req
        /\ ok => pages'[s].content = id
    BY <1>1, <1>4, <1>5, <1>8, Continued
  <1>10. ServeInv(h)'
    BY <1>1, <1>2, <1>6, <1>9 DEF ServeInv, Deploying, Completed, id
  <1>11. GoodControl(h)
    BY <1>1, <1>2, <1>5, <1>10, SiteContinues DEF Steps, Mem
  <1> QED
    BY <1>7, <1>11 DEF Good

LEMMA BindIsGood ==
  ASSUME SitesInv, NEW h \in Handler, Bind(h)
  PROVE  Good(h)
  <1> DEFINE s == req[h].site
             name == NameOf(mem[h].domain)
             page == Bound(pages[s], name)
  <1>1. /\ req[h].op = "serve" /\ pc[h] = "bind"
        /\ s \in Site /\ lock[s] = h /\ pages[s] \in Pages
    BY SiteLocks DEF Bind, At
  <1>2. ServeInv(h) /\ mem[h] \in ServeMem
    BY <1>1 DEF SitesInv, HandlerInv, ServeInv, Deploying
  <1>3. name \in Name
    BY <1>2 DEF NameOf, Name, ServeMem
  <1>4. page \in Pages /\ page.content = pages[s].content /\ name \in page.names
    <2> HIDE DEF name
    <2>1. /\ page \in Pages /\ page.content = pages[s].content
          /\ page.names = pages[s].names \cup {name}
      BY <1>1, <1>3 DEF Pages, Bound
    <2> QED
      BY <2>1
  <1>5. PICK ok \in BOOLEAN, landed \in BOOLEAN :
          /\ ok => landed
          /\ pages' = IF landed THEN [pages EXCEPT ![s] = page] ELSE pages
          /\ Continue(h, AfterBind(ok), mem[h])
    BY DEF Bind
  <1>6. UNCHANGED <<sites, builds, made>>
    BY DEF Bind
  <1> HIDE DEF page, name
  <1>7. GoodData(h)
    BY <1>1, <1>4, <1>5, <1>6, PageWriteIsGood
  <1>8. pages \in [Site -> Pages]
    BY TypeParts DEF SitesInv, DataType
  <1>9. /\ pc'[h] = (IF ok THEN "markLive" ELSE "markFailed") /\ mem'[h] = mem[h] /\ req' = req
        /\ pages'[s].content = pages[s].content
        /\ ok => name \in pages'[s].names
    BY <1>1, <1>4, <1>5, <1>8, Continued DEF AfterBind
  <1>10. ServeInv(h)'
    BY <1>1, <1>2, <1>6, <1>9 DEF ServeInv, Deploying, Completed, name
  <1>11. GoodControl(h)
    BY <1>1, <1>2, <1>5, <1>10, SiteContinues DEF Steps, Mem, AfterBind
  <1> QED
    BY <1>7, <1>11 DEF Good

LEMMA MarksAreGood ==
  ASSUME SitesInv, NEW h \in Handler, MarkFailed(h) \/ MarkLive(h) \/ MarkStopped(h)
  PROVE  Good(h)
  <1>1. /\ req[h].site \in Site /\ sites[req[h].site] \in SiteRow /\ lock[req[h].site] = h
        /\ UNCHANGED <<builds, made, pages>> /\ Finish(h)
    BY SiteLocks DEF MarkFailed, MarkLive, MarkStopped, At
  <1>2. PICK serve \in ServeStatus, status \in SiteStatus :
          WriteRow(req[h].site, [sites[req[h].site] EXCEPT !.serve = serve, !.status = status])
    <2>1. CASE MarkFailed(h)
      <3>1. [sites[req[h].site] EXCEPT !.serve = "failed", !.status = sites[req[h].site].status]
              = [sites[req[h].site] EXCEPT !.serve = "failed"]
        BY <1>1 DEF SiteRow
      <3> QED
        BY <1>1, <2>1, <3>1 DEF MarkFailed, SetServe, ServeStatus, SiteRow
    <2>2. CASE MarkLive(h)
      BY <2>2 DEF MarkLive, ServeStatus, SiteStatus
    <2>3. CASE MarkStopped(h)
      BY <2>3 DEF MarkStopped, ServeStatus, SiteStatus
    <2> QED
      BY <2>1, <2>2, <2>3
  <1> DEFINE row == [sites[req[h].site] EXCEPT !.serve = serve, !.status = status]
  <1>3. /\ row \in SiteRow /\ row.domain = sites[req[h].site].domain
        /\ row.deleted = sites[req[h].site].deleted
    BY <1>1 DEF SiteRow
  <1>4. GoodData(h)
    BY <1>1, <1>2, <1>3, RowChangeIsGood
  <1> QED
    BY <1>1, <1>4, FinishIsGood DEF Good

LEMMA StopIsGood ==
  ASSUME SitesInv, NEW h \in Handler, LoadStop(h) \/ Unbind(h)
  PROVE  Good(h)
  <1>1. /\ req[h].op = "stop" /\ pc[h] \notin {"idle", "lock"} /\ req[h].site \in Site
        /\ lock[req[h].site] = h
        /\ sites[req[h].site] \in SiteRow /\ pages[req[h].site] \in Pages
    BY SiteLocks DEF LoadStop, Unbind, At
  <1>2. CASE LoadStop(h)
    <2>1. PICK linked \in {{}, {sites[req[h].site].domain} \ {None}} :
            Continue(h, "unbind", [names |-> linked \cup {"own"}])
      BY <1>2 DEF LoadStop
    <2>2. [names |-> linked \cup {"own"}] \in Mem
      BY <1>1 DEF Mem, StopMem, Name, SiteRow
    <2>3. GoodControl(h)
      BY <1>1, <2>1, <2>2, SiteContinues DEF Steps, Deploying
    <2> QED
      BY <1>2, <2>3, ReadIsGood DEF LoadStop, Good
  <1>3. CASE Unbind(h)
    <2>1. PICK gone \in SUBSET mem[h].names :
            /\ pages' = [pages EXCEPT ![req[h].site] = Released(@, gone)]
            /\ Continue(h, "markStopped", mem[h]) \/ Finish(h)
      BY <1>3 DEF Unbind
    <2>2. Released(pages[req[h].site], gone) \in Pages
      BY <1>1 DEF Pages, Released
    <2>3. GoodData(h)
      BY <1>1, <1>3, <2>1, <2>2, PageWriteIsGood DEF Unbind
    <2>4. mem[h] \in Mem
      BY TypeParts DEF SitesInv, ControlType
    <2>5. GoodControl(h)
      BY <1>1, <2>1, <2>4, SiteContinues, FinishIsGood DEF Steps, Deploying
    <2> QED
      BY <2>3, <2>5 DEF Good
  <1> QED
    BY <1>2, <1>3

LEMMA UpdateIsGood ==
  ASSUME SitesInv, NEW h \in Handler, LoadUpdate(h) \/ WriteSite(h)
  PROVE  Good(h)
  <1> DEFINE s == req[h].site
  <1>1. /\ req[h].op = "update" /\ pc[h] \notin {"idle", "lock"} /\ req[h] \in Request
        /\ s \in Site /\ lock[s] = h /\ lock["domain"] = h /\ sites[s] \in SiteRow
    BY SiteLocks DEF LoadUpdate, WriteSite, At
  <1>2. CASE LoadUpdate(h)
    <2>1. /\ Continue(h, "writeSite", sites[s]) /\ ~sites[s].deleted
          /\ req[h].domain \in Domain => Unowned(req[h].domain, s)
          /\ UNCHANGED data
      BY <1>2 DEF LoadUpdate, IsActive
    <2>2. pc'[h] = "writeSite" /\ mem'[h] = sites[s] /\ req' = req
      BY <2>1, Continued
    <2>3. ChangeInv(h)'
      BY <1>1, <2>1, <2>2 DEF ChangeInv, Unowned, data
    <2>4. GoodControl(h)
      BY <1>1, <2>1, <2>3, SiteContinues DEF Steps, Mem, Deploying
    <2> QED
      BY <2>1, <2>4, ReadIsGood DEF Good
  <1>3. CASE WriteSite(h)
    <2> DEFINE row == [sites[s] EXCEPT !.domain = Given(req[h].domain, @),
                                       !.status = Given(req[h].status, @),
                                       !.deleted = IF req[h].config THEN mem[h].deleted ELSE @]
    <2>1. WriteRow(s, row) /\ Finish(h) /\ UNCHANGED <<builds, made, pages>>
      BY <1>3 DEF WriteSite
    <2>2. /\ mem[h] \in SiteRow /\ ~mem[h].deleted
          /\ req[h].domain \in Domain => Unowned(req[h].domain, s)
      BY <1>3 DEF WriteSite, At, SitesInv, HandlerInv, ChangeInv
    <2>3. /\ req[h].domain \in Domain \cup {None, "same"}
          /\ req[h].status \in SiteStatus \cup {"same"} /\ req[h].config \in BOOLEAN
      BY <1>1, RequestFields
    <2>4. ~sites[s].deleted
      BY <2>1 DEF WriteRow, IsActive
    <2>5. /\ row \in SiteRow /\ row.domain = Given(req[h].domain, sites[s].domain)
          /\ ~row.deleted
      <3> DEFINE domain  == Given(req[h].domain, sites[s].domain)
                 status  == Given(req[h].status, sites[s].status)
                 deleted == IF req[h].config THEN mem[h].deleted ELSE sites[s].deleted
      <3>1. domain \in Domain \cup {None} /\ status \in SiteStatus
        BY <1>1, <2>3 DEF Given, SiteRow
      <3>2. deleted \in BOOLEAN /\ ~deleted
        BY <1>1, <2>2, <2>4 DEF SiteRow
      <3>3. row = [sites[s] EXCEPT !.domain = domain, !.status = status, !.deleted = deleted]
        OBVIOUS
      <3> HIDE DEF row, domain, status, deleted
      <3>4. row \in SiteRow /\ row.domain = domain /\ ~row.deleted
        BY <1>1, <3>1, <3>2, <3>3 DEF SiteRow
      <3> QED
        BY <3>4 DEF domain
    <2>6. row.domain = sites[s].domain \/ (row.domain # None => Unowned(row.domain, s))
      BY <2>2, <2>3, <2>5 DEF Given
    <2> HIDE DEF row
    <2>7. GoodData(h)
      BY <1>1, <2>1, <2>5, <2>6, SiteWriteIsGood
    <2> QED
      BY <2>1, <2>7, FinishIsGood DEF Good
  <1> QED
    BY <1>2, <1>3

LEMMA DeleteIsGood ==
  ASSUME SitesInv, NEW h \in Handler,
         LoadDelete(h) \/ Recheck(h) \/ CheckBuilds(h) \/ WriteDeleted(h)
  PROVE  Good(h)
  <1> DEFINE s == req[h].site
  <1>1. /\ req[h].op = "delete" /\ pc[h] \notin {"idle", "lock"} /\ req[h] \in Request
        /\ s \in Site /\ lock[s] = h /\ sites[s] \in SiteRow
    BY SiteLocks DEF LoadDelete, Recheck, CheckBuilds, WriteDeleted, At
  <1>2. DataType /\ ControlType /\ HandlerInv(h)
    BY TypeParts DEF SitesInv
  <1>3. CASE LoadDelete(h)
    <2>1. /\ todo' = [todo EXCEPT ![h] = <<"build">>] /\ pc' = [pc EXCEPT ![h] = "lock"]
          /\ UNCHANGED <<data, lock, req, mem>> /\ pc[h] = "load"
      BY <1>3 DEF LoadDelete, Goto, At
    <2>2. <<"build">> \in Seq(Lock)
      BY DEF Lock
    <2>3. ControlType' /\ Apart(h)
      BY <1>2, <2>1, <2>2 DEF ControlType, Apart, Steps
    <2>4. pc'[h] = "lock" /\ todo'[h] = <<"build">>
      BY <1>2, <2>1 DEF ControlType
    <2>5. SiteAt(h)' = SiteAt(h) /\ FirstLock(h)' = FirstLock(h) /\ SecondLock(h)' = SecondLock(h)
      BY <2>1 DEF SiteAt, FirstLock, SecondLock
    <2>6. LockInv(h)'
      BY <1>1, <1>2, <2>1, <2>4, <2>5 DEF HandlerInv, LockInv, Holds
    <2>7. ServeInv(h)' /\ ChangeInv(h)' /\ BuildInv(h)'
      BY <1>1, <2>1, <2>4 DEF ServeInv, ChangeInv, BuildInv, Deploying
    <2> QED
      BY <2>1, <2>3, <2>6, <2>7, ReadIsGood DEF Good, GoodControl, HandlerInv
  <1>4. CASE Recheck(h)
    <2>1. /\ Continue(h, "checkBuilds", None) /\ sites[s].serve \notin Served
          /\ UNCHANGED data /\ lock["build"] = h
      BY <1>2, <1>4 DEF Recheck, At, Serve, HandlerInv, LockInv
    <2>2. pc'[h] = "checkBuilds" /\ req' = req
      BY <2>1, Continued
    <2>3. ChangeInv(h)'
      BY <2>1, <2>2 DEF ChangeInv, data
    <2>4. GoodControl(h)
      BY <1>1, <2>1, <2>3, SiteContinues DEF Steps, Mem, Deploying
    <2> QED
      BY <2>1, <2>4, ReadIsGood DEF Good
  <1>5. CASE CheckBuilds(h)
    <2>1. /\ Continue(h, "writeDeleted", None) /\ pc[h] = "checkBuilds"
          /\ UNCHANGED data /\ lock["build"] = h /\ NoneActive(s)
      BY <1>2, <1>5 DEF CheckBuilds, At, Blocks, HandlerInv, LockInv, NoneActive
    <2>2. pc'[h] = "writeDeleted" /\ req' = req
      BY <2>1, Continued
    <2>3. ChangeInv(h)'
      BY <1>2, <2>1, <2>2 DEF HandlerInv, ChangeInv, NoneActive, data
    <2>4. GoodControl(h)
      BY <1>1, <2>1, <2>3, SiteContinues DEF Steps, Mem, Deploying
    <2> QED
      BY <2>1, <2>4, ReadIsGood DEF Good
  <1>6. CASE WriteDeleted(h)
    <2> DEFINE row == [sites[s] EXCEPT !.deleted = TRUE]
    <2>1. WriteRow(s, row) /\ Finish(h) /\ UNCHANGED <<builds, made, pages>>
      BY <1>6 DEF WriteDeleted
    <2>2. row \in SiteRow /\ row.domain = sites[s].domain /\ row.serve = sites[s].serve
      BY <1>1 DEF SiteRow
    <2>3. sites[s].serve \notin Served /\ NoneActive(s)
      BY <1>2, <1>6 DEF WriteDeleted, At, HandlerInv, ChangeInv
    <2> HIDE DEF row
    <2>4. GoodData(h)
      BY <1>1, <2>1, <2>2, <2>3, SiteWriteIsGood
    <2> QED
      BY <2>1, <2>4, FinishIsGood DEF Good
  <1> QED
    BY <1>3, <1>4, <1>5, <1>6

-----------------------------------------------------------------------------
(* Requests about a build.                                                 *)

LEMMA BuildLocks ==
  ASSUME SitesInv, NEW h \in Handler, pc[h] \notin {"idle", "lock"}, req[h].op \in BuildOps
  PROVE  /\ req[h] \in Request /\ req[h].build \in BuildId
         /\ SiteAt(h) \in Site /\ lock[SiteAt(h)] = h /\ lock["build"] = h
         /\ builds[req[h].build] \in BuildRow \cup {None}
         /\ req[h].op \in {"edit", "drop"} =>
              SiteAt(h) = mem[h].site /\ mem[h] \in BuildRow /\ mem[h].id <= made
  <1>1. LockInv(h) /\ BuildInv(h) /\ DataType
    BY TypeParts DEF SitesInv, HandlerInv
  <1>2. req[h] \in Request /\ req[h].build \in BuildId
    BY <1>1, RequestFields DEF LockInv, BuildOps
  <1> QED
    BY <1>1, <1>2 DEF LockInv, Holds, FirstLock, SecondLock, BuildInv, DataType, SiteAt

LEMMA BuildContinues ==
  ASSUME SitesInv, NEW h \in Handler, NEW next \in {"insertBuild", "writeBuild", "dropBuild"},
         NEW v \in Mem, Continue(h, next, v), pc[h] \notin {"idle", "lock"},
         req[h].op \in BuildOps, req[h].op \in {"edit", "drop"} => v.site = mem[h].site,
         BuildInv(h)'
  PROVE  GoodControl(h)
  <1>1. ControlType /\ LockInv(h)
    BY TypeParts DEF SitesInv, HandlerInv
  <1>2. ControlType' /\ Apart(h) /\ LockInv(h)' /\ pc'[h] = next
    BY <1>1, ContinueControl DEF Steps
  <1>3. ServeInv(h)' /\ ChangeInv(h)'
    BY <1>2 DEF ServeInv, ChangeInv, Deploying
  <1> QED
    BY <1>2, <1>3 DEF GoodControl, HandlerInv

LEMMA CreateIsGood ==
  ASSUME SitesInv, NEW h \in Handler, LoadCreate(h) \/ InsertBuild(h)
  PROVE  Good(h)
  <1>1. /\ req[h].op = "create" /\ pc[h] \notin {"idle", "lock"} /\ req[h] \in Request
        /\ req[h].build \in BuildId /\ req[h].site \in Site
        /\ lock[req[h].site] = h /\ lock["build"] = h
    BY BuildLocks DEF LoadCreate, InsertBuild, At, BuildOps, SiteAt
  <1>2. CASE LoadCreate(h)
    <2>1. Continue(h, "insertBuild", None) /\ ~sites[req[h].site].deleted /\ UNCHANGED data
      BY <1>2 DEF LoadCreate, IsActive
    <2>2. pc'[h] = "insertBuild" /\ req' = req
      BY <2>1, Continued
    <2>3. BuildInv(h)'
      BY <1>1, <2>1, <2>2 DEF BuildInv, IsActive, data
    <2>4. GoodControl(h)
      BY <1>1, <2>1, <2>3, BuildContinues DEF Mem, BuildOps
    <2> QED
      BY <2>1, <2>4, ReadIsGood DEF Good
  <1>3. CASE InsertBuild(h)
    <2> DEFINE row == [id |-> made + 1, site |-> req[h].site, status |-> "queued",
                       attempt |-> FALSE, image |-> FALSE]
    <2>1. /\ builds[req[h].build] = None /\ made < MaxBuilds /\ made' = made + 1
          /\ builds' = [builds EXCEPT ![req[h].build] = row]
          /\ Finish(h) /\ UNCHANGED <<sites, pages>>
      BY <1>3 DEF InsertBuild
    <2>2. ~sites[req[h].site].deleted
      BY <1>3 DEF InsertBuild, At, SitesInv, HandlerInv, BuildInv, IsActive
    <2>3. made \in Nat
      BY TypeParts DEF SitesInv, DataType
    <2>4. row \in BuildRow /\ row # None
      <3>1. made + 1 \in 1 .. MaxBuilds
        BY <2>1, <2>3, SitesAssumption
      <3>2. row \in BuildRow
        BY <1>1, <3>1 DEF BuildRow, BuildStatus
      <3> QED
        BY <3>2, SitesAssumption
    <2>5. row.id = made + 1 /\ row.site = req[h].site /\ row.status # "completed"
      OBVIOUS
    <2> HIDE DEF row
    <2>6. GoodData(h)
      BY <1>1, <2>1, <2>2, <2>4, <2>5, BuildWriteIsGood
    <2> QED
      BY <2>1, <2>6, FinishIsGood DEF Good
  <1> QED
    BY <1>2, <1>3

LEMMA EditIsGood ==
  ASSUME SitesInv, NEW h \in Handler, LoadEdit(h) \/ WriteBuild(h)
  PROVE  Good(h)
  <1> DEFINE b == req[h].build
  <1>1. /\ req[h].op = "edit" /\ pc[h] \notin {"idle", "lock"} /\ req[h] \in Request
        /\ b \in BuildId /\ mem[h].site \in Site
        /\ lock[mem[h].site] = h /\ lock["build"] = h
        /\ builds[b] \in BuildRow \cup {None} /\ mem[h] \in BuildRow /\ mem[h].id <= made
    BY BuildLocks DEF LoadEdit, WriteBuild, At, BuildOps
  <1>2. BuildInv(h) /\ RowInv
    BY DEF SitesInv, HandlerInv
  <1>3. CASE LoadEdit(h)
    <2>1. /\ Continue(h, "writeBuild", builds[b]) /\ UNCHANGED data
          /\ builds[b] # None /\ builds[b].id = mem[h].id
          /\ ~sites[mem[h].site].deleted /\ builds[b].status # "building"
          /\ req[h].status \notin {"building", "completed"}
      BY <1>3 DEF LoadEdit, Reloaded, Editable, IsActive
    <2>2. builds[b].site = mem[h].site
      BY <1>1, <1>2, <2>1 DEF BuildInv
    <2>3. pc'[h] = "writeBuild" /\ mem'[h] = builds[b] /\ req' = req
      BY <2>1, Continued
    <2>4. BuildInv(h)'
      BY <1>1, <2>1, <2>2, <2>3 DEF BuildInv, IsActive, data
    <2>5. GoodControl(h)
      BY <1>1, <2>1, <2>2, <2>4, BuildContinues DEF Mem, BuildOps
    <2> QED
      BY <2>1, <2>5, ReadIsGood DEF Good
  <1>4. CASE WriteBuild(h)
    <2> DEFINE row == IF req[h].status = "queued" THEN Requeued(builds[b], req[h], mem[h])
                      ELSE Edited(builds[b], req[h], mem[h])
    <2>1. /\ builds[b] # None /\ builds' = [builds EXCEPT ![b] = row]
          /\ Finish(h) /\ UNCHANGED <<sites, made, pages>>
      BY <1>4 DEF WriteBuild
    <2>2. /\ builds[b] \in BuildRow /\ builds[b].site = mem[h].site
          /\ ~sites[mem[h].site].deleted /\ builds[b].status # "building"
          /\ req[h].status \notin {"building", "completed"}
      BY <1>1, <1>2, <1>4, <2>1 DEF WriteBuild, At, BuildInv, IsActive
    <2>3. /\ row \in BuildRow /\ row.id = builds[b].id /\ row.site = builds[b].site
          /\ row.status = "completed" => row.image
      <3>1. CASE req[h].status = "queued"
        BY <1>1, <2>2, <3>1, BuildEdits
      <3>2. CASE req[h].status # "queued"
        <4>1. /\ row \in BuildRow /\ row.id = builds[b].id /\ row.site = builds[b].site
              /\ row.image = builds[b].image
              /\ row.status = Given(req[h].status, builds[b].status)
          BY <1>1, <2>2, <3>2, BuildEdits
        <4>2. row.status = "completed" => builds[b].status = "completed"
          BY <2>2, <4>1 DEF Given
        <4> QED
          BY <1>1, <1>2, <2>1, <4>1, <4>2 DEF RowInv
      <3> QED
        BY <3>1, <3>2
    <2>4. row # None
      BY <2>3, SitesAssumption
    <2> HIDE DEF row
    <2>5. GoodData(h)
      BY <1>1, <2>1, <2>2, <2>3, <2>4, BuildWriteIsGood
    <2> QED
      BY <2>1, <2>5, FinishIsGood DEF Good
  <1> QED
    BY <1>3, <1>4

LEMMA DropIsGood ==
  ASSUME SitesInv, NEW h \in Handler, LoadDrop(h) \/ DropBuild(h)
  PROVE  Good(h)
  <1> DEFINE b == req[h].build
  <1>1. /\ req[h].op = "drop" /\ pc[h] \notin {"idle", "lock"} /\ req[h] \in Request
        /\ b \in BuildId /\ mem[h].site \in Site
        /\ lock[mem[h].site] = h /\ lock["build"] = h
        /\ mem[h] \in BuildRow /\ mem[h].id <= made
    BY BuildLocks DEF LoadDrop, DropBuild, At, BuildOps
  <1>2. BuildInv(h)
    BY DEF SitesInv, HandlerInv
  <1>3. CASE LoadDrop(h)
    <2>1. /\ Continue(h, "dropBuild", mem[h]) /\ UNCHANGED data
          /\ builds[b] # None /\ builds[b].id = mem[h].id
          /\ ~sites[mem[h].site].deleted /\ builds[b].status # "building"
      BY <1>3 DEF LoadDrop, Reloaded, Editable, IsActive
    <2>2. pc'[h] = "dropBuild" /\ mem'[h] = mem[h] /\ req' = req
      BY <2>1, Continued
    <2>3. BuildInv(h)'
      BY <1>1, <1>2, <2>1, <2>2 DEF BuildInv, IsActive, data
    <2>4. GoodControl(h)
      BY <1>1, <2>1, <2>3, BuildContinues DEF Mem, BuildOps
    <2> QED
      BY <2>1, <2>4, ReadIsGood DEF Good
  <1>4. CASE DropBuild(h)
    <2>1. /\ builds' = [builds EXCEPT ![b] = None]
          /\ Finish(h) /\ UNCHANGED <<sites, made, pages>>
      BY <1>4 DEF DropBuild
    <2>2. builds[b] # None => lock[builds[b].site] = h
      BY <1>1, <1>2, <1>4 DEF DropBuild, At, BuildInv
    <2>3. GoodData(h)
      BY <1>1, <2>1, <2>2, BuildWriteIsGood
    <2> QED
      BY <2>1, <2>3, FinishIsGood DEF Good
  <1> QED
    BY <1>3, <1>4

-----------------------------------------------------------------------------
(* The executor, and all steps together.                                   *)

\* A build that waits starts while nobody holds "build-lifecycle", a build that
\* runs ends: no request relies on either.
ExecutorStep(b) ==
  LET row == builds[b] IN
  /\ row # None /\ row.status \in Active
  /\ row.status = "queued" => lock["build"] = None
  /\ \A c \in BuildId \ {b} : builds'[c] = builds[c]
  /\ builds'[b] \in BuildRow /\ builds'[b] # None
  /\ builds'[b].id = row.id /\ builds'[b].site = row.site
  /\ row.status = "queued" => builds'[b].status = "building"
  /\ builds'[b].status = "completed" => builds'[b].image
  /\ UNCHANGED <<sites, made, pages, lock, handlers>>
  /\ DataType'

LEMMA ExecutorSteps ==
  ASSUME SitesInv, NEW b \in BuildId, Claim(b) \/ Complete(b)
  PROVE  ExecutorStep(b)
  <1>1. DataType
    BY TypeParts DEF SitesInv
  <1>2. builds[b] # None /\ builds[b] \in BuildRow
    BY <1>1 DEF Claim, Complete, DataType
  <1>3. CASE Claim(b)
    <2>1. /\ lock["build"] = None /\ builds[b].status = "queued"
          /\ builds' = [builds EXCEPT ![b] = Claimed(builds[b])]
          /\ UNCHANGED <<sites, made, pages, lock, handlers>>
      BY <1>3 DEF Claim
    <2>2. "building" \in BuildStatus
      BY DEF BuildStatus
    <2>3. /\ Claimed(builds[b]) \in BuildRow /\ Claimed(builds[b]).id = builds[b].id
          /\ Claimed(builds[b]).site = builds[b].site
          /\ Claimed(builds[b]).status = "building"
      BY <1>2, <2>2, BuildChanges
    <2> QED
      BY <1>1, <1>2, <2>1, <2>3, SitesAssumption DEF ExecutorStep, DataType, Active
  <1>4. CASE Complete(b)
    <2>1. PICK status \in {"completed", "failed"} :
            builds' = [builds EXCEPT ![b] = Ended(builds[b], status)]
      BY <1>4 DEF Complete
    <2>2. builds[b].status = "building" /\ UNCHANGED <<sites, made, pages, lock, handlers>>
      BY <1>4 DEF Complete
    <2>3. status \in BuildStatus
      BY DEF BuildStatus
    <2>4. /\ Ended(builds[b], status) \in BuildRow /\ Ended(builds[b], status).id = builds[b].id
          /\ Ended(builds[b], status).site = builds[b].site
          /\ Ended(builds[b], status).status = status
          /\ Ended(builds[b], status).image = (status = "completed")
      BY <1>2, <2>3, BuildChanges
    <2> QED
      BY <1>1, <1>2, <2>1, <2>2, <2>4, SitesAssumption DEF ExecutorStep, DataType, Active
  <1> QED
    BY <1>3, <1>4

LEMMA ExecutorStepInv ==
  ASSUME SitesInv, NEW b \in BuildId, ExecutorStep(b)
  PROVE  SitesInv'
  <1>1. DataType /\ ControlType /\ RowInv /\ DomainsAreExclusive /\ DeletedIsQuiet
    BY TypeParts DEF SitesInv
  <1>2. TypeOK'
    <2>1. DataType' /\ ControlType'
      BY <1>1 DEF ExecutorStep, ControlType, handlers
    <2> QED
      BY <2>1, TypeParts DEF TypeOK, DataType, ControlType, Mem, Steps
  <1>3. RowInv'
    BY <1>1 DEF RowInv, ExecutorStep
  <1>4. DomainsAreExclusive'
    BY <1>1 DEF DomainsAreExclusive, ExecutorStep
  <1>5. DeletedIsQuiet'
    BY <1>1 DEF DeletedIsQuiet, ExecutorStep, Active
  <1>6. ASSUME NEW h \in Handler PROVE HandlerInv(h)'
    <2>1. HandlerInv(h)
      BY DEF SitesInv
    <2>2. UNCHANGED <<sites, made, pages, lock, pc, req, todo, mem>>
      BY DEF ExecutorStep, handlers
    <2>3. LockInv(h)'
      BY <2>1, <2>2 DEF HandlerInv, LockInv, SiteAt, FirstLock, SecondLock, Holds
    <2>4. ServeInv(h)'
      <3>1. \A s \in Site : \A c \in Completed(s) : c \in Completed(s)' /\ builds'[c] = builds[c]
        BY DEF Completed, ExecutorStep, Active
      <3>2. pc[h] \in {"pick", "fresh", "markServing"} \cup Deploying => req[h].site \in Site
        BY <2>1 DEF HandlerInv, LockInv, ServeInv, SiteAt, Deploying
      <3>3. ServeInv(h)
        BY <2>1 DEF HandlerInv
      <3>4. pc[h] \in {"fresh", "markServing"} \cup Deploying =>
              /\ mem[h].build \in Completed(req[h].site)'
              /\ builds'[mem[h].build] = builds[mem[h].build]
        BY <2>2, <3>1, <3>2, <3>3 DEF ServeInv, Deploying
      <3> QED
        BY <2>2, <3>3, <3>4 DEF ServeInv, Deploying
    <2>5. ChangeInv(h)'
      <3>1. \A s \in Site : NoneActive(s) => NoneActive(s)'
        BY DEF NoneActive, ExecutorStep, Active
      <3>2. pc[h] = "writeDeleted" => req[h].site \in Site
        BY <2>1 DEF HandlerInv, LockInv, SiteAt
      <3>3. \A d, s : Unowned(d, s) => Unowned(d, s)'
        BY <2>2 DEF Unowned
      <3> QED
        BY <2>1, <2>2, <3>1, <3>2, <3>3 DEF HandlerInv, ChangeInv, NoneActive, Unowned
    <2>6. BuildInv(h)'
      <3>1. pc[h] \in {"writeBuild", "dropBuild"} =>
              lock["build"] # None /\ req[h].op \in {"edit", "drop"}
        BY <2>1, SitesAssumption
        DEF HandlerInv, LockInv, BuildInv, Holds, SecondLock, BuildOps
      <3>2. pc[h] # "idle" /\ req[h].op \in {"edit", "drop"} => req[h].build \in BuildId
        BY <2>1, RequestFields DEF HandlerInv, LockInv
      <3> QED
        BY <2>1, <2>2, <3>1, <3>2 DEF HandlerInv, BuildInv, ExecutorStep, Active, IsActive
    <2> QED
      BY <2>3, <2>4, <2>5, <2>6 DEF HandlerInv
  <1> QED
    BY <1>2, <1>3, <1>4, <1>5, <1>6 DEF SitesInv

\* Every step of a request is one of the steps above.
LEMMA StepIsGood ==
  ASSUME SitesInv, NEW h \in Handler,
         Step(h) \/ Abort(h) \/ \E r \in Workload : Begin(h, r)
  PROVE  Good(h)
  <1>1. CASE ServeStep(h)
    BY <1>1, ServeReadIsGood, MarkServingIsGood, UploadIsGood, BindIsGood, MarksAreGood
    DEF ServeStep
  <1>2. CASE SiteStep(h)
    BY <1>2, StatusIsGood, StopIsGood, MarksAreGood, UpdateIsGood, DeleteIsGood DEF SiteStep
  <1>3. CASE BuildStep(h)
    BY <1>3, CreateIsGood, EditIsGood, DropIsGood DEF BuildStep
  <1> QED
    BY <1>1, <1>2, <1>3, AcquireIsGood, AbortIsGood, BeginIsGood DEF Step

LEMMA GoodStepInv ==
  ASSUME SitesInv, NEW h \in Handler, Good(h)
  PROVE  SitesInv'
  <1>1. DataType' /\ ControlType' /\ Apart(h) /\ Locked(h) /\ HandlerInv(h)'
    BY DEF Good, GoodData, GoodControl
  <1>2. TypeOK'
    BY <1>1 DEF TypeOK, DataType, ControlType, Mem, Steps
  <1>3. \A g \in Handler : HandlerInv(g)'
    BY <1>1, OthersKeep
  <1> QED
    BY <1>2, <1>3 DEF SitesInv, Good, GoodData

LEMMA SitesStepInv == SitesInv /\ [Next]_vars => SitesInv'
  <1> SUFFICES ASSUME SitesInv, [Next]_vars PROVE SitesInv'
    OBVIOUS
  <1>1. CASE UNCHANGED vars
    BY <1>1
    DEF vars, data, handlers, SitesInv, TypeOK, RowInv, HandlerInv, LockInv, ServeInv, ChangeInv,
        BuildInv, SiteAt, FirstLock, SecondLock, Holds, Completed, Unowned, NoneActive, IsActive,
        DomainsAreExclusive, DeletedIsQuiet
  <1>2. ASSUME NEW h \in Handler, Step(h) \/ Abort(h) \/ \E r \in Workload : Begin(h, r)
        PROVE  SitesInv'
    BY <1>2, StepIsGood, GoodStepInv
  <1>3. ASSUME NEW b \in BuildId, Claim(b) \/ Complete(b)
        PROVE  SitesInv'
    BY <1>3, ExecutorSteps, ExecutorStepInv
  <1> QED
    BY <1>1, <1>2, <1>3 DEF Next

-----------------------------------------------------------------------------
(* Who may write "live", and who a running build.                          *)

\* Only the last step of serve makes a site live.
LEMMA OnlyMarkLive ==
  ASSUME SitesInv, Next, NEW s \in Site, sites'[s].serve = "live", sites[s].serve # "live"
  PROVE  \E h \in Handler : MarkLive(h) /\ req[h].site = s
  <1>1. sites \in [Site -> SiteRow] /\ sites' # sites
    BY TypeParts DEF SitesInv, DataType
  <1>2. PICK h \in Handler : \/ WriteStatus(h) \/ MarkServing(h) \/ MarkFailed(h) \/ MarkLive(h)
                             \/ MarkStopped(h) \/ WriteSite(h) \/ WriteDeleted(h)
    BY <1>1
    DEF Next, Step, ServeStep, SiteStep, BuildStep, Begin, Acquire, Abort, Claim, Complete, data,
        LoadStatus, LoadServe, PickBuild, ReadFresh, Upload, Bind, LoadStop, Unbind, LoadUpdate,
        LoadDelete, Recheck, CheckBuilds, LoadCreate, InsertBuild, LoadEdit, WriteBuild, LoadDrop,
        DropBuild
  <1>3. /\ req[h] \in Request /\ req[h].site \in Site /\ sites[req[h].site] \in SiteRow
    BY <1>2, SiteLocks
    DEF WriteStatus, MarkServing, MarkFailed, MarkLive, MarkStopped, WriteSite, WriteDeleted, At
  <1>4. CASE MarkLive(h)
    BY <1>1, <1>3, <1>4 DEF MarkLive, WriteRow
  <1>5. CASE WriteStatus(h)
    <2>1. req[h].to # "live"
      BY <1>3, <1>5, RequestFields DEF WriteStatus, At, ManualServeStatus
    <2> QED
      BY <1>1, <1>3, <1>5, <2>1 DEF WriteStatus, SetServe, WriteRow, SiteRow
  <1>6. CASE MarkServing(h) \/ MarkFailed(h) \/ MarkStopped(h)
    BY <1>1, <1>3, <1>6 DEF MarkServing, MarkFailed, MarkStopped, SetServe, WriteRow, SiteRow
  <1>7. CASE WriteSite(h)
    BY <1>1, <1>3, <1>7 DEF WriteSite, WriteRow, SiteRow
  <1>8. CASE WriteDeleted(h)
    BY <1>1, <1>3, <1>8 DEF WriteDeleted, WriteRow, SiteRow
  <1> QED
    BY <1>2, <1>4, <1>5, <1>6, <1>7, <1>8

\* A request writes only builds that do not run.
LEMMA RunningIsSpared ==
  ASSUME SitesInv, NEW h \in Handler, NEW b \in BuildId,
         builds[b] # None, builds[b].status = "building",
         Step(h) \/ Abort(h) \/ \E r \in Workload : Begin(h, r)
  PROVE  builds'[b] = builds[b]
  <1> SUFFICES ASSUME builds' # builds
               PROVE  builds'[b] = builds[b]
    OBVIOUS
  <1>1. InsertBuild(h) \/ WriteBuild(h) \/ DropBuild(h)
    BY DEF Step, ServeStep, SiteStep, BuildStep, Begin, Acquire, Abort, data, LoadStatus,
           WriteStatus, LoadServe, PickBuild, ReadFresh, MarkServing, Upload, Bind, MarkFailed,
           MarkLive, LoadStop, Unbind, MarkStopped, LoadUpdate, WriteSite, LoadDelete, Recheck,
           CheckBuilds, WriteDeleted, LoadCreate, LoadEdit, LoadDrop
  <1>2. builds \in [BuildId -> BuildRow \cup {None}] /\ BuildInv(h)
    BY TypeParts DEF SitesInv, HandlerInv, DataType
  <1>3. req[h].build # b
    BY <1>1, <1>2 DEF InsertBuild, WriteBuild, DropBuild, BuildInv, At
  <1> QED
    BY <1>1, <1>2, <1>3 DEF InsertBuild, WriteBuild, DropBuild

-----------------------------------------------------------------------------
\* Types, locks, and what every request under way may still rely on.
THEOREM SitesInvariance == Spec => []SitesInv
  BY SitesInitInv, SitesStepInv, PTL DEF Spec

\* PATCH /sites/{site_id}: a custom domain is linked to one site at most, although
\* the look-up and the write are two calls.
THEOREM DomainsStayExclusive == Spec => []DomainsAreExclusive
  <1>1. SitesInv => DomainsAreExclusive
    BY DEF SitesInv
  <1> QED
    BY <1>1, SitesInvariance, PTL

\* delete_site_record: a deleted site has no build that waits or runs and is not
\* served.
THEOREM DeletedStaysQuiet == Spec => []DeletedIsQuiet
  <1>1. SitesInv => DeletedIsQuiet
    BY DEF SitesInv
  <1> QED
    BY <1>1, SitesInvariance, PTL

\* serve_service.serve: nothing takes away what a deployment rests on while it
\* runs.
THEOREM DeploymentStaysStable == Spec => []DeploymentIsStable
  <1>1. SitesInv => DeploymentIsStable
    BY DEF SitesInv, HandlerInv, ServeInv, RowInv, DeploymentIsStable, Completed, Deploying
  <1> QED
    BY <1>1, SitesInvariance, PTL

\* serve_service.serve: a site goes live only when its domain is bound and Pages
\* has a build of it that is still there.
THEOREM LiveMeansServed == Spec => LiveIsServed
  <1> DEFINE GoesLiveServed ==
        \A s \in Site : sites'[s].serve = "live" /\ sites[s].serve # "live" =>
          /\ NameOf(sites[s].domain) \in pages[s].names
          /\ \E b \in Completed(s) : pages[s].content = builds[b].id
  <1>1. SitesInv /\ [Next]_vars => [GoesLiveServed]_vars
    <2> SUFFICES ASSUME SitesInv, Next, NEW s \in Site,
                        sites'[s].serve = "live", sites[s].serve # "live"
                 PROVE  /\ NameOf(sites[s].domain) \in pages[s].names
                        /\ \E b \in Completed(s) : pages[s].content = builds[b].id
      OBVIOUS
    <2>1. PICK h \in Handler : MarkLive(h) /\ req[h].site = s
      BY OnlyMarkLive
    <2>2. ServeInv(h) /\ pc[h] = "markLive"
      BY <2>1 DEF SitesInv, HandlerInv, MarkLive, At
    <2> QED
      BY <2>1, <2>2 DEF ServeInv, Deploying
  <1> QED
    BY <1>1, SitesInvariance, PTL DEF Spec, LiveIsServed

\* routes/build: no request touches a build while it runs.
THEOREM RunningStaysUndisturbed == Spec => RunningIsUndisturbed
  <1> DEFINE Undisturbed ==
        \A b \in BuildId : builds[b] # None /\ builds[b].status = "building" =>
          builds'[b] = builds[b] \/ (UNCHANGED <<handlers, lock>> /\ builds'[b] # None)
  <1>1. SitesInv /\ [Next]_vars => [Undisturbed]_vars
    <2> SUFFICES ASSUME SitesInv, Next, NEW b \in BuildId,
                        builds[b] # None, builds[b].status = "building"
                 PROVE  \/ builds'[b] = builds[b]
                        \/ UNCHANGED <<handlers, lock>> /\ builds'[b] # None
      OBVIOUS
    <2>1. ASSUME NEW h \in Handler, Step(h) \/ Abort(h) \/ \E r \in Workload : Begin(h, r)
          PROVE  builds'[b] = builds[b]
      BY <2>1, RunningIsSpared
    <2>2. ASSUME NEW c \in BuildId, Claim(c) \/ Complete(c)
          PROVE  UNCHANGED <<handlers, lock>> /\ builds'[b] # None
      <3>1. ExecutorStep(c)
        BY <2>2, ExecutorSteps
      <3> QED
        BY <3>1 DEF ExecutorStep
    <2> QED
      BY <2>1, <2>2 DEF Next
  <1> QED
    BY <1>1, SitesInvariance, PTL DEF Spec, RunningIsUndisturbed
-----------------------------------------------------------------------------
(* The names at Cloudflare.                                                *)

Working  == Phase \ {"off", "failed", "live"}
Stopping == {"next", "unbind", "find", "erase"}

\* A name is linked to one site.
LinkInv == \A p, q \in Project : p # q /\ link[p] # Off => link[p] # link[q]

\* The CNAMEs of projects are where stop looks for them.
RecordInv == \A z \in Zone, n \in DnsName : cname[z, n] \in Project => z = StopZone(n)

\* A handler is about the derived name or, as the link cannot change, the linked one.
HostInv(p) ==
  \/ host[p] = Derived[p]
  \/ host[p] = link[p] /\ phase[p] \in Working

ZoneInv(p) ==
  phase[p] \in {"list", "replace", "create", "erase"} =>
    zone[p] = StopZone(host[p]) /\ zone[p] # Off

\* What a deployment has found or set up is still there.
SetUpInv(p) ==
  /\ phase[p] = "replace" => Record(p) # p
  /\ phase[p] \in {"bind", "confirm", "poll"} /\ ~trouble[p] => zone[p] # Off /\ Record(p) = p

Clear(p, n) == binding[n].to # p /\ \A z \in Zone : cname[z, n] # p

\* A name that stop still has to take back.
Waiting(p, n) ==
  \/ \E i \in DOMAIN names[p] : names[p][i] = n
  \/ phase[p] # "next" /\ host[p] = n

\* Without trouble, what stop is done with is clear and stays so.
StopInv(p) == phase[p] \in Stopping =>
  /\ names[p] \in {<<>>, <<Derived[p]>>, <<link[p], Derived[p]>>}
  /\ ~trouble[p] /\ ~spared[p] =>
       /\ \A n \in {link[p], Derived[p]} \ {Off} : Waiting(p, n) \/ Clear(p, n)
       /\ phase[p] \in {"find", "erase"} => binding[host[p]].to # p

NameInv(p) == HostInv(p) /\ ZoneInv(p) /\ SetUpInv(p) /\ StopInv(p)

DomainsInv ==
  /\ DomainsTypeOK /\ LinkInv /\ RecordInv
  /\ \A p \in Project : NameInv(p)

-----------------------------------------------------------------------------
\* Of the zones of a name one has the longest name.
LEMMA LongestZone ==
  ASSUME NEW n \in DnsName
  PROVE  ZoneOf(n) \in Zone \cup {Off}
<1>1. PICK S \in SUBSET Zone : S = ZonesOf[n] /\ IsFiniteSet(S)
  BY DomainsAssumption
<1>2. CASE S = {}
  BY <1>1, <1>2 DEF ZoneOf
<1>3. CASE S # {}
  <2> DEFINE longer(z) == {y \in S : Labels[y] > Labels[z]}
             ranks == {Cardinality(longer(z)) : z \in S}
             Less == {ss \in Nat \X Nat : ss[1] < ss[2]}
  <2>1. \A z \in S : IsFiniteSet(longer(z)) /\ Cardinality(longer(z)) \in Nat
    BY <1>1, FS_Subset, FS_CardinalityType
  <2>2. IsWellFoundedOn(Less, Nat)
    BY NatLessThanWellFounded DEF OpToRel
  <2> HIDE DEF Less
  <2>3. ranks \in SUBSET Nat /\ ranks # {}
    BY <1>3, <2>1
  <2>4. PICK k \in ranks : \A j \in ranks : ~(<<j, k>> \in Less)
    BY <2>2, <2>3, WFMin
  <2>5. PICK z \in S : k = Cardinality(longer(z))
    OBVIOUS
  <2>6. ASSUME NEW y \in S, ~(Labels[z] >= Labels[y])
        PROVE  FALSE
    <3>1. Labels[y] \in Nat /\ Labels[z] \in Nat /\ \A x \in S : Labels[x] \in Nat
      BY DomainsAssumption
    <3>2. longer(y) \subseteq longer(z) /\ y \in longer(z) /\ y \notin longer(y)
      BY <2>6, <3>1
    <3>3. Cardinality(longer(y)) <= k /\ Cardinality(longer(y)) # k
      BY <2>1, <2>5, <3>2, FS_Subset
    <3>4. PICK j \in Nat : j = Cardinality(longer(y)) /\ j \in ranks
      BY <2>1
    <3>5. j <= k /\ j # k
      BY <3>3, <3>4
    <3>6. k \in Nat /\ j < k
      BY <2>3, <3>5
    <3>7. <<j, k>> \in Nat \X Nat /\ <<j, k>>[1] = j /\ <<j, k>>[2] = k
      BY <3>6
    <3>8. <<j, k>> \in Less
      BY <3>6, <3>7 DEF Less
    <3> QED  BY <2>4, <3>4, <3>8
  <2>7. \A y \in ZonesOf[n] : Labels[z] >= Labels[y]
    BY <1>1, <2>6
  <2>8. ZoneOf(n) \in S
    BY <1>1, <1>3, <2>5, <2>7 DEF ZoneOf
  <2> QED  BY <2>8
<1> QED  BY <1>2, <1>3

LEMMA StopZoneIsZone ==
  ASSUME NEW n \in DnsName
  PROVE  StopZone(n) \in Zone \cup {Off}
BY LongestZone, DomainsAssumption DEF StopZone

LEMMA DerivedNames ==
  /\ \A p \in Project : Derived[p] \in DnsName /\ Derived[p] \notin Custom /\ Derived[p] # Off
  /\ \A p, q \in Project : p # q => Derived[p] # Derived[q]
  /\ Off \notin DnsName /\ Off \notin Custom /\ Off \notin Project /\ Custom \subseteq DnsName
  /\ Off \notin Zone
BY DomainsAssumption DEF DnsName

\* Two handlers are never about one name.
LEMMA HostsApart ==
  ASSUME DomainsInv, NEW p \in Project, NEW q \in Project, p # q
  PROVE  host[p] # host[q]
<1>1. /\ host[p] \in DnsName /\ host[q] \in DnsName
      /\ link[p] \in Custom \cup {Off} /\ link[q] \in Custom \cup {Off}
  BY DEF DomainsInv, DomainsTypeOK
<1>2. host[p] \in {Derived[p], link[p]} /\ host[q] \in {Derived[q], link[q]}
  BY DEF DomainsInv, NameInv, HostInv
<1>3. link[p] # Off => link[p] # link[q]
  BY DEF DomainsInv, LinkInv
<1> QED  BY <1>1, <1>2, <1>3, DerivedNames

-----------------------------------------------------------------------------
\* A step of the handler of p leaves the other handlers alone; it changes only the
\* record of its name, and binds names to its project only.
Alone(p) ==
  /\ link' = link
  /\ \A q \in Project \ {p} :
       /\ phase'[q] = phase[q] /\ host'[q] = host[q] /\ zone'[q] = zone[q]
       /\ trouble'[q] = trouble[q] /\ names'[q] = names[q] /\ spared'[q] = spared[q]
  /\ \A z \in Zone, n \in DnsName : cname'[z, n] # cname[z, n] =>
       n = host[p] /\ z = StopZone(n) /\ cname'[z, n] \in {p, Off}
  /\ \A n \in DnsName : binding'[n].to # binding[n].to => binding'[n].to \in {p, Off}

LEMMA OtherNamesKeep ==
  ASSUME DomainsInv, NEW p \in Project, Alone(p), NEW q \in Project \ {p}
  PROVE  NameInv(q)'
<1>1. /\ phase'[q] = phase[q] /\ host'[q] = host[q] /\ zone'[q] = zone[q] /\ link' = link
      /\ trouble'[q] = trouble[q] /\ names'[q] = names[q] /\ spared'[q] = spared[q]
  BY DEF Alone
<1>2. q # Off /\ q # p /\ NameInv(q)
  BY DerivedNames DEF DomainsInv
<1>3. host[q] \in DnsName /\ host[q] # host[p] /\ zone[q] \in Zone \cup {Off}
  BY HostsApart DEF DomainsInv, DomainsTypeOK
<1>4. \A z \in Zone : cname'[z, host[q]] = cname[z, host[q]]
  BY <1>3 DEF Alone
<1>5. ASSUME NEW n \in DnsName, Clear(q, n)
      PROVE  Clear(q, n)'
  <2>1. binding'[n].to # q
    BY <1>2, <1>5 DEF Alone, Clear
  <2>2. \A z \in Zone : cname'[z, n] # q
    BY <1>2, <1>5 DEF Alone, Clear
  <2> QED  BY <2>1, <2>2 DEF Clear
<1>6. HostInv(q)' /\ ZoneInv(q)'
  BY <1>1, <1>2 DEF NameInv, HostInv, ZoneInv, StopZone, ZoneOf
<1>7. SetUpInv(q)'
  <2>1. zone[q] # Off => Record(q)' = Record(q)
    BY <1>1, <1>3, <1>4 DEF Record
  <2>2. phase[q] = "replace" => zone[q] # Off
    BY <1>2 DEF NameInv, ZoneInv
  <2> QED  BY <1>1, <1>2, <2>1, <2>2 DEF NameInv, SetUpInv
<1>8. StopInv(q)'
  <2>1. \A n \in DnsName : Waiting(q, n)' <=> Waiting(q, n)
    BY <1>1 DEF Waiting
  <2>2. binding[host[q]].to # q => binding'[host[q]].to # q
    BY <1>2, <1>3 DEF Alone
  <2>3. {link[q], Derived[q]} \ {Off} \subseteq DnsName
    BY DerivedNames DEF DomainsInv, DomainsTypeOK
  <2>4. \A n \in {link[q], Derived[q]} \ {Off} :
          Waiting(q, n) \/ Clear(q, n) => Waiting(q, n)' \/ Clear(q, n)'
    BY <1>5, <2>1, <2>3
  <2> QED  BY <1>1, <1>2, <2>2, <2>4 DEF NameInv, StopInv
<1> QED  BY <1>6, <1>7, <1>8 DEF NameInv

LEMMA AloneKeeps ==
  ASSUME DomainsInv, NEW p \in Project, Alone(p), DomainsTypeOK', NameInv(p)'
  PROVE  DomainsInv'
<1>1. LinkInv'
  BY DEF DomainsInv, LinkInv, Alone
<1>2. RecordInv'
  BY DerivedNames DEF DomainsInv, RecordInv, Alone, StopZone, ZoneOf
<1> QED  BY <1>1, <1>2, OtherNamesKeep DEF DomainsInv

-----------------------------------------------------------------------------
\* The ways a handler goes on.
Handled(p) ==
  /\ link' = link
  /\ phase' \in [Project -> Phase] /\ tries' \in [Project -> Nat]
  /\ host' \in [Project -> DnsName] /\ zone' \in [Project -> Zone \cup {Off}]
  /\ trouble' \in [Project -> BOOLEAN]
  /\ names' \in [Project -> Seq(DnsName)] /\ spared' \in [Project -> BOOLEAN]
  /\ \A q \in Project \ {p} :
       /\ phase'[q] = phase[q] /\ host'[q] = host[q] /\ zone'[q] = zone[q]
       /\ trouble'[q] = trouble[q] /\ names'[q] = names[q] /\ spared'[q] = spared[q]

LEMMA ToGoesOn ==
  ASSUME DomainsTypeOK, NEW p \in Project, NEW s \in Phase, To(p, s)
  PROVE  /\ phase' \in [Project -> Phase] /\ tries' \in [Project -> Nat] /\ phase'[p] = s
         /\ \A q \in Project \ {p} : phase'[q] = phase[q]
BY DEF To, DomainsTypeOK

LEMMA ToHandles ==
  ASSUME DomainsTypeOK, NEW p \in Project, NEW s \in Phase, To(p, s), UNCHANGED <<memory, link>>
  PROVE  Handled(p) /\ phase'[p] = s
BY ToGoesOn DEF Handled, memory, DomainsTypeOK

LEMMA RetryHandles ==
  ASSUME DomainsTypeOK, NEW p \in Project, Retry(p), UNCHANGED link
  PROVE  Handled(p) /\ phase' = phase
BY DEF Retry, Handled, memory, DomainsTypeOK

LEMMA GiveUpDnsHandles ==
  ASSUME DomainsInv, NEW p \in Project, GiveUpDns(p), phase[p] \in Working, UNCHANGED link
  PROVE  Handled(p) /\ NameInv(p)'
<1>1. To(p, "bind") /\ "bind" \in Phase /\ DomainsTypeOK
  BY DEF GiveUpDns, Phase, DomainsInv
<1>2. /\ phase' \in [Project -> Phase] /\ tries' \in [Project -> Nat] /\ phase'[p] = "bind"
      /\ \A q \in Project \ {p} : phase'[q] = phase[q]
  BY <1>1, ToGoesOn
<1>3. trouble' = [trouble EXCEPT ![p] = TRUE] /\ UNCHANGED <<host, zone, names, spared>>
  BY DEF GiveUpDns
<1>4. Handled(p) /\ trouble'[p] = TRUE
  BY <1>1, <1>2, <1>3 DEF Handled, DomainsTypeOK
<1>5. HostInv(p)'
  BY <1>2, <1>3 DEF DomainsInv, NameInv, HostInv, Working, Phase
<1> QED  BY <1>2, <1>4, <1>5 DEF NameInv, ZoneInv, SetUpInv, StopInv, Stopping

LEMMA SpareHandles ==
  ASSUME DomainsInv, NEW p \in Project, Spare(p), phase[p] \in Stopping, UNCHANGED link
  PROVE  Handled(p) /\ NameInv(p)'
<1>1. To(p, "next") /\ "next" \in Phase /\ DomainsTypeOK
  BY DEF Spare, Phase, DomainsInv
<1>2. /\ phase' \in [Project -> Phase] /\ tries' \in [Project -> Nat] /\ phase'[p] = "next"
      /\ \A q \in Project \ {p} : phase'[q] = phase[q]
  BY <1>1, ToGoesOn
<1>3. spared' = [spared EXCEPT ![p] = TRUE] /\ UNCHANGED <<host, zone, names, trouble>>
  BY DEF Spare
<1>4. Handled(p) /\ spared'[p] = TRUE
  BY <1>1, <1>2, <1>3 DEF Handled, DomainsTypeOK
<1>5. HostInv(p)'
  BY <1>2, <1>3 DEF DomainsInv, NameInv, HostInv, Working, Phase, Stopping
<1>6. StopInv(p)'
  BY <1>2, <1>3, <1>4 DEF DomainsInv, NameInv, StopInv
<1> QED  BY <1>2, <1>4, <1>5, <1>6 DEF NameInv, ZoneInv, SetUpInv

LEMMA RestHandles ==
  ASSUME DomainsTypeOK, NEW p \in Project, NEW s \in {"off", "failed", "live"}, Rest(p, s),
         UNCHANGED link
  PROVE  Handled(p) /\ phase'[p] = s /\ NameInv(p)'
<1>1. To(p, s) /\ s \in Phase
  BY DEF Rest, Phase
<1>2. /\ phase' \in [Project -> Phase] /\ tries' \in [Project -> Nat] /\ phase'[p] = s
      /\ \A q \in Project \ {p} : phase'[q] = phase[q]
  BY <1>1, ToGoesOn
<1>3. Derived[p] \in DnsName /\ <<>> \in Seq(DnsName)
  BY DerivedNames
<1>4. host'[p] = Derived[p]
  BY DEF Rest, DomainsTypeOK
<1>5. Handled(p)
  BY <1>2, <1>3 DEF Handled, Rest, DomainsTypeOK
<1>6. NameInv(p)'
  BY <1>2, <1>4 DEF NameInv, HostInv, ZoneInv, SetUpInv, StopInv, Stopping
<1> QED  BY <1>2, <1>5, <1>6

\* What a call does to the record of a name.
LEMMA RecordSet ==
  ASSUME DomainsInv, NEW p \in Project, phase[p] \in {"replace", "create", "erase"},
         NEW t \in {p, Off}, SetRecord(p, t)
  PROVE  /\ cname' \in [Zone \X DnsName -> Project \cup {Off, "other"}]
         /\ cname'[zone[p], host[p]] = t
         /\ \A z \in Zone, n \in DnsName : cname'[z, n] # cname[z, n] =>
              n = host[p] /\ z = StopZone(n) /\ cname'[z, n] = t
<1>1. zone[p] = StopZone(host[p]) /\ zone[p] # Off
  BY DEF DomainsInv, NameInv, ZoneInv
<1>2. PICK y \in Zone, m \in DnsName : y = zone[p] /\ m = host[p] /\ y = StopZone(m)
  BY <1>1 DEF DomainsInv, DomainsTypeOK
<1>3. cname' = [cname EXCEPT ![<<y, m>>] = t] /\ <<y, m>> \in Zone \X DnsName
  BY <1>2 DEF SetRecord
<1>4. cname \in [Zone \X DnsName -> Project \cup {Off, "other"}]
  BY DEF DomainsInv, DomainsTypeOK
<1>5. cname' \in [Zone \X DnsName -> Project \cup {Off, "other"}] /\ cname'[<<y, m>>] = t
  BY <1>3, <1>4
<1>6. ASSUME NEW z \in Zone, NEW n \in DnsName, cname'[<<z, n>>] # cname[<<z, n>>]
      PROVE  z = y /\ n = m
  <2>1. <<z, n>> \in Zone \X DnsName
    OBVIOUS
  <2>2. <<z, n>> = <<y, m>>
    BY <1>3, <1>4, <1>6, <2>1
  <2> QED  BY <2>2
<1> QED  BY <1>2, <1>5, <1>6

LEMMA HandledIsAlone ==
  ASSUME DomainsInv, NEW p \in Project, Handled(p),
         cname' \in [Zone \X DnsName -> Project \cup {Off, "other"}],
         binding' \in [DnsName -> [to : Project \cup {Off}, active : BOOLEAN]],
         \A z \in Zone, n \in DnsName : cname'[z, n] # cname[z, n] =>
           n = host[p] /\ z = StopZone(n) /\ cname'[z, n] \in {p, Off},
         \A n \in DnsName : binding'[n].to # binding[n].to => binding'[n].to \in {p, Off},
         NameInv(p)'
  PROVE  DomainsInv'
<1>1. Alone(p)
  BY DEF Handled, Alone
<1>2. DomainsTypeOK'
  BY DEF DomainsInv, DomainsTypeOK, Handled
<1> QED  BY <1>1, <1>2, AloneKeeps

LEMMA HandledQuietly ==
  ASSUME DomainsInv, NEW p \in Project, Handled(p), UNCHANGED <<cname, binding>>, NameInv(p)'
  PROVE  DomainsInv'
BY HandledIsAlone DEF DomainsInv, DomainsTypeOK

-----------------------------------------------------------------------------
(* Links, the world, and the deployment.                                   *)

LEMMA RelinkStep ==
  ASSUME DomainsInv, NEW p \in Project, NEW n \in Custom \cup {Off}, Relink(p, n)
  PROVE  DomainsInv'
<1>1. /\ phase[p] \in {"off", "failed", "live"} /\ link' = [link EXCEPT ![p] = n]
      /\ n # Off => \A q \in Project : link[q] # n
      /\ UNCHANGED <<cname, binding, phase, tries, host, zone, trouble, names, spared>>
  BY DEF Relink, memory
<1>2. link'[p] = n /\ \A q \in Project \ {p} : link'[q] = link[q]
  BY <1>1 DEF DomainsInv, DomainsTypeOK
<1>3. DomainsTypeOK'
  BY <1>1 DEF DomainsInv, DomainsTypeOK
<1>4. LinkInv'
  BY <1>1, <1>2 DEF DomainsInv, LinkInv
<1>5. RecordInv'
  BY <1>1 DEF DomainsInv, RecordInv, StopZone, ZoneOf
<1>6. NameInv(p)'
  BY <1>1 DEF DomainsInv, NameInv, HostInv, ZoneInv, SetUpInv, StopInv, Working, Stopping
<1>7. ASSUME NEW q \in Project \ {p}
      PROVE  NameInv(q)'
  <2>1. NameInv(q) /\ link'[q] = link[q]
    BY <1>2 DEF DomainsInv
  <2>2. HostInv(q)' /\ ZoneInv(q)' /\ SetUpInv(q)'
    BY <1>1, <2>1 DEF NameInv, HostInv, ZoneInv, SetUpInv, Record, StopZone, ZoneOf
  <2>3. StopInv(q)'
    BY <1>1, <2>1 DEF NameInv, StopInv, Waiting, Clear
  <2> QED  BY <2>2, <2>3 DEF NameInv
<1> QED  BY <1>3, <1>4, <1>5, <1>6, <1>7 DEF DomainsInv

LEMMA ActivateStep ==
  ASSUME DomainsInv, NEW n \in DnsName, Activate(n)
  PROVE  DomainsInv'
<1>1. UNCHANGED <<cname, link, phase, tries, host, zone, trouble, names, spared>>
  BY DEF Activate, memory
<1>2. PICK b \in [to : Project \cup {Off}, active : BOOLEAN] : b = binding[n]
  BY DEF DomainsInv, DomainsTypeOK
<1>3. binding' = [binding EXCEPT ![n] = [to |-> b.to, active |-> TRUE]]
  BY <1>2 DEF Activate, DomainsInv, DomainsTypeOK
<1>4. binding' \in [DnsName -> [to : Project \cup {Off}, active : BOOLEAN]]
      /\ \A m \in DnsName : binding'[m].to = binding[m].to
  BY <1>2, <1>3 DEF DomainsInv, DomainsTypeOK
<1>5. DomainsTypeOK' /\ LinkInv' /\ RecordInv'
  BY <1>1, <1>4 DEF DomainsInv, DomainsTypeOK, LinkInv, RecordInv, StopZone, ZoneOf
<1>6. ASSUME NEW q \in Project
      PROVE  NameInv(q)'
  <2>1. NameInv(q) /\ host[q] \in DnsName /\ {link[q], Derived[q]} \ {Off} \subseteq DnsName
    BY DerivedNames DEF DomainsInv, DomainsTypeOK
  <2>2. HostInv(q)' /\ ZoneInv(q)' /\ SetUpInv(q)'
    BY <1>1, <2>1 DEF NameInv, HostInv, ZoneInv, SetUpInv, Record, StopZone, ZoneOf
  <2>3. \A m \in DnsName : (Waiting(q, m)' <=> Waiting(q, m)) /\ (Clear(q, m)' <=> Clear(q, m))
    BY <1>1, <1>4 DEF Waiting, Clear
  <2>4. StopInv(q)'
    BY <1>1, <1>4, <2>1, <2>3 DEF NameInv, StopInv
  <2> QED  BY <2>2, <2>4 DEF NameInv
<1> QED  BY <1>5, <1>6 DEF DomainsInv

LEMMA DeployStep ==
  ASSUME DomainsInv, NEW p \in Project, Deploy(p)
  PROVE  DomainsInv'
<1>1. PICK n \in DnsName : n \in {link[p], Derived[p]} /\ host' = [host EXCEPT ![p] = n]
  BY DerivedNames DEF Deploy, DomainsInv, DomainsTypeOK
<1>2. To(p, "resolve") /\ "resolve" \in Phase /\ DomainsTypeOK
      /\ UNCHANGED <<cname, binding, link, zone, trouble, names, spared>>
  BY DEF Deploy, Phase, DomainsInv
<1>3. phase'[p] = "resolve" /\ host'[p] = n
  BY <1>1, <1>2, ToGoesOn DEF DomainsTypeOK
<1>4. Handled(p)
  BY <1>1, <1>2, ToGoesOn DEF Handled, DomainsTypeOK
<1>5. NameInv(p)'
  BY <1>1, <1>2, <1>3
     DEF NameInv, HostInv, ZoneInv, SetUpInv, StopInv, Working, Stopping, Phase
<1> QED  BY <1>2, <1>4, <1>5, HandledQuietly

LEMMA ResolveZoneStep ==
  ASSUME DomainsInv, NEW p \in Project, ResolveZone(p)
  PROVE  DomainsInv'
<1>1. phase[p] = "resolve" /\ UNCHANGED <<cname, binding, link>> /\ DomainsTypeOK /\ NameInv(p)
  BY DEF ResolveZone, DomainsInv
<1>2. PICK n \in DnsName : n = host[p]
  BY <1>1 DEF DomainsTypeOK
<1>3. ASSUME NEW y, y = IF ZoneOf(n) = Off THEN GlobalZone ELSE ZoneOf(n),
             n \notin Custom \/ ZoneOf(n) # Off, zone' = [zone EXCEPT ![p] = y], To(p, "list"),
             UNCHANGED <<host, trouble, names, spared>>
      PROVE  Handled(p) /\ NameInv(p)'
  <2>1. y = StopZone(n) /\ y \in Zone /\ y # Off
    BY <1>3, LongestZone, DomainsAssumption DEF StopZone, DnsName
  <2>2. "list" \in Phase /\ "list" \in Working
    BY DEF Phase, Working
  <2>3. Handled(p) /\ phase'[p] = "list" /\ zone'[p] = y
    BY <1>1, <1>3, <2>1, <2>2, ToGoesOn DEF Handled, DomainsTypeOK
  <2>4. HostInv(p)' /\ ZoneInv(p)'
    BY <1>1, <1>2, <1>3, <2>1, <2>2, <2>3 DEF NameInv, HostInv, ZoneInv
  <2> QED  BY <2>3, <2>4 DEF NameInv, SetUpInv, StopInv, Stopping
<1>4. Handled(p) /\ NameInv(p)'
  <2>1. CASE GiveUpDns(p)
    BY <1>1, <2>1, GiveUpDnsHandles DEF Working, Phase
  <2>2. CASE ~GiveUpDns(p)
    BY <1>2, <1>3, <2>2 DEF ResolveZone
  <2> QED  BY <2>1, <2>2
<1> QED  BY <1>1, <1>4, HandledQuietly

\* Going on with the deployment of the name.
LEMMA DeployGoesOn ==
  ASSUME DomainsInv, NEW p \in Project, NEW s \in {"create", "replace", "bind", "confirm", "poll"},
         phase[p] \in {"list", "create", "replace", "bind", "confirm", "poll"},
         To(p, s), UNCHANGED <<memory, link>>,
         s \in {"create", "replace"} => phase[p] \in {"list", "replace"},
         s = "replace" => cname'[zone[p], host[p]] # p,
         s \in {"bind", "confirm", "poll"} /\ ~trouble[p] =>
           zone[p] # Off /\ cname'[zone[p], host[p]] = p
  PROVE  Handled(p) /\ NameInv(p)'
<1>1. s \in Phase /\ s \in Working /\ phase[p] \in Working /\ DomainsTypeOK /\ NameInv(p)
  BY DEF Phase, Working, DomainsInv
<1>2. Handled(p) /\ phase'[p] = s
  BY <1>1, ToHandles
<1>3. UNCHANGED <<host, zone, trouble, names, spared>>
  BY DEF memory
<1>4. HostInv(p)' /\ ZoneInv(p)' /\ SetUpInv(p)'
  BY <1>1, <1>2, <1>3 DEF NameInv, HostInv, ZoneInv, SetUpInv, Record, StopZone, ZoneOf
<1> QED  BY <1>2, <1>4 DEF NameInv, StopInv, Stopping

LEMMA ListRecordStep ==
  ASSUME DomainsInv, NEW p \in Project, ListRecord(p)
  PROVE  DomainsInv'
<1>1. phase[p] = "list" /\ UNCHANGED <<cname, binding, link>> /\ zone[p] # Off
  BY DEF ListRecord, DomainsInv, NameInv, ZoneInv
<1>2. CASE Pointed(p) /\ DnsDone(p)
  BY <1>1, <1>2, DeployGoesOn, HandledQuietly DEF DnsDone, Pointed, Record
<1>3. CASE GiveUpDns(p)
  BY <1>1, <1>3, GiveUpDnsHandles, HandledQuietly DEF Working, Phase
<1>4. CASE ~Pointed(p) /\ To(p, IF Record(p) = Off THEN "create" ELSE "replace") /\ UNCHANGED memory
  <2>1. PICK s \in {"create", "replace"} : To(p, s)
    BY <1>4
  <2>2. cname'[zone[p], host[p]] # p
    BY <1>1, <1>4 DEF Pointed, Record
  <2> QED  BY <1>1, <1>4, <2>1, <2>2, DeployGoesOn, HandledQuietly
<1> QED  BY <1>2, <1>3, <1>4 DEF ListRecord

\* The call is tried again.
LEMMA RetryKeeps ==
  ASSUME DomainsInv, NEW p \in Project, Retry(p), UNCHANGED link, phase[p] \notin Stopping,
         phase[p] = "replace" => cname'[zone[p], host[p]] # p,
         phase[p] \in {"bind", "confirm", "poll"} => UNCHANGED cname
  PROVE  Handled(p) /\ NameInv(p)'
<1>1. DomainsTypeOK /\ NameInv(p) /\ UNCHANGED <<phase, host, zone, trouble, names, spared>>
  BY DEF DomainsInv, Retry, memory
<1>2. Handled(p)
  BY <1>1, RetryHandles
<1>3. HostInv(p)' /\ ZoneInv(p)' /\ SetUpInv(p)'
  BY <1>1 DEF NameInv, HostInv, ZoneInv, SetUpInv, Record, StopZone, ZoneOf
<1> QED  BY <1>1, <1>2, <1>3 DEF NameInv, StopInv

LEMMA RecordCall ==
  ASSUME DomainsInv, NEW p \in Project, phase[p] \in {"replace", "create", "erase"},
         NEW t \in {p, Off}, SetRecord(p, t) \/ UNCHANGED cname
  PROVE  /\ cname' \in [Zone \X DnsName -> Project \cup {Off, "other"}]
         /\ \A z \in Zone, n \in DnsName : cname'[z, n] # cname[z, n] =>
              n = host[p] /\ z = StopZone(n) /\ cname'[z, n] \in {p, Off}
<1>1. CASE SetRecord(p, t)
  <2>1. cname' \in [Zone \X DnsName -> Project \cup {Off, "other"}]
    BY <1>1, RecordSet
  <2>2. \A z \in Zone, n \in DnsName : cname'[z, n] # cname[z, n] =>
          n = host[p] /\ z = StopZone(n) /\ cname'[z, n] = t
    BY <1>1, RecordSet
  <2> QED  BY <2>1, <2>2
<1>2. CASE UNCHANGED cname
  BY <1>2 DEF DomainsInv, DomainsTypeOK
<1> QED  BY <1>1, <1>2

\* What a call does to the binding of a name.
LEMMA BindingSet ==
  ASSUME DomainsTypeOK, NEW n \in DnsName, NEW t \in Project \cup {Off},
         binding' = [binding EXCEPT ![n] = [to |-> t, active |-> FALSE]] \/ UNCHANGED binding
  PROVE  /\ binding' \in [DnsName -> [to : Project \cup {Off}, active : BOOLEAN]]
         /\ \A m \in DnsName : binding'[m].to # binding[m].to => binding'[m].to = t
<1>1. PICK b \in [to : Project \cup {Off}, active : BOOLEAN] :
        b = [to |-> t, active |-> FALSE] /\ b.to = t
  <2>1. [to |-> t, active |-> FALSE] \in [to : Project \cup {Off}, active : BOOLEAN]
    OBVIOUS
  <2>2. [to |-> t, active |-> FALSE].to = t
    OBVIOUS
  <2> QED  BY <2>1, <2>2
<1>2. binding \in [DnsName -> [to : Project \cup {Off}, active : BOOLEAN]]
  BY DEF DomainsTypeOK
<1>3. CASE binding' = [binding EXCEPT ![n] = b]
  <2>1. binding' \in [DnsName -> [to : Project \cup {Off}, active : BOOLEAN]]
    BY <1>2, <1>3
  <2>2. \A m \in DnsName : binding'[m] = b \/ binding'[m] = binding[m]
    BY <1>2, <1>3
  <2> QED  BY <1>1, <2>1, <2>2
<1>4. CASE UNCHANGED binding
  BY <1>2, <1>4
<1> QED  BY <1>1, <1>3, <1>4

LEMMA ReplaceStep ==
  ASSUME DomainsInv, NEW p \in Project, Replace(p)
  PROVE  DomainsInv'
<1>1. /\ phase[p] = "replace" /\ UNCHANGED <<binding, link>>
      /\ Record(p) # p /\ zone[p] # Off /\ Off # p
  BY DerivedNames DEF Replace, DomainsInv, NameInv, SetUpInv, ZoneInv
<1>2. SetRecord(p, Off) \/ UNCHANGED cname
  BY DEF Replace, Attempt
<1>3. cname'[zone[p], host[p]] # p
  BY <1>1, <1>2, RecordSet DEF Record
<1>4. Handled(p) /\ NameInv(p)'
  <2>1. CASE Retry(p)
    BY <1>1, <1>3, <2>1, RetryKeeps DEF Stopping
  <2>2. CASE GiveUpDns(p)
    BY <1>1, <2>2, GiveUpDnsHandles DEF Working, Phase
  <2>3. CASE To(p, "create") /\ UNCHANGED memory
    BY <1>1, <2>3, DeployGoesOn
  <2> QED  BY <2>1, <2>2, <2>3 DEF Replace, Attempt
<1> QED  BY <1>1, <1>2, <1>4, RecordCall, HandledIsAlone DEF DomainsInv, DomainsTypeOK

LEMMA CreateStep ==
  ASSUME DomainsInv, NEW p \in Project, Create(p)
  PROVE  DomainsInv'
<1>1. phase[p] = "create" /\ UNCHANGED <<binding, link>> /\ zone[p] # Off
  BY DEF Create, DomainsInv, NameInv, ZoneInv
<1>2. SetRecord(p, p) \/ UNCHANGED cname
  BY DEF Create, Attempt
<1>3. Handled(p) /\ NameInv(p)'
  <2>1. CASE Retry(p)
    BY <1>1, <2>1, RetryKeeps DEF Stopping
  <2>2. CASE GiveUpDns(p)
    BY <1>1, <2>2, GiveUpDnsHandles DEF Working, Phase
  <2>3. CASE SetRecord(p, p) /\ DnsDone(p)
    <3>1. cname'[zone[p], host[p]] = p
      BY <1>1, <2>3, RecordSet
    <3> QED  BY <1>1, <2>3, <3>1, DeployGoesOn DEF DnsDone
  <2> QED  BY <2>1, <2>2, <2>3 DEF Create, Attempt
<1> QED  BY <1>1, <1>2, <1>3, RecordCall, HandledIsAlone DEF DomainsInv, DomainsTypeOK

LEMMA OutcomeHandles ==
  ASSUME DomainsInv, NEW p \in Project, NEW failed \in BOOLEAN, Outcome(p, failed), UNCHANGED link
  PROVE  Handled(p) /\ NameInv(p)'
<1>1. PICK s \in {"off", "failed", "live"} : Rest(p, s)
  BY DEF Outcome
<1> QED  BY <1>1, RestHandles DEF DomainsInv

LEMMA BindNameStep ==
  ASSUME DomainsInv, NEW p \in Project, BindName(p)
  PROVE  DomainsInv'
<1>1. /\ phase[p] = "bind" /\ UNCHANGED <<cname, link>>
      /\ ~trouble[p] => zone[p] # Off /\ Record(p) = p
  BY DEF BindName, DomainsInv, NameInv, SetUpInv
<1>2. PICK n \in DnsName : n = host[p]
  BY DEF DomainsInv, DomainsTypeOK
<1>3. binding' = [binding EXCEPT ![n] = [to |-> p, active |-> FALSE]] \/ UNCHANGED binding
  BY <1>2 DEF BindName, Attempt
<1>4. /\ binding' \in [DnsName -> [to : Project \cup {Off}, active : BOOLEAN]]
      /\ \A m \in DnsName : binding'[m].to # binding[m].to => binding'[m].to \in {p, Off}
  BY <1>3, BindingSet DEF DomainsInv
<1>5. Handled(p) /\ NameInv(p)'
  <2>1. CASE Retry(p)
    BY <1>1, <2>1, RetryKeeps DEF Stopping
  <2>2. CASE Outcome(p, TRUE)
    BY <1>1, <2>2, OutcomeHandles
  <2>3. ASSUME NEW s \in {"poll", "confirm"}, To(p, s), UNCHANGED memory
        PROVE  Handled(p) /\ NameInv(p)'
    BY <1>1, <2>3, DeployGoesOn DEF Record
  <2> QED  BY <2>1, <2>2, <2>3 DEF BindName, Attempt
<1> QED  BY <1>1, <1>4, <1>5, HandledIsAlone DEF DomainsInv, DomainsTypeOK

LEMMA ConfirmStep ==
  ASSUME DomainsInv, NEW p \in Project, Confirm(p)
  PROVE  DomainsInv'
<1>1. /\ phase[p] = "confirm" /\ UNCHANGED <<cname, binding, link>>
      /\ ~trouble[p] => zone[p] # Off /\ Record(p) = p
  BY DEF Confirm, DomainsInv, NameInv, SetUpInv
<1>2. CASE To(p, "poll") /\ UNCHANGED memory
  BY <1>1, <1>2, DeployGoesOn, HandledQuietly DEF Record
<1>3. CASE Outcome(p, TRUE)
  BY <1>1, <1>3, OutcomeHandles, HandledQuietly
<1> QED  BY <1>2, <1>3 DEF Confirm

LEMMA PollStep ==
  ASSUME DomainsInv, NEW p \in Project, Poll(p)
  PROVE  DomainsInv'
<1>1. phase[p] = "poll" /\ UNCHANGED <<cname, binding, link>> /\ DomainsTypeOK /\ NameInv(p)
  BY DEF Poll, DomainsInv
<1>2. ASSUME tries' = [tries EXCEPT ![p] = @ + 1], UNCHANGED <<phase, memory>>
      PROVE  Handled(p) /\ NameInv(p)'
  <2>1. UNCHANGED <<phase, host, zone, trouble, names, spared>>
    BY <1>2 DEF memory
  <2>2. Handled(p)
    BY <1>1, <1>2, <2>1 DEF Handled, DomainsTypeOK
  <2>3. HostInv(p)' /\ ZoneInv(p)' /\ SetUpInv(p)'
    BY <1>1, <2>1 DEF NameInv, HostInv, ZoneInv, SetUpInv, Record, StopZone, ZoneOf
  <2> QED  BY <1>1, <2>1, <2>2, <2>3 DEF NameInv, StopInv, Stopping
<1>3. Handled(p) /\ NameInv(p)'
  BY <1>1, <1>2, OutcomeHandles DEF Poll
<1> QED  BY <1>1, <1>3, HandledQuietly

-----------------------------------------------------------------------------
(* stop                                                                    *)

\* Calls of stop only take away.
Fewer ==
  /\ \A z \in Zone, n \in DnsName : cname'[z, n] # cname[z, n] => cname'[z, n] = Off
  /\ \A n \in DnsName : binding'[n].to # binding[n].to => binding'[n].to = Off

LEMMA ClearStays ==
  ASSUME Fewer, NEW p \in Project, NEW n \in DnsName, Clear(p, n)
  PROVE  Clear(p, n)'
<1>1. binding'[n].to # p
  BY DerivedNames DEF Fewer, Clear
<1>2. \A z \in Zone : cname'[z, n] # p
  BY DerivedNames DEF Fewer, Clear
<1> QED  BY <1>1, <1>2 DEF Clear

LEMMA StopGoesOn ==
  ASSUME DomainsInv, NEW p \in Project, phase[p] \in {"unbind", "find", "erase"},
         phase'[p] \in Stopping, names'[p] = names[p], host'[p] = host[p], link' = link, Fewer,
         ~trouble'[p] => ~trouble[p], ~spared'[p] => ~spared[p],
         ~trouble'[p] /\ ~spared'[p] =>
           /\ phase'[p] \in {"find", "erase"} => binding'[host[p]].to # p
           /\ phase'[p] = "next" => Clear(p, host[p])'
  PROVE  StopInv(p)' /\ HostInv(p)'
<1>1. NameInv(p) /\ phase[p] \in Stopping
  BY DEF DomainsInv, Stopping
<1>2. {link[p], Derived[p]} \ {Off} \subseteq DnsName
  BY DerivedNames DEF DomainsInv, DomainsTypeOK
<1>3. ASSUME ~trouble'[p], ~spared'[p], NEW n \in {link[p], Derived[p]} \ {Off}
      PROVE  (Waiting(p, n) \/ Clear(p, n))'
  <2>1. Waiting(p, n) \/ Clear(p, n)
    BY <1>1, <1>3 DEF NameInv, StopInv
  <2>2. CASE Clear(p, n)
    BY <1>2, <2>2, ClearStays
  <2>3. CASE Waiting(p, n)
    BY <1>3, <2>3 DEF Waiting, Stopping
  <2> QED  BY <2>1, <2>2, <2>3
<1>4. StopInv(p)'
  BY <1>1, <1>3 DEF NameInv, StopInv
<1>5. HostInv(p)'
  BY <1>1 DEF NameInv, HostInv, Working, Stopping, Phase
<1> QED  BY <1>4, <1>5

LEMMA StopStep ==
  ASSUME DomainsInv, NEW p \in Project, Stop(p)
  PROVE  DomainsInv'
<1>1. /\ phase[p] = "live" /\ To(p, "next") /\ "next" \in Phase /\ DomainsTypeOK /\ NameInv(p)
      /\ UNCHANGED <<cname, binding, link, host, zone, trouble>>
  BY DEF Stop, DomainsInv, Phase
<1>2. phase'[p] = "next" /\ Derived[p] \in DnsName /\ Derived[p] # Off
  BY <1>1, ToGoesOn, DerivedNames
<1>3. link[p] # Off => link[p] \in DnsName
  BY <1>1, DerivedNames DEF DomainsTypeOK
<1>4. PICK ns \in Seq(DnsName) : names' = [names EXCEPT ![p] = ns] /\
                (\/ link[p] = Off /\ ns = <<Derived[p]>> /\ UNCHANGED spared
                 \/ link[p] # Off /\ ns = <<link[p], Derived[p]>> /\ UNCHANGED spared
                 \/ ns = <<Derived[p]>> /\ spared' = [spared EXCEPT ![p] = TRUE])
  <2>1. /\ <<Derived[p]>> \in Seq(DnsName)
        /\ link[p] # Off => <<link[p], Derived[p]>> \in Seq(DnsName)
    BY <1>2, <1>3
  <2>2. CASE /\ names' = [names EXCEPT ![p] = StopNames(p)]
             /\ UNCHANGED spared
    BY <2>1, <2>2 DEF StopNames
  <2>3. CASE /\ names' = [names EXCEPT ![p] = <<Derived[p]>>]
             /\ spared' = [spared EXCEPT ![p] = TRUE]
    BY <2>1, <2>3
  <2> QED  BY <2>2, <2>3 DEF Stop
<1>5. names'[p] = ns
  BY <1>1, <1>4 DEF DomainsTypeOK
<1>6. Handled(p)
  BY <1>1, <1>4, <1>5, ToGoesOn DEF Handled, DomainsTypeOK
<1>7. StopInv(p)'
  <2>1. ns \in {<<Derived[p]>>, <<link[p], Derived[p]>>}
    BY <1>4
  <2>2. ASSUME ~spared'[p], NEW n \in {link[p], Derived[p]} \ {Off}
        PROVE  Waiting(p, n)'
    <3>1. CASE link[p] = Off /\ ns = <<Derived[p]>>
      <4>1. 1 \in DOMAIN ns /\ ns[1] = n
        BY <2>2, <3>1
      <4> QED  BY <1>5, <4>1 DEF Waiting
    <3>2. CASE ns = <<link[p], Derived[p]>>
      <4>1. /\ 1 \in DOMAIN ns /\ 2 \in DOMAIN ns
            /\ ns[1] = link[p] /\ ns[2] = Derived[p]
        BY <3>2
      <4> QED  BY <1>5, <2>2, <4>1 DEF Waiting
    <3>3. CASE spared' = [spared EXCEPT ![p] = TRUE]
      BY <1>1, <2>2, <3>3 DEF DomainsTypeOK
    <3> QED  BY <1>4, <3>1, <3>2, <3>3
  <2> QED  BY <1>1, <1>2, <1>5, <2>1, <2>2 DEF StopInv
<1>8. HostInv(p)'
  BY <1>1 DEF NameInv, HostInv, Working
<1> QED  BY <1>1, <1>2, <1>6, <1>7, <1>8, HandledQuietly DEF NameInv, ZoneInv, SetUpInv

\* The first of the names that are left, and the others.
Listing(ns, a, b) == ns = <<a>> \/ ns = <<b, a>>

LEMMA NamesLeft ==
  ASSUME NEW a, NEW b, NEW ns, Listing(ns, a, b)
  PROVE  /\ Head(ns) \in {a, b} /\ Tail(ns) \in {<<>>, <<a>>, <<b, a>>}
         /\ \A i \in DOMAIN ns : ns[i] = Head(ns) \/ \E j \in DOMAIN Tail(ns) : Tail(ns)[j] = ns[i]
<1>1. CASE ns = <<a>>
  BY <1>1
<1>2. CASE ns = <<b, a>>
  <2>1. Head(ns) = b /\ Tail(ns) = <<a>> /\ DOMAIN ns = {1, 2} /\ ns[1] = b /\ ns[2] = a
    BY <1>2
  <2>2. 1 \in DOMAIN Tail(ns) /\ Tail(ns)[1] = a
    BY <2>1
  <2> QED  BY <2>1, <2>2
<1> QED  BY <1>1, <1>2 DEF Listing

LEMMA NextNameStep ==
  ASSUME DomainsInv, NEW p \in Project, NextName(p)
  PROVE  DomainsInv'
<1>1. phase[p] = "next" /\ UNCHANGED <<cname, binding, link>> /\ DomainsTypeOK /\ NameInv(p)
  BY DEF NextName, DomainsInv
<1>2. CASE Rest(p, "off") \/ Rest(p, "live")
  BY <1>1, <1>2, RestHandles, HandledQuietly
<1>3. ASSUME names[p] # <<>>, host' = [host EXCEPT ![p] = Head(names[p])],
             names' = [names EXCEPT ![p] = Tail(@)], To(p, "unbind"),
             UNCHANGED <<zone, trouble, spared>>
      PROVE  DomainsInv'
  <2>1. "unbind" \in Phase /\ "unbind" \in Working /\ "next" \in Stopping
    BY DEF Phase, Working, Stopping
  <2>2. PICK ns \in Seq(DnsName) : ns = names[p] /\ ns \in {<<Derived[p]>>, <<link[p], Derived[p]>>}
    BY <1>1, <1>3, <2>1 DEF NameInv, StopInv, DomainsTypeOK
  <2>3. ns # <<>> /\ Head(ns) \in DnsName /\ Tail(ns) \in Seq(DnsName)
    BY <1>3, <2>2
  <2>4. host'[p] = Head(ns) /\ names'[p] = Tail(ns) /\ phase'[p] = "unbind"
    BY <1>1, <1>3, <2>1, <2>2, ToGoesOn DEF DomainsTypeOK
  <2>5. Handled(p)
    BY <1>1, <1>3, <2>1, <2>2, <2>3, ToGoesOn DEF Handled, DomainsTypeOK
  <2>6. /\ Head(ns) \in {Derived[p], link[p]}
        /\ Tail(ns) \in {<<>>, <<Derived[p]>>, <<link[p], Derived[p]>>}
        /\ \A i \in DOMAIN ns : ns[i] = Head(ns) \/ \E j \in DOMAIN Tail(ns) : Tail(ns)[j] = ns[i]
    <3>1. Listing(ns, Derived[p], link[p])
      BY <2>2 DEF Listing
    <3> QED  BY <3>1, NamesLeft
  <2>7. HostInv(p)'
    BY <1>1, <2>1, <2>4, <2>6 DEF HostInv
  <2>8. ASSUME ~trouble[p], ~spared[p], NEW n \in {link[p], Derived[p]} \ {Off}
        PROVE  (Waiting(p, n) \/ Clear(p, n))'
    <3>1. Waiting(p, n) \/ Clear(p, n)
      BY <1>1, <2>1, <2>8 DEF NameInv, StopInv
    <3>2. CASE Clear(p, n)
      BY <1>1, <3>2 DEF Clear
    <3>3. CASE Waiting(p, n)
      <4>1. PICK i \in DOMAIN ns : ns[i] = n
        BY <1>1, <2>2, <3>3 DEF Waiting
      <4> QED  BY <2>4, <2>6, <4>1 DEF Waiting
    <3> QED  BY <3>1, <3>2, <3>3
  <2>9. StopInv(p)'
    BY <1>1, <1>3, <2>4, <2>6, <2>8 DEF StopInv
  <2> QED  BY <1>1, <2>4, <2>5, <2>7, <2>9, HandledQuietly DEF NameInv, ZoneInv, SetUpInv
<1> QED  BY <1>2, <1>3 DEF NextName

LEMMA UnbindNameStep ==
  ASSUME DomainsInv, NEW p \in Project, UnbindName(p)
  PROVE  DomainsInv'
<1>1. phase[p] = "unbind" /\ UNCHANGED <<cname, link>> /\ DomainsTypeOK /\ NameInv(p)
  BY DEF UnbindName, DomainsInv
<1>2. PICK n \in DnsName : n = host[p]
  BY <1>1 DEF DomainsTypeOK
<1>3. Off # p /\ Unbound.to = Off /\ Unbound \in [to : Project \cup {Off}, active : BOOLEAN]
  BY DerivedNames DEF Unbound
<1>4. binding' = [binding EXCEPT ![n] = Unbound] \/ UNCHANGED binding
  BY <1>2 DEF UnbindName, Attempt
<1>5. /\ binding' \in [DnsName -> [to : Project \cup {Off}, active : BOOLEAN]]
      /\ \A m \in DnsName : binding'[m].to # binding[m].to => binding'[m].to = Off
  BY <1>1, <1>4, BindingSet DEF Unbound
<1>6. Fewer
  BY <1>1, <1>5 DEF Fewer
<1>7. "find" \in Phase /\ "find" \in Stopping /\ "unbind" \in Stopping
  BY DEF Phase, Stopping
<1>8. CASE Retry(p)
  <2>1. Handled(p) /\ phase' = phase /\ UNCHANGED <<host, zone, trouble, names, spared>>
    BY <1>1, <1>8, RetryHandles DEF Retry, memory
  <2>2. StopInv(p)' /\ HostInv(p)'
    BY <1>1, <1>6, <1>7, <2>1, StopGoesOn
  <2>3. NameInv(p)'
    BY <1>1, <2>1, <2>2 DEF NameInv, ZoneInv, SetUpInv
  <2> QED  BY <1>1, <1>5, <2>1, <2>3, HandledIsAlone DEF DomainsTypeOK
<1>9. ASSUME To(p, "find"), UNCHANGED <<host, zone, names, spared>>,
             trouble' = [trouble EXCEPT ![p] = TRUE] \/ (UNCHANGED trouble /\ binding'[n].to # p)
      PROVE  DomainsInv'
  <2>1. Handled(p) /\ phase'[p] = "find"
    BY <1>1, <1>7, <1>9, ToGoesOn DEF Handled, DomainsTypeOK
  <2>2. (~trouble'[p] => ~trouble[p]) /\ (~trouble'[p] => binding'[n].to # p)
    BY <1>1, <1>9 DEF DomainsTypeOK
  <2>3. StopInv(p)' /\ HostInv(p)'
    BY <1>1, <1>2, <1>6, <1>7, <1>9, <2>1, <2>2, StopGoesOn
  <2>4. NameInv(p)'
    BY <2>1, <2>3 DEF NameInv, ZoneInv, SetUpInv
  <2> QED  BY <1>1, <1>5, <2>1, <2>4, HandledIsAlone DEF DomainsTypeOK
<1>10. binding' = [binding EXCEPT ![n] = Unbound] => binding'[n].to # p
  BY <1>1, <1>3 DEF DomainsTypeOK
<1> QED  BY <1>2, <1>8, <1>9, <1>10 DEF UnbindName, Attempt, memory

\* A record of the project is nowhere but in the zone that is searched.
LEMMA OneZone ==
  ASSUME DomainsInv, NEW p \in Project, NEW n \in DnsName, NEW y, y = StopZone(n),
         y \in Zone => cname[y, n] # p
  PROVE  \A z \in Zone : cname[z, n] # p
BY DEF DomainsInv, RecordInv

LEMMA FindRecordStep ==
  ASSUME DomainsInv, NEW p \in Project, FindRecord(p)
  PROVE  DomainsInv'
<1>1. phase[p] = "find" /\ UNCHANGED <<cname, binding, link>> /\ DomainsTypeOK /\ NameInv(p)
  BY DEF FindRecord, DomainsInv
<1>2. PICK n \in DnsName : n = host[p]
  BY <1>1 DEF DomainsTypeOK
<1>3. Fewer /\ "find" \in Stopping /\ p # Off
  BY <1>1, DerivedNames DEF Fewer, Stopping
<1>4. CASE Spare(p)
  BY <1>1, <1>3, <1>4, SpareHandles, HandledQuietly
<1>5. ASSUME NEW y, y = StopZone(n), y # Off, zone' = [zone EXCEPT ![p] = y],
             NEW s \in {"next", "erase"}, s = "next" => cname[y, n] = Off, To(p, s),
             UNCHANGED <<host, trouble, names, spared>>
      PROVE  DomainsInv'
  <2>1. y \in Zone /\ s \in Phase /\ s \in Stopping
    BY <1>5, StopZoneIsZone DEF Phase, Stopping
  <2>2. Handled(p) /\ phase'[p] = s /\ zone'[p] = y
    BY <1>1, <1>5, <2>1, ToGoesOn DEF Handled, DomainsTypeOK
  <2>3. ~trouble[p] /\ ~spared[p] => binding'[n].to # p
    BY <1>1, <1>2, <1>3 DEF NameInv, StopInv
  <2>4. ASSUME ~trouble[p], ~spared[p], s = "next"
        PROVE  Clear(p, n)'
    <3>1. \A z \in Zone : cname[z, n] # p
      BY <1>3, <1>5, <2>4, OneZone
    <3> QED  BY <1>1, <2>3, <2>4, <3>1 DEF Clear
  <2>5. StopInv(p)' /\ HostInv(p)'
    BY <1>1, <1>2, <1>3, <1>5, <2>1, <2>2, <2>3, <2>4, StopGoesOn
  <2>6. ZoneInv(p)' /\ SetUpInv(p)'
    BY <1>2, <1>5, <2>2 DEF ZoneInv, SetUpInv
  <2> QED  BY <1>1, <2>2, <2>5, <2>6, HandledQuietly DEF NameInv
<1>6. CASE ~Spare(p)
  BY <1>2, <1>5, <1>6 DEF FindRecord
<1> QED  BY <1>4, <1>6

LEMMA EraseStep ==
  ASSUME DomainsInv, NEW p \in Project, Erase(p)
  PROVE  DomainsInv'
<1>1. phase[p] = "erase" /\ UNCHANGED <<binding, link>> /\ DomainsTypeOK /\ NameInv(p)
  BY DEF Erase, DomainsInv
<1>2. PICK n \in DnsName : n = host[p]
  BY <1>1 DEF DomainsTypeOK
<1>3. /\ zone[p] = StopZone(n) /\ zone[p] # Off /\ p # Off
      /\ "erase" \in Stopping /\ "next" \in Stopping
  BY <1>1, <1>2, DerivedNames DEF NameInv, ZoneInv, Stopping
<1>4. SetRecord(p, Off) \/ UNCHANGED cname
  BY DEF Erase, Attempt
<1>5. /\ cname' \in [Zone \X DnsName -> Project \cup {Off, "other"}]
      /\ \A z \in Zone, m \in DnsName : cname'[z, m] # cname[z, m] =>
           m = host[p] /\ z = StopZone(m) /\ cname'[z, m] = Off
  BY <1>1, <1>4, RecordSet DEF DomainsTypeOK
<1>6. Fewer /\ binding' \in [DnsName -> [to : Project \cup {Off}, active : BOOLEAN]]
  BY <1>1, <1>5 DEF Fewer, DomainsTypeOK
<1>7. Handled(p) /\ NameInv(p)'
  <2>1. CASE Spare(p)
    BY <1>1, <1>3, <2>1, SpareHandles
  <2>2. CASE Retry(p)
    <3>1. Handled(p) /\ phase' = phase /\ UNCHANGED <<host, zone, trouble, names, spared>>
      BY <1>1, <2>2, RetryHandles DEF Retry, memory
    <3>2. ~trouble[p] /\ ~spared[p] => binding'[host[p]].to # p
      BY <1>1, <1>3 DEF NameInv, StopInv
    <3>3. StopInv(p)' /\ HostInv(p)'
      BY <1>1, <1>3, <1>6, <3>1, <3>2, StopGoesOn
    <3> QED  BY <1>1, <3>1, <3>3 DEF NameInv, ZoneInv, SetUpInv, StopZone, ZoneOf
  <2>3. CASE SetRecord(p, Off) /\ To(p, "next") /\ UNCHANGED memory
    <3>1. /\ Handled(p) /\ phase'[p] = "next" /\ UNCHANGED <<host, zone, trouble, names, spared>>
      BY <1>1, <2>3, ToHandles DEF memory, Phase
    <3>2. cname'[zone[p], n] = Off
      BY <1>1, <1>2, <2>3, RecordSet
    <3>3. ASSUME ~trouble[p], ~spared[p]
          PROVE  Clear(p, n)'
      <4>1. binding'[n].to # p
        BY <1>1, <1>2, <1>3, <3>3 DEF NameInv, StopInv
      <4>2. ASSUME NEW z \in Zone
            PROVE  cname'[z, n] # p
        <5>1. CASE z = zone[p]
          BY <1>3, <3>2, <5>1
        <5>2. CASE z # zone[p]
          <6>1. cname[z, n] # p
            BY <1>3, <5>2 DEF DomainsInv, RecordInv
          <6> QED  BY <1>3, <1>5, <6>1
        <5> QED  BY <5>1, <5>2
      <4> QED  BY <4>1, <4>2 DEF Clear
    <3>4. StopInv(p)' /\ HostInv(p)'
      BY <1>1, <1>2, <1>3, <1>6, <3>1, <3>3, StopGoesOn
    <3> QED  BY <3>1, <3>4 DEF NameInv, ZoneInv, SetUpInv
  <2> QED  BY <2>1, <2>2, <2>3 DEF Erase, Attempt
<1> QED  BY <1>1, <1>5, <1>6, <1>7, HandledIsAlone

-----------------------------------------------------------------------------
LEMMA DomainsUnchanged ==
  ASSUME DomainsInv, UNCHANGED domainVars
  PROVE  DomainsInv'
<1>1. UNCHANGED <<cname, binding, link, phase, tries, host, zone, trouble, names, spared>>
  BY DEF domainVars, memory
<1>2. DomainsTypeOK' /\ LinkInv' /\ RecordInv'
  BY <1>1 DEF DomainsInv, DomainsTypeOK, LinkInv, RecordInv, StopZone, ZoneOf
<1>3. ASSUME NEW q \in Project
      PROVE  NameInv(q)'
  <2>1. NameInv(q)
    BY DEF DomainsInv
  <2>2. HostInv(q)' /\ ZoneInv(q)' /\ SetUpInv(q)'
    BY <1>1, <2>1 DEF NameInv, HostInv, ZoneInv, SetUpInv, Record, StopZone, ZoneOf
  <2>3. StopInv(q)'
    BY <1>1, <2>1 DEF NameInv, StopInv, Waiting, Clear
  <2> QED  BY <2>2, <2>3 DEF NameInv
<1> QED  BY <1>2, <1>3 DEF DomainsInv

LEMMA DomainsInitInv == DomainsInit => DomainsInv
<1> SUFFICES ASSUME DomainsInit PROVE DomainsInv
  OBVIOUS
<1>1. cname \in [Zone \X DnsName -> Project \cup {Off, "other"}]
      /\ \A z \in Zone, n \in DnsName : cname[z, n] \in {Off, "other"}
  <2>1. cname \in [Zone \X DnsName -> {Off, "other"}]
    BY DEF DomainsInit
  <2>2. ASSUME NEW z \in Zone, NEW n \in DnsName
        PROVE  cname[<<z, n>>] \in {Off, "other"}
    <3>1. <<z, n>> \in Zone \X DnsName
      OBVIOUS
    <3> QED  BY <2>1, <3>1
  <2> QED  BY <2>1, <2>2
<1>2. <<>> \in Seq(DnsName) /\ \A p \in Project : Derived[p] \in DnsName
  BY DerivedNames
<1>3. DomainsTypeOK
  BY <1>1, <1>2 DEF DomainsInit, DomainsTypeOK, Unbound, Phase
<1>4. LinkInv /\ RecordInv
  BY <1>1, DomainsAssumption DEF DomainsInit, LinkInv, RecordInv
<1>5. ASSUME NEW p \in Project
      PROVE  NameInv(p)
  BY DEF DomainsInit, NameInv, HostInv, ZoneInv, SetUpInv, StopInv, Stopping
<1> QED  BY <1>3, <1>4, <1>5 DEF DomainsInv

LEMMA DomainsNextInv == DomainsInv /\ [DomainsNext]_domainVars => DomainsInv'
<1> SUFFICES ASSUME DomainsInv, [DomainsNext]_domainVars PROVE DomainsInv'
  OBVIOUS
<1>1. ASSUME NEW p \in Project, DomainStep(p)
      PROVE  DomainsInv'
  BY <1>1, DeployStep, ResolveZoneStep, ListRecordStep, ReplaceStep, CreateStep, BindNameStep,
     ConfirmStep, PollStep, StopStep, NextNameStep, UnbindNameStep, FindRecordStep, EraseStep
     DEF DomainStep
<1>2. ASSUME NEW p \in Project, NEW n \in Custom \cup {Off}, Relink(p, n)
      PROVE  DomainsInv'
  BY <1>2, RelinkStep
<1>3. ASSUME NEW n \in DnsName, Activate(n)
      PROVE  DomainsInv'
  BY <1>3, ActivateStep
<1> QED  BY <1>1, <1>2, <1>3, DomainsUnchanged DEF DomainsNext

\* What deploy_site has found or set up of a name, and what stop has taken back,
\* is so until they are done.
THEOREM DomainsInvariance == DomainsSpec => []DomainsInv
<1> QED  BY DomainsInitInv, DomainsNextInv, PTL DEF DomainsSpec

LEMMA OtherPhases ==
  ASSUME DomainsInv, NEW q \in Project, DomainStep(q)
  PROVE  \A p \in Project \ {q} : phase'[p] = phase[p]
<1>1. PICK s : phase' = [phase EXCEPT ![q] = s] \/ phase' = phase
  BY DEF DomainStep, Deploy, ResolveZone, ListRecord, Replace, Create, BindName, Confirm, Poll,
         Stop, NextName, UnbindName, FindRecord, Erase, Attempt, Retry, To, GiveUpDns, DnsDone,
         Outcome, Rest, Spare
<1> QED  BY <1>1 DEF DomainsInv, DomainsTypeOK

\* Nobody but the handler of a site moves it on.
LEMMA OnlyOwnPhase ==
  ASSUME DomainsInv, DomainsNext, NEW p \in Project, phase'[p] # phase[p]
  PROVE  DomainStep(p)
<1>1. PICK q \in Project : DomainStep(q)
  BY DEF DomainsNext, Relink, Activate
<1>2. ASSUME q # p
      PROVE  phase'[p] = phase[p]
  BY <1>1, <1>2, OtherPhases
<1> QED  BY <1>1, <1>2

\* Whatever attempts fail, lose their answers or are made twice, and whatever the
\* other sites do: a name of a site that became live points at the project and is
\* bound to it and active (deploy_site).
THEOREM LiveReached == DomainsSpec => LiveIsReached
<1>1. DomainsInv /\ [DomainsNext]_domainVars =>
        [\A p \in Project : phase[p] = "poll" /\ phase'[p] = "live" =>
           LET n == host[p] IN
           /\ cname[zone[p], n] = p
           /\ binding[n] = [to |-> p, active |-> TRUE]]_domainVars
  <2> SUFFICES ASSUME DomainsInv, DomainsNext, NEW p \in Project, phase[p] = "poll",
                      phase'[p] = "live"
               PROVE  /\ cname[zone[p], host[p]] = p
                      /\ binding[host[p]] = [to |-> p, active |-> TRUE]
    OBVIOUS
  <2>1. DomainStep(p)
    BY OnlyOwnPhase
  <2>2. Poll(p)
    BY <2>1 DEF DomainStep, Deploy, ResolveZone, ListRecord, Replace, Create, BindName, Confirm,
                Stop, NextName, UnbindName, FindRecord, Erase
  <2>3. Serves(p) /\ Outcome(p, FALSE)
    <3>1. CASE Outcome(p, TRUE)
      <4>1. To(p, "failed")
        BY <3>1 DEF Outcome, Rest
      <4>2. phase'[p] = "failed"
        BY <4>1, ToGoesOn DEF DomainsInv, Phase
      <4> QED  BY <4>2
    <3>2. CASE UNCHANGED <<phase, memory>>
      BY <3>2
    <3> QED  BY <2>2, <3>1, <3>2 DEF Poll
  <2>4. ~trouble[p]
    <3>1. ASSUME trouble[p] PROVE FALSE
      <4>1. To(p, "failed")
        BY <2>3, <3>1 DEF Outcome, Rest
      <4>2. phase'[p] = "failed"
        BY <4>1, ToGoesOn DEF DomainsInv, Phase
      <4> QED  BY <4>2
    <3> QED  BY <3>1
  <2>5. Record(p) = p
    BY <2>4 DEF DomainsInv, NameInv, SetUpInv
  <2> QED  BY <2>3, <2>5 DEF Serves, Record
<1> QED  BY <1>1, DomainsInvariance, PTL DEF DomainsSpec, LiveIsReached

\* A CNAME that points at the project of a site is taken away only by its stop, or
\* for another site that the name is linked to now (setup_dns, remove_dns_for_domain).
THEOREM RightRecordKept == DomainsSpec => RightRecordStays
<1>1. DomainsInv /\ [DomainsNext]_domainVars =>
        [\A z \in Zone, n \in DnsName : LET p == cname[z, n] IN
           p \in Project /\ cname'[z, n] # p =>
             phase[p] = "erase" \/ \E q \in Project \ {p} : host[q] = n]_domainVars
  <2> SUFFICES ASSUME DomainsInv, DomainsNext, NEW z \in Zone, NEW n \in DnsName,
                      cname[z, n] \in Project, cname'[z, n] # cname[z, n]
               PROVE  \/ phase[cname[z, n]] = "erase"
                      \/ \E q \in Project \ {cname[z, n]} : host[q] = n
    OBVIOUS
  <2> PICK p \in Project : p = cname[z, n]
    OBVIOUS
  <2>1. PICK q \in Project : Replace(q) \/ Create(q) \/ Erase(q)
    BY DEF DomainsNext, DomainStep, Deploy, ResolveZone, ListRecord, BindName, Confirm, Poll,
           Stop, NextName, UnbindName, FindRecord, Relink, Activate
  <2>2. PICK t \in {q, Off} : SetRecord(q, t) /\ (Create(q) => Record(q) = Off)
    BY <2>1 DEF Replace, Create, Erase, Attempt
  <2>3. phase[q] \in {"replace", "create", "erase"}
    BY <2>1 DEF Replace, Create, Erase
  <2>4. n = host[q] /\ z = StopZone(n)
    <3>1. \A y \in Zone, m \in DnsName : cname'[y, m] # cname[y, m] =>
            m = host[q] /\ y = StopZone(m) /\ cname'[y, m] = t
      BY <2>2, <2>3, RecordSet
    <3> QED  BY <3>1
  <2>5. ASSUME q = p, phase[p] # "erase"
        PROVE  FALSE
    <3>1. zone[p] = StopZone(host[p])
      BY <2>3, <2>5 DEF DomainsInv, NameInv, ZoneInv
    <3>2. Record(p) = p
      BY <2>4, <2>5, <3>1 DEF Record
    <3>3. ~Replace(p)
      BY <3>2 DEF DomainsInv, NameInv, SetUpInv, Replace
    <3> QED  BY <2>1, <2>2, <2>5, <3>2, <3>3, DerivedNames DEF Erase
  <2> QED  BY <2>4, <2>5
<1> QED  BY <1>1, DomainsInvariance, PTL DEF DomainsSpec, RightRecordStays

\* A stop without trouble that found all its records leaves neither a CNAME to the
\* project nor a binding, for the linked and for the derived name (serve_service.stop).
THEOREM StopLeavesNothing == DomainsSpec => StoppedLeavesNothing
<1>1. DomainsInv /\ [DomainsNext]_domainVars =>
        [\A p \in Project : phase[p] = "next" /\ phase'[p] = "off" /\ ~spared[p] =>
           \A n \in {link[p], Derived[p]} \ {Off} :
             /\ binding[n].to # p
             /\ \A z \in Zone : cname[z, n] # p]_domainVars
  <2> SUFFICES ASSUME DomainsInv, DomainsNext, NEW p \in Project, phase[p] = "next",
                      phase'[p] = "off", ~spared[p], NEW n \in {link[p], Derived[p]} \ {Off}
               PROVE  Clear(p, n)
    BY DEF Clear
  <2>1. NextName(p)
    <3>1. DomainStep(p)
      BY OnlyOwnPhase
    <3> QED  BY <3>1 DEF DomainStep, Deploy, ResolveZone, ListRecord, Replace, Create, BindName,
                         Confirm, Poll, Stop, UnbindName, FindRecord, Erase
  <2>2. ~Rest(p, "live") /\ ~To(p, "unbind")
    BY ToGoesOn DEF Rest, DomainsInv, Phase
  <2>3. names[p] = <<>> /\ ~trouble[p]
    BY <2>1, <2>2 DEF NextName
  <2>4. Waiting(p, n) \/ Clear(p, n)
    BY <2>3 DEF DomainsInv, NameInv, StopInv, Stopping
  <2>5. ~Waiting(p, n)
    <3>1. DOMAIN names[p] = {}
      BY <2>3
    <3> QED  BY <3>1 DEF Waiting
  <2> QED  BY <2>4, <2>5
<1> QED  BY <1>1, DomainsInvariance, PTL DEF DomainsSpec, StoppedLeavesNothing
=============================================================================
