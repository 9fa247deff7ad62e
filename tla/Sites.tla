------------------------------- MODULE Sites --------------------------------
(***************************************************************************)
(* Sites, their builds and their deployment: routes/site, routes/build,    *)
(* routes/serve, serve_service, site_lifecycle_service.delete_site_record, *)
(* record_mutation.locked_record and the part of site_deployer that        *)
(* changes what Cloudflare Pages serves.                                   *)
(*                                                                         *)
(* A handler takes its locks one by one in the order of the code, holds    *)
(* them to its end, and makes each read and each write a step of its own.  *)
(* It may end at any step (Abort: a refusal outside the model, a failed    *)
(* call, a dead process), which frees its locks: they are flocks.  The     *)
(* program that runs queued builds is not part of this repository; Claim   *)
(* and Complete are what the code relies on it for: it starts a build      *)
(* while nobody holds "build-lifecycle", and only it ends one.             *)
(*                                                                         *)
(* Abstractions.  The config of a row is its deletion marker or its        *)
(* attempt; DNS records and the verification of domains are left out.      *)
(***************************************************************************)
EXTENDS Integers, FiniteSets, Sequences

CONSTANTS
  Handler,     \* requests that can be in flight together
  Site,        \* site ids
  Domain,      \* custom domains of the tenant
  BuildId,     \* build ids
  Workload,    \* the requests people may send
  MaxBuilds,   \* bound on the builds ever created
  None         \* no row, no holder, no request, no domain, no status

ServeStatus == {"requested", "verifying", "verified", "serving", "live", "stopped", "failed"}

\* The statuses PATCH may ask for; the others are written by serve and stop.
ManualServeStatus == {"requested", "verifying", "verified", "failed"}

\* The statuses that keep a site from being deleted.
Served == {"verifying", "verified", "serving", "live"}

ServeTransitions(from) ==
  CASE from = None        -> {"requested"}
    [] from = "requested" -> {"verifying", "failed"}
    [] from = "verifying" -> {"verified", "failed"}
    [] from = "verified"  -> {"serving"}
    [] from = "serving"   -> {"live", "failed"}
    [] from = "live"      -> {"stopped"}
    [] OTHER              -> {"requested"}

SiteStatus == {"draft", "building", "live", "error"}

BuildStatus == {"queued", "building", "completed", "failed"}
Active == {"queued", "building"}

SiteRow  == [deleted : BOOLEAN, serve : ServeStatus \cup {None},
             status : SiteStatus, domain : Domain \cup {None}]
BuildRow == [id : 1 .. MaxBuilds, site : Site, status : BuildStatus,
             attempt : BOOLEAN, image : BOOLEAN]

\* What Pages serves for a site: the build uploaded last, and under which
\* names; "own" is the name derived from the site id.
Name == Domain \cup {"own"}
Pages == [content : (1 .. MaxBuilds) \cup {None}, names : SUBSET Name]

Lock == Site \cup {"domain", "build"}

\* In a change, "same" is a field the request leaves out.
Request ==
       [op : {"status"}, site : Site, to : ManualServeStatus]
  \cup [op : {"serve", "stop", "delete"}, site : Site]
  \cup [op : {"update"}, site : Site, domain : Domain \cup {None, "same"},
        status : SiteStatus \cup {"same"}, config : BOOLEAN]
  \cup [op : {"create"}, site : Site, build : BuildId]
  \cup [op : {"edit"}, build : BuildId, status : BuildStatus \cup {"same"}, config : BOOLEAN]
  \cup [op : {"drop"}, build : BuildId]

ASSUME SitesAssumption ==
  /\ MaxBuilds \in Nat
  /\ Workload \subseteq Request
  /\ None \notin Handler /\ None \notin Domain /\ None \notin Request
  /\ None \notin BuildRow /\ None \notin ServeStatus

-----------------------------------------------------------------------------
VARIABLES
  sites,     \* the sites rows
  builds,    \* the builds rows
  made,      \* how many builds were created
  pages,     \* what Cloudflare Pages serves
  lock,      \* who holds each lock
  pc, req,   \* where each handler is, and the request it serves
  todo,      \* the locks each handler still takes before it goes on
  mem        \* what each handler has read and uses later

data == <<sites, builds, made, pages>>
handlers == <<pc, req, todo, mem>>
vars == <<data, lock, handlers>>

ServeMem == [domain : Domain \cup {None}, build : BuildId \cup {None}]
StopMem  == [names : SUBSET Name]

TypeOK ==
  /\ sites \in [Site -> SiteRow]
  /\ builds \in [BuildId -> BuildRow \cup {None}]
  /\ made \in 0 .. MaxBuilds
  /\ pages \in [Site -> Pages]
  /\ lock \in [Lock -> Handler \cup {None}]
  /\ pc \in [Handler -> {"idle", "lock", "load", "writeStatus", "pick", "fresh",
                         "markServing", "upload", "bind", "markLive", "markFailed",
                         "unbind", "markStopped", "writeSite", "recheck", "checkBuilds",
                         "writeDeleted", "insertBuild", "writeBuild", "dropBuild"}]
  /\ req \in [Handler -> Request \cup {None}]
  /\ todo \in [Handler -> Seq(Lock)]
  /\ mem \in [Handler -> SiteRow \cup BuildRow \cup ServeMem \cup StopMem \cup {None}]

Init ==
  /\ sites = [s \in Site |-> [deleted |-> FALSE, serve |-> None,
                              status |-> "draft", domain |-> None]]
  /\ builds = [b \in BuildId |-> None]
  /\ made = 0
  /\ pages = [s \in Site |-> [content |-> None, names |-> {}]]
  /\ lock = [l \in Lock |-> None]
  /\ pc = [h \in Handler |-> "idle"]
  /\ req = [h \in Handler |-> None]
  /\ todo = [h \in Handler |-> <<>>]
  /\ mem = [h \in Handler |-> None]

-----------------------------------------------------------------------------
(* Requests and locks.                                                     *)

BuildOps == {"create", "edit", "drop"}

\* The locks of create_build; locked_record takes the same two.
BuildPath(s) == <<s, "build">>

\* The locks of update_site; the deletion of a site and the three routes of serve
\* take the same two.
SitePath(s) == <<"domain", s>>

\* Mutants of Path.
PathNoDomain(op, s) == IF op \in BuildOps THEN BuildPath(s) ELSE <<s>>
PathBuildsUnlocked(op, s) == IF op \in BuildOps THEN <<s>> ELSE SitePath(s)
PathSiteUnlocked(op, s) == IF op \in BuildOps THEN <<"build">> ELSE SitePath(s)
PathReversed(op, s) == IF op \in BuildOps THEN <<"build", s>> ELSE SitePath(s)

\* The locks a request takes first, in order.  Deletion takes one more later.
Path(op, s) == IF op \in BuildOps THEN BuildPath(s) ELSE SitePath(s)

\* The site of a request; edits and deletions of builds read it off the row.
SiteOf(r) == IF r.op \in {"edit", "drop"} THEN builds[r.build].site ELSE r.site

Goto(h, step) == pc' = [pc EXCEPT ![h] = step]
Remember(h, v) == mem' = [mem EXCEPT ![h] = v]

\* The end of a handler, whatever the outcome, frees its locks.
Finish(h) ==
  /\ lock' = [l \in Lock |-> IF lock[l] = h THEN None ELSE lock[l]]
  /\ pc' = [pc EXCEPT ![h] = "idle"]
  /\ req' = [req EXCEPT ![h] = None]
  /\ todo' = [todo EXCEPT ![h] = <<>>]
  /\ mem' = [mem EXCEPT ![h] = None]

\* A handler goes on, keeping its request and its locks.
Continue(h, step, v) == Goto(h, step) /\ Remember(h, v) /\ UNCHANGED <<lock, req, todo>>

\* The first, unlocked read of locked_record is what builds[b] is here.
Begin(h, r) ==
  /\ pc[h] = "idle"
  /\ r.op \in {"edit", "drop"} => builds[r.build] # None
  /\ req' = [req EXCEPT ![h] = r]
  /\ todo' = [todo EXCEPT ![h] = Path(r.op, SiteOf(r))]
  /\ Remember(h, IF r.op \in {"edit", "drop"} THEN builds[r.build] ELSE None)
  /\ Goto(h, "lock")
  /\ UNCHANGED <<data, lock>>

Acquire(h) ==
  /\ pc[h] = "lock"
  /\ LET l == Head(todo[h]) IN
     /\ lock[l] = None
     /\ lock' = [lock EXCEPT ![l] = h]
     /\ Goto(h, IF Len(todo[h]) > 1 THEN "lock"
                ELSE IF req[h].op = "delete" /\ l = "build" THEN "recheck" ELSE "load")
  /\ todo' = [todo EXCEPT ![h] = Tail(@)]
  /\ UNCHANGED <<data, req, mem>>

Abort(h) == pc[h] # "idle" /\ Finish(h) /\ UNCHANGED data

At(h, op, step) == pc[h] = step /\ req[h].op = op
Serve(s) == sites[s].serve
IsActive(s) == ~sites[s].deleted

\* Every write of a site row goes through a gateway that looks at it once more.
WriteRow(s, row) == IsActive(s) /\ sites' = [sites EXCEPT ![s] = row]

SetServe(s, status) == WriteRow(s, [sites[s] EXCEPT !.serve = status])
-----------------------------------------------------------------------------
(* PATCH /sites/{site_id}/serve/status.                                    *)

Allowed(from, to) == to \in ServeTransitions(from)

LoadStatus(h) ==
  /\ At(h, "status", "load")
  /\ IsActive(req[h].site) /\ Allowed(Serve(req[h].site), req[h].to)
  /\ Continue(h, "writeStatus", None)
  /\ UNCHANGED data

WriteStatus(h) ==
  /\ At(h, "status", "writeStatus")
  /\ SetServe(req[h].site, req[h].to)
  /\ Finish(h)
  /\ UNCHANGED <<builds, made, pages>>

-----------------------------------------------------------------------------
(* POST /sites/{site_id}/serve.                                            *)

Completed(s) ==
  {b \in BuildId : builds[b] # None /\ builds[b].site = s /\ builds[b].status = "completed"}

LoadServe(h) ==
  /\ At(h, "serve", "load")
  /\ IsActive(req[h].site) /\ Serve(req[h].site) = "verified"
  /\ Continue(h, "pick", [domain |-> sites[req[h].site].domain, build |-> None])
  /\ UNCHANGED data

\* The latest completed build of the site.
PickBuild(h) ==
  /\ At(h, "serve", "pick")
  /\ \E b \in Completed(req[h].site) :
       /\ \A c \in Completed(req[h].site) : builds[c].id <= builds[b].id
       /\ Continue(h, "fresh", [mem[h] EXCEPT !.build = b])
  /\ UNCHANGED data

ReadFresh(h) ==
  /\ At(h, "serve", "fresh")
  /\ Serve(req[h].site) = "verified"
  /\ Continue(h, "markServing", mem[h])
  /\ UNCHANGED data

MarkServing(h) ==
  /\ At(h, "serve", "markServing")
  /\ SetServe(req[h].site, "serving")
  /\ Continue(h, "upload", mem[h])
  /\ UNCHANGED <<builds, made, pages>>

Deployed(page, id) == [page EXCEPT !.content = id]
Bound(page, name) == [page EXCEPT !.names = @ \cup {name}]
Released(page, gone) == [page EXCEPT !.names = @ \ gone]

\* wrangler deploy; a failed one may have taken effect.
Upload(h) ==
  /\ At(h, "serve", "upload")
  /\ \E ok, landed \in BOOLEAN :
       /\ ok => landed
       /\ pages' = IF landed
                   THEN [pages EXCEPT ![req[h].site] = Deployed(@, builds[mem[h].build].id)]
                   ELSE pages
       /\ Continue(h, IF ok THEN "bind" ELSE "markFailed", mem[h])
  /\ UNCHANGED <<sites, builds, made>>

NameOf(domain) == IF domain = None THEN "own" ELSE domain

\* Mutant of AfterBind: domain_setup_failed is not looked at.
AfterBindAlways(ok) == "markLive"

AfterBind(ok) == IF ok THEN "markLive" ELSE "markFailed"

\* add_custom_domain and the wait for its activation, which may come too late.
Bind(h) ==
  /\ At(h, "serve", "bind")
  /\ \E ok, landed \in BOOLEAN :
       /\ ok => landed
       /\ pages' = IF landed
                   THEN [pages EXCEPT ![req[h].site] = Bound(@, NameOf(mem[h].domain))]
                   ELSE pages
       /\ Continue(h, AfterBind(ok), mem[h])
  /\ UNCHANGED <<sites, builds, made>>

MarkFailed(h) ==
  /\ At(h, "serve", "markFailed")
  /\ SetServe(req[h].site, "failed")
  /\ Finish(h)
  /\ UNCHANGED <<builds, made, pages>>

MarkLive(h) ==
  /\ At(h, "serve", "markLive")
  /\ WriteRow(req[h].site, [sites[req[h].site] EXCEPT !.serve = "live", !.status = "live"])
  /\ Finish(h)
  /\ UNCHANGED <<builds, made, pages>>

-----------------------------------------------------------------------------
(* POST /sites/{site_id}/stop.                                             *)

\* The linked domain is left out when its lookup fails or it is not verified.
LoadStop(h) ==
  /\ At(h, "stop", "load")
  /\ IsActive(req[h].site) /\ Serve(req[h].site) = "live"
  /\ \E linked \in {{}, {sites[req[h].site].domain} \ {None}} :
       Continue(h, "unbind", [names |-> linked \cup {"own"}])
  /\ UNCHANGED data

StopsOnlyIf(gone, names) == gone = names

\* Every name is tried; any failure is raised at the end.
Unbind(h) ==
  /\ At(h, "stop", "unbind")
  /\ \E gone \in SUBSET mem[h].names :
       /\ pages' = [pages EXCEPT ![req[h].site] = Released(@, gone)]
       /\ \/ StopsOnlyIf(gone, mem[h].names) /\ Continue(h, "markStopped", mem[h])
          \/ Finish(h)
  /\ UNCHANGED <<sites, builds, made>>

MarkStopped(h) ==
  /\ At(h, "stop", "markStopped")
  /\ WriteRow(req[h].site, [sites[req[h].site] EXCEPT !.serve = "stopped", !.status = "draft"])
  /\ Finish(h)
  /\ UNCHANGED <<builds, made, pages>>

-----------------------------------------------------------------------------
(* PATCH /sites/{site_id}.                                                 *)

\* A domain has one site; deleted sites keep theirs.
Unowned(domain, s) == \A t \in Site \ {s} : sites[t].domain # domain

LoadUpdate(h) ==
  /\ At(h, "update", "load")
  /\ IsActive(req[h].site)
  /\ req[h].domain \in Domain => Unowned(req[h].domain, req[h].site)
  /\ Continue(h, "writeSite", sites[req[h].site])
  /\ UNCHANGED data

Given(value, old) == IF value = "same" THEN old ELSE value

\* A replaced config carries the deletion marker that was read.
WriteSite(h) ==
  /\ At(h, "update", "writeSite")
  /\ WriteRow(req[h].site,
              [sites[req[h].site] EXCEPT !.domain = Given(req[h].domain, @),
                                         !.status = Given(req[h].status, @),
                                         !.deleted = IF req[h].config THEN mem[h].deleted ELSE @])
  /\ Finish(h)
  /\ UNCHANGED <<builds, made, pages>>

-----------------------------------------------------------------------------
(* DELETE /sites/{site_id}.                                                *)

\* Active, so on to the build lock.
LoadDelete(h) ==
  /\ At(h, "delete", "load")
  /\ IsActive(req[h].site)
  /\ todo' = [todo EXCEPT ![h] = <<"build">>]
  /\ Goto(h, "lock")
  /\ UNCHANGED <<data, lock, req, mem>>

Recheck(h) ==
  /\ At(h, "delete", "recheck")
  /\ IsActive(req[h].site) /\ Serve(req[h].site) \notin Served
  /\ Continue(h, "checkBuilds", None)
  /\ UNCHANGED data

\* Mutant of Blocks: only the builds that run are looked at.
BlocksRunning(status) == status = "building"

Blocks(status) == status \in Active

CheckBuilds(h) ==
  /\ At(h, "delete", "checkBuilds")
  /\ \A b \in BuildId : builds[b] # None /\ builds[b].site = req[h].site
                          => ~Blocks(builds[b].status)
  /\ Continue(h, "writeDeleted", None)
  /\ UNCHANGED data

WriteDeleted(h) ==
  /\ At(h, "delete", "writeDeleted")
  /\ WriteRow(req[h].site, [sites[req[h].site] EXCEPT !.deleted = TRUE])
  /\ Finish(h)
  /\ UNCHANGED <<builds, made, pages>>

-----------------------------------------------------------------------------
(* POST, PATCH and DELETE of /builds.                                      *)

LoadCreate(h) ==
  /\ At(h, "create", "load")
  /\ IsActive(req[h].site)
  /\ Continue(h, "insertBuild", None)
  /\ UNCHANGED data

\* build_id is unique.
InsertBuild(h) ==
  /\ At(h, "create", "insertBuild")
  /\ builds[req[h].build] = None /\ made < MaxBuilds
  /\ made' = made + 1
  /\ builds' = [builds EXCEPT ![req[h].build] =
                  [id |-> made + 1, site |-> req[h].site, status |-> "queued",
                   attempt |-> FALSE, image |-> FALSE]]
  /\ Finish(h)
  /\ UNCHANGED <<sites, pages>>

\* _enforce_build_tenant and the refusal of running builds.
Editable(b, s) == IsActive(s) /\ builds[b].status # "building"

\* The second read of locked_record, under the locks.
Reloaded(h) ==
  /\ builds[req[h].build] # None
  /\ builds[req[h].build].id = mem[h].id
  /\ Editable(req[h].build, mem[h].site)

LoadEdit(h) ==
  /\ At(h, "edit", "load")
  /\ Reloaded(h) /\ req[h].status \notin {"building", "completed"}
  /\ Continue(h, "writeBuild", builds[req[h].build])
  /\ UNCHANGED data

\* Queued again: without attempt and outputs of the last run.
Requeued(row, r, read) ==
  [row EXCEPT !.status = "queued", !.image = FALSE, !.attempt = FALSE]

\* Any other change; a replaced config keeps the attempt that was read.
Edited(row, r, read) ==
  [row EXCEPT !.status = Given(r.status, @),
              !.attempt = IF r.config THEN read.attempt ELSE @]

WriteBuild(h) ==
  /\ At(h, "edit", "writeBuild")
  /\ builds[req[h].build] # None
  /\ builds' = [builds EXCEPT ![req[h].build] =
                  IF req[h].status = "queued" THEN Requeued(@, req[h], mem[h])
                  ELSE Edited(@, req[h], mem[h])]
  /\ Finish(h)
  /\ UNCHANGED <<sites, made, pages>>

LoadDrop(h) ==
  /\ At(h, "drop", "load")
  /\ Reloaded(h)
  /\ Continue(h, "dropBuild", mem[h])
  /\ UNCHANGED data

DropBuild(h) ==
  /\ At(h, "drop", "dropBuild")
  /\ builds' = [builds EXCEPT ![req[h].build] = None]
  /\ Finish(h)
  /\ UNCHANGED <<sites, made, pages>>

-----------------------------------------------------------------------------
(* The build executor, which is not in this repository.                    *)

Claimed(row) == [row EXCEPT !.status = "building", !.attempt = TRUE]
Ended(row, status) == [row EXCEPT !.status = status, !.image = status = "completed"]

Claim(b) ==
  /\ lock["build"] = None
  /\ builds[b] # None /\ builds[b].status = "queued"
  /\ builds' = [builds EXCEPT ![b] = Claimed(@)]
  /\ UNCHANGED <<sites, made, pages, lock, handlers>>

Complete(b) ==
  /\ builds[b] # None /\ builds[b].status = "building"
  /\ \E status \in {"completed", "failed"} :
       builds' = [builds EXCEPT ![b] = Ended(@, status)]
  /\ UNCHANGED <<sites, made, pages, lock, handlers>>

-----------------------------------------------------------------------------
ServeStep(h) ==
  \/ LoadServe(h) \/ PickBuild(h) \/ ReadFresh(h) \/ MarkServing(h)
  \/ Upload(h) \/ Bind(h) \/ MarkFailed(h) \/ MarkLive(h)

SiteStep(h) ==
  \/ LoadStatus(h) \/ WriteStatus(h)
  \/ LoadStop(h) \/ Unbind(h) \/ MarkStopped(h)
  \/ LoadUpdate(h) \/ WriteSite(h)
  \/ LoadDelete(h) \/ Recheck(h) \/ CheckBuilds(h) \/ WriteDeleted(h)

BuildStep(h) ==
  \/ LoadCreate(h) \/ InsertBuild(h)
  \/ LoadEdit(h) \/ WriteBuild(h)
  \/ LoadDrop(h) \/ DropBuild(h)

Step(h) == Acquire(h) \/ ServeStep(h) \/ SiteStep(h) \/ BuildStep(h)

Next ==
  \/ \E h \in Handler : Step(h) \/ Abort(h) \/ \E r \in Workload : Begin(h, r)
  \/ \E b \in BuildId : Claim(b) \/ Complete(b)

Spec == Init /\ [][Next]_vars

\* Every step but the wait for a lock ends by itself: calls have timeouts and
\* bounded attempts.  Locks are polled, without an end to the waiting.
FairStep(h) == Step(h) \/ (pc[h] # "lock" /\ Abort(h))

FairSpec == Spec /\ \A h \in Handler : SF_vars(FairStep(h))

-----------------------------------------------------------------------------
(* Safety.                                                                 *)

\* Deletion waits for builds and for serving: a deleted site has no build that
\* is queued or runs, and no serve status that promises a deployment.
DeletedIsQuiet ==
  \A s \in Site : sites[s].deleted =>
    /\ sites[s].serve \notin Served
    /\ \A b \in BuildId : builds[b] # None /\ builds[b].site = s
                            => builds[b].status \notin Active

\* A custom domain is linked to at most one site, although the check and the
\* write are two calls.
DomainsAreExclusive ==
  \A s, t \in Site : sites[s].domain # None /\ sites[s].domain = sites[t].domain => s = t

\* While POST serve runs, nothing takes away what it decided on: the site is
\* active and "serving" with the same domain, the build is completed.
Deploying == {"upload", "bind", "markLive", "markFailed"}
DeploymentIsStable ==
  \A h \in Handler : pc[h] \in Deploying =>
    /\ sites[req[h].site].serve = "serving" /\ ~sites[req[h].site].deleted
    /\ sites[req[h].site].domain = mem[h].domain
    /\ builds[mem[h].build] # None
    /\ builds[mem[h].build].status = "completed" /\ builds[mem[h].build].image

\* A site goes live only when the domain it is linked to is bound and Pages
\* has a build of it that is still there and completed.
LiveIsServed ==
  [][\A s \in Site : sites'[s].serve = "live" /\ sites[s].serve # "live" =>
       /\ NameOf(sites[s].domain) \in pages[s].names
       /\ \E b \in Completed(s) : pages[s].content = builds[b].id]_vars

\* No request touches a build while it runs: only the executor ends it.
RunningIsUndisturbed ==
  [][\A b \in BuildId : builds[b] # None /\ builds[b].status = "building" =>
       builds'[b] = builds[b] \/ (UNCHANGED <<handlers, lock>> /\ builds'[b] # None)]_vars

-----------------------------------------------------------------------------
(* Liveness.                                                               *)

\* The three kinds of locks never block each other for good: every request ends.
EveryRequestEnds == \A h \in Handler : pc[h] # "idle" ~> pc[h] = "idle"
=============================================================================
