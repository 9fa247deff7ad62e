------------------------------- MODULE Domains -------------------------------
(***************************************************************************)
(* The names of a served site at Cloudflare: deploy_site points a CNAME at *)
(* the Pages project of the site and binds the name to it, stop takes both *)
(* back.                                                                   *)
(*                                                                         *)
(* Every API call is tried up to MaxAttempts times, writes like reads: an  *)
(* attempt may do its work and lose its answer, and the next one then      *)
(* finds it done.  An error that is no outage ends the call.               *)
(*                                                                         *)
(* The locks of the routes keep one handler per site, and a name is linked *)
(* to one site.  What else a site does is in Sites; here are only the      *)
(* steps between "serving" and "live" or "failed", and those of a stop.    *)
(***************************************************************************)
EXTENDS Integers, Sequences, FiniteSets

CONSTANTS
  Project,      \* the sites, each with its Pages project
  Custom,       \* names that are linked to a site
  Derived,      \* the name of each site under the base domain
  Zone,         \* zones of the account
  ZonesOf,      \* the active zones that a name is in
  Labels,       \* the length of the name of a zone
  GlobalZone,   \* the zone of the settings
  MaxAttempts,  \* attempts of a call
  MaxPolls,     \* questions whether a name is active
  Off           \* no zone, no target, no site

DnsName == Custom \cup {Derived[p] : p \in Project}

\* resolve_zone_id: of the zones that a name is in, the one with the longest name.
ZoneOf(n) ==
  IF ZonesOf[n] = {} THEN Off
  ELSE CHOOSE z \in ZonesOf[n] : \A y \in ZonesOf[n] : Labels[z] >= Labels[y]

ASSUME DomainsAssumption ==
  /\ Derived \in [Project -> DnsName \ Custom]
  /\ \A p, q \in Project : p # q => Derived[p] # Derived[q]
  /\ ZonesOf \in [DnsName -> SUBSET Zone] /\ Labels \in [Zone -> Nat]
  /\ GlobalZone \in Zone
  /\ \A p \in Project : ZoneOf(Derived[p]) \in {GlobalZone, Off}
  /\ MaxAttempts \in Nat \ {0} /\ MaxPolls \in Nat \ {0}
  /\ \A n \in DnsName : IsFiniteSet(ZonesOf[n])
  /\ Off \notin Zone \cup Project \cup DnsName /\ "other" \notin Project

VARIABLES
  cname,      \* the target of the CNAME of a name in a zone
  binding,    \* the project a name is bound to, and whether it is active
  link,       \* the name that is linked to each site
  phase,       \* where the handler of each site is, or how the site ended up
  host,       \* the name it is about
  zone,       \* the zone it has resolved
  tries,      \* attempts of the call so far, or questions so far
  trouble,    \* DNS or binding failed
  names,      \* the names that stop has left
  spared      \* ghost: stop has given up a record

memory == <<host, zone, trouble, names, spared>>

domainVars == <<cname, binding, link, phase, tries, memory>>

Unbound == [to |-> Off, active |-> FALSE]

Phase == {"off", "failed", "live", "resolve", "list", "replace", "create", "bind", "confirm",
          "poll", "next", "unbind", "find", "erase"}

DomainsTypeOK ==
  /\ cname \in [Zone \X DnsName -> Project \cup {Off, "other"}]
  /\ binding \in [DnsName -> [to : Project \cup {Off}, active : BOOLEAN]]
  /\ link \in [Project -> Custom \cup {Off}]
  /\ phase \in [Project -> Phase]
  /\ host \in [Project -> DnsName] /\ zone \in [Project -> Zone \cup {Off}]
  /\ tries \in [Project -> Nat] /\ trouble \in [Project -> BOOLEAN]
  /\ names \in [Project -> Seq(DnsName)] /\ spared \in [Project -> BOOLEAN]

\* A custom name may have a record from before.
DomainsInit ==
  /\ cname \in {c \in [Zone \X DnsName -> {Off, "other"}] :
                  \A z \in Zone, n \in DnsName : c[z, n] # Off => n \in Custom /\ z = ZoneOf(n)}
  /\ binding = [n \in DnsName |-> Unbound]
  /\ link = [p \in Project |-> Off]
  /\ phase = [p \in Project |-> "off"]
  /\ host = [p \in Project |-> Derived[p]]
  /\ zone = [p \in Project |-> Off]
  /\ tries = [p \in Project |-> 0]
  /\ trouble = [p \in Project |-> FALSE]
  /\ names = [p \in Project |-> <<>>]
  /\ spared = [p \in Project |-> FALSE]

-----------------------------------------------------------------------------
\* The handler goes on with another call, ...
To(p, s) == /\ phase' = [phase EXCEPT ![p] = s]
            /\ tries' = [tries EXCEPT ![p] = 0]

\* ... is done, ...
Rest(p, s) == /\ To(p, s)
              /\ host' = [host EXCEPT ![p] = Derived[p]]
              /\ zone' = [zone EXCEPT ![p] = Off]
              /\ trouble' = [trouble EXCEPT ![p] = FALSE]
              /\ names' = [names EXCEPT ![p] = <<>>]
              /\ spared' = [spared EXCEPT ![p] = FALSE]

\* ... or tries this one again, after an outage.
Retry(p) == /\ tries[p] + 1 < MaxAttempts
            /\ tries' = [tries EXCEPT ![p] = @ + 1]
            /\ UNCHANGED <<phase, memory>>

Exhausted(p) == tries[p] + 1 = MaxAttempts

\* An attempt of a write that Cloudflare may refuse: its answer is a refusal, a
\* success, or none, whether its work is done or not.
Attempt(p, refused, Work, Same, OnDone, OnRefused, OnOutage) ==
  \/ refused /\ Same /\ OnRefused
  \/ ~refused /\ Work /\ OnDone
  \/ (~refused /\ Work) /\ (Retry(p) \/ (Exhausted(p) /\ OnOutage))
  \/ Same /\ (Retry(p) \/ (Exhausted(p) /\ OnOutage))

\* A site is linked to a name that no other site has; a live one too, though
\* its records stay those of the old name.
Relink(p, n) ==
  /\ phase[p] \in {"off", "failed", "live"}
  /\ n # Off => \A q \in Project : link[q] # n
  /\ link' = [link EXCEPT ![p] = n]
  /\ UNCHANGED <<cname, binding, phase, tries, memory>>

\* serve has uploaded the files: the name to set up is the linked one, or the
\* derived one.
Deploy(p) ==
  /\ phase[p] \in {"off", "failed"}
  /\ host' = [host EXCEPT ![p] = IF link[p] = Off THEN Derived[p] ELSE link[p]]
  /\ To(p, "resolve")
  /\ UNCHANGED <<cname, binding, link, zone, trouble, names, spared>>

GiveUpDns(p) == /\ trouble' = [trouble EXCEPT ![p] = TRUE]
                /\ To(p, "bind")
                /\ UNCHANGED <<host, zone, names, spared>>

DnsDone(p) == To(p, "bind") /\ UNCHANGED memory

\* The zone to write to: the name's own one; without one, the global zone for a
\* derived name and none for another.
ResolveZone(p) ==
  LET n == host[p] IN
  /\ phase[p] = "resolve"
  /\ \/ /\ n \notin Custom \/ ZoneOf(n) # Off
        /\ zone' = [zone EXCEPT ![p] = IF ZoneOf(n) = Off THEN GlobalZone ELSE ZoneOf(n)]
        /\ To(p, "list") /\ UNCHANGED <<host, trouble, names, spared>>
     \/ GiveUpDns(p)
  /\ UNCHANGED <<cname, binding, link>>

Record(p) == cname[zone[p], host[p]]

\* Mutant of Pointed: every record is written anew.
PointedNever(p) == FALSE

\* The record there is points at the project.
Pointed(p) == Record(p) = p

ListRecord(p) ==
  /\ phase[p] = "list"
  /\ \/ Pointed(p) /\ DnsDone(p)
     \/ /\ ~Pointed(p)
        /\ To(p, IF Record(p) = Off THEN "create" ELSE "replace")
        /\ UNCHANGED memory
     \/ GiveUpDns(p)
  /\ UNCHANGED <<cname, binding, link>>

SetRecord(p, target) == cname' = [cname EXCEPT ![<<zone[p], host[p]>>] = target]

\* A record with another target is deleted ...
Replace(p) ==
  /\ phase[p] = "replace"
  /\ Attempt(p, Record(p) = Off, SetRecord(p, Off), UNCHANGED cname,
             To(p, "create") /\ UNCHANGED memory,
             GiveUpDns(p), GiveUpDns(p))
  /\ UNCHANGED <<binding, link>>

\* ... before the new one is created; a name has one CNAME.
Create(p) ==
  /\ phase[p] = "create"
  /\ Attempt(p, Record(p) # Off, SetRecord(p, p), UNCHANGED cname,
             DnsDone(p), GiveUpDns(p), GiveUpDns(p))
  /\ UNCHANGED <<binding, link>>

\* The deployment ends: only without any trouble the site is live.
Outcome(p, failed) == Rest(p, IF trouble[p] \/ failed THEN "failed" ELSE "live")

BindName(p) ==
  LET n == host[p] IN
  /\ phase[p] = "bind"
  /\ Attempt(p, binding[n].to # Off,
             binding' = [binding EXCEPT ![n] = [to |-> p, active |-> FALSE]],
             UNCHANGED binding,
             To(p, "poll") /\ UNCHANGED memory,
             To(p, "confirm") /\ UNCHANGED memory,
             Outcome(p, TRUE))
  /\ UNCHANGED <<cname, link>>

\* A name that is bound already may be bound to this project.
Confirm(p) ==
  /\ phase[p] = "confirm"
  /\ \/ /\ binding[host[p]].to = p
        /\ To(p, "poll") /\ UNCHANGED memory
     \/ Outcome(p, TRUE)
  /\ UNCHANGED <<cname, binding, link>>

\* Mutant of Serves: a binding is enough.
ServesBound(p) == binding[host[p]].to = p

\* The name is bound to the project and its certificate is active.
Serves(p) == binding[host[p]] = [to |-> p, active |-> TRUE]

Poll(p) ==
  /\ phase[p] = "poll"
  /\ \/ /\ Serves(p) /\ Outcome(p, FALSE)
     \/ /\ ~Serves(p) /\ tries[p] + 1 < MaxPolls
        /\ tries' = [tries EXCEPT ![p] = @ + 1]
        /\ UNCHANGED <<phase, memory>>
     \/ Outcome(p, TRUE)
  /\ UNCHANGED <<cname, binding, link>>

\* Cloudflare activates a name that is bound and points at its project.
Activate(n) ==
  /\ binding[n].to # Off /\ ~binding[n].active
  /\ \E z \in Zone : cname[z, n] = binding[n].to
  /\ binding' = [binding EXCEPT ![n] = [to |-> @.to, active |-> TRUE]]
  /\ UNCHANGED <<cname, link, phase, tries, memory>>

-----------------------------------------------------------------------------
(* stop                                                                    *)

StopNames(p) == IF link[p] = Off THEN <<Derived[p]>> ELSE <<link[p], Derived[p]>>

\* The linked name, unless its row cannot be read, and the derived one.
Stop(p) ==
  /\ phase[p] = "live"
  /\ \/ /\ names' = [names EXCEPT ![p] = StopNames(p)]
        /\ UNCHANGED spared
     \/ /\ link[p] # Off
        /\ names' = [names EXCEPT ![p] = <<Derived[p]>>]
        /\ spared' = [spared EXCEPT ![p] = TRUE]
  /\ To(p, "next")
  /\ UNCHANGED <<cname, binding, link, host, zone, trouble>>

\* The next name, or the end; a name that could not be unbound leaves the site
\* as it was, for stop to be asked for again, and so does a last write that fails.
NextName(p) ==
  /\ phase[p] = "next"
  /\ \/ names[p] = <<>> /\ ~trouble[p] /\ Rest(p, "off")
     \/ names[p] = <<>> /\ Rest(p, "live")
     \/ /\ names[p] # <<>>
        /\ host' = [host EXCEPT ![p] = Head(names[p])]
        /\ names' = [names EXCEPT ![p] = Tail(@)]
        /\ To(p, "unbind")
        /\ UNCHANGED <<zone, trouble, spared>>
  /\ UNCHANGED <<cname, binding, link>>

\* remove_domain_from_pages; a name that is not bound to the project is no error.
UnbindName(p) ==
  LET n == host[p] IN
  /\ phase[p] = "unbind"
  /\ Attempt(p, binding[n].to # p, binding' = [binding EXCEPT ![n] = Unbound], UNCHANGED binding,
             To(p, "find") /\ UNCHANGED memory,
             To(p, "find") /\ UNCHANGED memory,
             To(p, "find") /\ trouble' = [trouble EXCEPT ![p] = TRUE]
               /\ UNCHANGED <<host, zone, names, spared>>)
  /\ UNCHANGED <<cname, link>>

\* The record is given up, and stop goes on.
Spare(p) == /\ spared' = [spared EXCEPT ![p] = TRUE]
            /\ To(p, "next")
            /\ UNCHANGED <<host, trouble, zone, names>>

\* Mutant of StopZone: every record is looked for in the global zone.
StopZoneGlobal(n) == GlobalZone

StopZone(n) == IF n \in Custom THEN ZoneOf(n) ELSE GlobalZone

FindRecord(p) ==
  LET z == StopZone(host[p]) IN
  /\ phase[p] = "find"
  /\ \/ /\ z # Off
        /\ zone' = [zone EXCEPT ![p] = z]
        /\ To(p, IF cname[z, host[p]] = Off THEN "next" ELSE "erase")
        /\ UNCHANGED <<host, trouble, names, spared>>
     \/ Spare(p)
  /\ UNCHANGED <<cname, binding, link>>

Erase(p) ==
  /\ phase[p] = "erase"
  /\ Attempt(p, Record(p) = Off, SetRecord(p, Off), UNCHANGED cname,
             To(p, "next") /\ UNCHANGED memory, Spare(p), Spare(p))
  /\ UNCHANGED <<binding, link>>

DomainStep(p) ==
  \/ Deploy(p) \/ ResolveZone(p) \/ ListRecord(p) \/ Replace(p) \/ Create(p)
  \/ BindName(p) \/ Confirm(p) \/ Poll(p)
  \/ Stop(p) \/ NextName(p) \/ UnbindName(p) \/ FindRecord(p) \/ Erase(p)

DomainsNext ==
  \/ \E p \in Project : DomainStep(p) \/ \E n \in Custom \cup {Off} : Relink(p, n)
  \/ \E n \in DnsName : Activate(n)

DomainsSpec == DomainsInit /\ [][DomainsNext]_domainVars

-----------------------------------------------------------------------------
\* A site that became live is reached by its name: the CNAME points at its
\* project and the name is bound to it and active, whatever attempts were lost.
LiveIsReached ==
  [][\A p \in Project : phase[p] = "poll" /\ phase'[p] = "live" =>
       LET n == host[p] IN
       /\ cname[zone[p], n] = p
       /\ binding[n] = [to |-> p, active |-> TRUE]]_domainVars

\* Serving a name again does not take away a record that is right: a site whose
\* deployment fails elsewhere is not cut off by the next one.
RightRecordStays ==
  [][\A z \in Zone, n \in DnsName : LET p == cname[z, n] IN
       p \in Project /\ cname'[z, n] # p =>
         phase[p] = "erase" \/ \E q \in Project \ {p} : host[q] = n]_domainVars

\* A stop that gave nothing up leaves neither a CNAME to the project nor a
\* binding, in whichever zone the name is.
StoppedLeavesNothing ==
  [][\A p \in Project : phase[p] = "next" /\ phase'[p] = "off" /\ ~spared[p] =>
       \A n \in {link[p], Derived[p]} \ {Off} :
         /\ binding[n].to # p
         /\ \A z \in Zone : cname[z, n] # p]_domainVars
=============================================================================
