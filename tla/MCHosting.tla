----------------------------- MODULE MCHosting ------------------------------
(***************************************************************************)
(* Small instances of Sites and of Domains for TLC, one or the other in a  *)
(* behaviour; Sites with one workload or another.                          *)
(***************************************************************************)
EXTENDS MCSites, Domains

\* Serving one site, again and again, with a domain linked at any time, while
\* builds come and complete, ...
DeployWork == ServeWork \cup StatusWork \cup Link({s1}, {d1}) \cup CreateWork({k1, k2})

\* ... or while one build is queued again and again.
RequeueWork ==
  ServeWork \cup StatusWork \cup Link({s1}, {d1}) \cup CreateWork({k1})
  \cup [op : {"edit"}, build : {k1}, status : {"queued"}, config : {FALSE}]

\* Builds of a site that may be deleted; build ids are used again.
BuildWork ==
  CreateWork({k1, k2}) \cup EditWork({k1}) \cup DropWork({k1})
  \cup [op : {"edit"}, build : {k1}, status : {"building", "completed"}, config : {FALSE}]
  \cup [op : {"delete"}, site : {s1}]

HostingWork == Listed(DeployWork \cup RequeueWork \cup BuildWork)

CONSTANTS
  a1, a2, c1, n1, n2, z1, z2,
  Focus   \* the parts and the workloads of a run

\* Two sites and one name of their customers, in a zone below the global one; one
\* derived name is in no zone that can be found.
MCDerived == (a1 :> n1) @@ (a2 :> n2)
MCZonesOf == (c1 :> {z1, z2}) @@ (n1 :> {z1}) @@ (n2 :> {})
MCLabels == (z1 :> 2) @@ (z2 :> 3)

VARIABLE focus   \* the part, and the workload, that a behaviour is about

Work(f) == CASE f = "deploy"  -> DeployWork
             [] f = "requeue" -> RequeueWork
             [] f = "builds"  -> BuildWork
             [] f = "locks"   -> LockWork

HostingInit ==
  /\ Init /\ DomainsInit
  /\ focus \in Focus
  /\ focus # "domains" => \A z \in Zone, n \in DnsName : cname[z, n] = Off

HostingNext ==
  \/ /\ focus # "domains"
     /\ Next
     /\ \A h \in Handler : req'[h] \in Work(focus) \cup {None}
     /\ UNCHANGED <<focus, domainVars>>
  \/ focus = "domains" /\ DomainsNext /\ UNCHANGED <<focus, vars>>

HostingSpec == HostingInit /\ [][HostingNext]_<<focus, vars, domainVars>>

\* The fairness of Sites; nothing is asked of Domains.
HostingFairSpec ==
  /\ HostingSpec
  /\ \A h \in Handler : SF_<<focus, vars, domainVars>>(FairStep(h) /\ UNCHANGED <<focus, domainVars>>)

HandlerSymmetry == Permutations(Handler)
=============================================================================
