------------------------------- MODULE MCSites ------------------------------
(***************************************************************************)
(* Small instances of Sites for TLC.                                       *)
(***************************************************************************)
EXTENDS Sites, TLC

CONSTANTS h1, h2, h3, s1, s2, d1, k1, k2

\* A set with its elements listed, which the workers of TLC can share.
Listed(S) == {x : x \in S}

StatusWork == [op : {"status"}, site : {s1}, to : ManualServeStatus]
ServeWork  == [op : {"serve", "stop", "delete"}, site : {s1}]
Link(Sites, Domains) ==
  [op : {"update"}, site : Sites, domain : Domains, status : {"same"}, config : {TRUE}]
CreateWork(Ids) == [op : {"create"}, site : {s1}, build : Ids]
EditWork(Ids) == [op : {"edit"}, build : Ids, status : {"same", "queued", "failed"}, config : {TRUE}]
DropWork(Ids) == [op : {"drop"}, build : Ids]

\* Two sites want one domain, and every lock path is taken.
LockWork == Listed(
  Link({s1, s2}, {d1, None})
  \cup [op : {"update"}, site : {s1}, domain : {"same"}, status : {"live"}, config : {FALSE}]
  \cup [op : {"delete"}, site : {s1, s2}] \cup CreateWork({k1}) \cup DropWork({k1}))
=============================================================================
