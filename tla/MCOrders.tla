------------------------------ MODULE MCOrders ------------------------------
(***************************************************************************)
(* Small instances of Orders for TLC.                                      *)
(***************************************************************************)
EXTENDS OrdersRefinement, OrdersInvariant, TLC

CONSTANTS h1, h2, b1, b2, p1, p2, p3, k1, k2

\* A set with its elements listed, which the workers of TLC can share.
Listed(S) == {x : x \in S}

\* Positions 1 and 2 belong to bodies, 3 is the key of an added item.
MCItemId == 1..3

\* The two bodies share position 1 with different content.
MCWanted ==
  b1 :> [i \in MCItemId |-> IF i = 3 THEN None ELSE i] @@
  b2 :> [i \in MCItemId |-> IF i = 1 THEN 2 ELSE None]

Creates == [op : {"create"}, body : {b1, b2}]
Adds    == [op : {"add"}, item : {3}, line : {1, 2}]
Drops   == [op : {"drop", "remove"}, item : {1, 3}]
Patches == [op : {"patch"}, to : Status, meta : {FALSE}]
           \cup [op : {"patch"}, to : {None}, meta : {TRUE}]
Hides   == [op : {"hide"}]
Pays    == [op : {"pay"}, amount : {3}, status : {"pending", "completed", "failed"}]
Fakes   == [op : {"fake"}, key : {k1, k2}]

\* Creation, items and deletion, without payments.
ItemWork == Listed(
  Creates \cup Adds \cup Drops \cup Hides)

\* Every kind of operation, on a two-item order and one added item; manual payments
\* are worth two items and short of the third.
OrderWork == Listed(
  [op : {"create"}, body : {b1}] \cup [op : {"add"}, item : {3}, line : {1}]
  \cup [op : {"remove"}, item : {1}]
  \cup Patches \cup Hides \cup Pays \cup Fakes)

HandlerSymmetry == Permutations({h1, h2})
=============================================================================
