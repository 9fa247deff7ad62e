---------------------------- MODULE MCResources -----------------------------
(***************************************************************************)
(* Small instances of Files, of Catalog and of Accounts for TLC, one of    *)
(* them in a behaviour: what the first two share, the lock and the         *)
(* deletion of a site, is in each of them.                                 *)
(***************************************************************************)
EXTENDS Files, Catalog, Accounts, TLC

CONSTANTS h1, h2, s1, s2, b1, f1, f2

Listed(S) == {x : x \in S}

Ask(op, s, items) == [op |-> op, site |-> s, items |-> items]

\* Site ids whose names are normalized to one.
OneBucket == [s \in Site |-> b1]

MCFileWork == Listed(
  {Ask("provision", s1, <<>>), Ask("upload", s1, <<>>),
   Ask("confirm", None, <<f1>>), Ask("rename", None, <<f2>>), Ask("remove", None, <<f1, f2>>)})

ProvisionWork == Listed({Ask("provision", s, <<>>) : s \in Site})

CONSTANTS w1, w2, q1, p1, p2, x1

Change(op, e, slug, kind, child, status) ==
  [op |-> op, shop |-> IF op \in Adding THEN q1 ELSE Nil, entry |-> e, slug |-> slug,
   kind |-> kind, child |-> child, status |-> status]

\* Two properties that may want one slug; the first may become the parent of
\* the second, which is deleted and created at any time.
MCCatalogWork == Listed(
  {Change("create", e, slug, kind, Nil, "draft") : e \in Entry, slug \in {x1, Nil}, kind \in Kind}
  \cup {Change("update", e, x1, "same", "same", "published") : e \in Entry}
  \cup {Change("update", p1, "same", "category", p2, "same"),
        Change("update", p1, Nil, "same", "same", "same"),
        Change("subscribe", p2, "same", "same", "same", "published"),
        Change("update", p2, Nil, "page", Nil, "draft")}
  \cup {Change("delete", e, "same", "same", "same", "same") : e \in Entry})

CONSTANTS c1, c2, a1, a2, a3

Errand(op, p, role, status) == [op |-> op, person |-> p, role |-> role, status |-> status]

\* An owner, an administrator and an address; the last two may be given any role
\* below the owner's, and be suspended, deleted and taken back.
MCAccountWork == Listed(
  {Errand("create", a3, role, "same") : role \in {"admin", "member"}}
  \cup {Errand("update", p, role, "same") : p \in Person, role \in {"owner", "admin", "member"}}
  \cup {Errand("update", p, "same", status) : p \in {a2, a3}, status \in {"active", "suspended"}}
  \cup {Errand("delete", p, "same", "same") : p \in Person})

MCAccount ==
  [p \in Person |->
     IF p = a3 THEN Nobody
     ELSE [role |-> IF p = a1 THEN "owner" ELSE "admin", status |-> "active", deleted |-> FALSE]]

\* The two actors of each part change places, all together.
Mates == {{h1, h2}, {w1, w2}, {c1, c2}}
Symmetry ==
  {p \in Permutations(UNION Mates) :
     (\A x \in DOMAIN p : p[x] = x) \/ (\A x \in DOMAIN p : {x, p[x]} \in Mates)}

CONSTANT Focus   \* the parts that a run looks at

VARIABLE focus

ResourcesInit ==
  /\ FilesInit /\ CatalogInit /\ AccountsInit /\ account = MCAccount
  /\ focus \in Focus
  /\ focus # "files" => siteRow = [s \in Site |-> None]

\* Ids are as good as each other: f1 is handed out before f2.  Nobody confirms
\* f2, so that nobody looks whether its object is as declared.
FilesInTurn ==
  /\ f2 \in minted' => f1 \in minted'
  /\ f2 \in minted' /\ object'[f2] # None => object'[f2].whole

ResourcesNext ==
  \/ focus = "files" /\ FilesNext /\ FilesInTurn /\ UNCHANGED <<focus, catalogVars, accountVars>>
  \/ focus = "catalog" /\ CatalogNext /\ UNCHANGED <<focus, fileVars, accountVars>>
  \/ focus = "accounts" /\ AccountsNext /\ UNCHANGED <<focus, fileVars, catalogVars>>

ResourcesSpec == ResourcesInit /\ [][ResourcesNext]_<<focus, fileVars, catalogVars, accountVars>>
=============================================================================
