------------------------------ MODULE Catalog ------------------------------
(***************************************************************************)
(* The properties of a site, that is its pages of content and its          *)
(* categories: routes/property, PropertyService and the                    *)
(* record_mutation.locked_record they use, and the newsletter              *)
(* subscriptions that visitors add.  Slugs and the children of a category  *)
(* are checked by queries of their own, some calls before the row is       *)
(* written; PocketBase has no index for either.                            *)
(*                                                                         *)
(* A request takes the lock of its site, makes every call a step, and may  *)
(* end at any step (Break), which frees the lock.  A write may take effect *)
(* though the request fails.  Abstractions: a category has one child at    *)
(* most; fields and groups are left out; PocketBase refuses an id that is  *)
(* taken; a site takes newsletter subscriptions.                           *)
(***************************************************************************)
EXTENDS Naturals

CONSTANTS
  Worker,        \* requests in flight together
  Shop,          \* sites
  Entry,         \* property ids
  Slug,          \* slugs
  CatalogWork,   \* the requests people may send
  Nil            \* no row, no slug, no child, no holder

Kind == {"category", "page"}
Publication == {"draft", "published"}

\* Requests that name their site; a subscription is an entry of its address.
Adding == {"create", "subscribe"}

\* In a change, "same" is a field the request leaves out.
CatalogRequest ==
  [op : {"create", "subscribe", "update", "delete"}, shop : Shop \cup {Nil}, entry : Entry,
   slug : Slug \cup {Nil, "same"}, kind : Kind \cup {"same"},
   child : Entry \cup {Nil, "same"}, status : Publication \cup {"same"}]

Row == [shop : Shop, slug : Slug \cup {Nil}, kind : Kind, child : Entry \cup {Nil},
        status : Publication, stamped : BOOLEAN, deleted : BOOLEAN]

ASSUME CatalogAssumption ==
  /\ CatalogWork \subseteq CatalogRequest
  /\ \A r \in CatalogWork : r.op \in Adding => r.shop \in Shop
  /\ Nil \notin Worker /\ Nil \notin Slug /\ "same" \notin Slug /\ Nil \notin Entry /\ Nil \notin Shop
  /\ Nil \notin CatalogRequest /\ Nil \notin Row

VARIABLES
  row,         \* the properties rows
  shut,        \* the sites that are deleted
  gate,        \* who holds the lock of each site
  task, step,  \* the request of each worker and where it is
  found        \* the row each worker has read

catalogVars == <<row, shut, gate, task, step, found>>

CatalogTypeOK ==
  /\ row \in [Entry -> Row \cup {Nil}]
  /\ shut \subseteq Shop
  /\ gate \in [Shop -> Worker \cup {Nil}]
  /\ task \in [Worker -> CatalogRequest \cup {Nil}]
  /\ step \in [Worker -> {"idle", "find", "lock", "load", "slug", "children", "write"}]
  /\ found \in [Worker -> Row \cup {Nil}]

CatalogInit ==
  /\ row = [e \in Entry |-> Nil]
  /\ shut = {}
  /\ gate = [s \in Shop |-> Nil]
  /\ task = [w \in Worker |-> Nil]
  /\ step = [w \in Worker |-> "idle"]
  /\ found = [w \in Worker |-> Nil]

-----------------------------------------------------------------------------
Alive(e) == row[e] # Nil /\ ~row[e].deleted

Sent(new, old) == IF new = "same" THEN old ELSE new

\* {**record, **updates}
Merged(r, change) ==
  [r EXCEPT !.slug = Sent(change.slug, @), !.kind = Sent(change.kind, @),
            !.child = Sent(change.child, @), !.status = Sent(change.status, @)]

Proceed(w, next) ==
  /\ step' = [step EXCEPT ![w] = next]
  /\ UNCHANGED <<row, shut, gate, task, found>>

Finished(w) ==
  /\ step' = [step EXCEPT ![w] = "idle"]
  /\ task' = [task EXCEPT ![w] = Nil]
  /\ found' = [found EXCEPT ![w] = Nil]
  /\ gate' = [s \in Shop |-> IF gate[s] = w THEN Nil ELSE gate[s]]

Refused(w) == Finished(w) /\ UNCHANGED <<row, shut>>

Break(w) == step[w] # "idle" /\ Refused(w)

\* The path of a request names the site, or the property that has it.
Receive(w, r) ==
  /\ step[w] = "idle"
  /\ task' = [task EXCEPT ![w] = r]
  /\ step' = [step EXCEPT ![w] = IF r.op \in Adding THEN "lock" ELSE "find"]
  /\ UNCHANGED <<row, shut, gate, found>>

AtShop(r, s) == [r EXCEPT !.shop = s]

\* locked_record reads the row for its site, ...
Find(w) ==
  /\ step[w] = "find"
  /\ IF ~Alive(task[w].entry) THEN Refused(w)
     ELSE /\ task' = [task EXCEPT ![w] = AtShop(task[w], row[task[w].entry].shop)]
          /\ step' = [step EXCEPT ![w] = "lock"]
          /\ UNCHANGED <<row, shut, gate, found>>

\* Mutant of LockOf: no lock is taken.
LockNone(r) == Nil

\* ... takes the lock of that site ...
LockOf(r) == r.shop

Enter(w) ==
  LET lock == LockOf(task[w]) IN
  /\ step[w] = "lock"
  /\ lock # Nil => gate[lock] = Nil
  /\ gate' = [s \in Shop |-> IF s = lock THEN w ELSE gate[s]]
  /\ step' = [step EXCEPT ![w] = "load"]
  /\ UNCHANGED <<row, shut, task, found>>

\* What a new property is made of; what the request leaves out is empty.
Blank(s) == [shop |-> s, slug |-> Nil, kind |-> "page", child |-> Nil,
             status |-> "draft", stamped |-> FALSE, deleted |-> FALSE]

\* The property as the request would make it.
Checked(r, change) == Merged(r, change)

\* Where a request goes when its slug is checked.  422 for a category without
\* a slug.
AfterSlug(w, r) ==
  LET after == Checked(r, task[w]) IN
  IF after.kind # "category" THEN "write"
  ELSE IF after.slug = Nil THEN "idle"
  ELSE IF after.child = Nil THEN "write" ELSE "children"

\* ... and reads the row and the site again.  Only a slug in the request is checked;
\* an address that is there is not added again.
LoadRow(w) ==
  LET t == task[w]
      r == IF t.op \in Adding THEN Blank(t.shop) ELSE row[t.entry]
      next == IF t.op = "delete" THEN "write"
              ELSE IF t.slug \in Slug THEN "slug" ELSE AfterSlug(w, r) IN
  /\ step[w] = "load"
  /\ IF \/ t.shop \in shut
        \/ t.op \notin Adding /\ ~Alive(t.entry)
        \/ t.op = "subscribe" /\ row[t.entry] # Nil
        \/ next = "idle"
       THEN Refused(w)
       ELSE /\ found' = [found EXCEPT ![w] = r]
            /\ step' = [step EXCEPT ![w] = next]
            /\ UNCHANGED <<row, shut, gate, task>>

\* _check_slug_unique: 409 if another property of the site has the slug.
CheckSlug(w) ==
  LET t == task[w]
      taken == \E e \in Entry : /\ Alive(e) /\ e # t.entry
                                /\ row[e].shop = t.shop /\ row[e].slug = t.slug IN
  /\ step[w] = "slug"
  /\ IF taken THEN Refused(w) ELSE Proceed(w, AfterSlug(w, found[w]))

\* _validate_category: 422 if the site has no such child.
CheckChildren(w) ==
  LET child == Checked(found[w], task[w]).child IN
  /\ step[w] = "children"
  /\ IF Alive(child) /\ row[child].shop = task[w].shop THEN Proceed(w, "write") ELSE Refused(w)

\* The fields of the request, written into the row; it is stamped when the
\* row that was read becomes published.
Updated(w) ==
  LET t == task[w]
      new == Merged(IF t.op \in Adding THEN found[w] ELSE row[t.entry], t) IN
  IF t.op = "delete" THEN [row[t.entry] EXCEPT !.deleted = TRUE]
  ELSE [new EXCEPT !.stamped = @ \/ (t.status = "published" /\ found[w].status # "published")]

Write(w) ==
  LET e == task[w].entry IN
  /\ step[w] = "write"
  /\ IF task[w].op \in Adding /\ row[e] # Nil THEN UNCHANGED row
     ELSE row' \in {row, [row EXCEPT ![e] = Updated(w)]}
  /\ Finished(w)
  /\ UNCHANGED shut

\* A site is deleted under its lock.
Shut(s) ==
  /\ s \notin shut /\ gate[s] = Nil
  /\ shut' = shut \cup {s}
  /\ UNCHANGED <<row, gate, task, step, found>>

CatalogNext ==
  \/ \E w \in Worker, r \in CatalogWork : Receive(w, r)
  \/ \E w \in Worker : \/ Find(w) \/ Enter(w) \/ LoadRow(w) \/ CheckSlug(w)
                       \/ CheckChildren(w) \/ Write(w) \/ Break(w)
  \/ \E s \in Shop : Shut(s)

CatalogSpec == CatalogInit /\ [][CatalogNext]_catalogVars

-----------------------------------------------------------------------------
\* _check_slug_unique: "slug is unique within a site (excluding soft-deleted)",
\* though the check and the write are separate calls.
SlugsAreUnique ==
  \A e, f \in Entry :
    e # f /\ Alive(e) /\ Alive(f) =>
      row[e].shop # row[f].shop \/ row[e].slug = Nil \/ row[e].slug # row[f].slug

\* A category gets its child while that child is there, in the same site; no
\* deletion slips in between the look-up and the write.
ChildrenExistWhenGiven ==
  [][\A e \in Entry :
       /\ row'[e] # Nil /\ row'[e] # row[e]
       /\ ~row'[e].deleted
       /\ row'[e].kind = "category" /\ row'[e].child # Nil
       => /\ row[row'[e].child] # Nil
          /\ ~row[row'[e].child].deleted /\ row[row'[e].child].shop = row'[e].shop]_catalogVars
=============================================================================
