--------------------------- MODULE CatalogProofs ----------------------------
(***************************************************************************)
(* One slug is one property, and a category gets a child that is there,    *)
(* for any number of requests, sites and properties.  Both rest on look-   *)
(* ups that are some calls old when the row is written; what keeps them    *)
(* true meanwhile is that only the holder of a site's lock writes rows of  *)
(* that site, and that no row ever changes its site.                       *)
(*                                                                         *)
(* Owners stay who and what they are, for any number of clerks and people  *)
(* and any requests.  A request was checked at two moments: what its       *)
(* caller may grant when it was authenticated, and whom the caller may     *)
(* manage at each read.  The caller may have lost the role since, and the  *)
(* person may have gained one; neither makes an owner or reaches one.      *)
(***************************************************************************)
EXTENDS Catalog, Accounts, TLAPS

Held == {"load", "slug", "children", "write"}

\* A request past the wait holds the lock of the site that its property is in.
GateInv ==
  \A w \in Worker : step[w] # "idle" =>
    /\ task[w] \in CatalogRequest
    /\ step[w] = "find" => task[w].op \notin Adding
    /\ step[w] # "find" =>
         /\ task[w].shop \in Shop
         /\ task[w].op \notin Adding =>
              row[task[w].entry] # Nil /\ row[task[w].entry].shop = task[w].shop
    /\ step[w] \in Held => gate[task[w].shop] = w

\* What a request has read is still so.
FoundInv(w) ==
  IF task[w].op \in Adding THEN found[w] = Blank(task[w].shop)
  ELSE Alive(task[w].entry) /\ found[w] = row[task[w].entry]

\* No other property of the site has the slug that is asked for.
SlugFree(t) ==
  \A e \in Entry \ {t.entry} : Alive(e) /\ row[e].shop = t.shop => row[e].slug # t.slug

\* The child of the category to be is there.
ChildThere(w) ==
  LET after == Checked(found[w], task[w]) IN
  after.kind = "category" /\ after.child # Nil =>
    Alive(after.child) /\ row[after.child].shop = task[w].shop

\* What was checked under the lock, and holds until the write.
CheckInv ==
  \A w \in Worker : step[w] \in {"slug", "children", "write"} =>
    /\ FoundInv(w)
    /\ task[w].op = "delete" => step[w] = "write"
    /\ step[w] # "slug" /\ task[w].op # "delete" /\ task[w].slug \in Slug => SlugFree(task[w])
    /\ step[w] = "slug" => task[w].slug \in Slug
    /\ step[w] = "children" => Checked(found[w], task[w]).child \in Entry
    /\ step[w] = "write" /\ task[w].op # "delete" => ChildThere(w)

CatalogInv == CatalogTypeOK /\ GateInv /\ CheckInv /\ SlugsAreUnique

-----------------------------------------------------------------------------
LEMMA MergedIsRow ==
  ASSUME NEW r \in Row, NEW t \in CatalogRequest
  PROVE  /\ Merged(r, t) \in Row
         /\ Merged(r, t).shop = r.shop /\ Merged(r, t).deleted = r.deleted
         /\ Merged(r, t).slug = Sent(t.slug, r.slug)
         /\ Merged(r, t).kind = Sent(t.kind, r.kind)
         /\ Merged(r, t).child = Sent(t.child, r.child)
  BY DEF Merged, Sent, Row, CatalogRequest

LEMMA BlankIsRow ==
  ASSUME NEW s \in Shop
  PROVE  Blank(s) \in Row /\ Blank(s).shop = s /\ ~Blank(s).deleted /\ Blank(s).slug = Nil
  BY DEF Blank, Row, Kind, Publication

LEMMA CatalogInitInv == CatalogInit => CatalogInv
  BY DEF CatalogInit, CatalogInv, CatalogTypeOK, GateInv, CheckInv, SlugsAreUnique, Alive

\* What a request past its first read has found is a row of its site.
LEMMA FoundIsRow ==
  ASSUME CatalogInv, NEW w \in Worker, step[w] \in {"slug", "children", "write"}
  PROVE  /\ task[w] \in CatalogRequest /\ task[w].entry \in Entry /\ task[w].shop \in Shop
         /\ found[w] \in Row /\ found[w].shop = task[w].shop /\ ~found[w].deleted
         /\ task[w].op \notin Adding => found[w] = row[task[w].entry]
  <1>1. /\ task[w] \in CatalogRequest /\ task[w].entry \in Entry /\ task[w].shop \in Shop
        /\ task[w].op \notin Adding => row[task[w].entry].shop = task[w].shop
        /\ FoundInv(w)
    BY DEF CatalogInv, GateInv, CheckInv, CatalogRequest
  <1> QED
    BY <1>1, BlankIsRow DEF FoundInv, Alive, CatalogInv, CatalogTypeOK

\* The row that a change or a creation would write.
LEMMA UpdatedIsRow ==
  ASSUME CatalogInv, NEW w \in Worker, step[w] = "write",
         task[w].op \in Adding => row[task[w].entry] = Nil
  PROVE  /\ task[w] \in CatalogRequest /\ task[w].entry \in Entry
         /\ found[w] \in Row /\ Updated(w) \in Row
         /\ Updated(w).shop = task[w].shop
         /\ task[w].op = "delete" => Updated(w).deleted
         /\ task[w].op # "delete" =>
              /\ ~Updated(w).deleted
              /\ Updated(w).slug = Sent(task[w].slug, found[w].slug)
              /\ Updated(w).kind = Checked(found[w], task[w]).kind
              /\ Updated(w).child = Checked(found[w], task[w]).child
  <1> DEFINE t == task[w]
             new == Merged(found[w], t)
  <1>1. t \in CatalogRequest /\ t.entry \in Entry
    BY FoundIsRow
  <1>2. /\ found[w] \in Row /\ found[w].shop = t.shop /\ ~found[w].deleted
        /\ t.op \notin Adding => found[w] = row[t.entry]
    BY FoundIsRow
  <1>3. /\ new \in Row /\ new.shop = t.shop /\ ~new.deleted
        /\ new.slug = Sent(t.slug, found[w].slug)
        /\ new = Checked(found[w], t)
    BY <1>1, <1>2, MergedIsRow DEF Checked
  <1>4. CASE t.op = "delete"
    <2>1. Updated(w) = [row[t.entry] EXCEPT !.deleted = TRUE] /\ row[t.entry] = found[w]
      BY <1>2, <1>4 DEF Updated, Adding
    <2> QED
      BY <1>1, <1>2, <1>4, <2>1 DEF Row
  <1>5. CASE t.op # "delete"
    <2> DEFINE stamp == new.stamped \/ (t.status = "published" /\ found[w].status # "published")
    <2>1. Updated(w) = [new EXCEPT !.stamped = stamp]
      BY <1>2, <1>5 DEF Updated
    <2>2. stamp \in BOOLEAN
      OBVIOUS
    <2> HIDE DEF stamp, new
    <2>3. /\ Updated(w) \in Row /\ Updated(w).shop = new.shop
          /\ Updated(w).deleted = new.deleted /\ Updated(w).slug = new.slug
          /\ Updated(w).kind = new.kind /\ Updated(w).child = new.child
      BY <1>3, <2>1, <2>2 DEF Row
    <2> QED
      BY <1>1, <1>2, <1>3, <1>5, <2>3
  <1> QED
    BY <1>4, <1>5

\* A write changes at most the row it is about, which is in the site whose lock
\* the request holds, before and after.
LEMMA WriteStaysInShop ==
  ASSUME CatalogInv, NEW w \in Worker, Write(w),
         NEW e \in Entry, row'[e] # row[e]
  PROVE  /\ e = task[w].entry /\ row'[e] = Updated(w) /\ row'[e] \in Row
         /\ row'[e].shop = task[w].shop
         /\ row[e] # Nil => row[e].shop = task[w].shop
         /\ gate[task[w].shop] = w
         /\ task[w].op \in Adding => row[e] = Nil
  <1>1. /\ step[w] = "write"
        /\ row' = [row EXCEPT ![task[w].entry] = Updated(w)]
        /\ task[w].op \in Adding => row[task[w].entry] = Nil
    BY DEF Write
  <1>2. e = task[w].entry /\ row'[e] = Updated(w)
    BY <1>1 DEF CatalogInv, CatalogTypeOK
  <1>3. Updated(w) \in Row /\ Updated(w).shop = task[w].shop
    BY <1>1, UpdatedIsRow
  <1>4. gate[task[w].shop] = w
    BY <1>1 DEF CatalogInv, GateInv, Held
  <1>5. row[e] # Nil => row[e].shop = task[w].shop
    BY <1>1, <1>2 DEF CatalogInv, GateInv
  <1> QED
    BY <1>1, <1>2, <1>3, <1>4, <1>5

\* A write keeps slugs apart.
LEMMA WriteKeepsSlugs ==
  ASSUME CatalogInv, NEW w \in Worker, Write(w)
  PROVE  SlugsAreUnique'
  <1> DEFINE t == task[w]
             u == Updated(w)
  <1>1. step[w] = "write" /\ row \in [Entry -> Row \cup {Nil}]
    BY DEF Write, CatalogInv, CatalogTypeOK
  <1>2. ASSUME NEW e \in Entry, NEW f \in Entry, e # f, row'[e] # row[e],
               Alive(e)', Alive(f)', row'[e].shop = row'[f].shop, row'[e].slug # Nil
        PROVE  row'[e].slug # row'[f].slug
    <2>1. /\ e = t.entry /\ row'[e] = u /\ u.shop = t.shop
          /\ t.op \in Adding => row[e] = Nil
      BY <1>2, WriteStaysInShop
    <2>2. row'[f] = row[f] /\ Alive(f) /\ row[f].shop = t.shop
      BY <1>2, <2>1, WriteStaysInShop DEF Alive
    <2>3. /\ ~u.deleted /\ t.op # "delete" /\ u.slug = Sent(t.slug, found[w].slug)
          /\ t \in CatalogRequest
      BY <1>1, <1>2, <2>1, UpdatedIsRow DEF Alive
    <2>4. FoundInv(w) /\ (t.slug \in Slug => SlugFree(t))
      BY <1>1, <2>3 DEF CatalogInv, CheckInv
    <2>5. CASE t.slug \in Slug /\ t.slug # "same"
      <3>1. row[f].slug # t.slug
        BY <2>1, <2>2, <2>4, <2>5, <1>2 DEF SlugFree
      <3> QED
        BY <2>1, <2>2, <2>3, <2>5, <3>1 DEF Sent
    <2>6. CASE t.slug = "same"
      <3>1. u.slug = found[w].slug
        BY <2>3, <2>6 DEF Sent
      <3>2. t.op \notin Adding
        BY <1>2, <2>1, <2>4, <3>1, BlankIsRow DEF FoundInv, CatalogInv, GateInv, Blank
      <3>3. Alive(e) /\ found[w] = row[e] /\ row[e].shop = t.shop
        BY <2>1, <2>4, <3>2, <1>1 DEF FoundInv, CatalogInv, GateInv
      <3>4. row[e].slug # row[f].slug
        BY <1>2, <2>1, <2>2, <3>1, <3>3 DEF CatalogInv, SlugsAreUnique
      <3> QED
        BY <2>1, <2>2, <3>1, <3>3, <3>4
    <2>7. CASE t.slug = Nil /\ t.slug # "same"
      BY <1>2, <2>1, <2>3, <2>7 DEF Sent
    <2> QED
      BY <2>3, <2>5, <2>6, <2>7 DEF CatalogRequest
  <1>3. SUFFICES ASSUME NEW e \in Entry, NEW f \in Entry, e # f, Alive(e)', Alive(f)',
                        row'[e].shop = row'[f].shop, row'[e].slug # Nil
                 PROVE  row'[e].slug # row'[f].slug
    BY DEF SlugsAreUnique
  <1>4. CASE row'[e] # row[e]
    BY <1>2, <1>3, <1>4
  <1>5. CASE row'[f] # row[f]
    <2>1. CASE row'[f].slug = Nil
      BY <1>3, <2>1
    <2>2. CASE row'[f].slug # Nil
      BY <1>2, <1>3, <1>5, <2>2
    <2> QED
      BY <2>1, <2>2
  <1>6. CASE row'[e] = row[e] /\ row'[f] = row[f]
    BY <1>3, <1>6 DEF CatalogInv, SlugsAreUnique, Alive
  <1> QED
    BY <1>4, <1>5, <1>6

\* What another request writes is in another site.
LEMMA OthersWriteElsewhere ==
  ASSUME CatalogInv, NEW w \in Worker, Write(w), NEW v \in Worker \ {w}, step[v] \in Held,
         NEW e \in Entry, row'[e] # row[e]
  PROVE  /\ row'[e].shop # task[v].shop
         /\ row[e] # Nil => row[e].shop # task[v].shop
  <1>1. gate[task[v].shop] = v
    BY DEF CatalogInv, GateInv, Held
  <1>2. /\ gate[task[w].shop] = w /\ row'[e].shop = task[w].shop
        /\ row[e] # Nil => row[e].shop = task[w].shop
    BY WriteStaysInShop
  <1> QED
    BY <1>1, <1>2

LEMMA WriteStepInv ==
  ASSUME CatalogInv, NEW w \in Worker, Write(w)
  PROVE  CatalogInv'
  <1>1. /\ step' = [step EXCEPT ![w] = "idle"]
        /\ task' = [task EXCEPT ![w] = Nil]
        /\ found' = [found EXCEPT ![w] = Nil]
        /\ gate' = [s \in Shop |-> IF gate[s] = w THEN Nil ELSE gate[s]]
        /\ UNCHANGED shut
    BY DEF Write, Finished
  <1>2. row' \in [Entry -> Row \cup {Nil}]
    <2>1. row' = row \/ row' = [row EXCEPT ![task[w].entry] = Updated(w)]
      BY DEF Write
    <2>2. \A e \in Entry : row'[e] \in Row \cup {Nil}
      BY WriteStaysInShop DEF CatalogInv, CatalogTypeOK
    <2> QED
      BY <2>1, <2>2 DEF CatalogInv, CatalogTypeOK
  <1>3. CatalogTypeOK'
    BY <1>1, <1>2 DEF CatalogInv, CatalogTypeOK
  <1>4. ASSUME NEW v \in Worker, step'[v] # "idle"
        PROVE  /\ v # w /\ step[v] # "idle"
               /\ step'[v] = step[v] /\ task'[v] = task[v] /\ found'[v] = found[v]
               /\ task[v] \in CatalogRequest
    BY <1>1, <1>4 DEF CatalogInv, CatalogTypeOK, GateInv
  <1>5. ASSUME NEW e \in Entry, row[e] # Nil
        PROVE  row'[e] # Nil /\ row'[e].shop = row[e].shop
    <2>1. CASE row'[e] # row[e]
      BY <1>5, <2>1, WriteStaysInShop, CatalogAssumption
    <2> QED
      BY <1>5, <2>1
  <1>6. GateInv'
    <2> SUFFICES ASSUME NEW v \in Worker, step'[v] # "idle"
                 PROVE  /\ task'[v] \in CatalogRequest
                        /\ step'[v] = "find" => task'[v].op \notin Adding
                        /\ step'[v] # "find" =>
                             /\ task'[v].shop \in Shop
                             /\ task'[v].op \notin Adding =>
                                  /\ row'[task'[v].entry] # Nil
                                  /\ row'[task'[v].entry].shop = task'[v].shop
                        /\ step'[v] \in Held => gate'[task'[v].shop] = v
      BY DEF GateInv
    <2>1. task[v].entry \in Entry
      BY <1>4 DEF CatalogRequest
    <2>2. step[v] \in Held => gate'[task[v].shop] = v
      BY <1>1, <1>4 DEF CatalogInv, GateInv, Held
    <2> QED
      BY <1>4, <1>5, <2>1, <2>2 DEF CatalogInv, GateInv
  <1>7. CheckInv'
    <2> SUFFICES ASSUME NEW v \in Worker, step'[v] \in {"slug", "children", "write"}
                 PROVE  /\ FoundInv(v)'
                        /\ task'[v].op = "delete" => step'[v] = "write"
                        /\ step'[v] # "slug" /\ task'[v].op # "delete" /\ task'[v].slug \in Slug
                             => SlugFree(task[v])'
                        /\ step'[v] = "slug" => task'[v].slug \in Slug
                        /\ step'[v] = "children" => Checked(found[v], task[v])'.child \in Entry
                        /\ step'[v] = "write" /\ task'[v].op # "delete" => ChildThere(v)'
      BY DEF CheckInv
    <2>1. /\ v # w /\ step'[v] = step[v] /\ task'[v] = task[v] /\ found'[v] = found[v]
          /\ task[v] \in CatalogRequest /\ task[v].entry \in Entry
          /\ step[v] \in Held
      BY <1>4 DEF CatalogRequest, Held
    <2>2. \A e \in Entry : row[e] # Nil /\ row[e].shop = task[v].shop => row'[e] = row[e]
      BY <2>1, OthersWriteElsewhere
    <2>3. \A e \in Entry : row'[e].shop = task[v].shop => row'[e] = row[e]
      BY <2>1, OthersWriteElsewhere
    <2>4. FoundInv(v)'
      <3>1. task[v].op \notin Adding => row'[task[v].entry] = row[task[v].entry]
        BY <2>1, <2>2 DEF CatalogInv, GateInv, Held
      <3> QED
        BY <2>1, <3>1 DEF CatalogInv, CheckInv, FoundInv, Alive
    <2>5. SlugFree(task[v]) => SlugFree(task[v])'
      BY <2>1, <2>3 DEF SlugFree, Alive
    <2>6. step[v] = "write" /\ task[v].op # "delete" => ChildThere(v)'
      <3> SUFFICES ASSUME step[v] = "write", task[v].op # "delete"
                   PROVE  ChildThere(v)'
        OBVIOUS
      <3>1. ChildThere(v) /\ found[v] \in Row
        BY <2>1, FoundIsRow DEF CatalogInv, CheckInv
      <3>2. Checked(found[v], task[v]).child \in Entry \cup {Nil}
        BY <2>1, <3>1, MergedIsRow DEF Checked, Row
      <3> QED
        BY <2>1, <2>2, <3>1, <3>2 DEF ChildThere, Alive
    <2> QED
      BY <2>1, <2>4, <2>5, <2>6 DEF CatalogInv, CheckInv
  <1> QED
    BY <1>3, <1>6, <1>7, WriteKeepsSlugs DEF CatalogInv

\* The end of a request that writes nothing.
LEMMA RefusedStepInv ==
  ASSUME CatalogInv, NEW w \in Worker, Refused(w)
  PROVE  CatalogInv'
  <1>1. /\ step' = [step EXCEPT ![w] = "idle"]
        /\ task' = [task EXCEPT ![w] = Nil]
        /\ found' = [found EXCEPT ![w] = Nil]
        /\ gate' = [s \in Shop |-> IF gate[s] = w THEN Nil ELSE gate[s]]
        /\ UNCHANGED <<row, shut>>
    BY DEF Refused, Finished
  <1>2. CatalogTypeOK'
    BY <1>1 DEF CatalogInv, CatalogTypeOK
  <1>3. ASSUME NEW v \in Worker, step'[v] # "idle"
        PROVE  /\ v # w /\ step[v] # "idle"
               /\ step'[v] = step[v] /\ task'[v] = task[v] /\ found'[v] = found[v]
    BY <1>1, <1>3 DEF CatalogInv, CatalogTypeOK
  <1>4. GateInv'
    BY <1>1, <1>3 DEF CatalogInv, CatalogTypeOK, GateInv, Held
  <1>5. CheckInv'
    BY <1>1, <1>3 DEF CatalogInv, CheckInv, FoundInv, SlugFree, ChildThere, Alive
  <1>6. SlugsAreUnique'
    BY <1>1 DEF CatalogInv, SlugsAreUnique, Alive
  <1> QED
    BY <1>2, <1>4, <1>5, <1>6 DEF CatalogInv

\* A request that goes on to its next look-up, or to the write, keeps the invariant
\* if what it has just found out is what the invariant asks for there.
LEMMA ProceedStepInv ==
  ASSUME CatalogInv, NEW w \in Worker, UNCHANGED <<row, shut, gate, task>>,
         step[w] \in Held, NEW next \in {"slug", "children", "write"},
         step' = [step EXCEPT ![w] = next],
         NEW r \in Row, found' = [found EXCEPT ![w] = r],
         IF task[w].op \in Adding THEN r = Blank(task[w].shop)
         ELSE Alive(task[w].entry) /\ r = row[task[w].entry],
         task[w].op = "delete" => next = "write",
         next # "slug" /\ task[w].op # "delete" /\ task[w].slug \in Slug => SlugFree(task[w]),
         next = "slug" => task[w].slug \in Slug,
         next = "children" => Checked(r, task[w]).child \in Entry,
         next = "write" /\ task[w].op # "delete" =>
           LET after == Checked(r, task[w]) IN
           after.kind = "category" /\ after.child # Nil =>
             Alive(after.child) /\ row[after.child].shop = task[w].shop
  PROVE  CatalogInv'
  <1>1. CatalogTypeOK'
    BY DEF CatalogInv, CatalogTypeOK
  <1>2. /\ step'[w] = next /\ found'[w] = r
        /\ \A v \in Worker \ {w} : step'[v] = step[v] /\ found'[v] = found[v]
    BY DEF CatalogInv, CatalogTypeOK
  <1>3. GateInv'
    BY <1>2 DEF CatalogInv, GateInv, Held
  <1>4. CheckInv'
    <2> SUFFICES ASSUME NEW v \in Worker, step'[v] \in {"slug", "children", "write"}
                 PROVE  /\ FoundInv(v)'
                        /\ task'[v].op = "delete" => step'[v] = "write"
                        /\ step'[v] # "slug" /\ task'[v].op # "delete" /\ task'[v].slug \in Slug
                             => SlugFree(task[v])'
                        /\ step'[v] = "slug" => task'[v].slug \in Slug
                        /\ step'[v] = "children" => Checked(found[v], task[v])'.child \in Entry
                        /\ step'[v] = "write" /\ task'[v].op # "delete" => ChildThere(v)'
      BY DEF CheckInv
    <2>1. CASE v = w
      BY <1>2, <2>1 DEF FoundInv, SlugFree, ChildThere, Alive
    <2>2. CASE v # w
      BY <1>2, <2>2 DEF CatalogInv, CheckInv, FoundInv, SlugFree, ChildThere, Alive
    <2> QED
      BY <2>1, <2>2
  <1>5. SlugsAreUnique'
    BY DEF CatalogInv, SlugsAreUnique, Alive
  <1> QED
    BY <1>1, <1>3, <1>4, <1>5 DEF CatalogInv

\* A request on its way to the lock has checked nothing yet.
LEMMA WaitStepInv ==
  ASSUME CatalogInv, NEW w \in Worker, UNCHANGED <<row, shut, found>>,
         \/ \E r \in CatalogWork : Receive(w, r)
         \/ Find(w) /\ Alive(task[w].entry)
         \/ Enter(w)
  PROVE  CatalogInv'
  <1>1. PICK t \in CatalogRequest, next \in {"find", "lock", "load"} :
          /\ task' = [task EXCEPT ![w] = t]
          /\ step' = [step EXCEPT ![w] = next]
          /\ next = "find" => t.op \notin Adding
          /\ next # "find" =>
               /\ t.shop \in Shop
               /\ t.op \notin Adding => row[t.entry] # Nil /\ row[t.entry].shop = t.shop
          /\ \/ UNCHANGED gate /\ next # "load"
             \/ /\ gate[t.shop] = Nil
                /\ gate' = [s \in Shop |-> IF s = t.shop THEN w ELSE gate[s]]
    <2>1. CASE \E r \in CatalogWork : Receive(w, r)
      BY <2>1, CatalogAssumption DEF Receive
    <2>2. CASE Find(w) /\ Alive(task[w].entry)
      <3>1. task[w] \in CatalogRequest /\ task[w].op \notin Adding /\ step[w] = "find"
        BY <2>2 DEF Find, CatalogInv, GateInv
      <3> DEFINE s == row[task[w].entry].shop
                 t == AtShop(task[w], s)
      <3>2. row[task[w].entry] \in Row /\ s \in Shop
        BY <2>2, <3>1 DEF Alive, CatalogInv, CatalogTypeOK, CatalogRequest, Row
      <3>3. t \in CatalogRequest /\ t.op = task[w].op /\ t.entry = task[w].entry /\ t.shop = s
        BY <3>1, <3>2 DEF AtShop, CatalogRequest
      <3>4. task' = [task EXCEPT ![w] = t] /\ step' = [step EXCEPT ![w] = "lock"] /\ UNCHANGED gate
        BY <2>2 DEF Find
      <3>5. row[t.entry] # Nil
        BY <2>2, <3>3 DEF Alive
      <3> HIDE DEF t
      <3> QED
        BY <3>1, <3>2, <3>3, <3>4, <3>5
    <2>3. CASE Enter(w)
      <3>1. /\ task[w] \in CatalogRequest /\ task[w].shop \in Shop
            /\ task[w].op \notin Adding =>
                 row[task[w].entry] # Nil /\ row[task[w].entry].shop = task[w].shop
        BY <2>3 DEF Enter, CatalogInv, GateInv
      <3>2. /\ step' = [step EXCEPT ![w] = "load"]
            /\ task' = [task EXCEPT ![w] = task[w]]
            /\ gate[task[w].shop] = Nil
            /\ gate' = [s \in Shop |-> IF s = task[w].shop THEN w ELSE gate[s]]
        BY <2>3, <3>1, CatalogAssumption DEF Enter, LockOf, CatalogInv, CatalogTypeOK
      <3> QED
        BY <3>1, <3>2
    <2> QED
      BY <2>1, <2>2, <2>3
  <1>2. CatalogTypeOK'
    BY <1>1 DEF CatalogInv, CatalogTypeOK
  <1>3. /\ step'[w] = next /\ task'[w] = t
        /\ \A v \in Worker \ {w} : step'[v] = step[v] /\ task'[v] = task[v]
    BY <1>1 DEF CatalogInv, CatalogTypeOK
  <1>4. GateInv'
    <2>1. ASSUME NEW v \in Worker \ {w}, step[v] \in Held
          PROVE  gate'[task[v].shop] = v
      BY <1>1, <2>1, CatalogAssumption DEF CatalogInv, GateInv, Held
    <2>2. next \in Held => gate'[t.shop] = w
      BY <1>1 DEF Held
    <2> QED
      BY <1>1, <1>3, <2>1, <2>2 DEF CatalogInv, GateInv
  <1>5. CheckInv'
    BY <1>1, <1>3 DEF CatalogInv, CheckInv, FoundInv, SlugFree, ChildThere, Alive
  <1>6. SlugsAreUnique'
    BY DEF CatalogInv, SlugsAreUnique, Alive
  <1> QED
    BY <1>2, <1>4, <1>5, <1>6 DEF CatalogInv

\* Where a slug that needs no more checks leads to.
LEMMA AfterSlugLeads ==
  ASSUME NEW w \in Worker, NEW r \in Row, task[w] \in CatalogRequest,
         AfterSlug(w, r) # "idle"
  PROVE  LET after == Checked(r, task[w]) IN
         /\ AfterSlug(w, r) \in {"children", "write"}
         /\ AfterSlug(w, r) = "children" => after.child \in Entry
         /\ AfterSlug(w, r) = "write" => after.kind # "category" \/ after.child = Nil
  <1>1. Checked(r, task[w]) \in Row
    BY MergedIsRow DEF Checked
  <1> QED
    BY <1>1 DEF AfterSlug, Row

LEMMA LoadStepInv ==
  ASSUME CatalogInv, NEW w \in Worker, LoadRow(w)
  PROVE  CatalogInv'
  <1> DEFINE t == task[w]
             r == IF t.op \in Adding THEN Blank(t.shop) ELSE row[t.entry]
             next == IF t.op = "delete" THEN "write"
                     ELSE IF t.slug \in Slug THEN "slug" ELSE AfterSlug(w, r)
  <1>1. CASE Refused(w)
    BY <1>1, RefusedStepInv
  <1>2. CASE ~Refused(w)
    <2>1. /\ step[w] = "load" /\ next # "idle"
          /\ t.op \in Adding \/ Alive(t.entry)
          /\ found' = [found EXCEPT ![w] = r]
          /\ step' = [step EXCEPT ![w] = next]
          /\ UNCHANGED <<row, shut, gate, task>>
      BY <1>2 DEF LoadRow
    <2>2. t \in CatalogRequest /\ t.shop \in Shop /\ t.entry \in Entry /\ step[w] \in Held
      BY <2>1 DEF CatalogInv, GateInv, Held, CatalogRequest
    <2>3. /\ r \in Row
          /\ IF t.op \in Adding THEN r = Blank(t.shop) ELSE Alive(t.entry) /\ r = row[t.entry]
      BY <2>1, <2>2, BlankIsRow DEF Alive, CatalogInv, CatalogTypeOK
    <2> HIDE DEF r
    <2>4. CASE t.op = "delete"
      BY <2>1, <2>2, <2>3, <2>4, ProceedStepInv
    <2>5. CASE t.op # "delete" /\ t.slug \in Slug
      BY <2>1, <2>2, <2>3, <2>5, ProceedStepInv
    <2>6. CASE t.op # "delete" /\ t.slug \notin Slug
      <3>1. /\ next \in {"children", "write"}
            /\ next = "children" => Checked(r, t).child \in Entry
            /\ next = "write" => Checked(r, t).kind # "category" \/ Checked(r, t).child = Nil
        BY <2>1, <2>2, <2>3, <2>6, AfterSlugLeads
      <3> HIDE DEF next
      <3> QED
        BY <2>1, <2>2, <2>3, <2>6, <3>1, ProceedStepInv
    <2> QED
      BY <2>4, <2>5, <2>6
  <1> QED
    BY <1>1, <1>2

LEMMA CheckStepInv ==
  ASSUME CatalogInv, NEW w \in Worker, CheckSlug(w) \/ CheckChildren(w)
  PROVE  CatalogInv'
  <1> DEFINE t == task[w]
  <1>1. CASE Refused(w)
    BY <1>1, RefusedStepInv
  <1>2. CASE CheckSlug(w) /\ ~Refused(w) /\ AfterSlug(w, found[w]) # "idle"
    <2> DEFINE next == AfterSlug(w, found[w])
    <2>1. /\ step[w] = "slug" /\ step[w] \in Held /\ SlugFree(t)
          /\ step' = [step EXCEPT ![w] = next]
          /\ UNCHANGED <<row, shut, gate, task, found>>
      BY <1>2 DEF CheckSlug, Proceed, SlugFree, Held
    <2>2. /\ t \in CatalogRequest /\ found[w] \in Row /\ FoundInv(w) /\ t.op # "delete"
          /\ found' = [found EXCEPT ![w] = found[w]]
      BY <2>1, FoundIsRow DEF CatalogInv, CheckInv, CatalogTypeOK
    <2>3. /\ next \in {"children", "write"}
          /\ next = "children" => Checked(found[w], t).child \in Entry
          /\ next = "write" =>
               Checked(found[w], t).kind # "category" \/ Checked(found[w], t).child = Nil
      BY <1>2, <2>2, AfterSlugLeads
    <2> HIDE DEF next
    <2> QED
      BY <2>1, <2>2, <2>3, ProceedStepInv DEF FoundInv
  <1>3. CheckSlug(w) => AfterSlug(w, found[w]) # "idle"
    <2> SUFFICES ASSUME CheckSlug(w)
                 PROVE  AfterSlug(w, found[w]) # "idle"
      OBVIOUS
    <2>1. /\ t \in CatalogRequest /\ found[w] \in Row /\ t.slug \in Slug
      BY FoundIsRow DEF CheckSlug, CatalogInv, CheckInv
    <2>2. Checked(found[w], t).slug # Nil
      BY <2>1, MergedIsRow, CatalogAssumption DEF Checked, Sent
    <2> QED
      BY <2>2 DEF AfterSlug
  <1>4. CASE CheckChildren(w) /\ ~Refused(w)
    <2> DEFINE child == Checked(found[w], t).child
    <2>1. /\ step[w] = "children" /\ step[w] \in Held
          /\ Alive(child) /\ row[child].shop = t.shop
          /\ step' = [step EXCEPT ![w] = "write"]
          /\ UNCHANGED <<row, shut, gate, task, found>>
      BY <1>4 DEF CheckChildren, Proceed, Held
    <2>2. /\ t \in CatalogRequest /\ found[w] \in Row /\ FoundInv(w)
          /\ t.op # "delete" /\ (t.slug \in Slug => SlugFree(t))
          /\ found' = [found EXCEPT ![w] = found[w]]
      BY <2>1, FoundIsRow DEF CatalogInv, CheckInv, CatalogTypeOK
    <2> QED
      BY <2>1, <2>2, ProceedStepInv DEF FoundInv
  <1> QED
    BY <1>1, <1>2, <1>3, <1>4

LEMMA ShutStepInv ==
  ASSUME CatalogInv, NEW s \in Shop, Shut(s)
  PROVE  CatalogInv'
  <1>1. shut' \subseteq Shop /\ UNCHANGED <<row, gate, task, step, found>>
    BY DEF Shut, CatalogInv, CatalogTypeOK
  <1>2. CatalogTypeOK' /\ GateInv' /\ SlugsAreUnique'
    BY <1>1 DEF CatalogInv, CatalogTypeOK, GateInv, SlugsAreUnique, Alive
  <1>3. CheckInv'
    BY <1>1 DEF CatalogInv, CheckInv, FoundInv, SlugFree, ChildThere, Alive
  <1> QED
    BY <1>2, <1>3 DEF CatalogInv

LEMMA CatalogStepInv == CatalogInv /\ [CatalogNext]_catalogVars => CatalogInv'
  <1> SUFFICES ASSUME CatalogInv, [CatalogNext]_catalogVars
               PROVE  CatalogInv'
    OBVIOUS
  <1>1. CASE UNCHANGED catalogVars
    <2>1. CatalogTypeOK' /\ GateInv' /\ SlugsAreUnique'
      BY <1>1 DEF catalogVars, CatalogInv, CatalogTypeOK, GateInv, SlugsAreUnique, Alive
    <2>2. CheckInv'
      BY <1>1 DEF catalogVars, CatalogInv, CheckInv, FoundInv, SlugFree, ChildThere, Alive
    <2> QED
      BY <2>1, <2>2 DEF CatalogInv
  <1>2. ASSUME NEW w \in Worker, NEW r \in CatalogWork, Receive(w, r)
        PROVE  CatalogInv'
    BY <1>2, WaitStepInv DEF Receive
  <1>3. ASSUME NEW w \in Worker, Find(w)
        PROVE  CatalogInv'
    <2>1. CASE ~Alive(task[w].entry)
      BY <1>3, <2>1, RefusedStepInv DEF Find
    <2>2. CASE Alive(task[w].entry)
      BY <1>3, <2>2, WaitStepInv DEF Find
    <2> QED
      BY <2>1, <2>2
  <1>4. ASSUME NEW w \in Worker, Enter(w)
        PROVE  CatalogInv'
    BY <1>4, WaitStepInv DEF Enter
  <1>5. ASSUME NEW w \in Worker, LoadRow(w)
        PROVE  CatalogInv'
    BY <1>5, LoadStepInv
  <1>6. ASSUME NEW w \in Worker, CheckSlug(w) \/ CheckChildren(w)
        PROVE  CatalogInv'
    BY <1>6, CheckStepInv
  <1>7. ASSUME NEW w \in Worker, Write(w)
        PROVE  CatalogInv'
    BY <1>7, WriteStepInv
  <1>8. ASSUME NEW w \in Worker, Break(w)
        PROVE  CatalogInv'
    BY <1>8, RefusedStepInv DEF Break
  <1>9. ASSUME NEW s \in Shop, Shut(s)
        PROVE  CatalogInv'
    BY <1>9, ShutStepInv
  <1> QED
    BY <1>1, <1>2, <1>3, <1>4, <1>5, <1>6, <1>7, <1>8, <1>9 DEF CatalogNext

\* Types, locks, and what every request that is under way may still rely on.
THEOREM CatalogInvariance == CatalogSpec => []CatalogInv
  BY CatalogInitInv, CatalogStepInv, PTL DEF CatalogSpec

\* _check_slug_unique: the look-up and the write are separate calls, and yet no two
\* properties of a site have one slug.
THEOREM SlugsStayUnique == CatalogSpec => []SlugsAreUnique
  BY CatalogInvariance, PTL DEF CatalogInv

\* _validate_category: the child that was looked up is there when it is written.
THEOREM ChildrenAreThere == CatalogSpec => ChildrenExistWhenGiven
  <1> DEFINE There ==
        \A e \in Entry :
          /\ row'[e] # Nil /\ row'[e] # row[e]
          /\ ~row'[e].deleted
          /\ row'[e].kind = "category" /\ row'[e].child # Nil
          => /\ row[row'[e].child] # Nil
             /\ ~row[row'[e].child].deleted /\ row[row'[e].child].shop = row'[e].shop
  <1>1. CatalogInv /\ [CatalogNext]_catalogVars => [There]_catalogVars
    <2> SUFFICES ASSUME CatalogInv, CatalogNext
                 PROVE  There
      OBVIOUS
    <2>1. CASE UNCHANGED row
      BY <2>1
    <2>2. ASSUME NEW w \in Worker, Write(w)
          PROVE  There
      <3> SUFFICES ASSUME NEW e \in Entry, row'[e] # row[e], ~row'[e].deleted,
                          row'[e].kind = "category", row'[e].child # Nil
                   PROVE  /\ row[row'[e].child] # Nil
                          /\ ~row[row'[e].child].deleted
                          /\ row[row'[e].child].shop = row'[e].shop
        OBVIOUS
      <3> DEFINE after == Checked(found[w], task[w])
      <3>1. /\ step[w] = "write" /\ row'[e] = Updated(w)
            /\ row'[e].shop = task[w].shop
            /\ task[w].op \in Adding => row[task[w].entry] = Nil
        BY <2>2, WriteStaysInShop DEF Write
      <3>2. task[w].op # "delete" /\ row'[e].kind = after.kind /\ row'[e].child = after.child
        BY <3>1, UpdatedIsRow
      <3>3. ChildThere(w)
        BY <3>1, <3>2 DEF CatalogInv, CheckInv
      <3> QED
        BY <3>1, <3>2, <3>3 DEF ChildThere, Alive
    <2> QED
      BY <2>1, <2>2 DEF CatalogNext, Receive, Find, Enter, LoadRow, CheckSlug, CheckChildren,
                        Break, Shut, Refused, Proceed
  <1> QED
    BY <1>1, CatalogInvariance, PTL DEF CatalogSpec, ChildrenExistWhenGiven
-----------------------------------------------------------------------------
(* The accounts.                                                           *)

\* No request that was let in gives the owner's role.
GrantsInv ==
  \A c \in Clerk :
    place[c] # "idle" =>
      /\ errand[c] \in AccountRequest
      /\ caller[c] \in Account
      /\ errand[c].role # "owner"
      /\ errand[c].op = "create" => errand[c].role # "same"

\* A request beyond its first read was sent by somebody above the person, who
\* has not become an owner since.
ReachInv ==
  \A c \in Clerk :
    place[c] \in {"refind", "write"} /\ errand[c].op # "create" =>
      /\ account[errand[c].person] # Nobody
      /\ account[errand[c].person].role # "owner"

AccountsInv == AccountsTypeOK /\ GrantsInv /\ ReachInv

LEMMA RanksAreOrdered ==
  ASSUME NEW role \in Role, NEW other \in Role, Outranks(role, other)
  PROVE  other # "owner"
  BY DEF Outranks, Rank, Role

\* Who is let in may grant what is below, which is not the owner's role.
LEMMA GrantedIsBelow ==
  ASSUME NEW role \in Role, NEW r \in AccountRequest, Grants(role, r)
  PROVE  /\ r.role # "owner"
         /\ r.op = "create" => r.role # "same"
  <1>1. CASE r.role = "same"
    BY <1>1 DEF Grants
  <1>2. CASE r.role # "same"
    <2>1. r.role \in Role /\ Outranks(role, r.role)
      BY <1>2 DEF Grants, AccountRequest
    <2> QED
      BY <1>2, <2>1, RanksAreOrdered
  <1> QED
    BY <1>1, <1>2

LEMMA AccountsInitInv == AccountsInit => AccountsInv
  BY DEF AccountsInit, AccountsInv, AccountsTypeOK, GrantsInv, ReachInv

\* What is written is a record, and no owner's where there was none.
LEMMA AmendedIsBelow ==
  ASSUME NEW r \in AccountRequest, r.role # "owner",
         NEW a \in Account \cup {Nobody},
         r.op = "create" => r.role # "same",
         r.op # "create" => a # Nobody /\ a.role # "owner"
  PROVE  Amended(a, r) \in Account /\ Amended(a, r).role # "owner"
  <1>1. CASE r.op = "create"
    BY <1>1 DEF Amended, Account, AccountRequest, Standing
  <1>2. CASE r.op = "update"
    BY <1>2 DEF Amended, Given, Account, AccountRequest
  <1>3. CASE r.op = "delete"
    BY <1>3 DEF Amended, Account, AccountRequest, Standing
  <1> QED
    BY <1>1, <1>2, <1>3 DEF AccountRequest

\* A write neither makes an owner nor takes one's place.
LEMMA WriteSparesOwners ==
  ASSUME AccountsInv, NEW c \in Clerk, WriteAccount(c)
  PROVE  LET p == errand[c].person IN
         /\ p \in Person
         /\ account[p] = Nobody \/ account[p].role # "owner"
         /\ account'[p] \in Account /\ account'[p].role # "owner"
         /\ \A q \in Person \ {p} : account'[q] = account[q]
  <1> DEFINE r == errand[c]
             p == r.person
  <1>1. /\ place[c] = "write"
        /\ r \in AccountRequest /\ r.role # "owner"
        /\ r.op = "create" => r.role # "same"
        /\ r.op # "create" => account[p] # Nobody /\ account[p].role # "owner"
    BY DEF WriteAccount, AccountsInv, GrantsInv, ReachInv
  <1>2. p \in Person
    BY <1>1 DEF AccountRequest
  <1>3. account[p] \in Account \cup {Nobody}
    BY <1>2 DEF AccountsInv, AccountsTypeOK
  <1>4. Amended(account[p], r) \in Account /\ Amended(account[p], r).role # "owner"
    BY <1>1, <1>3, AmendedIsBelow
  <1>5. account' = [account EXCEPT ![p] = Amended(account[p], r)]
    BY DEF WriteAccount
  <1>6. account[p] = Nobody \/ account[p].role # "owner"
    BY <1>1 DEF WriteAccount
  <1>7. account'[p] = Amended(account[p], r) /\ \A q \in Person \ {p} : account'[q] = account[q]
    BY <1>2, <1>5 DEF AccountsInv, AccountsTypeOK
  <1> QED
    BY <1>2, <1>4, <1>6, <1>7

\* A step of a clerk that leaves the records alone.
LEMMA QuietStepInv ==
  ASSUME AccountsInv, UNCHANGED account, NEW c \in Clerk,
         \/ \E p \in Person, r \in AccountWork : Authenticate(c, p, r)
         \/ FindPerson(c) \/ FindAgain(c) \/ GiveUp(c)
  PROVE  AccountsInv'
  <1> USE DEF AccountsInv, AccountsTypeOK
  <1>1. CASE \E p \in Person, r \in AccountWork : Authenticate(c, p, r)
    <2>1. PICK p \in Person, r \in AccountWork : Authenticate(c, p, r)
      BY <1>1
    <2>2. account[p] \in Account /\ account[p].role \in Role /\ r \in AccountRequest
      BY <2>1, AccountsAssumption DEF Authenticate, Admitted, Account
    <2>3. r.role # "owner" /\ (r.op = "create" => r.role # "same")
      BY <2>1, <2>2, GrantedIsBelow DEF Authenticate
    <2>4. GrantsInv'
      BY <2>1, <2>2, <2>3 DEF Authenticate, GrantsInv
    <2>5. ReachInv'
      BY <2>1, <2>2 DEF Authenticate, ReachInv
    <2>6. AccountsTypeOK'
      BY <2>1, <2>2 DEF Authenticate
    <2> QED
      BY <2>4, <2>5, <2>6
  <1>2. CASE FindPerson(c) \/ FindAgain(c)
    <2>1. /\ place[c] \in {"find", "refind"}
          /\ Manageable(c) /\ UNCHANGED <<errand, caller>>
          /\ \/ place' = [place EXCEPT ![c] = "refind"]
             \/ place' = [place EXCEPT ![c] = "write"]
      BY <1>2 DEF FindPerson, FindAgain, Turn
    <2>2. errand[c] \in AccountRequest /\ caller[c] \in Account
      BY <2>1 DEF GrantsInv
    <2>3. account[errand[c].person] \in Account
      BY <2>1, <2>2 DEF Manageable, AccountRequest
    <2>4. account[errand[c].person].role # "owner"
      BY <2>1, <2>2, <2>3, RanksAreOrdered DEF Manageable, Account
    <2>5. account[errand[c].person] # Nobody
      BY <2>1 DEF Manageable
    <2>6. GrantsInv'
      BY <2>1 DEF GrantsInv
    <2>7. ReachInv'
      BY <2>1, <2>4, <2>5 DEF ReachInv
    <2>8. AccountsTypeOK'
      BY <2>1
    <2> QED
      BY <2>6, <2>7, <2>8
  <1>3. CASE GiveUp(c)
    BY <1>3 DEF GiveUp, End, GrantsInv, ReachInv
  <1> QED
    BY <1>1, <1>2, <1>3

LEMMA AccountWriteInv ==
  ASSUME AccountsInv, NEW c \in Clerk, WriteAccount(c)
  PROVE  AccountsInv'
  <1> DEFINE p == errand[c].person
  <1>1. /\ p \in Person
        /\ account'[p] \in Account /\ account'[p].role # "owner"
        /\ \A q \in Person \ {p} : account'[q] = account[q]
    BY WriteSparesOwners
  <1>2. /\ errand' = [errand EXCEPT ![c] = Nobody]
        /\ caller' = [caller EXCEPT ![c] = Nobody]
        /\ place' = [place EXCEPT ![c] = "idle"]
        /\ account' = [account EXCEPT ![p] = Amended(account[p], errand[c])]
    BY DEF WriteAccount, End
  <1>3. AccountsTypeOK'
    BY <1>1, <1>2 DEF AccountsInv, AccountsTypeOK
  <1>4. GrantsInv'
    BY <1>2 DEF AccountsInv, AccountsTypeOK, GrantsInv
  <1>5. ReachInv'
    <2> SUFFICES ASSUME NEW d \in Clerk,
                        place'[d] \in {"refind", "write"}, errand'[d].op # "create"
                 PROVE  /\ account'[errand'[d].person] # Nobody
                        /\ account'[errand'[d].person].role # "owner"
      BY DEF ReachInv
    <2>1. d # c
      BY <1>2 DEF AccountsInv, AccountsTypeOK
    <2>2. place[d] = place'[d] /\ errand[d] = errand'[d]
      BY <1>2, <2>1 DEF AccountsInv, AccountsTypeOK
    <2>3. errand[d].person \in Person
      BY <2>2 DEF AccountsInv, GrantsInv, AccountRequest
    <2>4. CASE errand[d].person = p
      BY <1>1, <2>2, <2>4, AccountsAssumption
    <2>5. CASE errand[d].person # p
      BY <1>1, <2>2, <2>3, <2>5 DEF AccountsInv, ReachInv
    <2> QED
      BY <2>4, <2>5
  <1> QED
    BY <1>3, <1>4, <1>5 DEF AccountsInv

LEMMA AccountsStepInv == AccountsInv /\ [AccountsNext]_accountVars => AccountsInv'
  <1> SUFFICES ASSUME AccountsInv, [AccountsNext]_accountVars
               PROVE  AccountsInv'
    OBVIOUS
  <1>1. CASE UNCHANGED accountVars
    BY <1>1 DEF accountVars, AccountsInv, AccountsTypeOK, GrantsInv, ReachInv
  <1>2. ASSUME NEW c \in Clerk,
               \/ \E p \in Person, r \in AccountWork : Authenticate(c, p, r)
               \/ FindPerson(c) \/ FindAgain(c) \/ GiveUp(c)
        PROVE  AccountsInv'
    <2>1. UNCHANGED account
      BY <1>2 DEF Authenticate, FindPerson, FindAgain, GiveUp, Turn
    <2> QED
      BY <1>2, <2>1, QuietStepInv
  <1>3. ASSUME NEW c \in Clerk, WriteAccount(c)
        PROVE  AccountsInv'
    BY <1>3, AccountWriteInv
  <1> QED
    BY <1>1, <1>2, <1>3 DEF AccountsNext

\* Types, and what every request that is under way may still rely on.
THEOREM AccountsInvariance == AccountsSpec => []AccountsInv
  BY AccountsInitInv, AccountsStepInv, PTL DEF AccountsSpec

\* rbac and AccountGateway: no interleaving of stale requests makes, changes or
\* removes an owner.
THEOREM OwnersStay == AccountsSpec => OwnersAreFixed
  <1> DEFINE Spared ==
        \A p \in Person :
          \/ account'[p] = account[p]
          \/ /\ account'[p].role # "owner"
             /\ account[p] = Nobody \/ account[p].role # "owner"
  <1>1. AccountsInv /\ [AccountsNext]_accountVars => [Spared]_accountVars
    <2> SUFFICES ASSUME AccountsInv, AccountsNext
                 PROVE  Spared
      OBVIOUS
    <2>1. ASSUME NEW c \in Clerk,
                 \/ \E p \in Person, r \in AccountWork : Authenticate(c, p, r)
                 \/ FindPerson(c) \/ FindAgain(c) \/ GiveUp(c)
          PROVE  Spared
      BY <2>1 DEF Authenticate, FindPerson, FindAgain, GiveUp, Turn
    <2>2. ASSUME NEW c \in Clerk, WriteAccount(c)
          PROVE  Spared
      BY <2>2, WriteSparesOwners
    <2> QED
      BY <2>1, <2>2 DEF AccountsNext
  <1> QED
    BY <1>1, AccountsInvariance, PTL DEF AccountsSpec, OwnersAreFixed
=============================================================================
