------------------------ MODULE SupermastersProofs ------------------------
(***************************************************************************)
(* Proofs about the supermasters, for any tenants, pairs, requests, faults *)
(* and documents: what creating, deleting and restoring leave behind in    *)
(* the table and in PowerDNS.                                              *)
(*                                                                         *)
(* What is proved of a pair is not inductive: it rests on what the         *)
(* requests under way at the pair have done to it so far, which Agreed     *)
(* states for a pair that no fault and no clash has touched.               *)
(***************************************************************************)
EXTENDS Supermasters, TLAPS

\* Zenon first: it is the quicker one wherever there is no arithmetic.
USE ZenonT(2), SMT, Zenon

Jobs == [op : {"none", "create", "delete", "import"}, tenant : Tenants \cup {None},
         id : RowIds \cup {None}, pair : Pairs \cup {None},
         touched : BOOLEAN, abort : BOOLEAN, origin : Tenants \cup {None},
         want : SUBSET Pairs, todo : SUBSET Row, live : [Pairs -> Accounts \cup {None}]]

Typed ==
    /\ rows \in SUBSET Row
    /\ entries \in [Pairs -> Accounts \cup {None}]
    /\ doc.origin \in Tenants /\ doc.rows \in SUBSET Row
    /\ pc \in [Requests -> Steps]
    /\ job \in [Requests -> Jobs]
    /\ hurt \in SUBSET Pairs /\ twice \in SUBSET (Requests \X Pairs)

\* Rows name their pair in the id, and no two have the same pair.
Distinct(S) ==
    /\ \A w \in S : w.id[2] = w.pair
    /\ \A v, w \in S : v.pair = w.pair => v = w

\* What a request is at, as far as its step tells.
Shaped(r) ==
    /\ pc[r] \in {"drop", "erase", "restore"} => job[r].op = "delete"
    /\ pc[r] \in {"post", "insert", "undo"} => job[r].op \in {"create", "import"}
    /\ pc[r] \in {"list", "next"} => job[r].op = "import"
    /\ pc[r] \in {"post", "insert", "undo", "drop", "erase", "restore"} =>
           /\ job[r].pair \in Pairs /\ job[r].tenant \in Tenants /\ job[r].id \in RowIds
           /\ job[r].id[2] = job[r].pair
    /\ pc[r] = "insert" /\ job[r].op = "create" => job[r].touched
    /\ pc[r] = "undo" => job[r].touched
    /\ job[r].op = "import" =>
           /\ job[r].tenant \in Tenants /\ job[r].origin \in Tenants
           /\ job[r].abort => pc[r] = "undo"
           /\ Distinct(job[r].todo)
           /\ \A w \in job[r].todo : w.pair \in job[r].want
           /\ pc[r] = "list" => \A p \in job[r].want : \E w \in job[r].todo : w.pair = p
           /\ pc[r] \in {"post", "insert", "undo"} =>
                  job[r].pair \in job[r].want /\ \A w \in job[r].todo : w.pair # job[r].pair

\* Clash, of the state as it is.
Clashes(q, r) == \/ job[q].op = "delete" /\ (job[r].op = "delete" \/ job[q].abort)
                 \/ "import" \in {job[q].op, job[r].op}

\* Requests that clash on a pair are on record.
Met ==
    \A q, r \in Requests : \A p \in Pairs :
        q # r /\ p \in Aims(q) /\ p \in Aims(r) /\ Clashes(q, r)
            => <<q, p>> \in twice /\ <<r, p>> \in twice

Clean(p) == p \notin hurt /\ \A r \in Requests : <<r, p>> \notin twice

\* The parts a request plays at a pair: it put the entry there and has not
\* written the row; it is to write the row of an entry it found; it is to
\* remove the entry; it removed it and not the row; it is to come to the pair.
Holds(r, p)  == pc[r] \in {"insert", "undo"} /\ job[r].pair = p /\ job[r].touched
Adopts(r, p) == pc[r] = "insert" /\ job[r].pair = p /\ ~job[r].touched
Drops(r, p)  == pc[r] = "drop" /\ job[r].pair = p
Dropt(r, p)  == pc[r] \in {"erase", "restore"} /\ job[r].pair = p
Awaits(r, p) == /\ pc[r] \in {"next", "post", "insert", "undo"} /\ job[r].op = "import"
                /\ \E w \in job[r].todo : w.pair = p

Held(p) == \E r \in Requests : Holds(r, p)
HasRow(r, p) == \E w \in rows : w.pair = p /\ w.id = job[r].id /\ w.tenant = job[r].tenant

Agreed(p) ==
    /\ \A r \in Requests : Holds(r, p) => entries[p] = job[r].tenant
    /\ \A q, r \in Requests : Holds(q, p) /\ Holds(r, p) => q = r
    /\ \A r \in Requests : Dropt(r, p) => /\ HasRow(r, p)
                                          /\ Held(p) \/ entries[p] = None
                                          /\ pc[r] = "restore" => job[r].abort
    /\ \A r \in Requests : Drops(r, p) => HasRow(r, p)
    /\ \A r \in Requests : Adopts(r, p) => entries[p] \in Tenants \cup {Unset}
    /\ \A r \in Requests : Awaits(r, p) => job[r].live[p] = entries[p]
    /\ \/ \E r \in Requests : Dropt(r, p)
       \/ RowOf(p) = {} /\ (Held(p) \/ entries[p] \notin Tenants)
       \/ /\ RowOf(p) # {} /\ ~Held(p)
          /\ \A w \in RowOf(p) : entries[p] \in {w.tenant, Unset}

\* How far an import has come with a pair nobody else works on.
OnTrack(r, p) ==
    /\ job[r].op = "import" /\ pc[r] \in {"next", "post", "insert", "undo"}
    /\ p \in job[r].want /\ <<r, p>> \notin twice
    => \/ Awaits(r, p) /\ job[r].live[p] = entries[p]
       \/ /\ job[r].pair = p
          /\ \/ pc[r] = "post" /\ entries[p] = None
             \/ pc[r] = "insert"
             \/ pc[r] = "undo" /\ job[r].abort
       \/ RowOf(p) # {}
       \/ /\ entries[p] \notin {None, Unset, job[r].tenant, job[r].origin}
          /\ ~(pc[r] = "undo" /\ job[r].pair = p)

SuperInv ==
    /\ Typed /\ Distinct(rows) /\ Distinct(doc.rows)
    /\ \A r \in Requests : Shaped(r)
    /\ Met
    /\ \A p \in Pairs : Clean(p) => Agreed(p)
    /\ \A r \in Requests, p \in Pairs : OnTrack(r, p)

-----------------------------------------------------------------------------
(* Frames.                                                                 *)

LEMMA NoneIsNobody == None \notin Tenants /\ None # Unset /\ Unset \notin Tenants
BY SupermasterConstants

LEMMA GotoMoves ==
    ASSUME Typed, NEW r \in Requests, NEW step, NEW j, Goto(r, step, j)
    PROVE  /\ pc'[r] = step /\ job'[r] = (IF step = "done" THEN NoJob ELSE j)
           /\ \A q \in Requests \ {r} : pc'[q] = pc[q] /\ job'[q] = job[q]
           /\ step \in Steps => pc' \in [Requests -> Steps]
           /\ job'[r] \in Jobs => job' \in [Requests -> Jobs]
BY DEF Typed, Goto

LEMMA NoJobTyped == NoJob \in Jobs
BY DEF NoJob, Jobs

\* What a request does with a pair it does at a pair it aims at.
LEMMA AimsAt ==
    ASSUME NEW r \in Requests, NEW p, Shaped(r)
    PROVE  /\ pc[r] \in {"post", "insert", "undo", "drop", "erase", "restore"} /\ job[r].pair = p
                  => p \in Aims(r)
           /\ Awaits(r, p) => p \in Aims(r)
<1>1. Active(r) /\ job[r].op = "import" => Aims(r) = job[r].want
  BY DEF Aims
<1>2. Active(r) /\ job[r].op # "import" => Aims(r) = {job[r].pair}
  BY DEF Aims
<1>3. pc[r] \in {"post", "insert", "undo", "drop", "erase", "restore", "next"} => Active(r)
  BY DEF Active
<1> QED
  BY <1>1, <1>2, <1>3 DEF Shaped, Awaits

LEMMA NoRival ==
    ASSUME Met, NEW q \in Requests, NEW r \in Requests, q # r,
           NEW p \in Pairs, Clean(p), p \in Aims(q), p \in Aims(r)
    PROVE  /\ job[q].op # "import" /\ job[r].op # "import"
           /\ ~(job[q].op = "delete" /\ job[r].op = "delete")
           /\ job[q].op = "delete" => ~job[q].abort
BY DEF Met, Clean, Clashes

LEMMA OnRecord ==
    ASSUME Typed, Overlapping
    PROVE  Met' /\ twice \subseteq twice' /\ twice' \in SUBSET (Requests \X Pairs)
<1>1. twice \subseteq twice' /\ twice' \in SUBSET (Requests \X Pairs)
  BY DEF Typed, Overlapping
<1>2. ASSUME NEW q \in Requests, NEW r \in Requests, NEW p \in Pairs,
             q # r, p \in Aims(q)', p \in Aims(r)', Clashes(q, r)'
      PROVE  <<q, p>> \in twice' /\ <<r, p>> \in twice'
  <2>1. Clash(q, r)
    BY <1>2 DEF Clash, Clashes
  <2> QED
    BY <1>2, <2>1 DEF Overlapping
<1> QED
  BY <1>1, <1>2 DEF Met

LEMMA Untouched ==
    ASSUME NEW p \in Pairs, Agreed(p), entries'[p] = entries[p], RowOf(p)' = RowOf(p),
           \A q \in Requests :
               /\ Holds(q, p)' <=> Holds(q, p)
               /\ Dropt(q, p)' <=> Dropt(q, p)
               /\ Holds(q, p) => job'[q].tenant = job[q].tenant
               /\ Dropt(q, p) => HasRow(q, p)' /\ (pc'[q] = "restore" => job'[q].abort)
               /\ Drops(q, p)' => HasRow(q, p)'
               /\ Adopts(q, p)' => entries[p] \in Tenants \cup {Unset}
               /\ Awaits(q, p)' => job'[q].live[p] = entries[p]
    PROVE  Agreed(p)'
<1>1. Held(p)' <=> Held(p)
  BY DEF Held
<1>2. (\E r \in Requests : Dropt(r, p)') <=> (\E r \in Requests : Dropt(r, p))
  OBVIOUS
<1> QED
  BY <1>1, <1>2 DEF Agreed

\* A request's step leaves a pair alone at which it plays no part.
LEMMA Aside ==
    ASSUME SuperInv, NEW r \in Requests, NEW p \in Pairs, Agreed(p),
           \A q \in Requests \ {r} : pc'[q] = pc[q] /\ job'[q] = job[q],
           entries'[p] = entries[p], RowOf(p)' = RowOf(p),
           ~Holds(r, p), ~Holds(r, p)', ~Dropt(r, p), ~Dropt(r, p)',
           Drops(r, p)' => HasRow(r, p)',
           Adopts(r, p)' => entries[p] \in Tenants \cup {Unset},
           Awaits(r, p)' => job'[r].live[p] = entries[p]
    PROVE  Agreed(p)'
<1>1. ASSUME NEW q \in Requests, q # r
      PROVE  /\ Holds(q, p)' <=> Holds(q, p)
             /\ Dropt(q, p)' <=> Dropt(q, p)
             /\ Drops(q, p)' <=> Drops(q, p)
             /\ Adopts(q, p)' <=> Adopts(q, p)
             /\ Awaits(q, p)' <=> Awaits(q, p)
             /\ HasRow(q, p)' <=> HasRow(q, p)
  <2>1. pc'[q] = pc[q] /\ job'[q] = job[q]
    BY <1>1
  <2>2. \A w : w \in RowOf(p)' <=> w \in RowOf(p)
    OBVIOUS
  <2>3. HasRow(q, p)' <=> HasRow(q, p)
    BY <2>1, <2>2 DEF HasRow, RowOf
  <2> QED
    BY <2>1, <2>3 DEF Holds, Dropt, Drops, Adopts, Awaits
<1>2. ASSUME NEW q \in Requests
      PROVE  /\ Holds(q, p)' <=> Holds(q, p)
             /\ Dropt(q, p)' <=> Dropt(q, p)
             /\ Holds(q, p) => job'[q].tenant = job[q].tenant
             /\ Dropt(q, p) => HasRow(q, p)' /\ (pc'[q] = "restore" => job'[q].abort)
             /\ Drops(q, p)' => HasRow(q, p)'
             /\ Adopts(q, p)' => entries[p] \in Tenants \cup {Unset}
             /\ Awaits(q, p)' => job'[q].live[p] = entries[p]
  <2>1. CASE q = r
    BY <2>1
  <2>2. CASE q # r
    <3>1. pc'[q] = pc[q] /\ job'[q] = job[q]
      BY <2>2
    <3> QED
      BY <1>1, <2>2, <3>1 DEF Agreed
  <2> QED
    BY <2>1, <2>2
<1> QED
  BY <1>2, Untouched

\* What is to be shown of a step of one request.
LEMMA OneMoves ==
    ASSUME SuperInv, Overlapping, NEW r \in Requests,
           \A q \in Requests \ {r} : pc'[q] = pc[q] /\ job'[q] = job[q],
           pc' \in [Requests -> Steps], job' \in [Requests -> Jobs], Shaped(r)',
           rows' \in SUBSET Row, entries' \in [Pairs -> Accounts \cup {None}], doc' = doc,
           hurt \subseteq hurt', hurt' \in SUBSET Pairs, Distinct(rows'),
           \A p \in Pairs : p \notin Aims(r) => entries'[p] = entries[p] /\ RowOf(p)' = RowOf(p),
           \A p \in Pairs : Clean(p) /\ Agreed(p) /\ p \notin hurt' => Agreed(p)',
           \A p \in Pairs : OnTrack(r, p)'
    PROVE  SuperInv'
<1>1. Met' /\ twice \subseteq twice' /\ twice' \in SUBSET (Requests \X Pairs)
  BY OnRecord DEF SuperInv
<1>2. Typed'
  BY <1>1 DEF SuperInv, Typed
<1>3. Distinct(rows)' /\ Distinct(doc.rows)'
  BY DEF SuperInv, Distinct
<1>4. ASSUME NEW q \in Requests PROVE Shaped(q)'
  <2>1. q # r => pc'[q] = pc[q] /\ job'[q] = job[q] /\ Shaped(q)
    BY DEF SuperInv
  <2> QED
    BY <2>1 DEF Shaped, Distinct
<1>5. ASSUME NEW p \in Pairs, Clean(p)' PROVE Agreed(p)'
  <2>1. Clean(p) /\ p \notin hurt'
    BY <1>1, <1>5 DEF Clean
  <2> QED
    BY <2>1 DEF SuperInv
<1>6. ASSUME NEW q \in Requests, NEW p \in Pairs PROVE OnTrack(q, p)'
  <2>1. CASE q # r
    <3>1. pc'[q] = pc[q] /\ job'[q] = job[q] /\ OnTrack(q, p) /\ Shaped(q)
      BY <2>1 DEF SuperInv
    <3> SUFFICES ASSUME job[q].op = "import", pc[q] \in {"next", "post", "insert", "undo"},
                        p \in job[q].want, <<q, p>> \notin twice
                 PROVE  OnTrack(q, p)'
      BY <1>1, <3>1 DEF OnTrack
    <3>2. p \in Aims(q)
      BY DEF Aims, Active
    <3>3. p \notin Aims(r)
      BY <2>1, <3>2 DEF SuperInv, Met, Clashes
    <3>4. entries'[p] = entries[p] /\ RowOf(p)' = RowOf(p)
      BY <3>3
    <3>5. Awaits(q, p)' <=> Awaits(q, p)
      BY <3>1 DEF Awaits
    <3> QED
      BY <3>1, <3>4, <3>5 DEF OnTrack
  <2> QED
    BY <2>1
<1> QED
  BY <1>1, <1>2, <1>3, <1>4, <1>5, <1>6 DEF SuperInv

-----------------------------------------------------------------------------
(* Requests begin.                                                         *)

LEMMA Starts ==
    ASSUME SuperInv, Overlapping, NEW r \in Requests, NEW j \in Jobs,
           NEW step \in {"post", "drop", "list"}, Start(r, j, step), Shaped(r)',
           step = "post" => j.op = "create",
           step = "drop" => \E w \in rows : w.pair = j.pair /\ w.id = j.id /\ w.tenant = j.tenant
    PROVE  SuperInv'
<1>1. Typed /\ Distinct(rows)
  BY DEF SuperInv
<1>2. /\ pc[r] = "idle" /\ pc'[r] = step /\ job'[r] = j
      /\ \A q \in Requests \ {r} : pc'[q] = pc[q] /\ job'[q] = job[q]
      /\ pc' \in [Requests -> Steps] /\ job' \in [Requests -> Jobs]
  BY <1>1, GotoMoves DEF Start, Steps
<1>3. UNCHANGED <<rows, entries, doc, hurt>>
  BY DEF Start
<1>4. ASSUME NEW p \in Pairs PROVE entries'[p] = entries[p] /\ RowOf(p)' = RowOf(p)
  BY <1>3 DEF RowOf
<1>5. ASSUME NEW p \in Pairs, Agreed(p) PROVE Agreed(p)'
  <2>1. ~Holds(r, p) /\ ~Dropt(r, p)
    BY <1>2 DEF Holds, Dropt
  <2>2. ~Holds(r, p)' /\ ~Dropt(r, p)' /\ ~Adopts(r, p)' /\ ~Awaits(r, p)'
    BY <1>2 DEF Holds, Dropt, Adopts, Awaits
  <2>3. Drops(r, p)' => HasRow(r, p)'
    BY <1>2, <1>3 DEF Drops, HasRow
  <2> QED
    BY <1>2, <1>4, <1>5, <2>1, <2>2, <2>3, Aside
<1>6. ASSUME NEW p \in Pairs PROVE OnTrack(r, p)'
  BY <1>2 DEF OnTrack
<1> QED
  BY <1>1, <1>2, <1>3, <1>4, <1>5, <1>6, OneMoves DEF Typed

LEMMA StartCreateInv ==
    ASSUME SuperInv, Overlapping, NEW r \in Requests, NEW t \in Tenants, NEW p \in Pairs,
           StartCreate(r, t, p)
    PROVE  SuperInv'
<1>1. PICK j : j = [NoJob EXCEPT !.op = "create", !.tenant = t, !.id = <<r, p>>, !.pair = p]
  OBVIOUS
<1>2. j \in Jobs /\ j.op = "create" /\ j.tenant = t /\ j.id = <<r, p>> /\ j.pair = p
  BY <1>1, NoJobTyped DEF Jobs, NoJob, RowIds
<1>3. Start(r, j, "post")
  BY <1>1 DEF StartCreate
<1>4. pc'[r] = "post" /\ job'[r] = j
  BY <1>3, GotoMoves DEF Start, SuperInv
<1>5. Shaped(r)'
  BY <1>2, <1>4 DEF Shaped, RowIds
<1> QED
  BY <1>2, <1>3, <1>5, Starts

LEMMA StartDeleteInv ==
    ASSUME SuperInv, Overlapping, NEW r \in Requests, NEW w \in rows, StartDelete(r, w)
    PROVE  SuperInv'
<1>0. w \in Row /\ w.id[2] = w.pair
  BY DEF SuperInv, Typed, Distinct
<1>1. PICK j : j = [NoJob EXCEPT !.op = "delete", !.tenant = w.tenant, !.id = w.id,
                                 !.pair = w.pair]
  OBVIOUS
<1>2. j \in Jobs /\ j.op = "delete" /\ j.tenant = w.tenant /\ j.id = w.id /\ j.pair = w.pair
  BY <1>0, <1>1, NoJobTyped DEF Jobs, NoJob, Row
<1>3. Start(r, j, "drop")
  BY <1>1 DEF StartDelete
<1>4. pc'[r] = "drop" /\ job'[r] = j
  BY <1>3, GotoMoves DEF Start, SuperInv
<1>5. Shaped(r)'
  BY <1>0, <1>2, <1>4 DEF Shaped, Row
<1> QED
  BY <1>2, <1>3, <1>5, Starts

LEMMA StartImportInv ==
    ASSUME SuperInv, Overlapping, NEW r \in Requests, NEW t \in Tenants, StartImport(r, t)
    PROVE  SuperInv'
<1>0. doc.origin \in Tenants /\ doc.rows \in SUBSET Row /\ Distinct(doc.rows)
  BY DEF SuperInv, Typed
<1>1. PICK j : j = [NoJob EXCEPT !.op = "import", !.tenant = t, !.origin = doc.origin,
                                 !.todo = Restored(r, t), !.want = {w.pair : w \in doc.rows}]
  OBVIOUS
<1>2. \A w \in doc.rows : w.id \in RowIds /\ w.pair \in Pairs
  BY <1>0 DEF Row
<1>3. Restored(r, t) \in SUBSET Row
  BY <1>2 DEF Restored, Row, RowIds
<1>4. Distinct(Restored(r, t)) /\ \A w \in Restored(r, t) : \E v \in doc.rows : w.pair = v.pair
  BY <1>0, <1>2 DEF Restored, Distinct
<1>5. {w.pair : w \in doc.rows} \in SUBSET Pairs
  BY <1>2
<1>6. /\ j \in Jobs /\ j.op = "import" /\ j.tenant = t /\ j.origin = doc.origin /\ ~j.abort
      /\ j.todo = Restored(r, t) /\ j.want = {w.pair : w \in doc.rows}
  BY <1>0, <1>1, <1>3, <1>5, NoJobTyped DEF Jobs, NoJob
<1>7. Start(r, j, "list")
  BY <1>1 DEF StartImport
<1>8. pc'[r] = "list" /\ job'[r] = j
  BY <1>7, GotoMoves DEF Start, SuperInv
<1>9. /\ \A w \in j.todo : w.pair \in j.want
      /\ \A p \in j.want : \E w \in j.todo : w.pair = p
  <2>1. ASSUME NEW v \in doc.rows PROVE \E w \in Restored(r, t) : w.pair = v.pair
    <3>1. PICK w : w = [id |-> IF t = doc.origin THEN v.id ELSE <<r, v.pair>>, tenant |-> t,
                        pair |-> v.pair]
      OBVIOUS
    <3>2. w \in Restored(r, t) /\ w.pair = v.pair
      BY <3>1 DEF Restored
    <3> QED
      BY <3>2
  <2> QED
    BY <1>4, <1>6, <2>1
<1>10. Shaped(r)'
  BY <1>0, <1>4, <1>6, <1>8, <1>9 DEF Shaped, Distinct
<1> QED
  BY <1>6, <1>7, <1>10, Starts

-----------------------------------------------------------------------------
(* The calls.                                                              *)

LEMMA DoneShaped ==
    ASSUME NEW r, pc'[r] = "done", job'[r] = NoJob
    PROVE  Shaped(r)' /\ \A p : /\ ~Holds(r, p)' /\ ~Dropt(r, p)' /\ ~Drops(r, p)'
                                /\ ~Adopts(r, p)' /\ ~Awaits(r, p)' /\ OnTrack(r, p)'
BY DEF Shaped, NoJob, Holds, Dropt, Drops, Adopts, Awaits, OnTrack

\* A request is over, or an import goes on, with nothing changed.
LEMMA Leaves ==
    ASSUME SuperInv, Overlapping, NEW r \in Requests, NEW step \in {"next", "done"}, NEW j \in Jobs,
           Goto(r, step, j), UNCHANGED <<rows, entries, doc>>,
           hurt \subseteq hurt', hurt' \in SUBSET Pairs,
           \A p \in Pairs : Holds(r, p) \/ Dropt(r, p) => p \in hurt',
           step = "next" =>
               /\ j = job[r] /\ pc[r] \in {"post", "insert", "undo"}
               /\ j.op = "import" /\ ~j.abort
               /\ \/ RowOf(j.pair) # {} \/ entries[j.pair] \notin {None, Unset, j.tenant, j.origin}
                  \/ <<r, j.pair>> \in twice
    PROVE  SuperInv'
<1>1. Typed /\ Distinct(rows) /\ Shaped(r)
  BY DEF SuperInv
<1>2. /\ pc'[r] = step /\ job'[r] = (IF step = "done" THEN NoJob ELSE j)
      /\ \A q \in Requests \ {r} : pc'[q] = pc[q] /\ job'[q] = job[q]
      /\ pc' \in [Requests -> Steps] /\ job' \in [Requests -> Jobs]
  BY <1>1, GotoMoves, NoJobTyped DEF Steps
<1>3. ASSUME NEW p \in Pairs PROVE entries'[p] = entries[p] /\ RowOf(p)' = RowOf(p)
  BY DEF RowOf
<1>4. CASE step = "done"
  <2>1. pc'[r] = "done" /\ job'[r] = NoJob
    BY <1>2, <1>4
  <2>2. ASSUME NEW p \in Pairs, Agreed(p), p \notin hurt' PROVE Agreed(p)'
    <3>1. ~Holds(r, p) /\ ~Dropt(r, p)
      BY <2>2
    <3> QED
      BY <1>2, <1>3, <2>1, <2>2, <3>1, DoneShaped, Aside
  <2> QED
    BY <1>1, <1>2, <1>3, <2>1, <2>2, DoneShaped, OneMoves DEF Typed
<1>5. CASE step = "next"
  <2>1. /\ pc'[r] = "next" /\ job'[r] = job[r] /\ job[r].op = "import" /\ ~job[r].abort
        /\ pc[r] \in {"post", "insert", "undo"}
    BY <1>2, <1>5
  <2>2. Shaped(r)'
    BY <1>1, <2>1 DEF Shaped, Distinct
  <2>3. ASSUME NEW p \in Pairs PROVE Awaits(r, p)' <=> Awaits(r, p)
    BY <2>1 DEF Awaits
  <2>4. ASSUME NEW p \in Pairs, Agreed(p), p \notin hurt' PROVE Agreed(p)'
    <3>1. ~Holds(r, p) /\ ~Dropt(r, p)
      BY <2>4
    <3>2. ~Holds(r, p)' /\ ~Dropt(r, p)' /\ ~Drops(r, p)' /\ ~Adopts(r, p)'
      BY <2>1 DEF Holds, Dropt, Drops, Adopts
    <3>3. Awaits(r, p)' => job'[r].live[p] = entries[p]
      BY <2>1, <2>3, <2>4 DEF Agreed
    <3> QED
      BY <1>2, <1>3, <2>4, <3>1, <3>2, <3>3, Aside
  <2>5. ASSUME NEW p \in Pairs PROVE OnTrack(r, p)'
    <3>1. OnTrack(r, p) /\ (<<r, p>> \notin twice' => <<r, p>> \notin twice)
      BY <1>1, OnRecord DEF SuperInv
    <3>2. p = job[r].pair => \/ RowOf(p) # {} \/ <<r, p>> \in twice
                             \/ entries[p] \notin {None, Unset, job[r].tenant, job[r].origin}
      BY <1>5, <2>1
    <3> QED
      BY <1>3, <2>1, <2>3, <3>1, <3>2 DEF OnTrack
  <2> QED
    BY <1>1, <1>2, <1>3, <2>2, <2>4, <2>5, OneMoves DEF Typed
<1> QED
  BY <1>4, <1>5

\* A request keeps what it has not come to, apart from the pair it works on.
LEMMA KeepsTrack ==
    ASSUME SuperInv, Overlapping, NEW r \in Requests, NEW p \in Pairs, p # job[r].pair,
           pc[r] \in {"post", "insert", "undo"}, pc'[r] \in {"next", "insert", "undo"},
           job'[r].op = job[r].op, job'[r].tenant = job[r].tenant, job'[r].origin = job[r].origin,
           job'[r].pair = job[r].pair, job'[r].want = job[r].want, job'[r].todo = job[r].todo, job'[r].live = job[r].live,
           entries'[p] = entries[p], RowOf(p)' = RowOf(p)
    PROVE  OnTrack(r, p)'
<1>1. OnTrack(r, p) /\ (<<r, p>> \notin twice' => <<r, p>> \notin twice)
  BY OnRecord DEF SuperInv
<1>2. Awaits(r, p)' <=> Awaits(r, p)
  BY DEF Awaits
<1> QED
  BY <1>1, <1>2 DEF OnTrack

\* Others that an entry of a pair matters to are imports, which work alone.
LEMMA WorksAlone ==
    ASSUME SuperInv, NEW r \in Requests, NEW p \in Pairs, Clean(p), p \in Aims(r),
           NEW q \in Requests, q # r
    PROVE  /\ ~Adopts(q, p) /\ ~Awaits(q, p)
           /\ job[r].op = "import" => ~Holds(q, p) /\ ~Drops(q, p) /\ ~Dropt(q, p)
           /\ job[r].op = "delete" => ~Drops(q, p) /\ ~Dropt(q, p)
           /\ job[r].op = "delete" /\ job[r].abort => ~Holds(q, p)
<1>1. Shaped(q) /\ Met
  BY DEF SuperInv
<1>2. p \in Aims(q) => /\ job[q].op # "import" /\ job[r].op # "import"
                       /\ ~(job[q].op = "delete" /\ job[r].op = "delete")
                       /\ job[r].op = "delete" => ~job[r].abort
  BY <1>1, NoRival
<1>3. Adopts(q, p) \/ Holds(q, p) \/ Drops(q, p) \/ Dropt(q, p) \/ Awaits(q, p) => p \in Aims(q)
  BY <1>1, AimsAt DEF Adopts, Holds, Drops, Dropt
<1>4. (Adopts(q, p) \/ Awaits(q, p) => job[q].op = "import")
      /\ (Drops(q, p) \/ Dropt(q, p) => job[q].op = "delete")
  BY <1>1 DEF Adopts, Awaits, Drops, Dropt, Shaped
<1> QED
  BY <1>2, <1>3, <1>4

LEMMA OthersSame ==
    ASSUME NEW q, NEW p, pc'[q] = pc[q], job'[q] = job[q]
    PROVE  /\ Holds(q, p)' <=> Holds(q, p)
           /\ Dropt(q, p)' <=> Dropt(q, p)
           /\ Drops(q, p)' <=> Drops(q, p)
           /\ Adopts(q, p)' <=> Adopts(q, p)
           /\ Awaits(q, p)' <=> Awaits(q, p)
           /\ RowOf(p)' = RowOf(p) => (HasRow(q, p)' <=> HasRow(q, p))
<1>1. HasRow(q, p) <=> \E w \in RowOf(p) : w.id = job[q].id /\ w.tenant = job[q].tenant
  BY DEF HasRow, RowOf
<1>2. HasRow(q, p)' <=> \E w \in RowOf(p)' : w.id = job'[q].id /\ w.tenant = job'[q].tenant
  BY DEF HasRow, RowOf
<1> QED
  BY <1>1, <1>2 DEF Holds, Dropt, Drops, Adopts, Awaits

\* The entry of a holder is a tenant's.
LEMMA HeldByTenant ==
    ASSUME SuperInv, NEW p \in Pairs, Agreed(p), NEW q \in Requests, Holds(q, p)
    PROVE  entries[p] \in Tenants /\ entries[p] = job[q].tenant /\ entries[p] # None
<1>1. job[q].tenant \in Tenants
  BY DEF SuperInv, Shaped, Holds
<1> QED
  BY <1>1, NoneIsNobody DEF Agreed

LEMMA PostInv ==
    ASSUME SuperInv, Overlapping, NEW r \in Requests, Post(r)
    PROVE  SuperInv'
<1>1. Typed /\ Distinct(rows) /\ Shaped(r) /\ pc[r] = "post"
  BY DEF SuperInv, Post
<1>2. PICK o \in Pairs : o = job[r].pair /\ job[r].tenant \in Tenants
                         /\ job[r].op \in {"create", "import"} /\ job[r] \in Jobs
  BY <1>1 DEF Shaped, Typed
<1>3. \A p \in Pairs : ~Holds(r, p) /\ ~Dropt(r, p)
  BY <1>1 DEF Holds, Dropt
<1>4. CASE entries[o] # None
  <2>1. Goto(r, After(r), job[r]) /\ UNCHANGED <<rows, entries, doc, hurt>>
    BY <1>2, <1>4 DEF Post
  <2>2. After(r) \in {"next", "done"} /\ (After(r) = "next" => job[r].op = "import" /\ ~job[r].abort)
    BY DEF After
  <2>3. ASSUME After(r) = "next"
        PROVE  RowOf(o) # {} \/ entries[o] \notin {None, Unset, job[r].tenant, job[r].origin}
               \/ <<r, o>> \in twice
    <3>1. OnTrack(r, o) /\ o \in job[r].want
      BY <1>1, <1>2, <2>2, <2>3 DEF SuperInv, Shaped
    <3>2. ~Awaits(r, o)
      BY <1>1, <1>2, <2>2, <2>3 DEF Shaped, Awaits
    <3> QED
      BY <1>1, <1>2, <1>4, <2>2, <2>3, <3>1, <3>2 DEF OnTrack
  <2>4. hurt \subseteq hurt' /\ hurt' \in SUBSET Pairs
    BY <1>1, <2>1 DEF Typed
  <2> QED
    BY <1>1, <1>2, <1>3, <2>1, <2>2, <2>3, <2>4, Leaves
<1>5. CASE entries[o] = None
  <2>1. /\ Goto(r, "insert", [job[r] EXCEPT !.touched = TRUE]) /\ UNCHANGED <<rows, doc, hurt>>
        /\ entries' = [entries EXCEPT ![o] = job[r].tenant]
    BY <1>2, <1>5 DEF Post
  <2>2. PICK j : j = [job[r] EXCEPT !.touched = TRUE]
    OBVIOUS
  <2>3. /\ j \in Jobs /\ j.touched /\ j.op = job[r].op /\ j.tenant = job[r].tenant /\ j.id = job[r].id
        /\ j.pair = o /\ j.abort = job[r].abort /\ j.origin = job[r].origin /\ j.want = job[r].want
        /\ j.todo = job[r].todo /\ j.live = job[r].live
    BY <1>2, <2>2 DEF Jobs
  <2>4. /\ pc'[r] = "insert" /\ job'[r] = j
        /\ \A q \in Requests \ {r} : pc'[q] = pc[q] /\ job'[q] = job[q]
        /\ pc' \in [Requests -> Steps] /\ job' \in [Requests -> Jobs]
    BY <1>1, <2>1, <2>2, <2>3, GotoMoves DEF Steps
  <2>5. /\ entries' \in [Pairs -> Accounts \cup {None}] /\ entries'[o] = job[r].tenant
        /\ \A p \in Pairs : p # o => entries'[p] = entries[p]
    BY <1>1, <1>2, <2>1 DEF Typed, Accounts
  <2>6. ASSUME NEW p PROVE RowOf(p)' = RowOf(p)
    BY <2>1 DEF RowOf
  <2>7. Shaped(r)'
    BY <1>1, <1>2, <2>3, <2>4 DEF Shaped, Distinct
  <2>8. o \in Aims(r)
    BY <1>1, <1>2, AimsAt
  <2>9. ASSUME NEW p \in Pairs, p # o, Agreed(p) PROVE Agreed(p)'
    <3>1. ~Holds(r, p)' /\ ~Dropt(r, p)' /\ ~Drops(r, p)' /\ ~Adopts(r, p)'
      BY <2>3, <2>4, <2>9 DEF Holds, Dropt, Drops, Adopts
    <3>2. Awaits(r, p)' => job'[r].live[p] = entries[p]
      BY <1>1, <2>3, <2>4, <2>9 DEF Agreed, Awaits
    <3> QED
      BY <1>3, <2>4, <2>5, <2>6, <2>9, <3>1, <3>2, Aside
  <2>10. ASSUME Clean(o), Agreed(o) PROVE Agreed(o)'
    <3>1. ASSUME NEW q \in Requests PROVE ~Holds(q, o)
      BY <1>2, <1>5, <2>10, HeldByTenant
    <3>2. ASSUME NEW q \in Requests
          PROVE  /\ Holds(q, o)' <=> q = r
                 /\ Dropt(q, o)' <=> Dropt(q, o)
                 /\ Dropt(q, o) => HasRow(q, o)' /\ (pc'[q] = "restore" => job'[q].abort)
                 /\ Drops(q, o)' => HasRow(q, o)'
                 /\ ~Adopts(q, o)' /\ ~Awaits(q, o)'
      <4>1. CASE q = r
        <5>1. Holds(r, o)' /\ ~Dropt(r, o)' /\ ~Drops(r, o)' /\ ~Adopts(r, o)'
          BY <2>3, <2>4 DEF Holds, Dropt, Drops, Adopts
        <5>2. ~Awaits(r, o)'
          BY <1>1, <1>2, <2>3, <2>4 DEF Awaits, Shaped
        <5> QED
          BY <1>2, <1>3, <4>1, <5>1, <5>2
      <4>2. CASE q # r
        <5>1. ~Adopts(q, o) /\ ~Awaits(q, o)
          BY <1>2, <2>8, <2>10, <4>2, WorksAlone
        <5>2. pc'[q] = pc[q] /\ job'[q] = job[q]
          BY <2>4, <4>2
        <5> QED
          BY <2>6, <2>10, <3>1, <4>2, <5>1, <5>2, OthersSame DEF Agreed
      <4> QED
        BY <4>1, <4>2
    <3>3. Held(o)' /\ job'[r].tenant = entries'[o]
      BY <2>3, <2>4, <2>5, <3>2 DEF Held
    <3>4. (\E q \in Requests : Dropt(q, o)) \/ RowOf(o) = {}
      <4>1. \A w \in RowOf(o) : w.tenant \in Tenants
        BY <1>1 DEF RowOf, Typed, Row
      <4> QED
        BY <1>5, <2>10, <4>1, NoneIsNobody DEF Agreed
    <3> QED
      BY <2>6, <3>2, <3>3, <3>4 DEF Agreed
  <2>11. ASSUME NEW p \in Pairs PROVE OnTrack(r, p)'
    <3>1. p = o => OnTrack(r, p)'
      BY <2>3, <2>4 DEF OnTrack
    <3> QED
      BY <1>1, <1>2, <2>3, <2>4, <2>5, <2>6, <3>1, KeepsTrack
  <2>12. hurt \subseteq hurt' /\ hurt' \in SUBSET Pairs /\ rows' \in SUBSET Row /\ doc' = doc
         /\ Distinct(rows')
    BY <1>1, <2>1 DEF Typed
  <2>13. \A p \in Pairs : p \notin Aims(r) => entries'[p] = entries[p] /\ RowOf(p)' = RowOf(p)
    BY <2>5, <2>6, <2>8
  <2>14. \A p \in Pairs : Clean(p) /\ Agreed(p) => Agreed(p)'
    <3> SUFFICES ASSUME NEW p \in Pairs, Clean(p), Agreed(p) PROVE Agreed(p)'
      OBVIOUS
    <3>1. CASE p = o
      BY <2>10, <3>1
    <3> QED
      BY <2>9, <3>1
  <2> QED
    BY <2>4, <2>5, <2>7, <2>11, <2>12, <2>13, <2>14, OneMoves
<1> QED
  BY <1>4, <1>5

\* A request turns to taking its entry back.
LEMMA ToUndo ==
    ASSUME SuperInv, Overlapping, NEW r \in Requests, pc[r] = "insert", job[r].touched,
           NEW j \in Jobs, j = [job[r] EXCEPT !.abort = j.abort], Goto(r, "undo", j),
           UNCHANGED <<rows, entries, doc, hurt>>, j.abort \/ RowOf(job[r].pair) # {}
    PROVE  SuperInv'
<1>1. Typed /\ Distinct(rows) /\ Shaped(r) /\ job[r] \in Jobs
  BY DEF SuperInv, Typed
<1>2. /\ pc'[r] = "undo" /\ job'[r] = j
      /\ \A q \in Requests \ {r} : pc'[q] = pc[q] /\ job'[q] = job[q]
      /\ pc' \in [Requests -> Steps] /\ job' \in [Requests -> Jobs]
  BY <1>1, GotoMoves DEF Steps
<1>3. /\ j.op = job[r].op /\ j.tenant = job[r].tenant /\ j.id = job[r].id /\ j.pair = job[r].pair
      /\ j.touched = job[r].touched /\ j.origin = job[r].origin /\ j.want = job[r].want
      /\ j.todo = job[r].todo /\ j.live = job[r].live
  BY <1>1 DEF Jobs
<1>4. Shaped(r)'
  BY <1>1, <1>2, <1>3 DEF Shaped, Distinct
<1>5. \A p \in Pairs : entries'[p] = entries[p] /\ RowOf(p)' = RowOf(p)
  BY DEF RowOf
<1>6. ASSUME NEW p \in Pairs, Agreed(p) PROVE Agreed(p)'
  <2>1. ASSUME NEW q \in Requests
        PROVE  /\ Holds(q, p)' <=> Holds(q, p)
               /\ Dropt(q, p)' <=> Dropt(q, p)
               /\ Holds(q, p) => job'[q].tenant = job[q].tenant
               /\ Dropt(q, p) => HasRow(q, p)' /\ (pc'[q] = "restore" => job'[q].abort)
               /\ Drops(q, p)' => HasRow(q, p)'
               /\ Adopts(q, p)' => entries[p] \in Tenants \cup {Unset}
               /\ Awaits(q, p)' => job'[q].live[p] = entries[p]
    <3>1. CASE q = r
      <4>1. /\ Holds(r, p)' <=> Holds(r, p)
            /\ ~Dropt(r, p) /\ ~Dropt(r, p)' /\ ~Drops(r, p)' /\ ~Adopts(r, p)'
            /\ Awaits(r, p)' <=> Awaits(r, p)
        BY <1>2, <1>3 DEF Holds, Dropt, Drops, Adopts, Awaits
      <4> QED
        BY <1>2, <1>3, <1>6, <3>1, <4>1 DEF Agreed
    <3>2. CASE q # r
      <4>1. pc'[q] = pc[q] /\ job'[q] = job[q]
        BY <1>2, <3>2
      <4> QED
        BY <1>5, <1>6, <4>1, OthersSame DEF Agreed
    <3> QED
      BY <3>1, <3>2
  <2> QED
    BY <1>5, <1>6, <2>1, Untouched
<1>7. ASSUME NEW p \in Pairs PROVE OnTrack(r, p)'
  <2>1. CASE p = job[r].pair
    BY <1>2, <1>3, <1>5, <2>1 DEF OnTrack
  <2>2. CASE p # job[r].pair
    BY <1>2, <1>3, <1>5, <2>2, KeepsTrack
  <2> QED
    BY <2>1, <2>2
<1> QED
  BY <1>1, <1>2, <1>4, <1>5, <1>6, <1>7, OneMoves DEF Typed

\* The row goes into the table, or is refused for what is there.
LEMMA InsertInv ==
    ASSUME SuperInv, Overlapping, NEW r \in Requests, Insert(r)
    PROVE  SuperInv'
<1>1. Typed /\ Distinct(rows) /\ Shaped(r) /\ pc[r] = "insert"
  BY DEF SuperInv, Insert
<1>2. PICK o \in Pairs : /\ o = job[r].pair /\ job[r].tenant \in Tenants
                         /\ job[r].op \in {"create", "import"} /\ job[r] \in Jobs
                         /\ job[r].id \in RowIds /\ job[r].id[2] = o
  BY <1>1 DEF Shaped, Typed
<1>3. \A p \in Pairs : ~Dropt(r, p)
  BY <1>1 DEF Dropt
<1>4. After(r) \in {"next", "done"} /\ (After(r) = "next" => job[r].op = "import" /\ ~job[r].abort)
  BY DEF After
<1>5. o \in Aims(r)
  BY <1>1, <1>2, AimsAt
<1>6. \A p \in Pairs : Holds(r, p) <=> p = o /\ job[r].touched
  BY <1>1, <1>2 DEF Holds
<1>7. UNCHANGED <<entries, doc, hurt>> /\ hurt \subseteq hurt' /\ hurt' \in SUBSET Pairs
  BY <1>1 DEF Insert, Typed
<1>8. CASE Free(r)
  <2>1. rows' = rows \cup {NewRow(r)} /\ Goto(r, After(r), job[r])
    BY <1>8 DEF Insert
  <2>2. PICK w : w = NewRow(r)
    OBVIOUS
  <2>3. w \in Row /\ w.id = job[r].id /\ w.tenant = job[r].tenant /\ w.pair = o /\ w.id[2] = o
    BY <1>2, <2>2 DEF NewRow, Row
  <2>4. rows' = rows \cup {w} /\ rows' \in SUBSET Row /\ \A v \in rows : v.pair # o
    BY <1>1, <1>2, <1>8, <2>1, <2>2, <2>3 DEF Typed, Free
  <2>5. Distinct(rows')
    BY <1>1, <2>3, <2>4 DEF Distinct
  <2>6. RowOf(o) = {} /\ RowOf(o)' = {w} /\ \A p \in Pairs : p # o => RowOf(p)' = RowOf(p)
    BY <2>3, <2>4 DEF RowOf
  <2>7. /\ pc'[r] = After(r) /\ job'[r] = (IF After(r) = "done" THEN NoJob ELSE job[r])
        /\ \A q \in Requests \ {r} : pc'[q] = pc[q] /\ job'[q] = job[q]
        /\ pc' \in [Requests -> Steps] /\ job' \in [Requests -> Jobs]
    BY <1>1, <1>2, <1>4, <2>1, GotoMoves, NoJobTyped DEF Steps
  <2>8. Shaped(r)' /\ \A p \in Pairs : /\ ~Holds(r, p)' /\ ~Dropt(r, p)' /\ ~Drops(r, p)' /\ ~Adopts(r, p)'
                                       /\ Awaits(r, p)' => Awaits(r, p) /\ job'[r].live = job[r].live
                                       /\ OnTrack(r, p)'
    <3>1. CASE After(r) = "done"
      BY <2>7, <3>1, DoneShaped
    <3>2. CASE After(r) = "next"
      <4>1. pc'[r] = "next" /\ job'[r] = job[r] /\ job[r].op = "import" /\ ~job[r].abort
        BY <1>4, <2>7, <3>2
      <4>2. Shaped(r)'
        BY <1>1, <4>1 DEF Shaped, Distinct
      <4>3. ASSUME NEW p \in Pairs
            PROVE  /\ ~Holds(r, p)' /\ ~Dropt(r, p)' /\ ~Drops(r, p)' /\ ~Adopts(r, p)'
                   /\ Awaits(r, p)' => Awaits(r, p) /\ job'[r].live = job[r].live
        BY <1>1, <4>1 DEF Holds, Dropt, Drops, Adopts, Awaits
      <4>4. ASSUME NEW p \in Pairs PROVE OnTrack(r, p)'
        <5>1. CASE p = o
          BY <2>6, <5>1 DEF OnTrack
        <5>2. CASE p # o
          BY <1>1, <1>2, <1>7, <2>6, <4>1, <5>2, KeepsTrack
        <5> QED
          BY <5>1, <5>2
      <4> QED
        BY <4>2, <4>3, <4>4
    <3> QED
      BY <1>4, <3>1, <3>2
  <2>9. ASSUME NEW p \in Pairs, p # o, Agreed(p) PROVE Agreed(p)'
    <3>1. Awaits(r, p)' => job'[r].live[p] = entries[p]
      BY <2>8, <2>9 DEF Agreed
    <3> QED
      BY <1>3, <1>6, <1>7, <2>6, <2>7, <2>8, <2>9, <3>1, Aside
  <2>10. ASSUME Clean(o), Agreed(o) PROVE Agreed(o)'
    <3>1. ASSUME NEW q \in Requests PROVE ~Dropt(q, o) /\ ~Drops(q, o)
      BY <2>4, <2>10 DEF Agreed, HasRow
    <3>2. entries[o] \in {job[r].tenant, Unset}
      <4>1. CASE job[r].touched
        BY <1>2, <1>6, <2>10, <4>1 DEF Agreed
      <4>2. CASE ~job[r].touched
        <5>1. job[r].op = "import" /\ Adopts(r, o)
          BY <1>1, <1>2, <4>2 DEF Shaped, Adopts
        <5>2. ASSUME NEW q \in Requests PROVE ~Holds(q, o)
          <6>1. CASE q = r
            BY <1>6, <4>2, <6>1
          <6> QED
            BY <1>5, <2>10, <5>1, <6>1, WorksAlone
        <5> QED
          BY <2>6, <2>10, <3>1, <5>1, <5>2 DEF Agreed, Held
      <4> QED
        BY <4>1, <4>2
    <3>3. ASSUME NEW q \in Requests
          PROVE  ~Holds(q, o)' /\ ~Dropt(q, o)' /\ ~Drops(q, o)' /\ ~Adopts(q, o)' /\ ~Awaits(q, o)'
      <4>1. CASE q = r
        <5>1. ~Awaits(r, o)
          BY <1>1, <1>2 DEF Awaits, Shaped
        <5> QED
          BY <2>8, <4>1, <5>1
      <4>2. CASE q # r
        <5>1. ~Adopts(q, o) /\ ~Awaits(q, o) /\ (job[r].op = "import" => ~Holds(q, o))
          BY <1>5, <2>10, <4>2, WorksAlone
        <5>2. pc'[q] = pc[q] /\ job'[q] = job[q]
          BY <2>7, <4>2
        <5>3. ~Holds(q, o)
          <6>1. job[r].op = "create" => job[r].touched
            BY <1>1 DEF Shaped
          <6> QED
            BY <1>2, <1>6, <2>10, <4>2, <5>1, <6>1 DEF Agreed
        <5> QED
          BY <3>1, <5>1, <5>2, <5>3, OthersSame
      <4> QED
        BY <4>1, <4>2
    <3>4. ~Held(o)' /\ \A v \in RowOf(o)' : entries'[o] \in {v.tenant, Unset}
      BY <1>7, <2>3, <2>6, <3>2, <3>3 DEF Held
    <3> QED
      BY <2>6, <3>3, <3>4 DEF Agreed
  <2>11. \A p \in Pairs : p \notin Aims(r) => entries'[p] = entries[p] /\ RowOf(p)' = RowOf(p)
    BY <1>5, <1>7, <2>6
  <2>12. \A p \in Pairs : Clean(p) /\ Agreed(p) => Agreed(p)'
    <3> SUFFICES ASSUME NEW p \in Pairs, Clean(p), Agreed(p) PROVE Agreed(p)'
      OBVIOUS
    <3>1. CASE p = o
      BY <2>10, <3>1
    <3> QED
      BY <2>9, <3>1
  <2>13. entries' \in [Pairs -> Accounts \cup {None}] /\ doc' = doc
    BY <1>1, <1>7 DEF Typed
  <2> QED
    BY <1>7, <2>4, <2>5, <2>7, <2>8, <2>11, <2>12, <2>13, OneMoves
<1>9. CASE ~Free(r)
  <2>1. Goto(r, AfterRefusal(r), job[r]) /\ rows' = rows
    BY <1>9 DEF Insert
  <2>2. RowOf(o) # {}
    <3>1. PICK w \in rows : w.id = job[r].id \/ w.pair = o
      BY <1>2, <1>9 DEF Free
    <3>2. w.pair = o
      BY <1>1, <1>2, <3>1 DEF Distinct
    <3> QED
      BY <3>1, <3>2 DEF RowOf
  <2>3. CASE job[r].touched
    <3>1. job[r] = [job[r] EXCEPT !.abort = job[r].abort]
      BY <1>2 DEF Jobs
    <3>2. Goto(r, "undo", job[r])
      BY <2>1, <2>3 DEF AfterRefusal
    <3> QED
      BY <1>1, <1>2, <1>7, <2>1, <2>2, <2>3, <3>1, <3>2, ToUndo
  <2>4. CASE ~job[r].touched
    <3>1. Goto(r, After(r), job[r])
      BY <2>1, <2>4 DEF AfterRefusal
    <3> QED
      BY <1>1, <1>2, <1>3, <1>4, <1>6, <1>7, <2>1, <2>2, <2>4, <3>1, Leaves
  <2> QED
    BY <2>3, <2>4
<1> QED
  BY <1>8, <1>9

LEMMA UndoInv ==
    ASSUME SuperInv, Overlapping, NEW r \in Requests, Undo(r)
    PROVE  SuperInv'
<1>1. Typed /\ Distinct(rows) /\ Shaped(r) /\ pc[r] = "undo"
  BY DEF SuperInv, Undo
<1>2. PICK o \in Pairs : /\ o = job[r].pair /\ job[r].tenant \in Tenants
                         /\ job[r].op \in {"create", "import"} /\ job[r] \in Jobs /\ job[r].touched
  BY <1>1 DEF Shaped, Typed
<1>3. \A p \in Pairs : ~Dropt(r, p) /\ (Holds(r, p) <=> p = o)
  BY <1>1, <1>2 DEF Dropt, Holds
<1>4. After(r) \in {"next", "done"} /\ (After(r) = "next" => job[r].op = "import" /\ ~job[r].abort)
  BY DEF After
<1>5. o \in Aims(r)
  BY <1>1, <1>2, AimsAt
<1>6. /\ UNCHANGED <<rows, doc, hurt>> /\ Goto(r, After(r), job[r])
      /\ entries' = [entries EXCEPT ![o] = None]
  BY <1>2 DEF Undo
<1>7. /\ entries' \in [Pairs -> Accounts \cup {None}] /\ entries'[o] = None
      /\ \A p \in Pairs : p # o => entries'[p] = entries[p]
  BY <1>1, <1>2, <1>6 DEF Typed
<1>8. \A p : RowOf(p)' = RowOf(p)
  BY <1>6 DEF RowOf
<1>9. /\ pc'[r] = After(r) /\ job'[r] = (IF After(r) = "done" THEN NoJob ELSE job[r])
      /\ \A q \in Requests \ {r} : pc'[q] = pc[q] /\ job'[q] = job[q]
      /\ pc' \in [Requests -> Steps] /\ job' \in [Requests -> Jobs]
  BY <1>1, <1>2, <1>4, <1>6, GotoMoves, NoJobTyped DEF Steps
<1>10. Shaped(r)' /\ \A p \in Pairs : /\ ~Holds(r, p)' /\ ~Dropt(r, p)' /\ ~Drops(r, p)' /\ ~Adopts(r, p)'
                                      /\ Awaits(r, p)' => Awaits(r, p) /\ job'[r].live = job[r].live
                                      /\ OnTrack(r, p)'
  <2>1. CASE After(r) = "done"
    BY <1>9, <2>1, DoneShaped
  <2>2. CASE After(r) = "next"
    <3>1. pc'[r] = "next" /\ job'[r] = job[r] /\ job[r].op = "import" /\ ~job[r].abort
      BY <1>4, <1>9, <2>2
    <3>2. Shaped(r)'
      BY <1>1, <3>1 DEF Shaped, Distinct
    <3>3. ASSUME NEW p \in Pairs
          PROVE  /\ ~Holds(r, p)' /\ ~Dropt(r, p)' /\ ~Drops(r, p)' /\ ~Adopts(r, p)'
                 /\ Awaits(r, p)' => Awaits(r, p) /\ job'[r].live = job[r].live
      BY <1>1, <3>1 DEF Holds, Dropt, Drops, Adopts, Awaits
    <3>4. ASSUME NEW p \in Pairs PROVE OnTrack(r, p)'
      <4>1. CASE p = o
        <5>1. OnTrack(r, o) /\ (<<r, o>> \notin twice' => <<r, o>> \notin twice) /\ ~Awaits(r, o)
          BY <1>1, <1>2, OnRecord DEF SuperInv, Awaits, Shaped
        <5>2. o \in job[r].want
          BY <1>1, <1>2, <3>1 DEF Shaped
        <5>3. <<r, o>> \notin twice' => RowOf(o) # {}
          BY <1>1, <1>2, <3>1, <5>1, <5>2 DEF OnTrack
        <5> QED
          BY <1>8, <4>1, <5>3 DEF OnTrack
      <4>2. CASE p # o
        BY <1>1, <1>2, <1>7, <1>8, <3>1, <4>2, KeepsTrack
      <4> QED
        BY <4>1, <4>2
    <3> QED
      BY <3>2, <3>3, <3>4
  <2> QED
    BY <1>4, <2>1, <2>2
<1>11. ASSUME NEW p \in Pairs, p # o, Agreed(p) PROVE Agreed(p)'
  <2>1. Awaits(r, p)' => job'[r].live[p] = entries[p]
    BY <1>10, <1>11 DEF Agreed
  <2> QED
    BY <1>3, <1>7, <1>8, <1>9, <1>10, <1>11, <2>1, Aside
<1>12. ASSUME Clean(o), Agreed(o) PROVE Agreed(o)'
  <2>1. ASSUME NEW q \in Requests
        PROVE  /\ ~Holds(q, o)' /\ ~Adopts(q, o)' /\ ~Awaits(q, o)'
               /\ Dropt(q, o)' <=> Dropt(q, o)
               /\ Dropt(q, o) => HasRow(q, o)' /\ (pc'[q] = "restore" => job'[q].abort)
               /\ Drops(q, o)' => HasRow(q, o)'
    <3>1. CASE q = r
      <4>1. ~Awaits(r, o)
        BY <1>1, <1>2 DEF Awaits, Shaped
      <4> QED
        BY <1>3, <1>10, <3>1, <4>1
    <3>2. CASE q # r
      <4>1. ~Adopts(q, o) /\ ~Awaits(q, o) /\ ~Holds(q, o)
        BY <1>3, <1>5, <1>12, <3>2, WorksAlone DEF Agreed
      <4>2. pc'[q] = pc[q] /\ job'[q] = job[q]
        BY <1>9, <3>2
      <4> QED
        BY <1>8, <1>12, <4>1, <4>2, OthersSame DEF Agreed
    <3> QED
      BY <3>1, <3>2
  <2>2. (\E q \in Requests : Dropt(q, o)) \/ RowOf(o) = {}
    BY <1>3, <1>12 DEF Agreed, Held
  <2>3. entries'[o] \notin Tenants
    BY <1>7, NoneIsNobody
  <2> QED
    BY <1>7, <1>8, <2>1, <2>2, <2>3 DEF Agreed
<1>13. \A p \in Pairs : p \notin Aims(r) => entries'[p] = entries[p] /\ RowOf(p)' = RowOf(p)
  BY <1>5, <1>7, <1>8
<1>14. \A p \in Pairs : Clean(p) /\ Agreed(p) => Agreed(p)'
  <2> SUFFICES ASSUME NEW p \in Pairs, Clean(p), Agreed(p) PROVE Agreed(p)'
    OBVIOUS
  <2>1. CASE p = o
    BY <1>12, <2>1
  <2> QED
    BY <1>11, <2>1
<1>15. /\ hurt \subseteq hurt' /\ hurt' \in SUBSET Pairs /\ rows' \in SUBSET Row /\ doc' = doc
       /\ Distinct(rows')
  BY <1>1, <1>6 DEF Typed
<1> QED
  BY <1>7, <1>9, <1>10, <1>13, <1>14, <1>15, OneMoves

\* The entry goes, and with it what the next disjunct of Agreed says of it.
LEMMA DropInv ==
    ASSUME SuperInv, Overlapping, NEW r \in Requests, Drop(r)
    PROVE  SuperInv'
<1>1. Typed /\ Distinct(rows) /\ Shaped(r) /\ pc[r] = "drop"
  BY DEF SuperInv, Drop
<1>2. PICK o \in Pairs : /\ o = job[r].pair /\ job[r].tenant \in Tenants
                         /\ job[r].op = "delete" /\ job[r] \in Jobs
  BY <1>1 DEF Shaped, Typed
<1>3. \A p \in Pairs : ~Dropt(r, p) /\ ~Holds(r, p)
  BY <1>1 DEF Dropt, Holds
<1>4. o \in Aims(r)
  BY <1>1, <1>2, AimsAt
<1>5. PICK j : j = [job[r] EXCEPT !.touched = entries[o] # None]
  OBVIOUS
<1>6. /\ UNCHANGED <<rows, doc, hurt>> /\ Goto(r, "erase", j)
      /\ entries' = [entries EXCEPT ![o] = None]
  BY <1>2, <1>5 DEF Drop
<1>7. /\ j \in Jobs /\ j.op = "delete" /\ j.tenant = job[r].tenant /\ j.id = job[r].id
      /\ j.pair = o /\ j.abort = job[r].abort
  BY <1>2, <1>5 DEF Jobs
<1>8. /\ entries' \in [Pairs -> Accounts \cup {None}] /\ entries'[o] = None
      /\ \A p \in Pairs : p # o => entries'[p] = entries[p]
  BY <1>1, <1>2, <1>6 DEF Typed
<1>9. \A p : RowOf(p)' = RowOf(p)
  BY <1>6 DEF RowOf
<1>10. /\ pc'[r] = "erase" /\ job'[r] = j
       /\ \A q \in Requests \ {r} : pc'[q] = pc[q] /\ job'[q] = job[q]
       /\ pc' \in [Requests -> Steps] /\ job' \in [Requests -> Jobs]
  BY <1>1, <1>6, <1>7, GotoMoves DEF Steps
<1>11. Shaped(r)' /\ \A p \in Pairs : /\ ~Holds(r, p)' /\ ~Drops(r, p)' /\ ~Adopts(r, p)' /\ ~Awaits(r, p)'
                                      /\ Dropt(r, p)' <=> p = o
                                      /\ OnTrack(r, p)'
  <2>1. Shaped(r)'
    BY <1>1, <1>2, <1>7, <1>10 DEF Shaped
  <2> QED
    BY <1>7, <1>10, <2>1 DEF Holds, Drops, Adopts, Awaits, Dropt, OnTrack
<1>12. ASSUME NEW p \in Pairs, p # o, Agreed(p) PROVE Agreed(p)'
  BY <1>3, <1>8, <1>9, <1>10, <1>11, <1>12, Aside
<1>13. ASSUME Clean(o), Agreed(o) PROVE Agreed(o)'
  <2>1. HasRow(r, o) /\ RowOf(o) # {}
    BY <1>1, <1>2, <1>13 DEF Agreed, Drops, HasRow, RowOf
  <2>2. ASSUME NEW q \in Requests, q # r
        PROVE  ~Dropt(q, o) /\ ~Drops(q, o) /\ ~Adopts(q, o) /\ ~Awaits(q, o)
    BY <1>2, <1>4, <1>13, <2>2, WorksAlone
  <2>3. ASSUME NEW q \in Requests PROVE ~Holds(q, o)
    BY <1>3, <1>13, <2>1, <2>2 DEF Agreed, Held
  <2>4. HasRow(r, o)'
    BY <1>6, <1>7, <1>10, <2>1 DEF HasRow
  <2>5. ASSUME NEW q \in Requests
        PROVE  ~Holds(q, o)' /\ ~Drops(q, o)' /\ ~Adopts(q, o)' /\ ~Awaits(q, o)' /\ (Dropt(q, o)' <=> q = r)
    <3>1. CASE q = r
      BY <1>11, <3>1
    <3>2. CASE q # r
      <4>1. pc'[q] = pc[q] /\ job'[q] = job[q]
        BY <1>10, <3>2
      <4> QED
        BY <2>2, <2>3, <3>2, <4>1, OthersSame
    <3> QED
      BY <3>1, <3>2
  <2> QED
    BY <1>8, <1>10, <2>4, <2>5 DEF Agreed
<1>14. \A p \in Pairs : p \notin Aims(r) => entries'[p] = entries[p] /\ RowOf(p)' = RowOf(p)
  BY <1>4, <1>8, <1>9
<1>15. \A p \in Pairs : Clean(p) /\ Agreed(p) => Agreed(p)'
  <2> SUFFICES ASSUME NEW p \in Pairs, Clean(p), Agreed(p) PROVE Agreed(p)'
    OBVIOUS
  <2>1. CASE p = o
    BY <1>13, <2>1
  <2> QED
    BY <1>12, <2>1
<1>16. /\ hurt \subseteq hurt' /\ hurt' \in SUBSET Pairs /\ rows' \in SUBSET Row /\ doc' = doc
       /\ Distinct(rows')
  BY <1>1, <1>6 DEF Typed
<1> QED
  BY <1>8, <1>10, <1>11, <1>14, <1>15, <1>16, OneMoves

\* The row of a pair that is being deleted is the row the request has in mind.
LEMMA EraseInv ==
    ASSUME SuperInv, Overlapping, NEW r \in Requests, Erase(r)
    PROVE  SuperInv'
<1>1. Typed /\ Distinct(rows) /\ Shaped(r) /\ pc[r] = "erase"
  BY DEF SuperInv, Erase
<1>2. PICK o \in Pairs : /\ o = job[r].pair /\ job[r].tenant \in Tenants /\ job[r].id[2] = o
                         /\ job[r].op = "delete" /\ job[r] \in Jobs
  BY <1>1 DEF Shaped, Typed
<1>3. o \in Aims(r)
  BY <1>1, <1>2, AimsAt
<1>4. \A w \in Mine(r) : w \in rows /\ w.pair = o
  BY <1>1, <1>2 DEF Mine, Distinct
<1>5. rows' = rows \ Mine(r) /\ UNCHANGED <<entries, doc, hurt>>
  BY DEF Erase
<1>6. \A p \in Pairs : p # o => RowOf(p)' = RowOf(p)
  BY <1>4, <1>5 DEF RowOf
<1>7. PICK step \in {"done", "restore"} : Goto(r, step, job[r]) /\ (Mine(r) # {} => step = "done")
  BY DEF Erase, AfterUnerased
<1>8. /\ pc'[r] = step /\ job'[r] = (IF step = "done" THEN NoJob ELSE job[r])
      /\ \A q \in Requests \ {r} : pc'[q] = pc[q] /\ job'[q] = job[q]
      /\ pc' \in [Requests -> Steps] /\ job' \in [Requests -> Jobs]
  BY <1>1, <1>2, <1>7, GotoMoves, NoJobTyped DEF Steps
<1>9. \A p \in Pairs : ~Holds(r, p) /\ (Dropt(r, p) <=> p = o)
  BY <1>1, <1>2 DEF Holds, Dropt
<1>10. Shaped(r)' /\ \A p \in Pairs : /\ ~Holds(r, p)' /\ ~Drops(r, p)' /\ ~Adopts(r, p)' /\ ~Awaits(r, p)'
                                      /\ (Dropt(r, p)' => p = o) /\ OnTrack(r, p)'
  <2>1. CASE step = "done"
    BY <1>8, <2>1, DoneShaped
  <2>2. CASE step = "restore"
    <3>1. pc'[r] = "restore" /\ job'[r] = job[r]
      BY <1>8, <2>2
    <3>2. Shaped(r)'
      BY <1>1, <1>2, <3>1 DEF Shaped
    <3> QED
      BY <1>2, <3>1, <3>2 DEF Holds, Drops, Adopts, Awaits, Dropt, OnTrack
  <2> QED
    BY <2>1, <2>2
<1>11. ASSUME NEW p \in Pairs, p # o, Agreed(p) PROVE Agreed(p)'
  BY <1>5, <1>6, <1>8, <1>9, <1>10, <1>11, Aside
<1>12. ASSUME Clean(o), Agreed(o) PROVE Agreed(o)'
  <2>1. PICK w \in rows : w.pair = o /\ w.id = job[r].id /\ w.tenant = job[r].tenant
    BY <1>9, <1>12 DEF Agreed, HasRow
  <2>2. w \in Mine(r) /\ step = "done"
    BY <1>7, <2>1 DEF Mine
  <2>3. RowOf(o)' = {}
    BY <1>1, <1>5, <2>1, <2>2 DEF RowOf, Distinct
  <2>4. ASSUME NEW q \in Requests
        PROVE  /\ ~Drops(q, o)' /\ ~Dropt(q, o)' /\ ~Adopts(q, o)' /\ ~Awaits(q, o)'
               /\ Holds(q, o)' <=> Holds(q, o)
               /\ Holds(q, o) => job'[q].tenant = job[q].tenant
    <3>1. CASE q = r
      BY <1>8, <1>9, <2>2, <3>1, DoneShaped
    <3>2. CASE q # r
      <4>1. pc'[q] = pc[q] /\ job'[q] = job[q]
        BY <1>8, <3>2
      <4>2. ~Dropt(q, o) /\ ~Drops(q, o) /\ ~Adopts(q, o) /\ ~Awaits(q, o)
        BY <1>2, <1>3, <1>12, <3>2, WorksAlone
      <4> QED
        BY <4>1, <4>2, OthersSame
    <3> QED
      BY <3>1, <3>2
  <2>5. Held(o)' \/ entries'[o] \notin Tenants
    BY <1>5, <1>9, <1>12, <2>4, NoneIsNobody DEF Agreed, Held
  <2> QED
    BY <1>5, <1>12, <2>3, <2>4, <2>5 DEF Agreed
<1>13. \A p \in Pairs : p \notin Aims(r) => entries'[p] = entries[p] /\ RowOf(p)' = RowOf(p)
  BY <1>3, <1>5, <1>6
<1>14. \A p \in Pairs : Clean(p) /\ Agreed(p) => Agreed(p)'
  <2> SUFFICES ASSUME NEW p \in Pairs, Clean(p), Agreed(p) PROVE Agreed(p)'
    OBVIOUS
  <2>1. CASE p = o
    BY <1>12, <2>1
  <2> QED
    BY <1>11, <2>1
<1>15. /\ hurt \subseteq hurt' /\ hurt' \in SUBSET Pairs /\ rows' \in SUBSET Row /\ doc' = doc
       /\ Distinct(rows') /\ entries' \in [Pairs -> Accounts \cup {None}]
  BY <1>1, <1>5 DEF Typed, Distinct
<1> QED
  BY <1>8, <1>10, <1>13, <1>14, <1>15, OneMoves

LEMMA RestoreInv ==
    ASSUME SuperInv, Overlapping, NEW r \in Requests, Restore(r)
    PROVE  SuperInv'
<1>1. Typed /\ Distinct(rows) /\ Shaped(r) /\ pc[r] = "restore"
  BY DEF SuperInv, Restore
<1>2. PICK o \in Pairs : /\ o = job[r].pair /\ job[r].tenant \in Tenants /\ job[r].op = "delete"
  BY <1>1 DEF Shaped, Typed
<1>3. o \in Aims(r)
  BY <1>1, <1>2, AimsAt
<1>4. /\ Goto(r, "done", NoJob) /\ UNCHANGED <<rows, doc, hurt>>
      /\ entries' = IF entries[o] = None THEN [entries EXCEPT ![o] = job[r].tenant] ELSE entries
  BY <1>2 DEF Restore
<1>5. /\ entries' \in [Pairs -> Accounts \cup {None}]
      /\ entries[o] = None => entries'[o] = job[r].tenant
      /\ \A p \in Pairs : p # o => entries'[p] = entries[p]
  <2>1. CASE entries[o] = None
    BY <1>1, <1>2, <1>4, <2>1 DEF Typed, Accounts
  <2>2. CASE entries[o] # None
    BY <1>1, <1>4, <2>2 DEF Typed
  <2> QED
    BY <2>1, <2>2
<1>6. /\ pc'[r] = "done" /\ job'[r] = NoJob
      /\ \A q \in Requests \ {r} : pc'[q] = pc[q] /\ job'[q] = job[q]
      /\ pc' \in [Requests -> Steps] /\ job' \in [Requests -> Jobs]
  BY <1>1, <1>4, GotoMoves, NoJobTyped DEF Steps
<1>7. \A p : RowOf(p)' = RowOf(p)
  BY <1>4 DEF RowOf
<1>8. \A p \in Pairs : ~Holds(r, p) /\ (Dropt(r, p) <=> p = o)
  BY <1>1, <1>2 DEF Holds, Dropt
<1>9. ASSUME NEW p \in Pairs, p # o, Agreed(p) PROVE Agreed(p)'
  BY <1>5, <1>6, <1>7, <1>8, <1>9, Aside, DoneShaped
<1>10. ASSUME Clean(o), Agreed(o) PROVE Agreed(o)'
  <2>1. PICK w \in rows : w.pair = o /\ w.tenant = job[r].tenant
    BY <1>8, <1>10 DEF Agreed, HasRow
  <2>2. job[r].abort
    BY <1>1, <1>8, <1>10 DEF Agreed
  <2>3. ASSUME NEW q \in Requests PROVE ~Holds(q, o)
    BY <1>2, <1>3, <1>8, <1>10, <2>2, WorksAlone
  <2>4. RowOf(o) = {w}
    BY <1>1, <2>1 DEF RowOf, Distinct
  <2>5. ASSUME NEW q \in Requests
        PROVE  ~Drops(q, o)' /\ ~Dropt(q, o)' /\ ~Adopts(q, o)' /\ ~Awaits(q, o)' /\ ~Holds(q, o)'
    <3>1. CASE q = r
      BY <1>6, <3>1, DoneShaped
    <3>2. CASE q # r
      <4>1. pc'[q] = pc[q] /\ job'[q] = job[q]
        BY <1>6, <3>2
      <4>2. ~Dropt(q, o) /\ ~Drops(q, o) /\ ~Adopts(q, o) /\ ~Awaits(q, o)
        BY <1>2, <1>3, <1>10, <3>2, WorksAlone
      <4> QED
        BY <2>3, <4>1, <4>2, OthersSame
    <3> QED
      BY <3>1, <3>2
  <2>6. entries'[o] = job[r].tenant /\ ~Held(o)'
    BY <1>5, <1>8, <1>10, <2>3, <2>5 DEF Agreed, Held
  <2> QED
    BY <1>7, <2>1, <2>4, <2>5, <2>6 DEF Agreed
<1>11. \A p \in Pairs : p \notin Aims(r) => entries'[p] = entries[p] /\ RowOf(p)' = RowOf(p)
  BY <1>3, <1>5, <1>7
<1>12. \A p \in Pairs : Clean(p) /\ Agreed(p) => Agreed(p)'
  <2> SUFFICES ASSUME NEW p \in Pairs, Clean(p), Agreed(p) PROVE Agreed(p)'
    OBVIOUS
  <2>1. CASE p = o
    BY <1>10, <2>1
  <2> QED
    BY <1>9, <2>1
<1>13. /\ hurt \subseteq hurt' /\ hurt' \in SUBSET Pairs /\ rows' \in SUBSET Row /\ doc' = doc
       /\ Distinct(rows')
  BY <1>1, <1>4 DEF Typed
<1> QED
  BY <1>5, <1>6, <1>11, <1>12, <1>13, DoneShaped, OneMoves

\* The listing is what PowerDNS has, for as long as nobody else is there.
LEMMA ListInv ==
    ASSUME SuperInv, Overlapping, NEW r \in Requests, ListSupermasters(r)
    PROVE  SuperInv'
<1>1. Typed /\ Distinct(rows) /\ Shaped(r) /\ pc[r] = "list" /\ job[r] \in Jobs
  BY DEF SuperInv, ListSupermasters, Typed
<1>2. PICK j : j = [job[r] EXCEPT !.live = [p \in Pairs |-> IF p \in job[r].want THEN entries[p] ELSE None]]
  OBVIOUS
<1>3. Goto(r, "next", j) /\ UNCHANGED <<rows, entries, doc, hurt>>
  BY <1>2 DEF ListSupermasters
<1>4. [p \in Pairs |-> IF p \in job[r].want THEN entries[p] ELSE None] \in [Pairs -> Accounts \cup {None}]
  BY <1>1 DEF Typed
<1>5. /\ j \in Jobs /\ j.op = job[r].op /\ j.tenant = job[r].tenant /\ j.origin = job[r].origin
      /\ j.abort = job[r].abort /\ j.want = job[r].want /\ j.todo = job[r].todo
      /\ j.live = [p \in Pairs |-> IF p \in job[r].want THEN entries[p] ELSE None]
  BY <1>1, <1>2, <1>4 DEF Jobs
<1>6. /\ pc'[r] = "next" /\ job'[r] = j
      /\ \A q \in Requests \ {r} : pc'[q] = pc[q] /\ job'[q] = job[q]
      /\ pc' \in [Requests -> Steps] /\ job' \in [Requests -> Jobs]
  BY <1>1, <1>3, <1>5, GotoMoves DEF Steps
<1>7. Shaped(r)'
  BY <1>1, <1>5, <1>6 DEF Shaped, Distinct
<1>8. \A p \in Pairs : entries'[p] = entries[p] /\ RowOf(p)' = RowOf(p)
  BY <1>3 DEF RowOf
<1>9. \A p \in Pairs : p \in job[r].want => job'[r].live[p] = entries[p]
  BY <1>5, <1>6
<1>10. ASSUME NEW p \in Pairs
       PROVE  /\ ~Holds(r, p) /\ ~Holds(r, p)' /\ ~Dropt(r, p) /\ ~Dropt(r, p)'
              /\ ~Drops(r, p)' /\ ~Adopts(r, p)'
  BY <1>1, <1>6 DEF Holds, Dropt, Drops, Adopts
<1>11. ASSUME NEW p \in Pairs
       PROVE  (Awaits(r, p)' => job'[r].live[p] = entries[p]) /\ (p \in job[r].want => Awaits(r, p)')
  BY <1>1, <1>5, <1>6, <1>9 DEF Awaits, Shaped
<1>12. ASSUME NEW p \in Pairs, Agreed(p) PROVE Agreed(p)'
  BY <1>6, <1>8, <1>10, <1>11, <1>12, Aside
<1>13. ASSUME NEW p \in Pairs PROVE OnTrack(r, p)'
  BY <1>5, <1>6, <1>8, <1>11 DEF OnTrack
<1> QED
  BY <1>1, <1>3, <1>6, <1>7, <1>8, <1>12, <1>13, OneMoves DEF Typed

LEMMA EndImportInv ==
    ASSUME SuperInv, Overlapping, NEW r \in Requests, EndImport(r)
    PROVE  SuperInv'
<1>1. \A p \in Pairs : ~Holds(r, p) /\ ~Dropt(r, p)
  BY DEF EndImport, Holds, Dropt
<1>2. hurt \subseteq hurt' /\ hurt' \in SUBSET Pairs
  BY DEF EndImport, SuperInv, Typed
<1> QED
  BY <1>1, <1>2, NoJobTyped, Leaves DEF EndImport

LEMMA CancelInv ==
    ASSUME SuperInv, Overlapping, NEW r \in Requests, Cancel(r)
    PROVE  SuperInv'
<1>1. \A p \in Pairs : Holds(r, p) \/ Dropt(r, p) => p \in hurt'
  BY DEF Cancel, Holds, Dropt, HalfDone
<1>2. hurt \subseteq hurt' /\ hurt' \in SUBSET Pairs
  BY DEF Cancel, SuperInv, Typed, HalfDone, Shaped
<1> QED
  BY <1>1, <1>2, NoJobTyped, Leaves DEF Cancel

\* The next row of the document.
LEMMA ImportRowInv ==
    ASSUME SuperInv, Overlapping, NEW r \in Requests, NEW w \in job[r].todo, ImportRow(r, w)
    PROVE  SuperInv'
<1>1. Typed /\ Distinct(rows) /\ Shaped(r) /\ pc[r] = "next" /\ job[r] \in Jobs
  BY DEF SuperInv, ImportRow, Typed
<1>2. /\ job[r].op = "import" /\ ~job[r].abort /\ job[r].tenant \in Tenants /\ job[r].origin \in Tenants
      /\ Distinct(job[r].todo) /\ \A v \in job[r].todo : v.pair \in job[r].want
  BY <1>1 DEF Shaped
<1>3. PICK o \in Pairs : o = w.pair /\ w.id \in RowIds /\ w.id[2] = o
  BY <1>1, <1>2 DEF Jobs, Row, Distinct
<1>4. PICK j : j = [job[r] EXCEPT !.todo = @ \ {w}, !.id = w.id, !.pair = w.pair, !.touched = FALSE]
  OBVIOUS
<1>5. /\ j \in Jobs /\ j.op = "import" /\ j.tenant = job[r].tenant /\ j.origin = job[r].origin
      /\ ~j.abort /\ ~j.touched /\ j.want = job[r].want /\ j.live = job[r].live
      /\ j.todo = job[r].todo \ {w} /\ j.id = w.id /\ j.pair = o
  BY <1>1, <1>2, <1>3, <1>4 DEF Jobs
<1>6. PICK step \in {"next", "post", "insert"} :
          /\ Goto(r, step, j)
          /\ \/ step = "next" /\ \E v \in rows : v.id = w.id
             \/ step = "post" /\ job[r].live[o] = None
             \/ step = "insert" /\ OwnAccount(r, job[r].live[o])
             \/ step = "next" /\ job[r].live[o] # None /\ ~OwnAccount(r, job[r].live[o])
  BY <1>3, <1>4 DEF ImportRow
<1>7. /\ pc'[r] = step /\ job'[r] = j
      /\ \A q \in Requests \ {r} : pc'[q] = pc[q] /\ job'[q] = job[q]
      /\ pc' \in [Requests -> Steps] /\ job' \in [Requests -> Jobs]
  BY <1>1, <1>5, <1>6, GotoMoves DEF Steps
<1>8. UNCHANGED <<rows, entries, doc, hurt>>
  BY DEF ImportRow
<1>9. \A p \in Pairs : entries'[p] = entries[p] /\ RowOf(p)' = RowOf(p)
  BY <1>8 DEF RowOf
<1>10. Distinct(j.todo) /\ \A v \in j.todo : v \in job[r].todo /\ v.pair # o
  BY <1>2, <1>3, <1>5 DEF Distinct
<1>11. Shaped(r)'
  BY <1>2, <1>3, <1>5, <1>7, <1>10 DEF Shaped, Distinct
<1>12. ASSUME NEW p \in Pairs
       PROVE  /\ ~Holds(r, p) /\ ~Holds(r, p)' /\ ~Dropt(r, p) /\ ~Dropt(r, p)' /\ ~Drops(r, p)'
              /\ Adopts(r, p)' => p = o /\ step = "insert"
  BY <1>1, <1>5, <1>7 DEF Holds, Dropt, Drops, Adopts
<1>13. ASSUME NEW p \in Pairs
       PROVE  /\ Awaits(r, p)' => Awaits(r, p)
              /\ p # o /\ Awaits(r, p) => Awaits(r, p)'
              /\ Awaits(r, o)
  BY <1>1, <1>2, <1>3, <1>5, <1>7, <1>10 DEF Awaits
<1>14. ASSUME NEW p \in Pairs, Agreed(p) PROVE Agreed(p)'
  <2>1. Awaits(r, p)' => job'[r].live[p] = entries[p]
    BY <1>5, <1>7, <1>13, <1>14 DEF Agreed
  <2>2. Adopts(r, p)' => entries[p] \in Tenants \cup {Unset}
    <3>1. SUFFICES ASSUME Adopts(r, p)' PROVE entries[p] \in Tenants \cup {Unset}
      OBVIOUS
    <3>2. p = o /\ OwnAccount(r, job[r].live[o]) /\ job[r].live[o] = entries[o]
      BY <1>6, <1>12, <1>13, <1>14, <3>1 DEF Agreed
    <3> QED
      BY <1>2, <3>2 DEF OwnAccount
  <2> QED
    BY <1>7, <1>9, <1>12, <1>14, <2>1, <2>2, Aside
<1>15. ASSUME NEW p \in Pairs PROVE OnTrack(r, p)'
  <2>1. OnTrack(r, p) /\ (<<r, p>> \notin twice' => <<r, p>> \notin twice)
    BY <1>1, OnRecord DEF SuperInv
  <2>2. CASE p # o
    BY <1>1, <1>2, <1>5, <1>7, <1>9, <1>13, <2>1, <2>2 DEF OnTrack
  <2>3. CASE p = o
    <3>1. SUFFICES ASSUME job[r].live[o] = entries[o] PROVE OnTrack(r, p)'
      BY <1>1, <1>2, <1>5, <1>7, <1>9, <2>1, <2>3 DEF OnTrack
    <3>2. CASE step = "next" /\ \E v \in rows : v.id = w.id
      <4>1. PICK v \in rows : v.id = w.id
        BY <3>2
      <4>2. v.pair = o
        BY <1>1, <1>3, <4>1 DEF Distinct
      <4>3. RowOf(o) # {}
        BY <4>2 DEF RowOf
      <4> QED
        BY <1>9, <2>3, <4>3 DEF OnTrack
    <3>3. CASE step = "post" /\ job[r].live[o] = None
      BY <1>5, <1>7, <1>9, <2>3, <3>1, <3>3 DEF OnTrack
    <3>4. CASE step = "insert"
      BY <1>5, <1>7, <2>3, <3>4 DEF OnTrack
    <3>5. CASE step = "next" /\ job[r].live[o] # None /\ ~OwnAccount(r, job[r].live[o])
      <4>1. entries'[o] \notin {None, Unset, job[r].tenant, job[r].origin}
        BY <1>9, <3>1, <3>5 DEF OwnAccount
      <4> QED
        BY <1>5, <1>7, <2>3, <3>5, <4>1 DEF OnTrack
    <3> QED
      BY <1>6, <3>2, <3>3, <3>4, <3>5
  <2> QED
    BY <2>2, <2>3
<1> QED
  BY <1>1, <1>7, <1>8, <1>9, <1>11, <1>14, <1>15, OneMoves DEF Typed

-----------------------------------------------------------------------------
(* Disturbances.                                                           *)

\* A Delete turns to putting its entry back.
LEMMA ToRestore ==
    ASSUME SuperInv, Overlapping, NEW r \in Requests, pc[r] = "erase",
           NEW j \in Jobs, j = [job[r] EXCEPT !.abort = TRUE], Goto(r, "restore", j),
           UNCHANGED <<rows, entries, doc, hurt>>
    PROVE  SuperInv'
<1>1. Typed /\ Distinct(rows) /\ Shaped(r) /\ job[r] \in Jobs
  BY DEF SuperInv, Typed
<1>2. /\ pc'[r] = "restore" /\ job'[r] = j
      /\ \A q \in Requests \ {r} : pc'[q] = pc[q] /\ job'[q] = job[q]
      /\ pc' \in [Requests -> Steps] /\ job' \in [Requests -> Jobs]
  BY <1>1, GotoMoves DEF Steps
<1>3. j.op = job[r].op /\ j.tenant = job[r].tenant /\ j.id = job[r].id /\ j.pair = job[r].pair /\ j.abort
  BY <1>1 DEF Jobs
<1>4. Shaped(r)'
  BY <1>1, <1>2, <1>3 DEF Shaped
<1>5. \A p \in Pairs : entries'[p] = entries[p] /\ RowOf(p)' = RowOf(p)
  BY DEF RowOf
<1>6. ASSUME NEW p \in Pairs, Agreed(p) PROVE Agreed(p)'
  <2>1. ASSUME NEW q \in Requests
        PROVE  /\ Holds(q, p)' <=> Holds(q, p)
               /\ Dropt(q, p)' <=> Dropt(q, p)
               /\ Holds(q, p) => job'[q].tenant = job[q].tenant
               /\ Dropt(q, p) => HasRow(q, p)' /\ (pc'[q] = "restore" => job'[q].abort)
               /\ Drops(q, p)' => HasRow(q, p)'
               /\ Adopts(q, p)' => entries[p] \in Tenants \cup {Unset}
               /\ Awaits(q, p)' => job'[q].live[p] = entries[p]
    <3>1. CASE q = r
      <4>1. /\ ~Holds(r, p) /\ ~Holds(r, p)' /\ ~Drops(r, p)' /\ ~Adopts(r, p)' /\ ~Awaits(r, p)'
            /\ Dropt(r, p)' <=> Dropt(r, p)
        BY <1>2, <1>3 DEF Holds, Dropt, Drops, Adopts, Awaits
      <4>2. HasRow(r, p) => HasRow(r, p)'
        BY <1>2, <1>3 DEF HasRow
      <4> QED
        BY <1>2, <1>3, <1>6, <3>1, <4>1, <4>2 DEF Agreed
    <3>2. CASE q # r
      <4>1. pc'[q] = pc[q] /\ job'[q] = job[q]
        BY <1>2, <3>2
      <4> QED
        BY <1>5, <1>6, <4>1, OthersSame DEF Agreed
    <3> QED
      BY <3>1, <3>2
  <2> QED
    BY <1>5, <1>6, <2>1, Untouched
<1>7. ASSUME NEW p \in Pairs PROVE OnTrack(r, p)'
  BY <1>2 DEF OnTrack
<1> QED
  BY <1>1, <1>2, <1>4, <1>5, <1>6, <1>7, OneMoves DEF Typed

LEMMA CallFailsInv ==
    ASSUME SuperInv, Overlapping, NEW r \in Requests, CallFails(r)
    PROVE  SuperInv'
<1>1. Typed /\ Shaped(r) /\ job[r] \in Jobs /\ UNCHANGED <<rows, entries, doc>>
  BY DEF SuperInv, Typed, CallFails
<1>2. PICK j : j = [job[r] EXCEPT !.abort = @ \/ pc[r] # "undo"]
  OBVIOUS
<1>3. /\ j \in Jobs /\ j = [job[r] EXCEPT !.abort = j.abort] /\ (pc[r] = "undo" => j = job[r])
      /\ pc[r] # "undo" => j.abort /\ j = [job[r] EXCEPT !.abort = TRUE]
  <2>1. CASE pc[r] = "undo"
    BY <1>1, <1>2, <2>1 DEF Jobs
  <2>2. CASE pc[r] # "undo"
    BY <1>1, <1>2, <2>2 DEF Jobs
  <2> QED
    BY <2>1, <2>2
<1>4. Goto(r, AfterFailure(r), j)
  BY <1>2 DEF CallFails, Fails
<1>5. /\ hurt \subseteq hurt' /\ hurt' \in SUBSET Pairs
      /\ pc[r] \in {"undo", "restore"} => job[r].pair \in hurt'
      /\ pc[r] = "erase" /\ ~job[r].touched => job[r].pair \in hurt'
      /\ pc[r] = "insert" \/ (pc[r] = "erase" /\ job[r].touched) => hurt' = hurt
  BY <1>1 DEF CallFails, Shaped, Typed
<1>6. CASE pc[r] = "insert" /\ job[r].touched
  <2>1. AfterFailure(r) = "undo"
    BY <1>6 DEF AfterFailure
  <2> QED
    BY <1>1, <1>3, <1>4, <1>5, <1>6, <2>1, ToUndo
<1>7. CASE pc[r] = "erase" /\ job[r].touched
  <2>1. AfterFailure(r) = "restore"
    BY <1>7 DEF AfterFailure, AfterUnerased
  <2> QED
    BY <1>1, <1>3, <1>4, <1>5, <1>7, <2>1, ToRestore
<1>8. CASE pc[r] = "undo" /\ After(r) = "next"
  <2>1. AfterFailure(r) = "next" /\ job[r].op = "import" /\ ~job[r].abort
    BY <1>8 DEF AfterFailure, After
  <2>2. job[r].pair \in Pairs /\ job[r].pair \in job[r].want /\ ~Awaits(r, job[r].pair)
    BY <1>1, <1>8, <2>1 DEF Shaped, Awaits
  <2>3. RowOf(job[r].pair) # {} \/ <<r, job[r].pair>> \in twice
    BY <1>8, <2>1, <2>2 DEF SuperInv, OnTrack
  <2>4. \A p \in Pairs : Holds(r, p) \/ Dropt(r, p) => p \in hurt'
    BY <1>5, <1>8 DEF Holds, Dropt
  <2> QED
    BY <1>1, <1>3, <1>4, <1>5, <1>8, <2>1, <2>3, <2>4, Leaves
<1>9. CASE ~(pc[r] = "insert" /\ job[r].touched) /\ ~(pc[r] = "erase" /\ job[r].touched)
           /\ ~(pc[r] = "undo" /\ After(r) = "next")
  <2>1. AfterFailure(r) = "done"
    BY <1>9 DEF AfterFailure, AfterUnerased, After
  <2>2. \A p \in Pairs : Holds(r, p) \/ Dropt(r, p) => p \in hurt'
    BY <1>5, <1>9 DEF Holds, Dropt
  <2> QED
    BY <1>1, <1>3, <1>4, <1>5, <2>1, <2>2, Leaves
<1> QED
  BY <1>6, <1>7, <1>8, <1>9

\* The call took effect and the request does not know: the pair is marked.
LEMMA AnswerLostInv ==
    ASSUME SuperInv, Overlapping, NEW r \in Requests, AnswerLost(r)
    PROVE  SuperInv'
<1>1. /\ Typed /\ Distinct(rows) /\ Shaped(r) /\ job[r] \in Jobs
      /\ pc[r] \in {"post", "insert", "drop", "erase"}
  BY DEF SuperInv, Typed, AnswerLost
<1>2. PICK o \in Pairs : o = job[r].pair /\ job[r].tenant \in Tenants /\ job[r].id \in RowIds /\ job[r].id[2] = o
  BY <1>1 DEF Shaped
<1>3. o \in Aims(r)
  BY <1>1, <1>2, AimsAt
<1>4. hurt' = hurt \cup {o} /\ doc' = doc
  BY <1>2 DEF AnswerLost
<1>5. PICK j : j = [job[r] EXCEPT !.abort = TRUE]
  OBVIOUS
<1>6. /\ j \in Jobs /\ j.abort /\ j.op = job[r].op /\ j.tenant = job[r].tenant /\ j.id = job[r].id
      /\ j.pair = o /\ j.touched = job[r].touched /\ j.origin = job[r].origin /\ j.want = job[r].want
      /\ j.todo = job[r].todo /\ j.live = job[r].live
      /\ j = [job[r] EXCEPT !.abort = @ \/ pc[r] # "undo"]
  BY <1>1, <1>2, <1>5 DEF Jobs
<1>7. PICK step \in {"done", "undo", "restore"} :
          /\ Goto(r, step, j)
          /\ step = "undo" => pc[r] = "insert" /\ job[r].touched
          /\ step = "restore" => pc[r] = "erase"
  <2>1. Goto(r, AfterFailure(r), j)
    BY <1>6 DEF AnswerLost, Fails
  <2>2. /\ AfterFailure(r) \in {"done", "undo", "restore"}
        /\ AfterFailure(r) = "undo" => pc[r] = "insert" /\ job[r].touched
        /\ AfterFailure(r) = "restore" => pc[r] = "erase"
    BY <1>1 DEF AfterFailure, AfterUnerased
  <2> QED
    BY <2>1, <2>2
<1>8. /\ pc'[r] = step /\ job'[r] = (IF step = "done" THEN NoJob ELSE j)
      /\ \A q \in Requests \ {r} : pc'[q] = pc[q] /\ job'[q] = job[q]
      /\ pc' \in [Requests -> Steps] /\ job' \in [Requests -> Jobs]
  BY <1>1, <1>6, <1>7, GotoMoves, NoJobTyped DEF Steps
<1>9. /\ entries' \in [Pairs -> Accounts \cup {None}]
      /\ \A p \in Pairs : p # o => entries'[p] = entries[p]
  <2>1. \/ entries' = entries \/ entries' = [entries EXCEPT ![o] = None]
        \/ entries' = [entries EXCEPT ![o] = job[r].tenant]
    BY <1>2 DEF AnswerLost
  <2> QED
    BY <1>1, <1>2, <2>1 DEF Typed, Accounts
<1>10. /\ rows' \in SUBSET Row /\ Distinct(rows')
       /\ \A p \in Pairs : p # o => RowOf(p)' = RowOf(p)
  <2>1. \/ rows' = rows
        \/ Free(r) /\ rows' = rows \cup {NewRow(r)}
        \/ rows' = rows \ Mine(r)
    BY DEF AnswerLost
  <2>2. CASE rows' = rows
    BY <1>1, <2>2 DEF Typed, RowOf
  <2>3. CASE Free(r) /\ rows' = rows \cup {NewRow(r)}
    <3>1. PICK w : w = NewRow(r)
      OBVIOUS
    <3>2. w \in Row /\ w.pair = o /\ w.id[2] = o
      BY <1>2, <3>1 DEF NewRow, Row
    <3>3. rows' = rows \cup {w} /\ \A v \in rows : v.pair # o
      BY <1>2, <2>3, <3>1 DEF Free
    <3> QED
      BY <1>1, <3>2, <3>3 DEF Typed, Distinct, RowOf
  <2>4. CASE rows' = rows \ Mine(r)
    <3>1. \A w \in Mine(r) : w \in rows /\ w.pair = o
      BY <1>1, <1>2 DEF Mine, Distinct
    <3> QED
      BY <1>1, <2>4, <3>1 DEF Typed, Distinct, RowOf
  <2> QED
    BY <2>1, <2>2, <2>3, <2>4
<1>11. Shaped(r)' /\ \A p \in Pairs : p # o => /\ ~Holds(r, p)' /\ ~Dropt(r, p)' /\ ~Drops(r, p)'
                                               /\ ~Adopts(r, p)' /\ (Awaits(r, p)' => Awaits(r, p))
  <2>1. CASE step = "done"
    BY <1>8, <2>1, DoneShaped
  <2>2. CASE step # "done"
    <3>1. pc'[r] = step /\ job'[r] = j
      BY <1>8, <2>2
    <3>2. Shaped(r)'
      BY <1>1, <1>2, <1>6, <1>7, <2>2, <3>1 DEF Shaped, Distinct
    <3> QED
      BY <1>6, <1>7, <2>2, <3>1, <3>2 DEF Holds, Dropt, Drops, Adopts, Awaits
  <2> QED
    BY <2>1, <2>2
<1>12. ASSUME NEW p \in Pairs, Agreed(p), p \notin hurt' PROVE Agreed(p)'
  <2>1. p # o
    BY <1>4, <1>12
  <2>2. ~Holds(r, p) /\ ~Dropt(r, p)
    BY <1>2, <2>1 DEF Holds, Dropt
  <2>3. Awaits(r, p)' => job'[r].live[p] = entries[p]
    <3>1. Awaits(r, p)' => job'[r].live = job[r].live
      BY <1>6, <1>8, DoneShaped
    <3> QED
      BY <1>11, <1>12, <2>1, <3>1 DEF Agreed
  <2> QED
    BY <1>8, <1>9, <1>10, <1>11, <1>12, <2>1, <2>2, <2>3, Aside
<1>13. ASSUME NEW p \in Pairs PROVE OnTrack(r, p)'
  <2>1. CASE step # "undo"
    BY <1>8, <2>1 DEF OnTrack
  <2>2. CASE step = "undo" /\ p = o
    BY <1>6, <1>8, <2>2 DEF OnTrack
  <2>3. CASE step = "undo" /\ p # o
    <3>1. pc[r] = "insert" /\ pc'[r] = "undo" /\ job'[r] = j
      BY <1>7, <1>8, <2>3
    <3>2. /\ job'[r].op = job[r].op /\ job'[r].tenant = job[r].tenant /\ job'[r].origin = job[r].origin
          /\ job'[r].pair = job[r].pair /\ job'[r].want = job[r].want /\ job'[r].todo = job[r].todo
          /\ job'[r].live = job[r].live /\ p # job[r].pair
      BY <1>2, <1>6, <2>3, <3>1
    <3>3. entries'[p] = entries[p] /\ RowOf(p)' = RowOf(p)
      BY <1>9, <1>10, <2>3
    <3> QED
      BY <3>1, <3>2, <3>3, KeepsTrack
  <2> QED
    BY <2>1, <2>2, <2>3
<1>14. hurt \subseteq hurt' /\ hurt' \in SUBSET Pairs
  BY <1>1, <1>4 DEF Typed
<1>15. \A p \in Pairs : p \notin Aims(r) => entries'[p] = entries[p] /\ RowOf(p)' = RowOf(p)
  BY <1>3, <1>9, <1>10
<1> QED
  BY <1>4, <1>8, <1>9, <1>10, <1>11, <1>12, <1>13, <1>14, <1>15, OneMoves

\* The process stops: what was half done is marked, and nobody is at work.
LEMMA CrashInv ==
    ASSUME SuperInv, Overlapping, Crash
    PROVE  SuperInv'
<1>1. Typed /\ Distinct(rows) /\ Distinct(doc.rows) /\ \A r \in Requests : Shaped(r)
  BY DEF SuperInv
<1>2. UNCHANGED <<rows, entries, doc>>
  BY DEF Crash
<1>3. \A r \in Requests : pc'[r] \in {"idle", "done"} /\ job'[r] = NoJob
  BY <1>1 DEF Crash, Active, Typed
<1>4. hurt \subseteq hurt' /\ hurt' \in SUBSET Pairs
      /\ \A r \in Requests : HalfDone(r) => job[r].pair \in hurt'
  BY <1>1 DEF Crash, HalfDone, Shaped, Typed
<1>5. Met' /\ twice \subseteq twice' /\ twice' \in SUBSET (Requests \X Pairs)
  BY <1>1, OnRecord
<1>6. Typed'
  <2>1. pc' \in [Requests -> Steps] /\ job' \in [Requests -> Jobs]
    BY <1>1, NoJobTyped DEF Crash, Typed, Steps
  <2> QED
    BY <1>1, <1>2, <1>4, <1>5, <2>1 DEF Typed
<1>7. ASSUME NEW r \in Requests, NEW p
      PROVE  /\ Shaped(r)' /\ ~Holds(r, p)' /\ ~Dropt(r, p)' /\ ~Drops(r, p)' /\ ~Adopts(r, p)'
             /\ ~Awaits(r, p)' /\ OnTrack(r, p)'
  <2>1. pc'[r] \in {"idle", "done"} /\ job'[r] = NoJob
    BY <1>3
  <2> QED
    BY <2>1 DEF Shaped, NoJob, Holds, Dropt, Drops, Adopts, Awaits, OnTrack
<1>8. ASSUME NEW p \in Pairs, Clean(p)' PROVE Agreed(p)'
  <2>1. Clean(p) /\ p \notin hurt'
    BY <1>4, <1>5, <1>8 DEF Clean
  <2>2. Agreed(p)
    BY <2>1 DEF SuperInv
  <2>3. ASSUME NEW q \in Requests PROVE ~Holds(q, p) /\ ~Dropt(q, p)
    BY <1>4, <2>1 DEF Holds, Dropt, HalfDone
  <2>4. entries'[p] = entries[p] /\ RowOf(p)' = RowOf(p)
    BY <1>2 DEF RowOf
  <2> QED
    BY <1>7, <2>2, <2>3, <2>4, Untouched
<1>9. Distinct(rows)' /\ Distinct(doc.rows)'
  BY <1>1, <1>2 DEF Distinct
<1> QED
  BY <1>5, <1>6, <1>7, <1>8, <1>9 DEF SuperInv

\* Nobody moves, but a document may be made.
LEMMA RestInv ==
    ASSUME SuperInv, UNCHANGED <<rows, entries, pc, job, hurt>>, Overlapping \/ twice' = twice,
           doc' = doc \/ \E t \in Tenants : doc'.origin = t /\ doc'.rows = {w \in rows : w.tenant = t}
    PROVE  SuperInv'
<1>1. Typed /\ Met /\ Distinct(rows) /\ Distinct(doc.rows)
  BY DEF SuperInv
<1>2. Met' /\ twice \subseteq twice' /\ twice' \in SUBSET (Requests \X Pairs)
  <2>1. CASE Overlapping
    BY <1>1, <2>1, OnRecord
  <2>2. CASE twice' = twice
    BY <1>1, <2>2 DEF Met, Typed, Aims, Active, Clashes
  <2> QED
    BY <2>1, <2>2
<1>3. doc'.origin \in Tenants /\ doc'.rows \in SUBSET Row /\ Distinct(doc'.rows)
  BY <1>1 DEF Typed, Distinct
<1>4. Typed'
  BY <1>1, <1>2, <1>3 DEF Typed
<1>5. Distinct(rows)' /\ Distinct(doc.rows)'
  BY <1>1, <1>3 DEF Distinct
<1>6. ASSUME NEW r \in Requests PROVE Shaped(r)'
  BY DEF SuperInv, Shaped, Distinct
<1>7. ASSUME NEW p \in Pairs, Clean(p)' PROVE Agreed(p)'
  <2>1. Agreed(p)
    BY <1>2, <1>7 DEF Clean, SuperInv
  <2>2. RowOf(p)' = RowOf(p)
    BY DEF RowOf
  <2> QED
    BY <2>1, <2>2, OthersSame, Untouched DEF Agreed
<1>8. ASSUME NEW r \in Requests, NEW p \in Pairs PROVE OnTrack(r, p)'
  <2>1. OnTrack(r, p) /\ RowOf(p)' = RowOf(p) /\ (Awaits(r, p)' <=> Awaits(r, p))
    BY DEF SuperInv, RowOf, Awaits
  <2> QED
    BY <1>2, <2>1 DEF OnTrack
<1> QED
  BY <1>2, <1>4, <1>5, <1>6, <1>7, <1>8 DEF SuperInv

-----------------------------------------------------------------------------
(* The theorems.                                                           *)

LEMMA SuperInvInit == Init => SuperInv
<1> SUFFICES ASSUME Init PROVE SuperInv
  OBVIOUS
<1>1. PICK t \in Tenants, old \in SUBSET Pairs :
          doc.origin = t /\ doc.rows = {[id |-> <<None, p>>, tenant |-> t, pair |-> p] : p \in old}
  BY DEF Init
<1>2. doc.rows \in SUBSET Row /\ Distinct(doc.rows)
  BY <1>1 DEF Row, RowIds, Distinct
<1>3. rows = {} /\ entries \in [Pairs -> {None, Unset, Foreign}] /\ hurt = {} /\ twice = {}
  BY DEF Init
<1>4. \A r \in Requests : pc[r] = "idle" /\ job[r] = NoJob
  BY DEF Init
<1>5. Typed
  BY <1>1, <1>2, <1>3, NoJobTyped DEF Init, Typed, Accounts, Steps
<1>6. Distinct(rows) /\ Met
  <2>1. ASSUME NEW r \in Requests PROVE Aims(r) = {}
    <3>1. ~Active(r) /\ job[r].op # "import"
      BY <1>4 DEF Active, NoJob
    <3> QED
      BY <3>1 DEF Aims
  <2> QED
    BY <1>3, <2>1 DEF Distinct, Met
<1>7. ASSUME NEW r \in Requests, NEW p
      PROVE  /\ Shaped(r) /\ ~Holds(r, p) /\ ~Dropt(r, p) /\ ~Drops(r, p) /\ ~Adopts(r, p)
             /\ ~Awaits(r, p) /\ OnTrack(r, p)
  BY <1>4 DEF Shaped, NoJob, Holds, Dropt, Drops, Adopts, Awaits, OnTrack
<1>8. ASSUME NEW p \in Pairs PROVE Agreed(p)
  <2>1. RowOf(p) = {} /\ entries[p] \notin Tenants
    BY <1>3, SupermasterConstants DEF RowOf
  <2> QED
    BY <1>7, <2>1 DEF Agreed
<1> QED
  BY <1>2, <1>5, <1>6, <1>7, <1>8 DEF SuperInv

LEMMA SuperInvStep == SuperInv /\ [Next]_vars => SuperInv'
<1> SUFFICES ASSUME SuperInv, [Next]_vars PROVE SuperInv'
  OBVIOUS
<1>1. CASE UNCHANGED vars
  BY <1>1, RestInv DEF vars
<1>2. CASE Next
  <2>0. Overlapping
    BY <1>2 DEF Next
  <2>1. ASSUME NEW r \in Requests, NEW t \in Tenants, StartImport(r, t) PROVE SuperInv'
    BY <2>0, <2>1, StartImportInv
  <2>2. ASSUME NEW r \in Requests, NEW t \in Tenants, NEW p \in Pairs, StartCreate(r, t, p) PROVE SuperInv'
    BY <2>0, <2>2, StartCreateInv
  <2>3. ASSUME NEW r \in Requests, NEW w \in rows, StartDelete(r, w) PROVE SuperInv'
    BY <2>0, <2>3, StartDeleteInv
  <2>4. ASSUME NEW r \in Requests, Call(r) PROVE SuperInv'
    BY <2>0, <2>4, PostInv, InsertInv, UndoInv, DropInv, EraseInv, RestoreInv, ListInv,
       EndImportInv, ImportRowInv DEF Call
  <2>5. ASSUME NEW r \in Requests, CallFails(r) \/ AnswerLost(r) \/ Cancel(r) PROVE SuperInv'
    BY <2>0, <2>5, CallFailsInv, AnswerLostInv, CancelInv
  <2>6. ASSUME NEW t \in Tenants, Export(t) PROVE SuperInv'
    BY <2>0, <2>6, RestInv DEF Export
  <2>7. CASE Crash
    BY <2>0, <2>7, CrashInv
  <2> QED
    BY <1>2, <2>1, <2>2, <2>3, <2>4, <2>5, <2>6, <2>7 DEF Next, Step
<1> QED
  BY <1>1, <1>2

LEMMA SuperInvHolds == Spec => []SuperInv
BY SuperInvInit, SuperInvStep, PTL DEF Spec

\* Whatever creates, deletes, imports, faults and restarts there are, a pair
\* nobody works on has its row and its entry, under the row's tenant or
\* adopted, or neither: unless a fault interrupted the reversal or requests
\* that clash met on the pair (Supermasters.create and delete, and the import
\* of supermasters).
THEOREM StoresAgreed == Spec => []StoresAgree
<1>1. SuperInv => StoresAgree
  <2> SUFFICES ASSUME SuperInv, NEW p \in Pairs \ hurt, Quiet(p), \A r \in Requests : <<r, p>> \notin twice
               PROVE  IF RowOf(p) = {} THEN entries[p] \notin Tenants
                      ELSE \A w \in RowOf(p) : entries[p] \in {w.tenant, Unset}
    BY DEF StoresAgree
  <2>1. Agreed(p)
    BY DEF SuperInv, Clean
  <2>2. ASSUME NEW r \in Requests PROVE ~Holds(r, p) /\ ~Dropt(r, p)
    BY AimsAt DEF SuperInv, Quiet, Holds, Dropt
  <2> QED
    BY <2>1, <2>2 DEF Agreed, Held
<1> QED
  BY <1>1, SuperInvHolds, PTL

\* An import that gets to its end has restored every pair of the document that
\* no foreign account holds and nobody else worked on (importSupermasters).
THEOREM ImportsRestore == Spec => ImportRestores
<1>1. ASSUME SuperInv, NEW r \in Requests, EndImport(r), NEW p \in job[r].want
      PROVE  \/ RowOf(p) # {} \/ <<r, p>> \in twice
             \/ entries[p] \notin {None, Unset, job[r].tenant, job[r].origin}
  <2>1. pc[r] = "next" /\ job[r].todo = {} /\ Shaped(r) /\ job[r] \in Jobs
    BY <1>1 DEF EndImport, SuperInv, Typed
  <2>2. p \in Pairs /\ job[r].op = "import" /\ ~Awaits(r, p)
    BY <2>1 DEF Shaped, Jobs, Awaits
  <2>3. OnTrack(r, p)
    BY <1>1, <2>2 DEF SuperInv
  <2> QED
    BY <2>1, <2>2, <2>3 DEF OnTrack
<1>2. SuperInv => [\A r \in Requests : EndImport(r) =>
          \A p \in job[r].want :
              \/ RowOf(p) # {} \/ <<r, p>> \in twice
              \/ entries[p] \notin {None, Unset, job[r].tenant, job[r].origin}]_vars
  BY <1>1
<1> QED
  BY <1>2, SuperInvHolds, PTL DEF ImportRestores
=============================================================================
