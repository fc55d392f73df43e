--------------------------- MODULE RecordsProofs ---------------------------
(***************************************************************************)
(* Proofs about the record service, for any zone, requests, inputs,        *)
(* templates and faults.                                                   *)
(***************************************************************************)
EXTENDS Records, TLAPS

\* Zenon first: it is the quicker one wherever there is no arithmetic.
USE ZenonT(2), SMT, Zenon

-----------------------------------------------------------------------------
(* The inductive invariant.                                                *)

IsJob(j) == j = [changes |-> [replace |-> j.changes.replace, delete |-> j.changes.delete],
                 read |-> j.read, zone |-> j.zone]

Shape ==
    /\ pc \in [Writers -> {"idle", "patch", "emit", "post", "done"}]
    /\ job = [w \in Writers |-> job[w]] /\ \A w \in Writers : IsJob(job[w])
    /\ author \in [Keys -> Writers \cup {None}]

\* Two sets of one name of which one is a CNAME.
Clash(e, f) == e.name = f.name /\ e.type = "CNAME" /\ f.type # "CNAME"

\* A request that will send a PATCH writes one set at most, never deletes it,
\* and has seen it in no conflict with the sets that were there.
Validated(w) ==
    LET c == job[w].changes
    IN  /\ \A e, f \in c.replace : e = f
        /\ KeysOf(c.replace) \cap c.delete = {}
        /\ pc[w] = "patch" =>
               \A e \in c.replace, f \in job[w].read :
                   Key(f) \notin Touched(c) => ~Clash(e, f) /\ ~Clash(f, e)

\* A request that will create the zone has expanded a template for it.
Planned(w) == \E t, ns : Expandable(Zone, t) /\ job[w].zone = FromTemplate(t, ns)

\* What a request changed last, it has still to tell.
Credited(w) ==
    \A k \in Keys : author[k] = w =>
        LET c == job[w].changes
        IN  /\ pc[w] \in {"emit", "done"}
            /\ pc[w] = "emit" => /\ k \in Touched(c)
                                 /\ k \in KeysOf(sets) <=> k \in KeysOf(c.replace)

InOrder(w) ==
    /\ pc[w] \in {"patch", "emit"} => Validated(w)
    /\ pc[w] = "post" => Planned(w)
    /\ Credited(w)

RecordsInv ==
    /\ Shape
    /\ \A w \in Writers : InOrder(w)
    /\ CnameAlone
    /\ EventsTell

-----------------------------------------------------------------------------
(* Record sets.                                                            *)

LEMMA Conflict ==
    ASSUME NEW s, NEW n
    PROVE  n \in Conflicting(s) <=> \E e, f \in s : e.name = n /\ Clash(e, f)
  BY DEF Conflicting, At, Clash

\* A template that expands makes no CNAME beside other data, nor at the apex.
LEMMA Expanded ==
    ASSUME NEW z, NEW t, Expandable(z, t), NEW e \in ExpandRecords(z, t)
    PROVE  /\ e = [name |-> e.name, type |-> e.type, ttl |-> e.ttl, values |-> e.values,
                   comment |-> e.comment]
           /\ e.type = "CNAME" => e.name # z
           /\ \A f \in ExpandRecords(z, t) : ~Clash(e, f)
<1>1. PICK g \in Groups(z, t) : e = ReplaceSet(z, g)
  BY DEF ExpandRecords
<1>2. \A h \in Groups(z, t) : ReplaceSet(z, h).name = Qualified(z, h.owner) /\ ReplaceSet(z, h).type = h.type
  BY DEF ReplaceSet
<1>3. RecordSet(z, g, {ReplaceSet(z, h) : h \in Groups(z, t) \ {g}})
  BY DEF Expandable
<1>4. e = [name |-> e.name, type |-> e.type, ttl |-> e.ttl, values |-> e.values, comment |-> e.comment]
  BY <1>1 DEF ReplaceSet
<1>5. e.type = "CNAME" => e.name # z
  BY <1>1, <1>2, <1>3 DEF RecordSet
<1>6. ASSUME NEW f \in ExpandRecords(z, t), Clash(e, f) PROVE FALSE
  <2>1. PICK h \in Groups(z, t) : f = ReplaceSet(z, h)
    BY DEF ExpandRecords
  <2>2. h # g
    BY <1>1, <1>6, <2>1 DEF Clash
  <2>3. f \in {ReplaceSet(z, i) : i \in Groups(z, t) \ {g}}
    BY <2>1, <2>2
  <2>4. CnameRule(e.name, e.type, {ReplaceSet(z, i) : i \in Groups(z, t) \ {g}})
    BY <1>1, <1>2, <1>3 DEF RecordSet
  <2> QED
    BY <1>6, <2>3, <2>4 DEF CnameRule, Clash
<1> QED
  BY <1>4, <1>5, <1>6

\* The sets the server and the merge of the nameservers add change nothing
\* about that.
LEMMA CreatedAlone ==
    ASSUME NEW t, NEW ns, Expandable(Zone, t)
    PROVE  Conflicting(Created(Zone, FromTemplate(t, ns))) = {}
<1> DEFINE X == ExpandRecords(Zone, t)
           m == FromTemplate(t, ns)
           Merged(x) == [x EXCEPT !.values = @ \cup ns]
<1>a. \A x \in X : /\ Merged(x).name = x.name /\ Merged(x).type = x.type
                   /\ x.type = "CNAME" => x.name # Zone
                   /\ \A y \in X : ~Clash(x, y)
  <2>1. ASSUME NEW x \in X PROVE Merged(x).name = x.name /\ Merged(x).type = x.type
    BY Expanded
  <2> QED
    BY <2>1, Expanded
<1>b. m.sets = X \/ m.sets = (X \ ApexNS(Zone, X)) \cup {Merged(s) : s \in ApexNS(Zone, X)}
  BY DEF FromTemplate, mergeApexNS
<1>c. ApexNS(Zone, X) \subseteq X
  BY DEF ApexNS
<1> HIDE DEF X, m, Merged
<1>1. \A e \in m.sets : \E x \in X : e.name = x.name /\ e.type = x.type
  BY <1>a, <1>b, <1>c
<1>2. \A e \in Created(Zone, m) : e \in m.sets \/ (e.name = Zone /\ e.type \in {"SOA", "NS"})
  BY DEF Created, Replaced, Generated
<1>3. ASSUME NEW e \in Created(Zone, m), NEW f \in Created(Zone, m), Clash(e, f) PROVE FALSE
  <2>1. e \in m.sets
    BY <1>2, <1>3 DEF Clash
  <2>2. PICK x \in X : e.name = x.name /\ e.type = x.type
    BY <1>1, <2>1
  <2>3. x.name # Zone
    BY <1>3, <1>a, <2>2 DEF Clash
  <2>4. f \in m.sets
    BY <1>2, <1>3, <2>2, <2>3 DEF Clash
  <2>5. PICK y \in X : f.name = y.name /\ f.type = y.type
    BY <1>1, <2>4
  <2> QED
    BY <1>3, <1>a, <2>2, <2>5 DEF Clash
<1> QED
  BY <1>3, Conflict DEF m

\* What a PATCH does to the keys of the zone.
LEMMA PatchedKeys ==
    ASSUME NEW s, NEW c
    PROVE  /\ \A k : k \notin Touched(c) => (k \in KeysOf(Patched(s, c)) <=> k \in KeysOf(s))
           /\ \A k \in Touched(c) : k \in KeysOf(Patched(s, c)) <=> k \in KeysOf(c.replace)
<1>1. \A e : e \in Patched(s, c) <=> (e \in s /\ Key(e) \notin Touched(c)) \/ e \in c.replace
  BY DEF Patched, Touched, KeysOf
<1>2. \A e \in c.replace : Key(e) \in Touched(c)
  BY DEF Touched, KeysOf
<1> QED
  BY <1>1, <1>2 DEF KeysOf

-----------------------------------------------------------------------------
(* The steps.                                                              *)

LEMMA GotoShape ==
    ASSUME Shape, NEW w \in Writers, NEW step \in {"patch", "emit", "post", "done"}, NEW j, IsJob(j),
           Goto(w, step, j), author' \in [Keys -> Writers \cup {None}]
    PROVE  /\ Shape' /\ pc'[w] = step /\ job'[w] = j
           /\ \A v \in Writers \ {w} : pc'[v] = pc[v] /\ job'[v] = job[v]
<1>1. pc' = [pc EXCEPT ![w] = step] /\ job' = [job EXCEPT ![w] = j]
  BY DEF Goto
<1>2. /\ pc' \in [Writers -> {"idle", "patch", "emit", "post", "done"}] /\ pc'[w] = step
      /\ \A v \in Writers \ {w} : pc'[v] = pc[v]
  BY <1>1 DEF Shape
<1>3. /\ job' = [v \in Writers |-> job'[v]] /\ job'[w] = j
      /\ \A v \in Writers \ {w} : job'[v] = job[v]
  BY <1>1 DEF Shape
<1>4. \A v \in Writers : IsJob(job'[v])
  BY <1>3 DEF Shape
<1> QED
  BY <1>2, <1>3, <1>4 DEF Shape, IsJob

LEMMA EmptyJob == IsJob(NoJob)
  BY DEF IsJob, NoJob

\* The other requests are where they were; what they changed last, if nobody
\* changed it since, is as they left it.
LEMMA OthersInv ==
    ASSUME RecordsInv, NEW w \in Writers,
           \A v \in Writers \ {w} : pc'[v] = pc[v] /\ job'[v] = job[v],
           \A k \in Keys : author'[k] # author[k] => author'[k] = w,
           \A k \in Keys : author'[k] # w => (k \in KeysOf(sets') <=> k \in KeysOf(sets))
    PROVE  \A v \in Writers \ {w} : InOrder(v)'
<1> SUFFICES ASSUME NEW v \in Writers \ {w} PROVE InOrder(v)'
  OBVIOUS
<1>1. /\ pc[v] \in {"patch", "emit"} => Validated(v)
      /\ pc[v] = "post" => Planned(v)
      /\ Credited(v)
  BY DEF RecordsInv, InOrder
<1>2. pc'[v] \in {"patch", "emit"} => Validated(v)'
  BY <1>1 DEF Validated
<1>3. pc'[v] = "post" => Planned(v)'
  BY <1>1 DEF Planned
<1>4. Credited(v)'
  BY <1>1 DEF Credited
<1> QED
  BY <1>2, <1>3, <1>4 DEF InOrder

\* A request goes on, or ends, without touching the zone.
LEMMA QuietInv ==
    ASSUME RecordsInv, NEW w \in Writers, NEW step \in {"patch", "post", "done"}, NEW j, IsJob(j),
           Goto(w, step, j), UNCHANGED <<sets, stale, told, author, doubt>>,
           step # "done" => pc[w] = "idle",
           step = "patch" => Validated(w)', step = "post" => Planned(w)'
    PROVE  RecordsInv'
<1>1. Shape /\ CnameAlone /\ EventsTell /\ Credited(w)
  BY DEF RecordsInv, InOrder
<1>2. /\ Shape' /\ pc'[w] = step /\ job'[w] = j
      /\ \A v \in Writers \ {w} : pc'[v] = pc[v] /\ job'[v] = job[v]
  <2>1. author' \in [Keys -> Writers \cup {None}]
    BY <1>1 DEF Shape
  <2> QED
    BY <1>1, <2>1, GotoShape
<1>3. CnameAlone' /\ EventsTell'
  BY <1>1 DEF CnameAlone, EventsTell
<1>4. Credited(w)'
  BY <1>1, <1>2 DEF Credited
<1>5. \A v \in Writers \ {w} : InOrder(v)'
  BY <1>2, OthersInv
<1> QED
  BY <1>2, <1>3, <1>4, <1>5 DEF RecordsInv, InOrder

\* A validated PATCH puts a CNAME beside other data only where the sets have
\* changed since they were read.
LEMMA AppliedAlone ==
    ASSUME CnameAlone, NEW w \in Writers, pc[w] = "patch", Validated(w), Applied(w)
    PROVE  CnameAlone'
<1> DEFINE c == job[w].changes
           overtaken == {k[1] : k \in {k \in Touched(c) : At(sets, k[1]) # At(job[w].read, k[1])}}
<1>1. sets' = Patched(sets, c) /\ stale' = (stale \cup overtaken) \cap Conflicting(sets')
  BY DEF Applied
<1>2. \A e \in sets' : (e \in sets /\ Key(e) \notin Touched(c)) \/ e \in c.replace
  BY <1>1 DEF Patched, Touched, KeysOf
<1> SUFFICES ASSUME NEW n \in Conflicting(sets') PROVE n \in stale \cup overtaken
  BY <1>1 DEF CnameAlone
<1>3. PICK e \in sets', f \in sets' : e.name = n /\ Clash(e, f)
  BY Conflict
<1>4. CASE e \in sets /\ f \in sets
  BY <1>3, <1>4, Conflict DEF CnameAlone
<1>5. CASE ~(e \in sets /\ f \in sets)
  <2>1. PICK x \in {e, f} : x \in c.replace /\ x.name = n
    BY <1>2, <1>3, <1>5 DEF Clash
  <2>2. Key(x) \in Touched(c) /\ Key(x)[1] = n
    BY <2>1 DEF Touched, KeysOf, Key
  <2>3. CASE At(sets, n) # At(job[w].read, n)
    BY <2>2, <2>3
  <2>4. CASE At(sets, n) = At(job[w].read, n)
    <3>1. ~(e \in c.replace /\ f \in c.replace)
      BY <1>3 DEF Validated, Clash
    <3>2. ASSUME NEW y \in {e, f}, y \notin c.replace
          PROVE  y \in job[w].read /\ Key(y) \notin Touched(c)
      BY <1>2, <1>3, <2>4, <3>2 DEF At, Clash
    <3> QED
      BY <1>2, <1>3, <1>5, <3>1, <3>2 DEF Validated
  <2> QED
    BY <2>3, <2>4
<1> QED
  BY <1>4, <1>5

LEMMA AppliedInv ==
    ASSUME RecordsInv, NEW w \in Writers, pc[w] = "patch", Applied(w), told' = told,
           NEW step \in {"emit", "done"}, NEW j, IsJob(j), Goto(w, step, j),
           step = "emit" => j.changes = job[w].changes
    PROVE  RecordsInv'
<1> DEFINE c == job[w].changes
<1>1. Shape /\ CnameAlone /\ EventsTell /\ Validated(w) /\ Credited(w)
  BY DEF RecordsInv, InOrder
<1>2. /\ sets' = Patched(sets, c) /\ doubt' = doubt \cup Touched(c)
      /\ author' = [k \in Keys |-> IF k \in Touched(c) THEN w ELSE author[k]]
  BY DEF Applied
<1> HIDE DEF c
<1>3. /\ author' \in [Keys -> Writers \cup {None}]
      /\ \A k \in Keys : author'[k] = IF k \in Touched(c) THEN w ELSE author[k]
  BY <1>1, <1>2 DEF Shape
<1>4. /\ Shape' /\ pc'[w] = step /\ job'[w] = j
      /\ \A v \in Writers \ {w} : pc'[v] = pc[v] /\ job'[v] = job[v]
  BY <1>1, <1>3, GotoShape
<1>5. /\ \A k : k \notin Touched(c) => (k \in KeysOf(sets') <=> k \in KeysOf(sets))
      /\ \A k \in Touched(c) : k \in KeysOf(sets') <=> k \in KeysOf(c.replace)
  BY <1>2, PatchedKeys
<1>6. \A k \in Keys : author[k] # w
  BY <1>1 DEF Credited
<1>7. InOrder(w)'
  <2>1. CASE step = "done"
    BY <1>4, <2>1 DEF InOrder, Credited
  <2>2. CASE step = "emit"
    <3>1. job'[w].changes = c
      BY <1>4, <2>2 DEF c
    <3>2. Validated(w)'
      BY <1>1, <1>4, <2>2, <3>1 DEF Validated, c
    <3>3. Credited(w)'
      BY <1>3, <1>4, <1>5, <1>6, <2>2, <3>1 DEF Credited
    <3> QED
      BY <1>4, <2>2, <3>2, <3>3 DEF InOrder
  <2> QED
    BY <2>1, <2>2
<1>8. \A v \in Writers \ {w} : InOrder(v)'
  BY <1>3, <1>4, <1>5, OthersInv
<1>9. CnameAlone'
  BY <1>1, AppliedAlone
<1>10. EventsTell'
  BY <1>1, <1>2, <1>5 DEF EventsTell
<1> QED
  BY <1>4, <1>7, <1>8, <1>9, <1>10 DEF RecordsInv

LEMMA EmitInv ==
    ASSUME RecordsInv, NEW w \in Writers, Emit(w)
    PROVE  RecordsInv'
<1> DEFINE c == job[w].changes
<1>1. Shape /\ CnameAlone /\ EventsTell /\ Credited(w) /\ pc[w] = "emit" /\ Validated(w)
  BY DEF RecordsInv, InOrder, Emit
<1>2. /\ told' = (told \cup KeysOf(c.replace)) \ c.delete
      /\ doubt' = {k \in doubt \cup Touched(c) : author[k] # w}
      /\ Goto(w, "done", NoJob) /\ UNCHANGED <<sets, stale, author>>
  BY DEF Emit
<1>3. KeysOf(c.replace) \cap c.delete = {} /\ Touched(c) = c.delete \cup KeysOf(c.replace)
  BY <1>1 DEF Validated, Touched
<1>4. \A k \in Keys : author[k] = w => k \in Touched(c) /\ (k \in KeysOf(sets) <=> k \in KeysOf(c.replace))
  BY <1>1 DEF Credited
<1> HIDE DEF c
<1>5. /\ Shape' /\ pc'[w] = "done" /\ job'[w] = NoJob
      /\ \A v \in Writers \ {w} : pc'[v] = pc[v] /\ job'[v] = job[v]
  <2>1. author' \in [Keys -> Writers \cup {None}]
    BY <1>1, <1>2 DEF Shape
  <2> QED
    BY <1>1, <1>2, <2>1, GotoShape, EmptyJob
<1>6. InOrder(w)'
  BY <1>5 DEF InOrder, Credited
<1>7. \A v \in Writers \ {w} : InOrder(v)'
  BY <1>2, <1>5, OthersInv
<1>8. CnameAlone'
  BY <1>1, <1>2 DEF CnameAlone
<1>9. EventsTell'
  <2>1. ASSUME NEW k \in Keys, k \notin doubt' PROVE k \in told' <=> k \in KeysOf(sets)
    <3>1. CASE k \in Touched(c)
      BY <1>2, <1>3, <1>4, <2>1, <3>1
    <3>2. CASE k \notin Touched(c)
      <4>1. k \notin doubt
        BY <1>2, <1>4, <2>1, <3>2
      <4> QED
        BY <1>1, <1>2, <1>3, <3>2, <4>1 DEF EventsTell
    <3> QED
      BY <3>1, <3>2
  <2> QED
    BY <1>2, <2>1 DEF EventsTell
<1> QED
  BY <1>5, <1>6, <1>7, <1>8, <1>9 DEF RecordsInv

\* The zone is created or deleted as a whole.
LEMMA WholeInv ==
    ASSUME RecordsInv, NEW w \in Writers, NEW s, Whole(w, s), Conflicting(s) = {}
    PROVE  RecordsInv'
<1>1. Shape
  BY DEF RecordsInv
<1>2. /\ sets' = s /\ told' = KeysOf(s) /\ author' = [k \in Keys |-> w] /\ Goto(w, "done", NoJob)
  BY DEF Whole
<1>3. author' \in [Keys -> Writers \cup {None}] /\ \A k \in Keys : author'[k] = w
  BY <1>2
<1>4. /\ Shape' /\ pc'[w] = "done" /\ job'[w] = NoJob
      /\ \A v \in Writers \ {w} : pc'[v] = pc[v] /\ job'[v] = job[v]
  BY <1>1, <1>2, <1>3, GotoShape, EmptyJob
<1>5. InOrder(w)'
  BY <1>4 DEF InOrder, Credited
<1>6. \A v \in Writers \ {w} : InOrder(v)'
  BY <1>3, <1>4, OthersInv
<1>7. CnameAlone' /\ EventsTell'
  BY <1>2 DEF CnameAlone, EventsTell
<1> QED
  BY <1>4, <1>5, <1>6, <1>7 DEF RecordsInv

-----------------------------------------------------------------------------
(* Requests.                                                               *)

LEMMA PreparedInv ==
    ASSUME RecordsInv, NEW w \in Writers, pc[w] = "idle", NEW replace, NEW delete,
           Prepared(w, replace, delete), \A e, f \in replace : e = f,
           KeysOf(replace) \cap delete = {},
           \A e \in replace, f \in sets :
               Key(f) \notin delete \cup KeysOf(replace) => ~Clash(e, f) /\ ~Clash(f, e)
    PROVE  RecordsInv'
<1>1. PICK j : /\ j = [changes |-> [replace |-> replace, delete |-> delete], read |-> sets,
                       zone |-> [sets |-> {}, ns |-> {}]]
               /\ Goto(w, "patch", j)
  <2>1. NoJob.zone = [sets |-> {}, ns |-> {}]
    BY DEF NoJob
  <2> QED
    BY <2>1 DEF Prepared
<1>2. /\ IsJob(j) /\ j.changes.replace = replace /\ j.changes.delete = delete /\ j.read = sets
      /\ UNCHANGED <<sets, stale, told, author, doubt>>
  BY <1>1 DEF IsJob, Prepared, History
<1>3. job'[w] = j
  BY <1>1 DEF Goto, RecordsInv, Shape
<1>4. Touched(j.changes) = delete \cup KeysOf(replace)
  BY <1>2 DEF Touched
<1>5. Validated(w)'
  BY <1>2, <1>3, <1>4 DEF Validated
<1> QED
  BY <1>1, <1>2, <1>5, QuietInv

LEMMA RecordSetAlone ==
    ASSUME NEW in, NEW existing, RecordSet(Zone, in, existing), NEW f \in existing
    PROVE  ~Clash(ReplaceSet(Zone, in), f) /\ ~Clash(f, ReplaceSet(Zone, in))
  BY DEF RecordSet, CnameRule, ReplaceSet, Clash

LEMMA RequestInv ==
    ASSUME RecordsInv, NEW w \in Writers, Request(w)
    PROVE  RecordsInv'
<1>1. ASSUME NEW in \in Inputs, Upsert(w, in) PROVE RecordsInv'
  <2>1. /\ pc[w] = "idle" /\ RecordSet(Zone, in, sets) /\ Prepared(w, {ReplaceSet(Zone, in)}, {})
    BY <1>1 DEF Upsert
  <2> QED
    BY <2>1, RecordSetAlone, PreparedInv
<1>2. ASSUME NEW o \in Origs, NEW in \in Inputs, Update(w, o, in) PROVE RecordsInv'
  <2>1. PICK old, others, new :
          /\ others = {s \in sets : Key(s) # old} /\ new = ReplaceSet(Zone, in)
          /\ pc[w] = "idle" /\ RecordSet(Zone, in, others)
          /\ Prepared(w, {new}, {old} \ {Key(new)})
    BY <1>2 DEF Update
  <2>a. PICK rep, del : rep = {new} /\ del = {old} \ {Key(new)}
    OBVIOUS
  <2>2. KeysOf({new}) = {Key(new)}
    BY DEF KeysOf
  <2>3. ASSUME NEW f \in sets, Key(f) \notin ({old} \ {Key(new)}) \cup KeysOf({new})
        PROVE  ~Clash(new, f) /\ ~Clash(f, new)
    <3>1. f \in others
      BY <2>1, <2>2, <2>3
    <3> QED
      BY <2>1, <3>1, RecordSetAlone
  <2>4. /\ Prepared(w, rep, del) /\ (\A e, f \in rep : e = f) /\ KeysOf(rep) \cap del = {}
        /\ \A e \in rep, f \in sets :
               Key(f) \notin del \cup KeysOf(rep) => ~Clash(e, f) /\ ~Clash(f, e)
    BY <2>1, <2>a, <2>2, <2>3
  <2> QED
    BY <2>1, <2>4, PreparedInv
<1>3. ASSUME NEW o \in Origs, Delete(w, o) PROVE RecordsInv'
  <2>1. pc[w] = "idle" /\ Prepared(w, {}, {<<Qualified(Zone, o.owner), o.type>>})
    BY <1>3 DEF Delete
  <2>2. KeysOf({}) = {}
    BY DEF KeysOf
  <2> QED
    BY <2>1, <2>2, PreparedInv
<1>4. ASSUME NEW ns \in Nameservers, CreateZone(w, ns) PROVE RecordsInv'
  <2>1. PICK j : /\ j = [changes |-> [replace |-> {}, delete |-> {}], read |-> {},
                         zone |-> FromTemplate(template, ns)]
                 /\ Goto(w, "post", j)
    BY <1>4 DEF CreateZone, NoJob
  <2>2. /\ pc[w] = "idle" /\ Expandable(Zone, template)
        /\ UNCHANGED <<sets, stale, told, author, doubt>>
    BY <1>4 DEF CreateZone, History
  <2>3. IsJob(j) /\ j.zone = FromTemplate(template, ns)
    BY <2>1 DEF IsJob
  <2>4. job'[w] = j
    BY <2>1 DEF Goto, RecordsInv, Shape
  <2>5. Planned(w)'
    BY <2>2, <2>3, <2>4 DEF Planned
  <2> QED
    BY <2>1, <2>2, <2>3, <2>5, QuietInv
<1>5. CASE Refused(w)
  <2>1. Goto(w, "done", NoJob) /\ UNCHANGED <<sets, stale, told, author, doubt>>
    BY <1>5 DEF Refused, History
  <2> QED
    BY <2>1, EmptyJob, QuietInv
<1>6. CASE DeleteZone(w)
  <2>1. Conflicting({}) = {}
    BY Conflict
  <2> QED
    BY <1>6, <2>1, WholeInv DEF DeleteZone
<1> QED
  BY <1>1, <1>2, <1>3, <1>4, <1>5, <1>6 DEF Request

LEMMA StepInv ==
    ASSUME RecordsInv, NEW w \in Writers, Step(w) \/ CutOff(w) \/ AnswerLost(w)
    PROVE  RecordsInv'
<1>1. CASE Patch(w)
  <2>1. PICK j : j = [job[w] EXCEPT !.read = {}] /\ Goto(w, "emit", j)
    BY <1>1 DEF Patch
  <2>2. IsJob(job[w])
    BY DEF RecordsInv, Shape
  <2>3. IsJob(j) /\ j.changes = job[w].changes
    <3>1. PICK r, d, b, z : job[w] = [changes |-> [replace |-> r, delete |-> d], read |-> b, zone |-> z]
      BY <2>2 DEF IsJob
    <3>2. j = [changes |-> [replace |-> r, delete |-> d], read |-> {}, zone |-> z]
      BY <2>1, <3>1
    <3> QED
      BY <3>1, <3>2 DEF IsJob
  <2> QED
    BY <1>1, <2>1, <2>3, AppliedInv DEF Patch
<1>2. CASE AnswerLost(w)
  BY <1>2, EmptyJob, AppliedInv DEF AnswerLost
<1>3. CASE PostZone(w)
  <2>1. Planned(w)
    BY <1>3 DEF PostZone, RecordsInv, InOrder
  <2>2. Conflicting(Created(Zone, job[w].zone)) = {}
    BY <2>1, CreatedAlone DEF Planned
  <2> QED
    BY <1>3, <2>2, WholeInv DEF PostZone
<1>4. CASE PatchMissing(w) \/ PostRefused(w) \/ CutOff(w)
  <2>1. Goto(w, "done", NoJob) /\ UNCHANGED <<sets, stale, told, author, doubt>>
    BY <1>4 DEF PatchMissing, PostRefused, CutOff, History
  <2> QED
    BY <2>1, EmptyJob, QuietInv
<1> QED
  BY <1>1, <1>2, <1>3, <1>4, EmitInv DEF Step

-----------------------------------------------------------------------------
(* The theorems.                                                           *)

LEMMA RecordsInit == Init => RecordsInv
<1> SUFFICES ASSUME Init PROVE RecordsInv
  OBVIOUS
<1>1. Shape
  BY EmptyJob DEF Init, Shape
<1>2. \A w \in Writers : pc[w] \in {"idle", "done"} /\ \A k \in Keys : author[k] # w
  BY RecordsConstants DEF Init
<1>3. \A w \in Writers : InOrder(w)
  BY <1>2 DEF InOrder, Credited
<1>4. CnameAlone
  <2>1. PICK ns \in Nameservers : sets = Created(Zone, [sets |-> {}, ns |-> ns])
    BY DEF Init
  <2>2. \A e \in sets : e.type # "CNAME"
    BY <2>1 DEF Created, Replaced, Generated
  <2> QED
    BY <2>2, Conflict DEF CnameAlone, Clash
<1>5. EventsTell
  BY DEF Init, EventsTell
<1> QED
  BY <1>1, <1>3, <1>4, <1>5 DEF RecordsInv

\* The inductive invariant of the record service.
THEOREM RecordsSound == Spec => []RecordsInv
<1>1. RecordsInv /\ [Next]_vars => RecordsInv'
  <2> SUFFICES ASSUME RecordsInv, [Next]_vars PROVE RecordsInv'
    OBVIOUS
  <2>1. CASE \E w \in Writers : Request(w) \/ Step(w) \/ CutOff(w) \/ AnswerLost(w)
    BY <2>1, RequestInv, StepInv
  <2>2. CASE UNCHANGED <<kind, sets, pc, job, faults, History>>
    BY <2>2 DEF RecordsInv, Shape, InOrder, Validated, Planned, Credited, CnameAlone,
                EventsTell, History
  <2> QED
    BY <2>1, <2>2 DEF Next, SaveTemplate, DeleteTemplate, vars, History
<1> QED
  BY <1>1, RecordsInit, PTL DEF Spec

\* A CNAME shares its name with other data only where a PATCH was applied
\* over sets that had changed since its request validated against them:
\* upsert, rename, delete and a zone made from a template keep the rule.
THEOREM CnamesAlone == Spec => []CnameAlone
<1>1. RecordsInv => CnameAlone
  BY DEF RecordsInv
<1> QED
  BY <1>1, RecordsSound, PTL

\* The last event about a record set says what the server holds, unless the
\* request that changed the set last has not published yet, was cut off, or
\* was overtaken: an event follows its PATCH, the new name of a rename is told
\* before the old one.
THEOREM EventsTrue == Spec => []EventsTell
<1>1. RecordsInv => EventsTell
  BY DEF RecordsInv
<1> QED
  BY <1>1, RecordsSound, PTL

-----------------------------------------------------------------------------
(* Templates.                                                              *)

\* The record a template line asks for.
Fact(z, r) == <<key(z, r)[1], r.type, Contents[r.type][One(z, r).values[1]]>>

\* The groups of a template hold the records of its lines and no others.
LEMMA ExpandedFacts ==
    ASSUME NEW z, NEW t
    PROVE  Facts(ExpandRecords(z, t)) = {Fact(z, t[i]) : i \in 1..Len(t)}
<1> DEFINE Of(i) == ReplaceSet(z, Group(z, t, key(z, t[i])))
           Val(i) == Contents[t[i].type][One(z, t[i]).values[1]]
<1>1. ASSUME NEW i \in 1..Len(t)
      PROVE  /\ Of(i).name = key(z, t[i])[1] /\ Of(i).type = t[i].type
             /\ Of(i).values = {Val(j) : j \in LinesOf(z, t, key(z, t[i]))}
  <2>1. key(z, t[i])[2] = t[i].type
    BY DEF key
  <2>2. \A j \in LinesOf(z, t, key(z, t[i])) : t[j].type = t[i].type
    BY DEF LinesOf, key
  <2> DEFINE k == key(z, t[i])
             g == Group(z, t, k)
  <2>3. /\ g.owner = [abs |-> TRUE, labels |-> k[1]] /\ g.type = k[2]
        /\ g.values = [j \in LinesOf(z, t, k) |-> One(z, t[j]).values[1]]
    BY DEF Group
  <2>4. /\ Of(i).name = Qualified(z, g.owner) /\ Of(i).type = g.type
        /\ Of(i).values = {Contents[g.type][g.values[j]] : j \in DOMAIN g.values}
    BY DEF ReplaceSet
  <2>5. Qualified(z, g.owner) = k[1]
    BY <2>3 DEF Qualified
  <2>6. DOMAIN g.values = LinesOf(z, t, k) /\ \A j \in LinesOf(z, t, k) : Contents[g.type][g.values[j]] = Val(j)
    BY <2>1, <2>2, <2>3
  <2> HIDE DEF k, g, Of, Val
  <2>7. {Contents[g.type][g.values[j]] : j \in DOMAIN g.values} = {Val(j) : j \in LinesOf(z, t, k)}
    BY <2>6
  <2> QED
    BY <2>1, <2>3, <2>4, <2>5, <2>7 DEF k
<1>2. \A e : e \in ExpandRecords(z, t) <=> \E i \in 1..Len(t) : e = Of(i)
  BY DEF ExpandRecords, Groups
<1>3. \A i \in 1..Len(t) : Fact(z, t[i]) = <<key(z, t[i])[1], t[i].type, Val(i)>>
  BY DEF Fact
<1> HIDE DEF Of, Val
<1>4. ASSUME NEW e \in ExpandRecords(z, t), NEW v \in e.values
      PROVE  \E j \in 1..Len(t) : <<e.name, e.type, v>> = Fact(z, t[j])
  <2>1. PICK i \in 1..Len(t) : e = Of(i)
    BY <1>2
  <2>2. PICK j \in LinesOf(z, t, key(z, t[i])) : v = Val(j)
    BY <1>1, <1>4, <2>1
  <2>3. j \in 1..Len(t) /\ key(z, t[j]) = key(z, t[i]) /\ t[j].type = t[i].type
    BY <2>2 DEF LinesOf, key
  <2> QED
    BY <1>1, <1>3, <2>1, <2>2, <2>3
<1>5. ASSUME NEW i \in 1..Len(t)
      PROVE  \E e \in ExpandRecords(z, t) : \E v \in e.values :
                 <<e.name, e.type, v>> = Fact(z, t[i])
  <2>1. Val(i) \in Of(i).values
    BY <1>1 DEF LinesOf
  <2> QED
    BY <1>1, <1>2, <1>3, <2>1
<1> QED
  BY <1>4, <1>5 DEF Facts

LEMMA FactsUnion ==
    ASSUME NEW S, NEW T
    PROVE  /\ Facts(S \cup T) = Facts(S) \cup Facts(T)
           /\ Facts({}) = {}
  BY DEF Facts

\* The server takes the sets of a template, and the zone then holds their
\* records and the nameservers': the generated NS set never meets an apex NS
\* set of the template, which has taken the nameservers in.
LEMMA CreatedComplete ==
    ASSUME NEW t, NEW ns, Expandable(Zone, t)
    PROVE  /\ CreateOK(Zone, FromTemplate(t, ns))
           /\ Facts(Created(Zone, FromTemplate(t, ns)))
                = Facts(ExpandRecords(Zone, t)) \cup {<<Zone, "NS", v>> : v \in ns}
<1> DEFINE X == ExpandRecords(Zone, t)
           A == ApexNS(Zone, X)
           m == FromTemplate(t, ns)
           Merged(x) == [x EXCEPT !.values = @ \cup ns]
           New == {<<Zone, "NS", v>> : v \in ns}
           soa == Generated(Zone, "SOA", {})
           gen == Generated(Zone, "NS", ns)
<1>1. ASSUME NEW x \in X
      PROVE  /\ Merged(x).name = x.name /\ Merged(x).type = x.type
             /\ Merged(x).values = x.values \cup ns
             /\ InZone(x.name, Zone)
  <2>1. PICK g \in Groups(Zone, t) : x = ReplaceSet(Zone, g)
    BY DEF ExpandRecords
  <2>2. RecordSet(Zone, g, {ReplaceSet(Zone, h) : h \in Groups(Zone, t) \ {g}})
    BY DEF Expandable
  <2>3. InZone(Qualified(Zone, g.owner), Zone)
    BY <2>2 DEF RecordSet, RecordName
  <2>4. x.name = Qualified(Zone, g.owner)
    BY <2>1 DEF ReplaceSet
  <2>5. x = [name |-> x.name, type |-> x.type, ttl |-> x.ttl, values |-> x.values,
             comment |-> x.comment]
    BY Expanded
  <2>6. Merged(x).name = x.name /\ Merged(x).type = x.type /\ Merged(x).values = x.values \cup ns
    BY <2>5
  <2> QED
    BY <2>3, <2>4, <2>6
<1>2. A \subseteq X /\ \A x \in X : x \in A <=> x.name = Zone /\ x.type = "NS"
  BY DEF ApexNS, Key
<1>3. Facts({soa}) = {} /\ Facts({gen}) = New
  BY DEF Facts, Generated
<1>4. Created(Zone, m) \in {m.sets, {soa} \cup m.sets} \/ m.ns # {}
  BY DEF Created, Replaced
<1>5. CASE A = {} \/ ns = {}
  <2>1. m.sets = X /\ m.ns = ns
    BY <1>5 DEF FromTemplate, mergeApexNS
  <2>2. CreateOK(Zone, m)
    BY <1>1, <1>5, <2>1 DEF CreateOK
  <2>3. CASE ns = {}
    <3>1. Created(Zone, m) = X \/ Created(Zone, m) = {soa} \cup X
      BY <1>4, <2>1, <2>3
    <3>2. Facts({soa} \cup X) = Facts({soa}) \cup Facts(X)
      BY FactsUnion
    <3>3. New = {}
      BY <2>3
    <3> QED
      BY <1>3, <2>2, <3>1, <3>2, <3>3
  <2>4. CASE ns # {}
    <3>1. \A x \in X : Key(x) # Key(gen)
      BY <1>2, <1>5, <2>4 DEF Generated, Key
    <3>2. Created(Zone, m) = {gen} \cup X \/ Created(Zone, m) = {soa} \cup ({gen} \cup X)
      BY <2>1, <2>4, <3>1 DEF Created, Replaced
    <3>3. /\ Facts({gen} \cup X) = New \cup Facts(X)
          /\ Facts({soa} \cup ({gen} \cup X)) = {} \cup Facts({gen} \cup X)
      BY <1>3, FactsUnion
    <3> QED
      BY <2>2, <3>2, <3>3
  <2> QED
    BY <2>3, <2>4
<1>6. CASE ~(A = {} \/ ns = {})
  <2> DEFINE B == {Merged(s) : s \in A}
  <2>1. m.sets = (X \ A) \cup B /\ m.ns = {}
    BY <1>6 DEF FromTemplate, mergeApexNS
  <2>2. \A s \in A : Merged(s).name = Zone /\ Merged(s).type = "NS"
                     /\ Merged(s).values = s.values \cup ns
    BY <1>1, <1>2
  <2>3. InZone(Zone, Zone)
    BY <1>1, <1>2, <1>6
  <2> HIDE DEF Merged, X, A, m
  <2>4. CreateOK(Zone, m)
    BY <1>1, <1>2, <2>1, <2>2, <2>3 DEF CreateOK
  <2>5. Facts(B) = Facts(A) \cup New
    BY <1>2, <1>6, <2>2 DEF Facts
  <2>6. X = (X \ A) \cup A
    BY <1>2
  <2>7. Facts(X) = Facts(X \ A) \cup Facts(A)
    BY <2>6, FactsUnion
  <2>8. Facts(m.sets) = Facts(X) \cup New
    <3>1. Facts(m.sets) = Facts(X \ A) \cup Facts(B)
      BY <2>1, FactsUnion
    <3> QED
      BY <2>5, <2>7, <3>1
  <2>9. Facts({soa} \cup m.sets) = Facts({soa}) \cup Facts(m.sets)
    BY FactsUnion
  <2> QED
    BY <1>3, <1>4, <2>1, <2>4, <2>8, <2>9 DEF m, X
<1> QED
  BY <1>5, <1>6

\* r is the list t read from its end.
Reversed(t, r) ==
    /\ Len(t) \in Nat /\ Len(r) = Len(t)
    /\ \A i \in 1..Len(t) : r[i] = t[Len(t) + 1 - i]

LEMMA ReversedBack ==
    ASSUME NEW t, NEW r, Reversed(t, r)
    PROVE  Reversed(r, t)
  BY DEF Reversed

LEMMA ReversedFacts ==
    ASSUME NEW z, NEW t, NEW r, Reversed(t, r)
    PROVE  Facts(ExpandRecords(z, t)) = Facts(ExpandRecords(z, r))
<1>1. Len(t) \in Nat /\ Len(r) = Len(t) /\ \A i \in 1..Len(t) : Len(t) + 1 - i \in 1..Len(t)
  BY DEF Reversed
<1>2. \A i \in 1..Len(t) : r[i] = t[Len(t) + 1 - i]
  BY DEF Reversed
<1>3. \A i \in 1..Len(t) : t[i] = r[Len(t) + 1 - i]
  <2>1. Reversed(r, t)
    BY ReversedBack
  <2> QED
    BY <1>1, <2>1 DEF Reversed
<1>4. {Fact(z, t[i]) : i \in 1..Len(t)} = {Fact(z, r[i]) : i \in 1..Len(r)}
  BY <1>1, <1>2, <1>3
<1> QED
  BY <1>4, ExpandedFacts

\* The tenant's template is one that was accepted when it was saved.
Stored == template \in Storable(Templates) \cup {None}

LEMMA StoredInv == Spec => []Stored
<1>1. Init => Stored
  BY DEF Init, Stored
<1>2. ASSUME Stored, [Next]_vars PROVE Stored'
  <2>1. CASE \E w \in Writers : Request(w) \/ Step(w) \/ CutOff(w) \/ AnswerLost(w)
    <3>1. template' = template
      BY <2>1 DEF Request, Step, Upsert, Update, Delete, Prepared, CreateZone, Refused,
                  DeleteZone, Whole, Patch, PatchMissing, Emit, PostZone, PostRefused, CutOff,
                  AnswerLost
    <3> QED
      BY <1>2, <3>1 DEF Stored
  <2>2. CASE \E t \in Tried : SaveTemplate(t)
    BY <2>2, RecordsConstants DEF Stored, SaveTemplate, Storable
  <2>3. CASE DeleteTemplate \/ UNCHANGED vars
    BY <1>2, <2>3 DEF Stored, DeleteTemplate, vars
  <2> QED
    BY <1>2, <2>1, <2>2, <2>3 DEF Next
<1> QED
  BY <1>1, <1>2, PTL DEF Spec

\* A zone made from any template that expands holds exactly the records of the
\* template's lines and the nameservers asked for, with no CNAME beside other
\* data, and the server takes it: the grouping of the lines, the merge of the
\* apex NS sets and the sets the server generates lose and add nothing.
THEOREM TemplatesComplete == Spec => []TemplateComplete
<1>1. ASSUME NEW t, Expandable(Zone, t), NEW ns
      PROVE  /\ CreateOK(Zone, FromTemplate(t, ns))
             /\ Facts(Created(Zone, FromTemplate(t, ns)))
                  = {Fact(Zone, t[i]) : i \in 1..Len(t)} \cup {<<Zone, "NS", v>> : v \in ns}
             /\ Conflicting(Created(Zone, FromTemplate(t, ns))) = {}
  BY <1>1, CreatedComplete, CreatedAlone, ExpandedFacts
<1>2. TemplateComplete
  BY <1>1 DEF TemplateComplete, Fact
<1> QED
  BY <1>2, PTL

-----------------------------------------------------------------------------
(* The order of a template.  Only the lemmas from here on need the         *)
(* theorems about finite sets, whose IsFiniteSet and Cardinality are the   *)
(* ones of FiniteSets.                                                     *)

LOCAL INSTANCE WellFoundedInduction
FST == INSTANCE FiniteSetTheorems

LEMMA SameFinite == ASSUME NEW S PROVE IsFiniteSet(S) <=> FST!IsFiniteSet(S)
BY DEF IsFiniteSet, FST!IsFiniteSet

LEMMA SameCardinality == ASSUME NEW S PROVE Cardinality(S) = FST!Cardinality(S)
BY DEF Cardinality, FST!Cardinality

\* A set of numbers has a smallest one.
LEMMA Smallest ==
    ASSUME NEW S \in SUBSET Nat, S # {}
    PROVE  \E m \in S : \A k \in S : m <= k
<1>1. PICK R : R = OpToRel(<, Nat)
  OBVIOUS
<1>2. IsWellFoundedOn(R, Nat)
  BY <1>1, NatLessThanWellFounded
<1>3. PICK m \in S : \A k \in S : ~(<<k, m>> \in R)
  BY <1>2, WFMin
<1>4. ASSUME NEW k \in S PROVE m <= k
  <2>1. <<k, m>> \in Nat \X Nat /\ <<k, m>> \notin R
    BY <1>3
  <2>2. ~(k < m)
    BY <1>1, <2>1 DEF OpToRel
  <2> QED
    BY <1>3, <2>2
<1> QED
  BY <1>4

\* A set of line numbers has a first one.
LEMMA FirstLine ==
    ASSUME NEW n \in Nat, NEW S \in SUBSET (1..n), S # {}
    PROVE  Min(S) \in S
<1>1. S \in SUBSET Nat
  OBVIOUS
<1>2. \E x \in S : \A y \in S : x =< y
  BY <1>1, Smallest
<1> QED
  BY <1>2 DEF Min

\* The lines of a set are as many in the reversed list, at mirrored places.
LEMMA ReversedLines ==
    ASSUME NEW z, NEW t, NEW r, Reversed(t, r), NEW k
    PROVE  /\ \A i \in LinesOf(z, r, k) : Len(t) + 1 - i \in LinesOf(z, t, k)
           /\ Cardinality(LinesOf(z, r, k)) = Cardinality(LinesOf(z, t, k))
<1> DEFINE n == Len(t)
           S == LinesOf(z, t, k)
           T == LinesOf(z, r, k)
           f == [i \in S |-> n + 1 - i]
<1>1. n \in Nat /\ S \in SUBSET (1..n) /\ T \in SUBSET (1..n)
  BY DEF Reversed, LinesOf
<1>2. \A i \in 1..n : /\ n + 1 - i \in 1..n /\ n + 1 - (n + 1 - i) = i
                      /\ i \in T <=> n + 1 - i \in S
  <2> SUFFICES ASSUME NEW i \in 1..n
               PROVE  /\ n + 1 - i \in 1..n /\ n + 1 - (n + 1 - i) = i
                      /\ i \in T <=> n + 1 - i \in S
    OBVIOUS
  <2>1. n + 1 - i \in 1..n /\ n + 1 - (n + 1 - i) = i
    BY <1>1
  <2>2. Len(r) = n /\ r[i] = t[n + 1 - i]
    BY DEF Reversed
  <2> HIDE DEF n
  <2>3. i \in T <=> key(z, r[i]) = k
    BY <2>2 DEF LinesOf
  <2>4. n + 1 - i \in S <=> key(z, t[n + 1 - i]) = k
    BY <2>1 DEF LinesOf, n
  <2> QED
    BY <2>1, <2>2, <2>3, <2>4
<1> HIDE DEF S, T, n
<1>3. f \in FST!Bijection(S, T)
  <2>1. f \in [S -> T]
    BY <1>1, <1>2
  <2>2. \A i, j \in S : f[i] = f[j] => i = j
    BY <1>1, <1>2
  <2>3. \A i \in T : \E j \in S : f[j] = i
    <3>1. SUFFICES ASSUME NEW i \in T PROVE \E j \in S : f[j] = i
      OBVIOUS
    <3>2. n + 1 - i \in S /\ f[n + 1 - i] = i
      BY <1>1, <1>2
    <3> QED
      BY <3>2
  <2> QED
    BY <2>1, <2>2, <2>3 DEF FST!Bijection, FST!Injection, FST!Surjection, FST!IsInjective
<1>4. FST!IsFiniteSet(S)
  <2>1. FST!IsFiniteSet(1..n)
    BY <1>1, FST!FS_Interval
  <2> QED
    BY <1>1, <2>1, FST!FS_Subset
<1>5. Cardinality(T) = Cardinality(S)
  <2>1. FST!Cardinality(T) = FST!Cardinality(S)
    BY <1>3, <1>4, FST!FS_Bijection DEF FST!ExistsBijection
  <2> QED
    BY <2>1, SameCardinality
<1> QED
  BY <1>1, <1>2, <1>5 DEF S, T, n

\* The lines of one key make sets with the same owner, type and records in both
\* lists, and with a TTL of one of their lines.
Mirrored(n, g, h) ==
    /\ g.owner = h.owner /\ g.type = h.type
    /\ Cardinality(DOMAIN g.values) = Cardinality(DOMAIN h.values)
    /\ \A i \in DOMAIN g.values : /\ n + 1 - i \in DOMAIN h.values
                                  /\ g.values[i] = h.values[n + 1 - i]

LEMMA ReversedGroup ==
    ASSUME NEW z, NEW t, NEW r, Reversed(t, r), NEW a \in 1..Len(r), NEW k, k = key(z, r[a])
    PROVE  /\ Group(z, t, k) \in Groups(z, t)
           /\ Mirrored(Len(t), Group(z, r, k), Group(z, t, k))
           /\ \E i \in 1..Len(r) : Group(z, r, k).ttl = r[i].ttl
<1> DEFINE g == Group(z, r, k)
           h == Group(z, t, k)
           n == Len(t)
<1>1. n \in Nat /\ Len(r) = n /\ \A i \in 1..n : n + 1 - i \in 1..n /\ r[i] = t[n + 1 - i]
  BY DEF Reversed
<1>2. h \in Groups(z, t)
  <2>1. n + 1 - a \in 1..n /\ k = key(z, t[n + 1 - a])
    BY <1>1
  <2> QED
    BY <2>1 DEF Groups
<1>3. /\ g.owner = h.owner /\ g.type = h.type
      /\ g.ttl = r[Min(LinesOf(z, r, k))].ttl
      /\ g.values = [i \in LinesOf(z, r, k) |-> One(z, r[i]).values[1]]
      /\ h.values = [i \in LinesOf(z, t, k) |-> One(z, t[i]).values[1]]
  BY DEF Group
<1> HIDE DEF g, h
<1>4. LinesOf(z, r, k) \in SUBSET (1..n) /\ a \in LinesOf(z, r, k)
  BY <1>1 DEF LinesOf
<1>5. Min(LinesOf(z, r, k)) \in 1..n
  BY <1>1, <1>4, FirstLine
<1>6. /\ \A i \in LinesOf(z, r, k) : n + 1 - i \in LinesOf(z, t, k)
      /\ Cardinality(LinesOf(z, r, k)) = Cardinality(LinesOf(z, t, k))
  BY ReversedLines
<1>7. \E i \in 1..Len(r) : g.ttl = r[i].ttl
  BY <1>1, <1>3, <1>5
<1>8. \A i \in LinesOf(z, r, k) : g.values[i] = h.values[n + 1 - i]
  BY <1>1, <1>3, <1>4, <1>6
<1>9. DOMAIN g.values = LinesOf(z, r, k) /\ DOMAIN h.values = LinesOf(z, t, k)
  BY <1>3
<1> QED
  BY <1>2, <1>3, <1>6, <1>7, <1>8, <1>9 DEF g, h, Mirrored

\* What expands, expands reversed.
LEMMA ReversedExpands ==
    ASSUME NEW z, NEW t, NEW r, Reversed(t, r), Expandable(z, t)
    PROVE  Expandable(z, r)
<1> DEFINE n == Len(t)
           Others(l, x) == {ReplaceSet(z, y) : y \in Groups(z, l) \ {x}}
<1>1. n \in Nat /\ Len(r) = n /\ \A i \in 1..n : n + 1 - i \in 1..n /\ r[i] = t[n + 1 - i]
  BY DEF Reversed
<1>2. \A i \in 1..n : priorityOK(r[i]) /\ RecordSet(z, One(z, r[i]), {})
  BY <1>1 DEF Expandable
<1>3. \A i \in 1..n : r[i].ttl \in MinTTL..MaxTTL
  BY <1>2 DEF RecordSet, One
<1>4. ASSUME NEW a \in 1..n
      PROVE  RecordSet(z, Group(z, r, key(z, r[a])), Others(r, Group(z, r, key(z, r[a]))))
  <2>k. PICK k : k = key(z, r[a])
    OBVIOUS
  <2> DEFINE g == Group(z, r, k)
             h == Group(z, t, k)
             q == Qualified(z, g.owner)
  <2>1. /\ h \in Groups(z, t)
        /\ g.owner = h.owner /\ g.type = h.type
        /\ \E i \in 1..Len(r) : g.ttl = r[i].ttl
        /\ Cardinality(DOMAIN g.values) = Cardinality(DOMAIN h.values)
        /\ \A i \in DOMAIN g.values : /\ n + 1 - i \in DOMAIN h.values
                                      /\ g.values[i] = h.values[n + 1 - i]
    <3>1. a \in 1..Len(r)
      BY <1>1
    <3>2. /\ h \in Groups(z, t) /\ Mirrored(n, g, h)
          /\ \E i \in 1..Len(r) : g.ttl = r[i].ttl
      BY <2>k, <3>1, ReversedGroup
    <3> HIDE DEF g, h, n
    <3> QED
      BY <3>2 DEF Mirrored
  <2>2. RecordSet(z, h, Others(t, h))
    BY <2>1 DEF Expandable
  <2>3. CnameRule(q, g.type, Others(t, h))
    BY <2>1, <2>2 DEF RecordSet
  <2>4. CnameRule(q, g.type, Others(r, g))
    <3> SUFFICES ASSUME NEW e \in Others(r, g), e.name = q, e.type # g.type
                 PROVE  g.type # "CNAME" /\ e.type # "CNAME"
      BY DEF CnameRule
    <3>1. PICK b \in 1..n : e = ReplaceSet(z, Group(z, r, key(z, r[b])))
      BY <1>1 DEF Groups
    <3>l. PICK l : l = key(z, r[b])
      OBVIOUS
    <3> DEFINE u == Group(z, r, l)
               v == Group(z, t, l)
    <3>2. v \in Groups(z, t) /\ v.owner = u.owner /\ v.type = u.type
      <4>1. b \in 1..Len(r)
        BY <1>1
      <4> QED
        BY <3>l, <4>1, ReversedGroup DEF Mirrored
    <3>3. e.name = Qualified(z, u.owner) /\ e.type = u.type
      BY <3>1, <3>l DEF ReplaceSet
    <3>4. ReplaceSet(z, v).name = Qualified(z, v.owner) /\ ReplaceSet(z, v).type = v.type
      BY DEF ReplaceSet
    <3> HIDE DEF u, v, g, h, q
    <3>5. v # h
      BY <2>1, <3>2, <3>3
    <3>6. ReplaceSet(z, v) \in Others(t, h)
      BY <3>2, <3>5
    <3> QED
      BY <2>3, <3>2, <3>3, <3>4, <3>6 DEF CnameRule
  <2>5. g.ttl \in MinTTL..MaxTTL
    BY <1>1, <1>3, <2>1
  <2> HIDE DEF g, h
  <2>6. \A i \in DOMAIN g.values : g.values[i] \in DOMAIN Contents[g.type]
    BY <2>1, <2>2 DEF RecordSet
  <2>7. \A i \in DOMAIN g.values : i \in 1..n
    BY <1>1 DEF g, Group, LinesOf
  <2>8. ASSUME NEW i \in DOMAIN g.values, NEW j \in DOMAIN g.values, i # j
        PROVE  Contents[g.type][g.values[i]] # Contents[g.type][g.values[j]]
    <3>1. n + 1 - i # n + 1 - j
      BY <1>1, <2>7, <2>8
    <3> QED
      BY <2>1, <2>2, <3>1 DEF RecordSet
  <2> QED
    BY <2>1, <2>2, <2>4, <2>5, <2>6, <2>8, <2>k DEF RecordSet, g
<1>5. \A g \in Groups(z, r) : RecordSet(z, g, Others(r, g))
  BY <1>1, <1>4 DEF Groups
<1> QED
  BY <1>1, <1>2, <1>5 DEF Expandable

\* The order of the lines of a saved template decides nothing but TTLs: it
\* could have been saved reversed, is accepted reversed for exactly the same
\* zone, and makes the same records there.
THEOREM OrdersFree == Spec => []OrderFree
<1>1. ASSUME Stored PROVE OrderFree
  <2> SUFFICES ASSUME template # None
               PROVE  LET rev == [i \in 1..Len(template) |-> template[Len(template) + 1 - i]]
                      IN  /\ Expandable(PlaceholderZone, rev)
                          /\ Expandable(Zone, template) <=> Expandable(Zone, rev)
                          /\ Expandable(Zone, template) =>
                                 Facts(ExpandRecords(Zone, template)) = Facts(ExpandRecords(Zone, rev))
    BY DEF OrderFree
  <2>1. Len(template) \in Nat /\ Expandable(PlaceholderZone, template)
    BY <1>1, RecordsConstants DEF Stored, Storable
  <2>2. PICK rev : rev = [i \in 1..Len(template) |-> template[Len(template) + 1 - i]]
    OBVIOUS
  <2>3. Len(rev) = Len(template)
    BY <2>1, <2>2
  <2>4. Reversed(template, rev)
    BY <2>1, <2>2, <2>3 DEF Reversed
  <2>5. Reversed(rev, template)
    BY <2>4, ReversedBack
  <2>6. Expandable(PlaceholderZone, rev) /\ (Expandable(Zone, template) => Expandable(Zone, rev))
    BY <2>1, <2>4, ReversedExpands
  <2>7. Expandable(Zone, rev) => Expandable(Zone, template)
    BY <2>5, ReversedExpands
  <2> QED
    BY <2>2, <2>4, <2>6, <2>7, ReversedFacts
<1> QED
  BY <1>1, StoredInv, PTL
=============================================================================
