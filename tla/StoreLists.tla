----------------------------- MODULE StoreLists -----------------------------
(***************************************************************************)
(* The lists of the two stores: memstore sorts all matching rows and takes *)
(* the window asked for, repodb has PostgreSQL order, limit and offset     *)
(* (Page and DbChallengesOlderThan of DbStore).                            *)
(***************************************************************************)
EXTENDS RepoStores
LOCAL INSTANCE SequencesExt

CONSTANT Rank   \* the order of zone names

-----------------------------------------------------------------------------
(* Lists: all matching rows sorted, then the window of the page asked for, *)
(* or of the last one.                                                     *)

\* listquery: by the sort value, ties by id; key gives each row's sort value.
Before(key, desc, a, b) ==
    IF key[a] = key[b] THEN a.id < b.id
    ELSE IF desc THEN key[a] > key[b] ELSE key[a] < key[b]

\* listquery.Clamp: the last page when the one asked for lies beyond it.
Clamp(total, page, size) ==
    LET last == IF total = 0 THEN 1 ELSE (total + size - 1) \div size
    IN  IF page > last THEN last ELSE page

MemList(rows, key, desc, page, size) ==
    LET less(a, b) == Before(key, desc, a, b)
        all        == SetToSortSeq(rows, less)
        at         == Clamp(Len(all), page, size)
        end        == IF at * size < Len(all) THEN at * size ELSE Len(all)
    IN  [items |-> SubSeq(all, (at - 1) * size + 1, end), total |-> Len(all), page |-> at]

\* ZoneFilter.Matches; of its fields the kind, Null for any.
Matches(kind, z) == kind = Null \/ z.meta = kind

MemListZones(m, t, kind, key, desc, page, size) ==
    MemList({z \in Own(m.zones, t) : Matches(kind, z)}, key, desc, page, size)

MemListTemplates(m, t, desc, page, size) ==
    LET rows == Own(m.templates, t)
    IN  MemList(rows, [x \in rows |-> x.name.text], desc, page, size)

MemListSupermasters(m, t, key, desc, page, size) ==
    MemList(Own(m.supermasters, t), key, desc, page, size)

\* Oldest first, at most limit.
MemChallengesOlderThan(m, before, limit) ==
    LET older(a, b) == a.at < b.at \/ (a.at = b.at /\ a.id < b.id)
        all == SetToSortSeq({c \in Values(m.challenges) : c.at < before}, older)
    IN  Answer(m, SubSeq(all, 1, IF limit < Len(all) THEN limit ELSE Len(all)))

-----------------------------------------------------------------------------
(* Properties.                                                             *)

\* repotest's pageAll: every page of a list, one after the other; list gives
\* the answer for each page asked for.
PageAll(list, size) ==
    LET pages == (list[1].total + size - 1) \div size
    IN  [p \in 1..pages |-> list[p].items]

\* What the pages of a list hold, with repetitions: row by row, how often.
Occurrences(pages, r) ==
    Cardinality({x \in (DOMAIN pages) \X (1..Cardinality(ListIds)) :
                     x[2] <= Len(pages[x[1]]) /\ pages[x[1]][x[2]] = r})

\* Pages of one list: both stores give the same, and page by page every row of
\* own comes exactly once, and no other row.
Paged(own, rows, size, m, d) ==
    /\ m = d
    /\ \A r \in rows : Occurrences(PageAll(d, size), r) = IF r \in own THEN 1 ELSE 0

\* Every list of the service (zones filtered by kind or not and sorted by name
\* or kind, templates, supermasters by address or nameserver, in both
\* directions, for every page size): the two stores give the same pages, and
\* paging through it yields every matching row of the tenant exactly once and
\* never one of another tenant.  The challenges due for sweeping, which are cut
\* off at a limit, are the same and in the same order.
ListsComplete ==
    /\ \A b \in 0..MaxCreated, k \in 1..Cardinality(Ids) :
        MemChallengesOlderThan(mem, b, k).ans = D!DbChallengesOlderThan(db, b, k).ans
    /\ LET Pages(rows) == 1..(Cardinality(rows) + 1) IN
       \A t \in Tenants, desc \in BOOLEAN, size \in 1..Cardinality(ListIds) :
           /\ \A kind \in Kinds \cup {Null}, byName \in BOOLEAN :
               LET key  == [z \in Values(mem.zones) \cup db.zones |->
                               IF byName THEN Rank[z.name] ELSE z.meta]
                   m    == [p \in Pages(db.zones) |-> MemListZones(mem, t, kind, key, desc, p, size)]
                   d    == [p \in Pages(db.zones) |-> D!DbListZones(db, t, kind, key, desc, p, size)]
                   own  == {z \in db.zones : z.tenant = t /\ kind \in {Null, z.meta}}
               IN  Paged(own, db.zones, size, m, d)
           /\ LET m == [p \in Pages(db.templates) |-> MemListTemplates(mem, t, desc, p, size)]
                  d == [p \in Pages(db.templates) |-> D!DbListTemplates(db, t, desc, p, size)]
              IN  Paged({x \in db.templates : x.tenant = t}, db.templates, size, m, d)
           /\ \A byIp \in BOOLEAN :
               LET key == [s \in Values(mem.supermasters) \cup db.supermasters |->
                              IF byIp THEN s.ip ELSE s.nameserver]
                   m   == [p \in Pages(db.supermasters) |-> MemListSupermasters(mem, t, key, desc, p, size)]
                   d   == [p \in Pages(db.supermasters) |-> D!DbListSupermasters(db, t, key, desc, p, size)]
               IN  Paged({s \in db.supermasters : s.tenant = t}, db.supermasters, size, m, d)
=============================================================================
