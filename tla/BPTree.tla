------------------------------- MODULE BPTree -------------------------------
(***************************************************************************)
(* The B+-tree application: BPTree (Put, Get, Scan, Load) over its pager,  *)
(* one file of pages.  An operation is a sequence of page writes, any of   *)
(* which may fail, and between any two of which the process may be killed; *)
(* the constructor of the pager then reads the file again and rebuilds the *)
(* list of free pages.  Get and Scan only read: they are operators on the  *)
(* file, and the properties evaluate them for all their arguments.         *)
(*                                                                         *)
(* A page is its type, `link` (the union of `depth`, in the root page, and *)
(* `next`), its keys, and its slots: the values of a leaf, the children of *)
(* an internal page.  An index of the interleaved `content` array becomes  *)
(* a number of keys: 0 for index 0, p for index 1 + 2(p - 1).              *)
(***************************************************************************)
EXTENDS Integers, Sequences, FiniteSets, SequencesExt, FiniteSetsExt

CONSTANTS
  Keys, Vals,   \* keys and values of records
  Puts,         \* the pairs of a key and a value that Put is given
  Loads(_),     \* the sets of keys that Load is given, in order, for a degree
  Degrees,      \* possible values of the degree parameter
  MaxFaults     \* bound on failed writes, kills and restarts

VARIABLES
  degree,
  disk,      \* pages of the backing file
  freelist,  \* Pager::freelist
  op,        \* the operation in progress
  writes,    \* its page writes still to come
  goal,      \* history: the records once it is complete
  ref,       \* history: the records of the completed operations
  dirty,     \* history: it has written to a page that was part of the tree
  session,   \* the foreaction graph entered
  fate,      \* "ok", or how the tree got unusable
  faults

vars == <<degree, disk, freelist, op, writes, goal, ref, dirty, session, fate, faults>>

-----------------------------------------------------------------------------
(* Pages and the pager.  A "raw" page is one that ftruncate has added.     *)
NewPage(type) == [type |-> type, link |-> 0, keys |-> << >>, slots |-> << >>]

EmptyRoot == [NewPage("root") EXCEPT !.link = 1]

(* st is the tree as the operation sees it, with what it has written. *)
Start(d, free, path) ==
  [disk |-> d, freelist |-> free, path |-> path, log |-> << >>, error |-> FALSE]

Wrote(st, id, page, graph) ==
  [st EXCEPT !.disk = [i \in DOMAIN @ \cup {id} |-> IF i = id THEN page ELSE @[i]],
             !.log = Append(@, [id |-> id, page |-> page, graph |-> graph,
                                freelist |-> st.freelist])]

WritePage(st, id, page) == Wrote(st, id, page, "none")

(* The page AllocPage returns: the first free one, or one more in the file. *)
Allocated(st) ==
  IF st.freelist # {} THEN Min(st.freelist) ELSE Cardinality(DOMAIN st.disk)

(* Mutation: the page stays on the free list. *)
AllocPage_Kept(st) ==
  LET id == Allocated(st)
  IN  WritePage(IF st.freelist = {} THEN WritePage(st, id, NewPage("raw")) ELSE st,
                id, NewPage("empty"))

AllocPage(st) ==
  LET id == Allocated(st)
  IN  WritePage(IF st.freelist = {} THEN WritePage(st, id, NewPage("raw"))
                ELSE [st EXCEPT !.freelist = @ \ {id}],
                id, NewPage("empty"))

-----------------------------------------------------------------------------
(* Mutation: the upper end is moved one too far when the range shrinks. *)
PageSearchKey_Low(page, key) ==
  LET n == Len(page.keys)
      Search[s \in 0 .. n, e \in -1 .. n] ==
        IF s >= e THEN s
        ELSE LET pos == (s + e) \div 2 IN
             CASE page.keys[pos + 1] = key -> pos + 1
               [] page.keys[pos + 1] < key -> Search[pos + 1, e]
               [] OTHER -> Search[s, pos - 1]
  IN  Search[0, n]

(* Binary search for the last key <= key: its place, 0 if there is none. *)
PageSearchKey(page, key) ==
  LET n == Len(page.keys)
      Search[s \in 0 .. n, e \in 0 .. n] ==
        IF s >= e THEN s
        ELSE LET pos == (s + e) \div 2 IN
             CASE page.keys[pos + 1] = key -> pos + 1
               [] page.keys[pos + 1] < key -> Search[pos + 1, e]
               [] OTHER -> Search[s, pos]
  IN  Search[0, n]

Matches(page, p, key) == p \in DOMAIN page.keys /\ page.keys[p] = key

LeafPageInject(page, p, key, value) ==
  IF Matches(page, p, key) THEN [page EXCEPT !.slots[p] = value]
  ELSE [page EXCEPT !.keys = InsertAt(@, p + 1, key), !.slots = InsertAt(@, p + 1, value)]

(* ItnlPageInject throws unless this holds. *)
Injectable(page, p, key, lpageid) ==
  /\ Len(page.keys) < degree
  /\ ~Matches(page, p, key)
  /\ p + 1 \in DOMAIN page.slots /\ page.slots[p + 1] = lpageid

ItnlPageInject(page, p, key, rpageid) ==
  [page EXCEPT !.keys = InsertAt(@, p + 1, key), !.slots = InsertAt(@, p + 2, rpageid)]

(* The page ids from the root to the leaf, and the slot the leaf is in. *)
RECURSIVE Descend(_, _, _, _)
Descend(d, key, path, levels) ==
  LET page == d[Last(path)]
      slot == PageSearchKey(page, key) + 1
  IN  IF levels = 1 THEN [path |-> Append(path, page.slots[slot]), slot |-> slot]
      ELSE Descend(d, key, Append(path, page.slots[slot]), levels - 1)

TraverseToLeaf(d, key) ==
  IF d[0].link = 1 THEN [path |-> <<0>>, slot |-> 1]
  ELSE Descend(d, key, <<0>>, d[0].link - 1)

-----------------------------------------------------------------------------
(* SplitPage.  mpos keys stay on the left; the middle key of an internal   *)
(* page goes up, that of a leaf is copied up.                              *)
IsLeaf(page) == page.type = "leaf" \/ (page.type = "root" /\ page.link = 1)

Mpos(page) == Len(page.keys) \div 2
Mkey(page) == page.keys[Mpos(page) + 1]

Half(page, type, link, lo, hi) ==
  [type |-> type, link |-> link, keys |-> SubSeq(page.keys, lo, hi),
   slots |-> SubSeq(page.slots, lo, IF IsLeaf(page) THEN hi ELSE hi + 1)]

LeftHalf(page, type, link) == Half(page, type, link, 1, Mpos(page))

(* Mutation: the middle key of an internal page stays in the right half. *)
RightHalf_KeepMiddle(page, type, link) ==
  Half(page, type, link, Mpos(page) + 1, Len(page.keys))

RightHalf(page, type, link) ==
  Half(page, type, link, Mpos(page) + (IF IsLeaf(page) THEN 1 ELSE 2), Len(page.keys))

(* The root keeps its page id: two new pages take its halves. *)
SplitRoot(st, page, l, r) ==
  LET type == IF page.link = 1 THEN "leaf" ELSE "itnl"
      halves == WritePage(WritePage(st, l, LeftHalf(page, type, r)),
                          r, RightHalf(page, type, 0))
  IN  [WritePage(halves, 0, [type |-> "root", link |-> page.link + 1,
                             keys |-> <<Mkey(page)>>, slots |-> <<l, r>>])
         EXCEPT !.path = Append(@, r)]

(* Mutation: the trimmed page is written before the new one. *)
SplitOff_LeftFirst(st, id, page, r) ==
  WritePage(WritePage(st, id, LeftHalf(page, page.type, r)),
            r, RightHalf(page, page.type, page.link))

(* The right half goes to a new page, then the page itself is trimmed. *)
SplitOff(st, id, page, r) ==
  WritePage(WritePage(st, r, RightHalf(page, page.type, page.link)),
            id, LeftHalf(page, page.type, r))

(* What SplitPage asserts and requires of its arguments. *)
Splittable(st, id, page) ==
  \/ page.type = "root" /\ id = 0 /\ st.path = <<0>>
  \/ page.type \in {"leaf", "itnl"} /\ Len(st.path) > 1 /\ Last(st.path) = id

RECURSIVE SplitPage(_, _, _)

(* The key that goes up, and the splits it may cause there. *)
InjectParent(st, id, parentid, mkey, r) ==
  LET parent == st.disk[parentid]
      p == PageSearchKey(parent, mkey)
      full == ItnlPageInject(parent, p, mkey, r)
      up == SplitPage([st EXCEPT !.path = Front(@)], parentid, full)
  IN  CASE ~Injectable(parent, p, mkey, id) -> [st EXCEPT !.error = TRUE]
        [] Len(full.keys) >= degree -> [up EXCEPT !.path = Append(@, r)]
        [] OTHER -> [WritePage(st, parentid, full) EXCEPT !.path = Append(Front(@), r)]

SplitPage(st, id, page) ==
  CASE ~Splittable(st, id, page) -> [st EXCEPT !.error = TRUE]
    [] page.type = "root" ->
         SplitRoot(AllocPage(AllocPage(st)), page, Allocated(st), Allocated(AllocPage(st)))
    [] OTHER ->
         InjectParent(SplitOff(AllocPage(st), id, page, Allocated(st)),
                      id, st.path[Len(st.path) - 1], Mkey(page), Allocated(st))

-----------------------------------------------------------------------------
(* Put and Load: the writes they make. *)
PutLeaf(st, id, page, key, value) ==
  LET new == LeafPageInject(page, PageSearchKey(page, key), key, value)
  IN  CASE 0 \in ToSet(Tail(st.path)) \/ Len(page.keys) >= degree -> [st EXCEPT !.error = TRUE]
        [] Len(new.keys) >= degree -> SplitPage(st, id, new)
        [] OTHER -> WritePage(st, id, new)

PutWrites(key, value) ==
  LET path == TraverseToLeaf(disk, key).path
  IN  PutLeaf(Start(disk, freelist, path), Last(path), disk[Last(path)], key, value)

(* The records, degree - 1 to a leaf; Load gives every key k the value      *)
(* LoadVal(k).                                                              *)
LoadVal(k) == CHOOSE v \in Vals : TRUE

Values(keys) == [i \in DOMAIN keys |-> LoadVal(keys[i])]

NLeaves(keys) == (Len(keys) + degree - 2) \div (degree - 1)

Chunk(keys, i) == SubSeq(keys, (i - 1) * (degree - 1) + 1, Min({i * (degree - 1), Len(keys)}))

(* Mutation: the place for the next leaf after a split is one too far. *)
PosAfterSplit_Off == degree - degree \div 2

PosAfterSplit == degree - degree \div 2 - 1

(* Leaf i is added to the right-most internal page, itnl, which is kept in  *)
(* memory; only a leaf that is full splits it here.                         *)
AppendLeaf(ld, i, keys, leaves) ==
  LET first == Chunk(keys, i)[1]
      itnl == ItnlPageInject(ld.itnl, ld.itnlpos, first, leaves[i])
      split == SplitPage(ld.st, Last(ld.st.path), itnl)
  IN  CASE ~Injectable(ld.itnl, ld.itnlpos, first, leaves[i - 1]) -> [ld EXCEPT !.st.error = TRUE]
        [] Len(itnl.keys) >= degree /\ Len(Chunk(keys, i)) = degree - 1 ->
             [st |-> split, itnl |-> split.disk[Last(split.path)], itnlpos |-> PosAfterSplit]
        [] OTHER -> [ld EXCEPT !.itnl = itnl, !.itnlpos = @ + 1]

LastItnl(ld) ==
  IF Len(ld.itnl.keys) >= degree THEN SplitPage(ld.st, Last(ld.st.path), ld.itnl)
  ELSE WritePage(ld.st, Last(ld.st.path), ld.itnl)

(* The leaves are written last, in the session of the load plugin (which may *)
(* pre-issue them: until the last one is written nothing depends on their    *)
(* order).                                                                   *)
DumpLeaf(st, i, keys, leaves) ==
  Wrote(st, leaves[i],
        [type |-> "leaf", link |-> IF i < Len(leaves) THEN leaves[i + 1] ELSE 0,
         keys |-> Chunk(keys, i), slots |-> Values(Chunk(keys, i))], "load")

Indexes(lo, hi) == [j \in 1 .. hi - lo + 1 |-> lo + j - 1]

LoadLeaves(st, keys, leaves) ==
  LET first == [disk[0] EXCEPT !.slots = <<leaves[1]>>, !.link = 2]
      ld == FoldLeft(LAMBDA acc, i : AppendLeaf(acc, i, keys, leaves),
                     [st |-> st, itnl |-> first, itnlpos |-> 0], Indexes(2, Len(leaves)))
  IN  FoldLeft(LAMBDA acc, i : DumpLeaf(acc, i, keys, leaves),
               LastItnl(ld), Indexes(1, Len(leaves)))

LoadWrites(keys) ==
  LET st == Start(disk, freelist, <<0>>)
      Alloc(acc, i) == [st |-> AllocPage(acc.st), leaves |-> Append(acc.leaves, Allocated(acc.st))]
      alloc == FoldLeft(Alloc, [st |-> st, leaves |-> << >>], Indexes(1, NLeaves(keys)))
  IN  IF Len(keys) < degree
      THEN WritePage(st, 0, [disk[0] EXCEPT !.keys = keys, !.slots = Values(keys)])
      ELSE LoadLeaves(alloc.st, keys, alloc.leaves)

-----------------------------------------------------------------------------
(* Get and Scan. *)
(* The value found, if there is one. *)
Get(d, key) ==
  LET page == d[Last(TraverseToLeaf(d, key).path)]
      p == PageSearchKey(page, key)
  IN  {page.slots[i] : i \in {j \in {p} : Matches(page, j, key)}}

(* The leaves between those of lkey and rkey, taken from the internal pages *)
(* above them, from litnlid along the links to ritnlid.                     *)
Parent(at) == at.path[Len(at.path) - 1]

(* Mutation: every internal page is read from its first slot. *)
ScanLeaves_FromFirst(d, itnlid, l, r) ==
  IF itnlid = Parent(r) THEN SubSeq(d[itnlid].slots, 1, r.slot) ELSE d[itnlid].slots

RECURSIVE ScanLeaves(_, _, _, _)
ScanLeaves(d, itnlid, l, r) ==
  LET page == d[itnlid]
      here == SubSeq(page.slots, IF itnlid = Parent(l) THEN l.slot ELSE 1,
                                 IF itnlid = Parent(r) THEN r.slot ELSE Len(page.keys) + 1)
  IN  IF itnlid = Parent(r) \/ page.link = 0 THEN here
      ELSE here \o ScanLeaves(d, page.link, l, r)

Records(page, lo, hi) == [i \in 1 .. hi - lo + 1 |-> <<page.keys[lo + i - 1], page.slots[lo + i - 1]>>]

(* The records of one leaf that are in range; a search in boundary leaves. *)
LeafInRange(page, isl, isr, lkey, rkey) ==
  LET lp == PageSearchKey(page, lkey)
      lo == IF ~isl THEN 1 ELSE IF Matches(page, lp, lkey) THEN lp ELSE lp + 1
      hi == IF isr THEN PageSearchKey(page, rkey) ELSE Len(page.keys)
  IN  Records(page, lo, hi)

Scan(d, lkey, rkey) ==
  LET l == TraverseToLeaf(d, lkey)
      r == TraverseToLeaf(d, rkey)
      leaves == ScanLeaves(d, Parent(l), l, r)
  IN  FlattenSeq([i \in DOMAIN leaves |->
        LeafInRange(d[leaves[i]], leaves[i] = Last(l.path), leaves[i] = Last(r.path), lkey, rkey)])

-----------------------------------------------------------------------------
Init ==
  /\ degree \in Degrees
  /\ disk = [i \in {0} |-> EmptyRoot]
  /\ freelist = {}
  /\ op = "none" /\ writes = << >>
  /\ goal = << >> /\ ref = << >>
  /\ dirty = FALSE
  /\ session = "none"
  /\ fate = "ok"
  /\ faults = 0

Begin(name, st, records) ==
  /\ fate = "ok" /\ op = "none"
  /\ op' = name
  /\ writes' = st.log
  /\ goal' = records
  /\ fate' = IF st.error THEN "exception" ELSE "ok"
  /\ UNCHANGED <<degree, disk, freelist, ref, dirty, session, faults>>

Put(k, v) ==
  Begin("put", PutWrites(k, v), [x \in DOMAIN ref \cup {k} |-> IF x = k THEN v ELSE ref[x]])

(* The keys in increasing order. *)
InOrder(keys) ==
  [i \in 1 .. Cardinality(keys) |-> CHOOSE k \in keys : Cardinality({x \in keys : x < k}) = i - 1]

(* Load throws, and changes nothing, if the tree is not empty or if the      *)
(* keys are not above 0 (the smallest value of their type) and increasing.   *)
Load(keys) ==
  /\ keys # {} /\ 0 \notin keys
  /\ disk[0].link = 1 /\ disk[0].keys = << >>
  /\ Begin("load", LoadWrites(InOrder(keys)), [k \in keys |-> LoadVal(k)])

(* The child pages of the tree, and all its pages. *)
RECURSIVE Below(_, _, _)
Below(d, id, levels) ==
  IF levels = 1 THEN {id}
  ELSE {id} \cup UNION {Below(d, c, levels - 1) : c \in ToSet(d[id].slots)}

Tree(d) == Below(d, 0, d[0].link)

(* The next page write of the operation; after the last one it returns. *)
Write ==
  /\ fate = "ok" /\ writes # << >>
  /\ \E w \in {Head(writes)} :
       /\ disk' = Wrote([disk |-> disk, log |-> << >>, freelist |-> {}], w.id, w.page, w.graph).disk
       /\ freelist' = w.freelist
       /\ IF Len(writes) = 1
          THEN op' = "none" /\ ref' = goal /\ dirty' = FALSE /\ session' = "none"
          ELSE /\ dirty' = (dirty \/ w.id \in Tree(disk))
               /\ session' = w.graph
               /\ UNCHANGED <<op, ref>>
  /\ writes' = Tail(writes)
  /\ UNCHANGED <<degree, goal, fate, faults>>

(* A page write fails: the exception leaves Put or Load where it is, with    *)
(* no epilogue.  If nothing of the tree was touched the client can go on.    *)
WriteFails ==
  /\ fate = "ok" /\ writes # << >> /\ faults < MaxFaults
  /\ freelist' = Head(writes).freelist
  /\ session' = Head(writes).graph
  /\ fate' = IF dirty \/ session' # "none" THEN "failed" ELSE "ok"
  /\ op' = IF fate' = "failed" THEN op ELSE "none"
  /\ writes' = << >>
  /\ faults' = faults + 1
  /\ UNCHANGED <<degree, disk, goal, ref, dirty>>

(* A page read fails in the loop of Scan, inside the session. *)
ScanFails ==
  /\ fate = "ok" /\ op = "none" /\ disk[0].link > 1 /\ faults < MaxFaults
  /\ session' = "scan"
  /\ fate' = "failed"
  /\ faults' = faults + 1
  /\ UNCHANGED <<degree, disk, freelist, op, writes, goal, ref, dirty>>

(* CheckStats, when the pager is constructed. *)
EmptyPages(d) == {i \in DOMAIN d : d[i].type = "empty"}

(* The process is killed, or exits, and the file is opened again. *)
Reopen ==
  /\ fate = "failed" \/ (fate = "ok" /\ faults < MaxFaults)
  /\ IF \E i \in DOMAIN disk : disk[i].type = "raw"
     THEN fate' = "refused" /\ UNCHANGED freelist
     ELSE /\ fate' = IF dirty THEN "torn " \o op ELSE "ok"
          /\ freelist' = EmptyPages(disk)
  /\ op' = "none" /\ writes' = << >> /\ session' = "none"
  /\ faults' = IF fate = "failed" THEN faults ELSE faults + 1
  /\ UNCHANGED <<degree, disk, goal, ref, dirty>>

Next ==
  \/ \E <<k, v>> \in Puts : Put(k, v)
  \/ \E keys \in Loads(degree) : Load(keys)
  \/ Write
  \/ WriteFails
  \/ ScanFails
  \/ Reopen

Spec == Init /\ [][Next]_vars

-----------------------------------------------------------------------------
(* Get (bptree.tpl.hpp) finds, for every key, the value of the completed     *)
(* operations: after any sequence of Put, Load and splits, and after a write    *)
(* that failed or a kill, unless the operation it hit had already written to  *)
(* a page of the tree.                                                        *)
LookupsAgree ==
  fate = "ok" /\ op = "none" =>
    \A k \in Keys : Get(disk, k) = {ref[x] : x \in DOMAIN ref \cap {k}}

(* Scan (bptree.tpl.hpp), on a tree of more than one page, returns the        *)
(* records between its bounds, each once and in order, whatever the bounds.  *)
ScansAgree ==
  fate = "ok" /\ op = "none" /\ disk[0].link > 1 =>
    \A l, r \in Keys : l <= r =>
      LET keys == InOrder({k \in DOMAIN ref : l <= k /\ k <= r})
      IN  Scan(disk, l, r) = [i \in DOMAIN keys |-> <<keys[i], ref[keys[i]]>>]

RECURSIVE LeftMost(_, _, _), ChainFrom(_, _, _)
LeftMost(d, id, levels) == IF levels = 1 THEN id ELSE LeftMost(d, d[id].slots[1], levels - 1)

ChainFrom(d, id, fuel) ==
  IF fuel = 0 THEN << >>
  ELSE Append(<< >>, id) \o (IF d[id].type = "root" \/ d[id].link = 0 THEN << >>
                             ELSE ChainFrom(d, d[id].link, fuel - 1))

Chain(d) == ChainFrom(d, LeftMost(d, 0, d[0].link), Cardinality(DOMAIN d))

ChainRecords(d) ==
  LET c == Chain(d) IN FlattenSeq([i \in DOMAIN c |-> Records(d[c[i]], 1, Len(d[c[i]].keys))])

RecordsOf(m) == LET keys == InOrder(DOMAIN m) IN [i \in DOMAIN keys |-> <<keys[i], m[keys[i]]>>]

(* Between any two page writes of Put, and in a file that was left there by  *)
(* a failure or a kill, the leaves linked by `next` hold all the records, in *)
(* order, either all without the one that is put or all with it.             *)
ChainComplete ==
  (op # "load" /\ fate \notin {"refused", "torn load"}) =>
     ChainRecords(disk) \in {RecordsOf(ref), RecordsOf(goal)}

(* No page that AllocPage may hand out is in the tree or in the chain of its *)
(* leaves: at any time, and after the pager has rebuilt its free list from   *)
(* a file that Put was killed on.                                            *)
FreePagesUnused ==
  fate \notin {"refused", "torn load"} =>
    freelist \cap (Tree(disk) \cup ToSet(Chain(disk))) = {}

(* The asserts and consistency checks of SplitPage, ItnlPageInject and       *)
(* TraverseToLeaf never fail.                                                *)
NoException == fate # "exception"
=============================================================================
