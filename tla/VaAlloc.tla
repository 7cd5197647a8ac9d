------------------------------- MODULE VaAlloc -------------------------------
(***************************************************************************)
(* The virtual address allocator (x86-64/memory/va_alloc.c): the free      *)
(* ranges of virtual memory are the nodes of two binary trees, one for the *)
(* kernel and one for user space.  The nodes live in the slots of metadata *)
(* pages, each with a header that counts free and unused slots.            *)
(*                                                                         *)
(* va_alloc and va_free hold va_lock from their first access to their      *)
(* last, so each is one action.  Addresses and lengths count pages.  Both  *)
(* calls change the allocator in several places, so its state is a record  *)
(* and the functions of the code are operators from record to record.      *)
(***************************************************************************)
EXTENDS Integers, Sequences, FiniteSets, SequencesExt

CONSTANTS
  max,         \* slots of a metadata page: (4096 - sizeof(va_hd)) / sizeof(va_node)
  CacheSize,   \* slots of v_cache.base
  MaxPage,     \* bound: highest metadata page the model has
  Setups       \* the machines and their callers, see setup

VARIABLES
  setup, \* fixed from the start: the machine and what its callers ask for
  va,    \* the allocator: the record described below
  live,  \* the regions callers hold
  lost,  \* regions that va_free dropped: no caller and no tree has them
  state  \* "ok"; "fault": a write to no node of a page; "hang": UpdateParents never ends

vars == <<setup, va, live, lost, state>>

KernelLen == setup.kernel   \* pages from Kernel_end to END
UpperLen == setup.upper     \* pages from KERNEL_SPACE to SPACE_END
UserLen == setup.user       \* pages from USER_SPACE to USER_END
NFrames == setup.frames     \* frames that vmalloc can hand out
Requests == setup.requests  \* the sizes and attributes callers ask for
Spare == setup.spare        \* bound: pages that the upper kernel range never gives out

Pages == 0 .. MaxPage
NULL == <<0, 0>>
Slots == Pages \X (1 .. max)

(* where the three ranges start, apart from each other *)
KernelBase == 0
UpperBase == KernelLen + 1
UserBase == KernelLen + UpperLen + 2
End == UserBase + UserLen

ASSUME VaAllocAssumption ==
  /\ max \in Nat /\ max >= 3 /\ MaxPage \in Nat /\ CacheSize \in Nat \ {0}
  /\ \A s \in Setups : /\ {s.kernel, s.upper, s.user, s.frames} \subseteq Nat \ {0}
                       /\ s.requests \subseteq (Nat \ {0}) \X {"kernel", "user"}
                       /\ s.spare \in Nat

(***************************************************************************)
(* node[s]: slot s; free[p], unused[p]: the counts in the header of page   *)
(* p; chain: the pages from va_header along next_page; latest, entries,    *)
(* pages, top, cache: va_latest, va_entries, va_metadata_pages, va_top and *)
(* v_cache.  The trees start at the slots kstart and ustart.               *)
(***************************************************************************)
kstart == <<0, 1>>
upper == <<0, 2>>
ustart == <<0, 3>>
Root(attr) == IF attr = "user" THEN ustart ELSE kstart

Node(base, len, attr, parent) ==
  [base |-> base, len |-> len, maxlen |-> len, attr |-> attr,
   right |-> NULL, left |-> NULL, parent |-> parent]
Junk == Node(0, 0, "junk", NULL)

(* UsedNodes has the bit of every child pointer that is set *)
Children(n) == {n.right, n.left} \ {NULL}
Full(n) == n.right # NULL /\ n.left # NULL

(* the slots of page p that the loops over a page visit *)
Used(a, p) == max + a.unused[p] - a.free[p]
Visited(a, p) == [i \in 1 .. Used(a, p) |-> <<p, i>>]
AllVisited(a) == FlattenSeq([i \in DOMAIN a.chain |-> Visited(a, a.chain[i])])

MaxOf(S) == CHOOSE x \in S : \A y \in S : y <= x

(* the slots from s up to the root; a cycle of parents makes the walk longer *)
(* than there are slots                                                     *)
Ancestors(a, s) ==
  FoldLeft(LAMBDA path, i : IF a.node[Last(path)].parent = NULL THEN path
                            ELSE Append(path, a.node[Last(path)].parent),
           <<s>>, [i \in 1 .. Cardinality(Slots) |-> i])
Cyclic(a, s) == Len(Ancestors(a, s)) > Cardinality(Slots)

(* mutant of UpdateParents: only the entry itself is updated *)
UpdateEntry(a, s) ==
  [a EXCEPT !.node[s].maxlen =
     MaxOf({a.node[s].len} \cup {a.node[c].maxlen : c \in Children(a.node[s])})]

(* max_length, from the entry up to the root *)
UpdateParents(a, s) ==
  FoldLeft(LAMBDA b, n : [b EXCEPT !.node[n].maxlen =
             MaxOf({b.node[n].len} \cup {b.node[c].maxlen : c \in Children(b.node[n])})],
           a, Ancestors(a, s))

(* the node to take size pages from: this one, else left, else right *)
find_fit(a, root, size) ==
  LET F[s \in Slots] ==
        LET n == a.node[s]
            Fits(c) == c # NULL /\ a.node[c].maxlen >= size
        IN  CASE n.len >= size -> s
              [] n.len < size /\ Fits(n.left) -> F[n.left]
              [] n.len < size /\ ~Fits(n.left) /\ Fits(n.right) -> F[n.right]
              [] OTHER -> NULL
  IN  F[root]

-----------------------------------------------------------------------------
(***************************************************************************)
(* find_new_entry: the first header with a free slot is charged; the entry *)
(* is the first slot of a new page if there was no such header, else the   *)
(* slot after va_latest.                                                   *)
(***************************************************************************)
Roomy(a) == SelectSeq(a.chain, LAMBDA p : a.free[p] > 0)
NeedsPage(a) == Roomy(a) = <<>>

(* the next metadata page: the last one in v_cache, else the one at va_top *)
NextPage(a) == IF a.cache # <<>> THEN Last(a.cache) ELSE a.top

AddPage(a) ==
  LET p == NextPage(a)
  IN  [a EXCEPT !.cache = IF @ # <<>> THEN Front(@) ELSE @,
                !.top = IF p >= @ THEN p + 1 ELSE @,
                !.pages = @ + 1,
                !.free[p] = max, !.unused[p] = 0,
                !.chain = Append(@, p)]

find_new_entry(a, n) ==
  LET b == IF NeedsPage(a) THEN AddPage(a) ELSE a
      p == Head(Roomy(b))
      s == IF NeedsPage(a) THEN <<p, 1>> ELSE <<a.latest[1], a.latest[2] + 1>>
  IN  [b EXCEPT !.node[s] = n, !.latest = s, !.entries = @ + 1, !.free[p] = @ - 1]

-----------------------------------------------------------------------------
(* the first va_alloc: the header page, the two kernel ranges and the user range *)
Fresh ==
  [node |-> [s \in Slots |->
     CASE s = kstart -> [Node(KernelBase, KernelLen, "kernel", NULL) EXCEPT
                           !.right = upper, !.maxlen = UpperLen]
       [] s = upper -> Node(UpperBase, UpperLen, "kernel", kstart)
       [] s = ustart -> Node(UserBase, UserLen, "user", NULL)
       [] OTHER -> Junk],
   free |-> [p \in Pages |-> IF p = 0 THEN max - 3 ELSE 0],
   unused |-> [p \in Pages |-> 0],
   chain |-> <<0>>, latest |-> ustart, entries |-> 3, pages |-> 0, top |-> 1, cache |-> <<>>]

(* va_header is NULL before the first call *)
Untouched == [Fresh EXCEPT !.chain = <<>>]
Started == IF va.chain = <<>> THEN Fresh ELSE va

SumPages(S) == LET F[R \in SUBSET S] ==
                     IF R = {} THEN 0 ELSE LET r == CHOOSE r \in R : TRUE IN r.pages + F[R \ {r}]
               IN  F[S]
FramesLeft(a) == NFrames - Len(a.chain) - SumPages(live \cup lost)

(* find_new_entry returns NULL, for it gets no page, or the slot after va_latest *)
(* is past the page, for the free slot it charges is a root that was let go      *)
NoEntry(a) == IF NeedsPage(a) THEN FramesLeft(a) = 0 ELSE a.latest[2] = max

(* the parent forgets the entry *)
Unlink(a, s) ==
  LET q == a.node[s].parent
  IN  [a EXCEPT !.node[q].left = IF @ = s THEN NULL ELSE @,
                !.node[q].right = IF @ = s THEN NULL ELSE @,
                !.node[s].parent = NULL]

(***************************************************************************)
(* Giving empty metadata pages back, from the page of va_latest down to    *)
(* the page after va_header.  A page behind a page in use (miss) goes to   *)
(* v_cache.                                                                *)
(***************************************************************************)
(* mutant of update_latest: the unused slots before the last one are forgotten *)
LatestByFree(a, p) == [a EXCEPT !.latest = <<p, max - a.free[p]>>]

update_latest(a, p) == [a EXCEPT !.latest = <<p, Used(a, p)>>]

LowerTop(a, p) == [a EXCEPT !.top = IF p = @ - 1 THEN p ELSE @]

DropLast(a, p) ==
  LET former == SelectInSeq(a.chain, LAMBDA x : x = p) - 1
  IN  update_latest([LowerTop(a, p) EXCEPT !.chain = SubSeq(@, 1, former), !.pages = @ - 1],
                    a.chain[former])

DropInner(a, p) ==
  [LowerTop(a, p) EXCEPT !.chain = SelectSeq(@, LAMBDA x : x # p), !.pages = @ - 1,
                         !.cache = IF Len(@) < CacheSize - 1 THEN Append(@, p) ELSE @]

(* mutant of Empty: a page with one node left is taken for empty *)
AlmostEmpty(a, p) == a.free[p] >= max - 1

Empty(a, p) == a.free[p] = max

ReleasePages(a) ==
  LET last == SelectInSeq(a.chain, LAMBDA x : x = a.latest[1])
      Step(r, p) == IF ~Empty(r.a, p) THEN [r EXCEPT !.miss = TRUE]
                    ELSE [r EXCEPT !.a = IF r.miss THEN DropInner(@, p) ELSE DropLast(@, p)]
  IN  FoldLeft(Step, [a |-> a, miss |-> FALSE], Reverse(SubSeq(a.chain, 2, last))).a

(* an entry without pages and without children leaves the tree *)
Detach(a, s) ==
  LET p == s[1]
      b == [a EXCEPT !.entries = @ - 1, !.free[p] = @ + 1]
  IN  IF a.node[s].parent = NULL THEN b
      ELSE ReleasePages([Unlink(b, s) EXCEPT !.unused[p] = @ + 1])

(* mutant of Take: the range shrinks at its end, not at the base handed out *)
TakeAtEnd(a, s, pages) ==
  LET b == UpdateParents([a EXCEPT !.node[s].len = @ - pages], s)
  IN  IF b.node[s].len = 0 /\ Children(b.node[s]) = {} THEN Detach(b, s) ELSE b

Take(a, s, pages) ==
  LET b == UpdateParents([a EXCEPT !.node[s].base = @ + pages, !.node[s].len = @ - pages], s)
  IN  IF b.node[s].len = 0 /\ Children(b.node[s]) = {} THEN Detach(b, s) ELSE b

(* bound: the upper kernel range (64 TB) keeps Spare pages and the user range   *)
(* (128 TB) one, so that va_entries does not fall back to 0; the lower kernel   *)
(* range (16 TB) is used first and may run out                                  *)
RangeLasts(a, s, pages) ==
  /\ s = upper => a.node[s].len >= pages + Spare
  /\ s = ustart => a.node[s].len > pages

(* va_alloc: a node was found and vmalloc backed the pages *)
va_alloc(pages, attr) ==
  LET a == Started
      s == find_fit(a, Root(attr), pages)
  IN  /\ state = "ok" /\ s # NULL /\ FramesLeft(a) >= pages /\ RangeLasts(a, s, pages)
      /\ live' = live \cup {[base |-> a.node[s].base, pages |-> pages, attr |-> attr]}
      /\ va' = Take(a, s, pages)
      /\ UNCHANGED <<lost, state>>

(* va_alloc returns status 1: no node fits, or vmalloc fails, which it may do *)
(* while frames are left; a first call has set the allocator up, or has got no *)
(* header page                                                                 *)
va_alloc_fails ==
  /\ state = "ok"
  /\ va' \in {va, Started}
  /\ UNCHANGED <<live, lost, state>>

-----------------------------------------------------------------------------
(* the first slot with the attributes of the region and room for a child *)
find_last(a, attr) ==
  LET Fit == SelectSeq(AllVisited(a), LAMBDA s : a.node[s].attr = attr /\ ~Full(a.node[s])
                                                  /\ a.node[s].len # 0)
  IN  IF Fit = <<>> THEN NULL ELSE Head(Fit)

(* right first, then left *)
attach_node(a, q, s) ==
  IF a.node[q].right = NULL
    THEN [a EXCEPT !.node[q].right = s, !.node[s].parent = q]
    ELSE [a EXCEPT !.node[q].left = s, !.node[s].parent = q]

(* the slots the search for an unused entry accepts *)
Reusable(a) ==
  SelectSeq(AllVisited(a), LAMBDA s : a.unused[s[1]] > 0 /\ a.node[s].len = 0
                                       /\ a.node[s].parent = NULL /\ ~Full(a.node[s]))

(* the region goes into an unused slot, whose other fields keep their values *)
Reuse(a, r) ==
  LET s == Head(Reusable(a))
      b == [a EXCEPT !.node[s].base = r.base, !.node[s].attr = r.attr, !.node[s].len = r.pages]
      c == attach_node(b, find_last(a, r.attr), s)
  IN  [a |-> c, s |-> s]

(* the region goes into a new slot *)
Extend(a, r) ==
  LET b == find_new_entry(a, Node(r.base, r.pages, r.attr, NULL))
  IN  [a |-> attach_node(b, find_last(a, r.attr), b.latest), s |-> b.latest]

(* the counts change after UpdateParents, which a cycle of parents never leaves *)
Insert(e, reused, r) ==
  IF Cyclic(e.a, e.s)
    THEN va' = e.a /\ state' = "hang" /\ UNCHANGED live
    ELSE LET a == UpdateParents(e.a, e.s)
         IN  /\ va' = IF reused THEN [a EXCEPT !.unused[e.s[1]] = @ - 1, !.free[e.s[1]] = @ - 1,
                                               !.entries = @ + 1]
                                ELSE a
             /\ live' = live \ {r}
             /\ UNCHANGED state

va_free(r) ==
  /\ state = "ok" /\ find_last(va, r.attr) # NULL
  /\ UNCHANGED lost
  /\ \/ /\ Reusable(va) # <<>>
        /\ Insert(Reuse(va, r), TRUE, r)
     \/ /\ Reusable(va) = <<>>
        /\ ~NoEntry(va) /\ (NeedsPage(va) => NextPage(va) <= MaxPage)
        /\ Insert(Extend(va, r), FALSE, r)

(* no node can take a child: va_free returns and the caller's region is lost *)
va_free_lost(r) ==
  /\ state = "ok" /\ find_last(va, r.attr) = NULL
  /\ live' = live \ {r}
  /\ lost' = lost \cup {r}
  /\ UNCHANGED <<va, state>>

(* va_free writes through the entry all the same *)
va_free_faults(r) ==
  /\ state = "ok" /\ find_last(va, r.attr) # NULL
  /\ Reusable(va) = <<>> /\ NoEntry(va)
  /\ state' = "fault"
  /\ UNCHANGED <<va, live, lost>>

Init == setup \in Setups /\ va = Untouched /\ live = {} /\ lost = {} /\ state = "ok"

Next ==
  /\ \/ \E q \in Requests : va_alloc(q[1], q[2])
     \/ va_alloc_fails
     \/ \E r \in live : va_free(r) \/ va_free_lost(r) \/ va_free_faults(r)
  /\ UNCHANGED setup

Spec == Init /\ [][Next]_vars

-----------------------------------------------------------------------------
(* the nodes that find_fit can reach *)
InTree(root) ==
  LET Below[s \in Slots] == {s} \cup UNION {Below[c] : c \in Children(va.node[s])}
  IN  Below[root]
Tree == InTree(kstart) \cup InTree(ustart)

Interval(base, pages) == base .. base + pages - 1
FreePages(s) == Interval(va.node[s].base, va.node[s].len)
Space == Interval(KernelBase, KernelLen) \cup Interval(UpperBase, UpperLen)
           \cup Interval(UserBase, UserLen)

(* the record keeps its shape *)
TypeOK ==
  /\ \A s \in Slots : /\ va.node[s].base \in 0 .. End /\ va.node[s].len \in 0 .. End
                      /\ va.node[s].maxlen \in 0 .. End
                      /\ {va.node[s].right, va.node[s].left, va.node[s].parent} \subseteq Slots \cup {NULL}
  /\ \A p \in Pages : va.free[p] \in 0 .. max /\ va.unused[p] \in 0 .. max
  /\ va.latest \in Slots /\ va.top \in 1 .. MaxPage + 1 /\ va.pages \in 0 .. MaxPage
  /\ state \in {"ok", "fault", "hang"}

(***************************************************************************)
(* A page of virtual memory is in one region of a caller or in one node of *)
(* a tree, never in two: va_alloc hands out no page twice.                 *)
(***************************************************************************)
NoPageTwice ==
  state = "ok" =>
    /\ \A s, t \in Tree : s # t => FreePages(s) \cap FreePages(t) = {}
    /\ \A r, q \in live \cup lost : r # q => Interval(r.base, r.pages) \cap Interval(q.base, q.pages) = {}
    /\ \A s \in Tree, r \in live \cup lost : FreePages(s) \cap Interval(r.base, r.pages) = {}

(***************************************************************************)
(* A page that no caller holds is in a tree, as memory_diagnostics.c takes *)
(* it to be when it counts used bytes and looks a freed range up again;    *)
(* va_free loses a region only by returning early, for want of a node that *)
(* can take a child.                                                       *)
(***************************************************************************)
NoPageLost ==
  state = "ok" =>
    UNION ({FreePages(s) : s \in Tree}
             \cup {Interval(r.base, r.pages) : r \in live \cup lost}) = Space

(***************************************************************************)
(* find_fit prunes with max_length, yet it finds a node exactly when some  *)
(* node of the tree is large enough.                                       *)
(***************************************************************************)
FindFitComplete ==
  state = "ok" =>
    \A root \in {kstart, ustart}, size \in 1 .. End :
      LET s == find_fit(va, root, size)
      IN  IF \E t \in InTree(root) : va.node[t].len >= size
            THEN s \in InTree(root) /\ va.node[s].len >= size
            ELSE s = NULL

(***************************************************************************)
(* Slots and counts agree: the nodes of the trees are among the slots the  *)
(* searches visit, every other visited slot is counted as unused in its    *)
(* header, and va_latest is the last slot visited, on the last page, as    *)
(* long as the root of the kernel tree has not been let go.                *)
(***************************************************************************)
CountsAgree ==
  state = "ok" /\ va.chain # <<>> /\ va.node[kstart].len > 0 /\ va.node[kstart].parent = NULL =>
    /\ \A i, j \in DOMAIN va.chain : i # j => va.chain[i] # va.chain[j]
    /\ Tree \subseteq ToSet(AllVisited(va))
    /\ \A p \in ToSet(va.chain) :
         va.unused[p] = Cardinality(ToSet(Visited(va, p)) \ Tree)
    /\ va.latest = <<Last(va.chain), Used(va, Last(va.chain))>>
    /\ va.entries = Cardinality(Tree)
    /\ va.pages = Len(va.chain) - 1

(* va_free returns: the walk of UpdateParents to the root of the tree ends, *)
(* and va_lock is free again (tests/test_va_alloc.c:93)                     *)
FreeReturns == state # "hang"
=============================================================================
