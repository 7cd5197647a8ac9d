-------------------------------- MODULE Kmalloc --------------------------------
(***************************************************************************)
(* The kernel heap (memory/kmalloc.c).  A slab (slabobj) divides one page  *)
(* into units of 32 bytes.  Slab pages hold the slabs; each has a header   *)
(* and two caches in pages of their own: the slabs in use, by index, and a *)
(* stack of those that are not.  A block of less than a page takes the     *)
(* first units that fit in a slab.  A larger one takes pages, and when its *)
(* size is not a multiple of a page its last page becomes the page of a    *)
(* slab, so that small blocks may follow in it.                            *)
(*                                                                         *)
(* A call holds klock throughout: its steps are not interleaved with those *)
(* of another call.                                                        *)
(***************************************************************************)
EXTENDS Integers, Sequences, FiniteSets, FiniteSetsExt

CONSTANTS
  Units,      \* units of a page, 128
  Shapes,     \* values of <<kmax, max>> to be considered, <<112, 79>> in the code
  MaxWhole,   \* bound: whole pages of a block
  MaxBlocks,  \* bound: live blocks and lost ones
  NPages      \* pages va_alloc can give

(* the sizes the code relies on: room for the first slab page and its caches, and slabs in every slab page *)
Sizes ==
  /\ Units \in Nat \ {0} /\ NPages \in Nat /\ NPages >= 3 /\ MaxWhole \in Nat
  /\ Shapes \subseteq (Nat \ {0}) \X (Nat \ {0})

VARIABLES
  kmax,     \* slabs of the first slab page
  max,      \* slabs that createSlab counts on in another one: max of va_def.c
  pool,     \* pages handed out by va_alloc
  heap,     \* the slab pages in the order of next_page from shd on
  latest,   \* the slab created last: its slab page and index
  blocks,   \* live blocks
  kpc,      \* where the call is
  call,     \* its arguments and local variables
  lost,     \* history: pages that a failed call forgot
  broken    \* a slab page was linked without its caches; what follows is undefined

shape == <<kmax, max>>
vars == <<shape, pool, heap, latest, blocks, kpc, call, lost, broken>>

Invalid == 0                        \* INVALID_BASE
Nobody == [page |-> 0, index |-> 0]
Idle == [whole |-> 0, units |-> 0, base |-> 0, slab |-> Nobody, sc |-> 0, at |-> 0, miss |-> FALSE]

Slab == [base |-> Invalid, used |-> {}, FreeObs |-> Units]

(* a slab page: its own page, its caches, the entries never used so far (free_entries) *)
SlabPage(h, a, b, n) ==
  [page |-> h, caches |-> {a, b}, free |-> n, slabs |-> <<>>, unused |-> <<>>, inuse |-> <<>>]

Init ==
  /\ kmax \in {x[1] : x \in Shapes} /\ max \in {x[2] : x \in Shapes} /\ shape \in Shapes
  /\ pool = {} /\ heap = <<>> /\ latest = Nobody /\ blocks = {}
  /\ kpc = "idle" /\ call = Idle /\ lost = {} /\ broken = FALSE

-----------------------------------------------------------------------------
(* the lowest n pages in a row; the allocator of VaAlloc may choose others *)
Runs(n) == {b \in 1 .. NPages - n + 1 : b .. b + n - 1 \cap pool = {}}
Pages(n) == LET b == Min(Runs(n)) IN b .. b + n - 1

(* find_objs: the first of n units in a row that no block has *)
Openings(s, n) == {i \in 0 .. Units - n : i .. i + n - 1 \cap s.used = {}}
find_objs(s, n) == Min(Openings(s, n))

SlabAt(x) == heap[CHOOSE n \in DOMAIN heap : heap[n].page = x.page].slabs[x.index]

(* mark n units of a slab from sc on, in page number p of the list *)
Marked(p, i, sc, n) ==
  [heap[p] EXCEPT !.slabs[i].used = @ \cup sc .. sc + n - 1, !.slabs[i].FreeObs = @ - n]

(* an entry of the used cache, which becomes longer if need be *)
Enter(seq, i, value) ==
  [j \in 1 .. (IF i > Len(seq) THEN i ELSE Len(seq)) |-> IF j = i THEN value ELSE seq[j]]
EnterUsed(seq, i) == Enter(seq, i, TRUE)

Return == kpc' = "idle" /\ call' = Idle

(* the block is handed to the caller *)
Finish(c) ==
  /\ blocks' = blocks \cup {[whole |-> c.whole, units |-> c.units, base |-> c.base, slab |-> c.slab, sc |-> c.sc]}
  /\ Return

-----------------------------------------------------------------------------
(* the guard is a bound: a failed call loses two pages or more, which count as a block *)
kmalloc(whole, units) ==
  /\ kpc = "idle" /\ ~broken /\ Cardinality(blocks) + Cardinality(lost) \div 2 < MaxBlocks
  /\ call' = [Idle EXCEPT !.whole = whole, !.units = units]
  /\ kpc' = IF heap = <<>> THEN "setup" ELSE IF whole > 0 THEN "pages" ELSE "find"
  /\ UNCHANGED <<shape, pool, heap, latest, blocks, lost, broken>>

(* The first slab page and its caches.  shd is set before the caches are there. *)
setup ==
  /\ kpc = "setup"
  /\ \/ Return /\ UNCHANGED <<pool, heap, broken>>
     \/ Return /\ broken' = TRUE /\ pool' = pool \cup Pages(1) /\ UNCHANGED heap
     \/ LET x == Min(Runs(3)) IN
        /\ pool' = pool \cup Pages(3) /\ heap' = <<SlabPage(x, x + 1, x + 2, kmax)>>
        /\ kpc' = IF call.whole > 0 THEN "pages" ELSE "find"
        /\ UNCHANGED <<call, broken>>
  /\ UNCHANGED <<shape, latest, blocks, lost>>

(* the pages of a large block, with the one that becomes the page of a slab *)
large ==
  LET n == call.whole + (IF call.units > 0 THEN 1 ELSE 0) IN
  /\ kpc = "pages"
  /\ \/ Return /\ UNCHANGED <<pool, blocks>>
     \/ /\ Runs(n) # {} /\ pool' = pool \cup Pages(n)
        /\ IF call.units = 0
           THEN Finish([call EXCEPT !.base = Min(Pages(n))])
           ELSE kpc' = "find" /\ call' = [call EXCEPT !.base = Min(Pages(n))] /\ UNCHANGED blocks
  /\ UNCHANGED <<shape, heap, latest, lost, broken>>

(* the first slab: createSlab with start = NULL; it goes on the stack of unused ones *)
first_slab ==
  /\ kpc = "find" /\ heap[1].slabs = <<>>
  /\ heap' = [heap EXCEPT ![1].slabs = <<Slab>>, ![1].free = @ - 1, ![1].unused = Append(@, 1)]
  /\ latest' = [page |-> heap[1].page, index |-> 1]
  /\ UNCHANGED <<shape, pool, blocks, kpc, call, lost, broken>>

(* slabs in use with room for a small block, in the order of the search *)
Fitting ==
  IF call.whole > 0 THEN {}
  ELSE {x \in (DOMAIN heap) \X (1 .. kmax) :
          LET h == heap[x[1]]
              i == x[2]
          IN
          /\ i \in DOMAIN h.inuse /\ h.inuse[i]
          /\ h.slabs[i].FreeObs >= call.units /\ Openings(h.slabs[i], call.units) # {}}
WithUnused == {p \in DOMAIN heap : heap[p].unused # <<>>}

take_used ==
  /\ kpc = "find" /\ heap[1].slabs # <<>>
  /\ \E x \in Fitting :
       LET s == heap[x[1]].slabs[x[2]]
           sc == find_objs(s, call.units)
       IN
       /\ \A y \in Fitting : x[1] < y[1] \/ (x[1] = y[1] /\ x[2] <= y[2])
       /\ heap' = [heap EXCEPT ![x[1]] = Marked(x[1], x[2], sc, call.units)]
       /\ Finish([call EXCEPT !.slab = [page |-> heap[x[1]].page, index |-> x[2]], !.sc = sc])
  /\ UNCHANGED <<shape, pool, latest, lost, broken>>

(* slab i of page p of the list "h", which no block uses, is taken for the block *)
Taken(g, i) ==
  [g EXCEPT !.slabs[i].used = 0 .. call.units - 1, !.slabs[i].FreeObs = @ - call.units, !.inuse = EnterUsed(@, i)]
Use(h, p, i) ==
  /\ heap' = [h EXCEPT ![p] = Taken(@, i)]
  /\ call' = [call EXCEPT !.slab = [page |-> h[p].page, index |-> i]]
  /\ kpc' = "page"

take_unused ==
  /\ kpc = "find" /\ heap[1].slabs # <<>> /\ Fitting = {} /\ WithUnused # {}
  /\ LET p == Min(WithUnused)
         n == Len(heap[p].unused)
     IN Use([heap EXCEPT ![p].unused = SubSeq(@, 1, n - 1)], p, heap[p].unused[n])
  /\ UNCHANGED <<shape, pool, latest, blocks, lost, broken>>

LatestPage == CHOOSE p \in DOMAIN heap : heap[p].page = latest.page

(* createSlab: the slab after the latest one *)
WithSlab(h, i) == [h EXCEPT !.free = @ - 1, !.slabs = Enter(@, i, Slab)]
next_slab ==
  /\ kpc = "find" /\ heap[1].slabs # <<>> /\ Fitting = {} /\ WithUnused = {}
  /\ LET p == LatestPage
         i == latest.index + 1
     IN
     /\ heap[p].free > 0
     /\ latest' = [latest EXCEPT !.index = i]
     /\ Use([heap EXCEPT ![p] = WithSlab(@, i)], p, i)
  /\ UNCHANGED <<shape, pool, blocks, lost, broken>>

(* createSlab when the page of the latest slab is full: a new slab page.  When there  *)
(* is none the call fails and forgets the pages of a large block; when there are none *)
(* for its caches it is linked without them.                                          *)
new_slab_page ==
  /\ kpc = "find" /\ heap[1].slabs # <<>> /\ Fitting = {} /\ WithUnused = {} /\ heap[LatestPage].free = 0
  /\ \/ /\ Return /\ UNCHANGED <<pool, heap, latest>>
        /\ lost' = lost \cup (IF call.whole > 0 THEN call.base .. call.base + call.whole ELSE {})
        /\ broken' \in BOOLEAN
     \/ LET x == Min(Runs(3)) IN
        /\ Runs(3) # {} /\ pool' = pool \cup Pages(3)
        /\ latest' = [page |-> x, index |-> 1]
        /\ Use(Append(heap, [SlabPage(x, x + 1, x + 2, max - 1) EXCEPT !.slabs = <<Slab>>]), Len(heap) + 1, 1)
        /\ UNCHANGED <<lost, broken>>
  /\ UNCHANGED <<shape, blocks>>

SlabPageOf(x) == CHOOSE p \in DOMAIN heap : heap[p].page = x.page

(* units of a slab are given back; a slab without any goes on the stack *)
Released(h, i, sc, n) ==
  LET s == h.slabs[i]
      all == s.FreeObs + n = Units
  IN
  [h EXCEPT !.slabs[i] = [base |-> IF all THEN Invalid ELSE s.base,
                          used |-> s.used \ (sc .. sc + n - 1), FreeObs |-> s.FreeObs + n],
            !.inuse[i] = ~all,
            !.unused = IF all THEN Append(@, i) ELSE @]
Cleaned(x, sc, n) == [heap EXCEPT ![SlabPageOf(x)] = Released(@, x.index, sc, n)]

(* the page of the slab: a new one, or the last page of the block *)
slab_page ==
  LET p == SlabPageOf(call.slab) IN
  /\ kpc = "page"
  /\ \/ /\ call.whole = 0 /\ heap' = Cleaned(call.slab, 0, call.units) /\ Return
        /\ UNCHANGED <<pool, blocks>>
     \/ /\ call.whole = 0 /\ Runs(1) # {} /\ pool' = pool \cup Pages(1)
        /\ heap' = [heap EXCEPT ![p].slabs[call.slab.index].base = Min(Pages(1))]
        /\ Finish(call)
     \/ /\ call.whole > 0
        /\ heap' = [heap EXCEPT ![p].slabs[call.slab.index].base = call.base + call.whole]
        /\ Finish(call)
        /\ UNCHANGED pool
  /\ UNCHANGED <<shape, latest, lost, broken>>

-----------------------------------------------------------------------------
(* mutant of kfree: the page of the slab is given back with any block in it *)
FreePage(b) ==
  /\ heap' = Cleaned(b.slab, b.sc, b.units)
  /\ pool' = pool \ {SlabAt(b.slab).base}

(* the units of a block; the page goes with the last of them *)
free_slab(b) ==
  /\ heap' = Cleaned(b.slab, b.sc, b.units)
  /\ pool' = IF SlabAt(b.slab).FreeObs + b.units = Units THEN pool \ {SlabAt(b.slab).base} ELSE pool

kfree(b) ==
  /\ kpc = "idle" /\ ~broken
  /\ blocks' = blocks \ {b}
  /\ IF b.units > 0
     THEN /\ free_slab(b)
          /\ kpc' = "sweep"
          /\ call' = [Idle EXCEPT !.whole = b.whole, !.base = b.base, !.at = LatestPage]
     ELSE /\ pool' = pool \ (b.base .. b.base + b.whole - 1)
          /\ UNCHANGED <<heap, kpc, call>>
  /\ UNCHANGED <<shape, latest, lost, broken>>

check_page(h) == max - h.free - Len(h.unused) = 0

(* mutant of deallocate_slab: the pages of the caches are forgotten *)
DeallocateHeader(h) == pool' = pool \ {h.page}
deallocate_slab(h) == pool' = pool \ ({h.page} \cup h.caches)

(* From the page of the latest slab down to shd: pages without a slab in use are    *)
(* given back.  While they are at the end, the latest slab becomes the last of the  *)
(* page before; reset_latest counts with kmax on every page.                        *)
sweep ==
  LET n == call.at
      h == heap[n]
  IN
  /\ kpc = "sweep" /\ n > 1
  /\ IF check_page(h)
     THEN /\ deallocate_slab(h)
          /\ heap' = [i \in 1 .. Len(heap) - 1 |-> IF i < n THEN heap[i] ELSE heap[i + 1]]
          /\ latest' = IF call.miss THEN latest
                       ELSE [page |-> heap[n - 1].page, index |-> kmax - heap[n - 1].free]
          /\ call' = [call EXCEPT !.at = n - 1]
     ELSE call' = [call EXCEPT !.at = n - 1, !.miss = TRUE] /\ UNCHANGED <<pool, heap, latest>>
  /\ UNCHANGED <<shape, blocks, kpc, lost, broken>>

(* what is left of a large block: its whole pages *)
kfree_done ==
  /\ kpc = "sweep" /\ call.at = 1
  /\ pool' = pool \ (call.base .. call.base + call.whole - 1)
  /\ Return
  /\ UNCHANGED <<shape, heap, latest, blocks, lost, broken>>

Next ==
  \/ \E w \in 0 .. MaxWhole, u \in 0 .. Units : w + u > 0 /\ kmalloc(w, u)
  \/ setup \/ large \/ first_slab \/ take_used \/ take_unused \/ next_slab \/ new_slab_page \/ slab_page
  \/ (\E b \in blocks : kfree(b)) \/ sweep \/ kfree_done

Spec == Init /\ [][Next]_vars

-----------------------------------------------------------------------------
TypeOK ==
  /\ pool \subseteq 1 .. NPages /\ kpc \in {"idle", "setup", "pages", "find", "page", "sweep"}
  /\ \A n \in DOMAIN heap : heap[n].free \in 0 .. kmax /\ Len(heap[n].unused) <= kmax
  /\ lost \subseteq pool /\ broken \in BOOLEAN

Metadata == UNION {{heap[n].page} \cup heap[n].caches : n \in DOMAIN heap}
WholePages(b) == b.base .. b.base + b.whole - 1

(* the units of memory of a block *)
Memory(b) ==
  WholePages(b) \X (0 .. Units - 1)
    \cup (IF b.units = 0 THEN {} ELSE {SlabAt(b.slab).base} \X (b.sc .. b.sc + b.units - 1))

(* Blocks overlap neither each other nor the slab pages and caches, and all their      *)
(* memory is mapped, though small blocks live on in the last page of a large one that  *)
(* was freed (kmalloc, kfree).                                                          *)
BlocksDisjoint ==
  kpc = "idle" =>
    /\ \A b, c \in blocks : b # c => Memory(b) \cap Memory(c) = {}
    /\ \A b \in blocks : \A x \in Memory(b) : x[1] \in pool \ Metadata

(* Between two calls every page of the heap is a slab page or a cache, the page of a *)
(* slab in use or a whole page of a live block: nothing is kept or given back twice, *)
(* except what a call that found no memory forgot; and a slab page with entries left *)
(* is the one of the latest slab, its last (kfree, deallocate_slab, reset_latest).   *)
PagesAccounted ==
  (kpc = "idle" /\ ~broken) =>
    /\ pool = lost \cup Metadata \cup (UNION {WholePages(b) : b \in blocks})
              \cup (UNION {{s.base : s \in {heap[n].slabs[i] : i \in DOMAIN heap[n].slabs}} \ {Invalid} : n \in DOMAIN heap})
    /\ \A n \in DOMAIN heap :
         (heap[n].free > 0 /\ heap[n].slabs # <<>>) => latest = [page |-> heap[n].page, index |-> Len(heap[n].slabs)]
=============================================================================
