------------------------------ MODULE PartProofs ------------------------------
(***************************************************************************)
(* The invariants of three of the parts that MCServices composes.          *)
(*                                                                         *)
(* The kernel heap, for any number of pages, units and caches: HeapInv     *)
(* says who owns every page of the pool: a slab page and its caches, a     *)
(* slab, a whole-page block, the call in progress, or nobody any more.     *)
(* Without it BlocksDisjoint is not inductive, because a block is handed   *)
(* out by what the slab lists say is free.                                 *)
(*                                                                         *)
(* The readers of a USB configuration, for any bytes (TreeInv), and the    *)
(* loaders, for any memory map, kernel and cluster size (LoaderInv).       *)
(***************************************************************************)
EXTENDS Kmalloc, FiniteSetTheorems, SequenceTheorems, WellFoundedInduction, TLAPS

(* records of slabs, of slab pages, of references to a slab, of blocks and of calls *)
SlabRec == [base : Nat, used : SUBSET (0 .. Units - 1), FreeObs : Int]
PageRec == [page : Nat, caches : SUBSET Nat, free : Nat, slabs : Seq(SlabRec), unused : Seq(Nat), inuse : Seq(BOOLEAN)]
Ref == [page : Nat, index : Nat]
BlockRec == [whole : Nat, units : 0 .. Units, base : Nat, slab : Ref, sc : Nat]
CallRec == [whole : Nat, units : 0 .. Units, base : Nat, slab : Ref, sc : Nat, at : Nat, miss : BOOLEAN]

(* what the variables hold *)
HeapTypes ==
  /\ kmax \in Nat \ {0} /\ max \in Nat \ {0}
  /\ pool \subseteq 1 .. NPages
  /\ heap \in Seq(PageRec) /\ latest \in Ref
  /\ blocks \subseteq BlockRec /\ call \in CallRec
  /\ kpc \in {"idle", "setup", "pages", "find", "page", "sweep"}
  /\ lost \subseteq pool /\ broken \in BOOLEAN

(* where a call is, and what it has *)
HeapCall ==
  /\ broken => kpc = "idle"
  /\ kpc = "setup" => heap = <<>> /\ call.whole + call.units > 0
  /\ kpc \in {"pages", "find", "page", "sweep"} => heap # <<>>
  /\ kpc = "pages" => call.whole > 0
  /\ kpc \in {"find", "page"} => call.units > 0
  /\ kpc \in {"setup", "pages", "find", "page"} => call.sc = 0
  /\ kpc = "sweep" => call.at \in 1 .. Len(heap) /\ (IF call.miss THEN call.at < Len(heap) ELSE call.at = Len(heap))
  /\ heap = <<>> => blocks = {} /\ lost = {}

(* the used cache of a slab page names slab t *)
InUse(h, t) == t \in DOMAIN h.inuse /\ h.inuse[t]

(* the slabs of a page: those that are not in use are on the stack, once *)
Stacked(h) ==
  /\ Len(h.inuse) <= Len(h.slabs) /\ Len(h.slabs) <= Len(h.inuse) + 1
  /\ \A j \in DOMAIN h.unused : h.unused[j] \in DOMAIN h.slabs /\ ~InUse(h, h.unused[j])
  /\ \A j, k \in DOMAIN h.unused : j # k => h.unused[j] # h.unused[k]
  /\ \A t \in DOMAIN h.slabs : InUse(h, t) \/ \E j \in DOMAIN h.unused : h.unused[j] = t
  /\ \A t \in DOMAIN h.slabs : h.slabs[t].FreeObs = Units - Cardinality(h.slabs[t].used)
  /\ \A t \in DOMAIN h.slabs : ~InUse(h, t) => h.slabs[t].used = {} /\ h.slabs[t].base = Invalid

(* entries that were never used are at the end of the list, behind the latest slab *)
HeapList ==
  /\ \A n, m \in DOMAIN heap : n # m => heap[n].page # heap[m].page
  /\ \A n \in DOMAIN heap : heap[n].free + Len(heap[n].slabs) = IF n = 1 THEN kmax ELSE max
  /\ \A n \in DOMAIN heap : n # Len(heap) => heap[n].free = 0
  /\ \A n \in DOMAIN heap : n > 1 => heap[n].slabs # <<>>
  /\ Len(heap) > 0 /\ heap[1].slabs # <<>> =>
       /\ latest.page = heap[Len(heap)].page
       /\ heap[Len(heap)].free > 0 => latest.index = Len(heap[Len(heap)].slabs)
  /\ Len(heap) > 0 /\ heap[1].slabs = <<>> => \A b \in blocks : b.units = 0
  /\ kpc \in {"page", "sweep"} => heap[1].slabs # <<>>

(* the slab of the call has no page yet *)
Mine(n, t) == kpc = "page" /\ call.slab = [page |-> heap[n].page, index |-> t]
(* a slab in use has a page, except the one the call has just taken *)
HeapSlabs ==
  /\ \A n \in DOMAIN heap : Stacked(heap[n])
  /\ \A n \in DOMAIN heap : \A t \in DOMAIN heap[n].slabs :
       InUse(heap[n], t) => (heap[n].slabs[t].base = Invalid <=> Mine(n, t))
  /\ kpc = "page" => \E n \in DOMAIN heap :
       /\ heap[n].page = call.slab.page /\ call.slab.index \in DOMAIN heap[n].slabs
       /\ InUse(heap[n], call.slab.index) /\ heap[n].slabs[call.slab.index].used = 0 .. call.units - 1

(* the units of a block are taken in its slab *)
UnitsOf(b) == b.sc .. b.sc + b.units - 1
(* the slab of block b is on slab page n, with its units taken *)
Lives(b, n) ==
  /\ heap[n].page = b.slab.page /\ b.slab.index \in DOMAIN heap[n].slabs
  /\ InUse(heap[n], b.slab.index) /\ heap[n].slabs[b.slab.index].base # Invalid
  /\ UnitsOf(b) \subseteq heap[n].slabs[b.slab.index].used
(* every block with units has its slab, and no two of one slab share a unit *)
HeapBlocks ==
  /\ \A b \in blocks : b.units > 0 => \E n \in DOMAIN heap : Lives(b, n)
  /\ \A b, c \in blocks : b # c /\ b.units > 0 /\ c.units > 0 /\ b.slab = c.slab => UnitsOf(b) \cap UnitsOf(c) = {}

(* pages *)
Meta(h) == {h.page} \cup h.caches
(* the pages of the call under way: those of its block, or those it has still to give back *)
CallPages ==
  IF kpc \in {"find", "page"} /\ call.whole > 0 THEN call.base .. call.base + call.whole
  ELSE IF kpc = "sweep" THEN call.base .. call.base + call.whole - 1 ELSE {}

(* One owner for every page of the pool: a slab page with its caches, a slab, a block of whole pages,
   the call under way, or nobody any more.  Two of them cannot have a page in common. *)
MetaOwned(own) == \A n \in DOMAIN heap : \A x \in Meta(heap[n]) : x \in pool /\ own[x] = <<"meta", heap[n].page, 0>>
BasesOwned(own) ==
  \A n \in DOMAIN heap : \A t \in DOMAIN heap[n].slabs :
    heap[n].slabs[t].base # Invalid =>
      heap[n].slabs[t].base \in pool /\ own[heap[n].slabs[t].base] = <<"slab", heap[n].page, t>>
WholesOwned(own) == \A b \in blocks : \A x \in WholePages(b) : x \in pool /\ own[x] = <<"block", b, 0>>
OthersOwned(own) ==
  /\ \A x \in CallPages : x \in pool /\ own[x] = <<"call", 0, 0>>
  /\ \A x \in lost : own[x] = <<"lost", 0, 0>>
Owns(own) == MetaOwned(own) /\ BasesOwned(own) /\ WholesOwned(own) /\ OthersOwned(own)
Owners == {"meta", "slab", "block", "call", "lost"} \X (Nat \cup BlockRec) \X Nat
HeapOwned == \E own \in [pool -> Owners] : Owns(own)

(* no other page of the pool: each has one of these uses *)
HeapAccounted ==
  ~broken => \A x \in pool :
    \/ x \in lost \cup CallPages
    \/ \E n \in DOMAIN heap : x \in Meta(heap[n])
    \/ \E n \in DOMAIN heap : \E t \in DOMAIN heap[n].slabs : x = heap[n].slabs[t].base
    \/ \E b \in blocks : x \in WholePages(b)

(* the invariant of the heap *)
HeapInv == HeapTypes /\ HeapCall /\ HeapList /\ HeapSlabs /\ HeapBlocks /\ HeapOwned /\ HeapAccounted

-----------------------------------------------------------------------------
(* the smallest of a set of numbers *)
LEMMA MinIn ==
  ASSUME NEW S \in SUBSET Nat, S # {} PROVE Min(S) \in S /\ \A y \in S : Min(S) <= y
<1> DEFINE R == {ss \in Nat \X Nat : ss[1] < ss[2]}
<1>1. OpToRel(<, Nat) = R BY DEF OpToRel
<1>2. IsWellFoundedOn(R, Nat) BY <1>1, NatLessThanWellFounded, Zenon
<1> HIDE DEF R
<1>3. \E x \in S : \A y \in S : ~(<<y, x>> \in R) BY <1>2, WFMin, Zenon
<1>5. ASSUME NEW x \in Nat, NEW y \in Nat, y < x PROVE <<y, x>> \in R BY <1>5 DEF R
<1>4. \E x \in S : \A y \in S : x <= y
  <2>1. PICK x \in S : \A y \in S : ~(<<y, x>> \in R) BY <1>3
  <2>2. ASSUME NEW y \in S PROVE x <= y
    <3>1. ~(y < x) BY <1>5, <2>1
    <3> QED BY <3>1
  <2> QED BY <2>2
<1> QED BY <1>4 DEF Min

(* the pages va_alloc gives were free *)
LEMMA PagesFree ==
  ASSUME NEW n \in Nat, n > 0, Runs(n) # {}, NPages \in Nat
  PROVE  \E m \in 1 .. NPages - n + 1 :
           m = Min(Runs(n)) /\ Pages(n) = m .. m + n - 1 /\ Pages(n) \cap pool = {} /\ Min(Pages(n)) = m
<1> DEFINE m == Min(Runs(n))
<1>1. m \in Runs(n) BY MinIn DEF Runs
<1>2. m \in 1 .. NPages - n + 1 /\ Pages(n) = m .. m + n - 1 /\ Pages(n) \cap pool = {}
  BY <1>1 DEF Runs, Pages
<1>3. Pages(n) \in SUBSET Nat /\ Pages(n) # {} BY <1>2
<1>4. Min(Pages(n)) \in m .. m + n - 1 /\ Min(Pages(n)) <= m BY <1>2, <1>3, MinIn, m \in Pages(n)
<1>5. Min(Pages(n)) = m BY <1>2, <1>4
<1> QED BY <1>2, <1>5

(* find_objs gives units that no block has *)
LEMMA ObjsFree ==
  ASSUME NEW s, NEW n \in Nat, Units \in Nat, Openings(s, n) # {}
  PROVE  find_objs(s, n) \in 0 .. Units - n /\ find_objs(s, n) .. find_objs(s, n) + n - 1 \cap s.used = {}
<1>1. find_objs(s, n) \in Openings(s, n) BY MinIn DEF Openings, find_objs
<1> QED BY <1>1 DEF Openings

(* no call is a call *)
LEMMA Idles == Sizes => Idle \in CallRec
  BY DEF Sizes, Idle, Nobody, CallRec, Ref

(* the heap before the first call *)
LEMMA InitHeap == Sizes /\ Init => HeapInv
<1> SUFFICES ASSUME Sizes, Init PROVE HeapInv OBVIOUS
<1>1. HeapTypes
  <2>1. call \in CallRec BY Idles DEF Init
  <2>2. shape \in (Nat \ {0}) \X (Nat \ {0}) BY DEF Init, Sizes
  <2>3. kmax \in Nat \ {0} /\ max \in Nat \ {0} BY <2>2 DEF shape
  <2>4. heap \in Seq(PageRec) BY EmptySeq DEF Init
  <2>5. latest \in Ref BY DEF Init, Nobody, Ref
  <2> QED BY <2>1, <2>3, <2>4, <2>5 DEF Init, HeapTypes
<1>2. HeapCall /\ HeapList /\ HeapSlabs /\ HeapBlocks /\ HeapAccounted
  BY DEF Init, HeapCall, HeapList, HeapSlabs, HeapBlocks, HeapAccounted, Idle
<1>3. HeapOwned
  <2> DEFINE own == [x \in pool |-> <<"call", 0, 0>>]
  <2>1. own \in [pool -> Owners] BY DEF Init, Owners
  <2>2. Owns(own) BY DEF Init, Owns, MetaOwned, BasesOwned, WholesOwned, OthersOwned, CallPages
  <2> QED BY <2>1, <2>2 DEF HeapOwned
<1> QED BY <1>1, <1>2, <1>3 DEF HeapInv

(* a call begins *)
LEMMA StepKmalloc ==
  ASSUME Sizes, HeapInv, NEW w \in Nat, NEW u \in 0 .. Units, w + u > 0, kmalloc(w, u)
  PROVE  HeapInv'
<1> USE DEF HeapInv
<1>1. call' \in CallRec /\ call'.whole = w /\ call'.units = u /\ call'.sc = 0
  BY Idles DEF kmalloc, CallRec, Idle
<1>2. HeapTypes' BY <1>1 DEF kmalloc, HeapTypes, shape
<1>3. HeapCall' BY <1>1 DEF kmalloc, HeapCall, shape
<1>4. HeapList' BY DEF kmalloc, HeapList, shape
<1>5. HeapSlabs' BY DEF kmalloc, HeapSlabs, Mine, Stacked, InUse
<1>6. HeapBlocks' BY DEF kmalloc, HeapBlocks, Lives, InUse, UnitsOf
<1>7. CallPages = {} /\ CallPages' = {}
  <2>1. kpc = "idle" /\ kpc' \in {"setup", "pages", "find"} /\ (kpc' = "find" => w = 0) BY DEF kmalloc, HeapTypes
  <2> QED BY <2>1, <1>1 DEF CallPages
<1>8. HeapOwned' BY <1>7 DEF kmalloc, HeapOwned, Owns, MetaOwned, BasesOwned, WholesOwned, OthersOwned, WholePages, Meta
<1>9. HeapAccounted' BY <1>7 DEF kmalloc, HeapAccounted, WholePages, Meta
<1> QED BY <1>2, <1>3, <1>4, <1>5, <1>6, <1>8, <1>9

(* the call and the blocks are as records *)
LEMMA Returned ==
  ASSUME Sizes, Return PROVE call' \in CallRec /\ kpc' = "idle" /\ CallPages' = {}
  BY Idles DEF Return, CallPages

(* a call that succeeds hands out the block it has made *)
LEMMA Finished ==
  ASSUME NEW c \in CallRec, blocks \subseteq BlockRec, Finish(c), Sizes
  PROVE  \E b \in BlockRec :
           /\ blocks' = blocks \cup {b} /\ blocks' \subseteq BlockRec /\ b = [whole |-> c.whole, units |-> c.units, base |-> c.base, slab |-> c.slab, sc |-> c.sc]
           /\ b.whole = c.whole /\ b.units = c.units /\ b.base = c.base /\ b.slab = c.slab /\ b.sc = c.sc
           /\ call' \in CallRec /\ kpc' = "idle" /\ CallPages' = {}
<1> DEFINE b == [whole |-> c.whole, units |-> c.units, base |-> c.base, slab |-> c.slab, sc |-> c.sc]
<1>1. b \in BlockRec BY DEF CallRec, BlockRec
<1>2. Return BY DEF Finish
<1> QED BY <1>1, <1>2, Returned DEF Finish

(* the last step of kfree *)
LEMMA StepKfreeDone == Sizes /\ HeapInv /\ kfree_done => HeapInv'
<1> SUFFICES ASSUME Sizes, HeapInv, kfree_done PROVE HeapInv' OBVIOUS
<1> USE DEF HeapInv
<1>0. call' \in CallRec /\ kpc' = "idle" /\ CallPages' = {} /\ kpc = "sweep" BY Returned DEF kfree_done
<1>1. CallPages = call.base .. call.base + call.whole - 1 /\ pool' = pool \ CallPages
  BY <1>0 DEF kfree_done, CallPages
<1>2. PICK own \in [pool -> Owners] : Owns(own) BY DEF HeapOwned
<1>3. lost \cap CallPages = {} BY <1>2 DEF Owns, OthersOwned
<1>4. HeapTypes' BY <1>0, <1>1, <1>3 DEF kfree_done, HeapTypes, shape
<1>5. HeapCall' BY <1>0 DEF kfree_done, HeapCall, shape
<1>6. HeapList' BY <1>0 DEF kfree_done, HeapList, shape
<1>7. HeapSlabs' BY <1>0 DEF kfree_done, HeapSlabs, Mine, Stacked, InUse
<1>8. HeapBlocks' BY DEF kfree_done, HeapBlocks, Lives, InUse, UnitsOf
<1>9. HeapOwned'
  <2>0. PICK new : new = [x \in pool' |-> own[x]] OBVIOUS
  <2>1. new \in [pool' -> Owners] BY <1>1, <2>0
  <2>2. UNCHANGED <<heap, blocks, lost>> BY DEF kfree_done
  <2>3. \A x \in pool : own[x] # <<"call", 0, 0>> => x \in pool' /\ new[x] = own[x]
    BY <1>1, <1>2, <2>0 DEF Owns, OthersOwned
  <2>5. MetaOwned(new)' /\ BasesOwned(new)' BY <1>2, <2>2, <2>3 DEF Owns, MetaOwned, BasesOwned, Meta
  <2>6. WholesOwned(new)' BY <1>2, <2>2, <2>3 DEF Owns, WholesOwned, WholePages
  <2>7. OthersOwned(new)' BY <1>0, <1>2, <2>2, <2>3 DEF Owns, OthersOwned, HeapTypes
  <2> QED BY <2>1, <2>5, <2>6, <2>7 DEF HeapOwned, Owns
<1>10. HeapAccounted' BY <1>0, <1>1 DEF kfree_done, HeapAccounted, WholePages, Meta
<1> QED BY <1>4, <1>5, <1>6, <1>7, <1>8, <1>9, <1>10

(* the pages of a large block *)
LEMMA StepLarge == Sizes /\ HeapInv /\ large => HeapInv'
<1> SUFFICES ASSUME Sizes, HeapInv, large PROVE HeapInv' OBVIOUS
<1> USE DEF HeapInv
<1> DEFINE n == call.whole + (IF call.units > 0 THEN 1 ELSE 0)
<1>0. kpc = "pages" /\ CallPages = {} /\ call \in CallRec /\ call.whole > 0 /\ call.whole \in Nat /\ n \in Nat /\ n > 0 /\ call.units \in 0 .. Units /\ call.base \in Nat
  BY DEF large, CallPages, HeapTypes, HeapCall, CallRec
<1>1. CASE Return /\ UNCHANGED <<pool, blocks>>
  <2>1. call' \in CallRec /\ kpc' = "idle" /\ CallPages' = {} BY <1>1, Returned
  <2>4. HeapTypes' BY <1>1, <2>1 DEF large, HeapTypes, shape
  <2>5. HeapCall' BY <1>1, <2>1 DEF large, HeapCall, shape
  <2>6. HeapList' BY <1>1, <2>1 DEF large, HeapList, shape
  <2>7. HeapSlabs' BY <1>0, <1>1, <2>1 DEF large, HeapSlabs, Mine, Stacked, InUse
  <2>8. HeapBlocks' BY <1>1, <2>1 DEF large, HeapBlocks, Lives, InUse, UnitsOf
  <2>9. HeapOwned' BY <1>0, <1>1, <2>1 DEF large, HeapOwned, Owns, MetaOwned, BasesOwned, WholesOwned, OthersOwned, WholePages, Meta
  <2>10. HeapAccounted' BY <1>0, <1>1, <2>1 DEF large, HeapAccounted, WholePages, Meta
  <2> QED BY <2>4, <2>5, <2>6, <2>7, <2>8, <2>9, <2>10
<1>2. CASE /\ Runs(n) # {} /\ pool' = pool \cup Pages(n)
           /\ call.units = 0 /\ Finish([call EXCEPT !.base = Min(Pages(n))])
  <2>1. n = call.whole BY <1>0, <1>2
  <2> HIDE DEF n
  <2>2. PICK m \in 1 .. NPages - n + 1 : Pages(n) = m .. m + n - 1 /\ Pages(n) \cap pool = {} /\ Min(Pages(n)) = m
    BY <1>0, <1>2, PagesFree DEF Sizes
  <2>3. m \in Nat /\ n > 0 /\ NPages \in Nat BY <1>0, <2>1, <2>2 DEF Sizes
  <2> DEFINE c == [call EXCEPT !.base = m]
  <2>4. c \in CallRec /\ c.whole = n /\ c.units = 0 /\ c.base = m BY <1>0, <1>2, <2>1, <2>3 DEF CallRec
  <2>5. PICK b \in BlockRec : /\ blocks' = blocks \cup {b} /\ blocks' \subseteq BlockRec
           /\ b.whole = c.whole /\ b.units = c.units /\ b.base = c.base
           /\ call' \in CallRec /\ kpc' = "idle" /\ CallPages' = {}
    <3>1. Finish(c) /\ blocks \subseteq BlockRec BY <1>2, <2>2 DEF HeapTypes
    <3> HIDE DEF c
    <3> QED BY <2>4, <3>1, Finished
  <2> HIDE DEF c
  <2>6. WholePages(b) = Pages(n) /\ b.units = 0 BY <2>2, <2>4, <2>5 DEF WholePages
  <2>7. heap # <<>> BY <1>0 DEF HeapCall
  <2>a. pool' \subseteq 1 .. NPages BY <1>2, <2>2, <2>3, <1>0 DEF HeapTypes
  <2>b. UNCHANGED <<kmax, max, heap, latest, lost, broken>> BY DEF large, shape
  <2>8. HeapTypes' BY <1>2, <2>a, <2>b, <2>5 DEF HeapTypes
  <2>9. HeapCall' BY <2>5, <2>7, <2>b DEF HeapCall
  <2>10. HeapList' BY <2>5, <2>6, <2>b DEF HeapList
  <2>11. HeapSlabs' BY <1>0, <2>5, <2>b DEF HeapSlabs, Mine, Stacked, InUse
  <2>12. HeapBlocks' BY <2>5, <2>6, <2>b DEF HeapBlocks, Lives, InUse, UnitsOf
  <2>13. HeapOwned'
    <3>1. PICK own \in [pool -> Owners] : Owns(own) BY DEF HeapOwned
    <3>4. <<"block", b, 0>> \in Owners BY DEF Owners
    <3>5. PICK new : new = [x \in pool' |-> IF x \in Pages(n) THEN <<"block", b, 0>> ELSE own[x]] OBVIOUS
    <3>2. new \in [pool' -> Owners] BY <1>2, <3>4, <3>5
    <3>3. Owns(new)'
      <4>1. \A x \in pool : new[x] = own[x] BY <1>2, <2>2, <3>5
      <4>2. \A x \in Pages(n) : new[x] = <<"block", b, 0>> BY <1>2, <3>5
      <4>3. \A c1 \in blocks : WholePages(c1)' = WholePages(c1) BY DEF WholePages
      <4>4. \A x \in WholePages(b)' : x \in Pages(n) BY <2>6 DEF WholePages
      <4>5. MetaOwned(new)' /\ BasesOwned(new)' BY <1>2, <3>1, <4>1, <4>2, <4>3, <4>4, <2>5, <2>b DEF Owns, MetaOwned, BasesOwned, Meta
      <4>6. WholesOwned(new)' BY <1>2, <3>1, <4>1, <4>2, <4>3, <4>4, <2>5, <2>b DEF Owns, WholesOwned, WholePages
      <4>7. OthersOwned(new)' BY <1>2, <3>1, <4>1, <4>2, <4>3, <4>4, <2>5, <2>b DEF Owns, OthersOwned, HeapTypes
      <4> QED BY <4>5, <4>6, <4>7 DEF Owns
    <3> QED BY <3>2, <3>3 DEF HeapOwned
  <2>14. HeapAccounted' BY <1>0, <1>2, <2>5, <2>6, <2>b DEF HeapAccounted, WholePages, Meta
  <2> QED BY <2>8, <2>9, <2>10, <2>11, <2>12, <2>13, <2>14
<1>3. CASE /\ Runs(n) # {} /\ pool' = pool \cup Pages(n)
           /\ call.units # 0 /\ kpc' = "find" /\ call' = [call EXCEPT !.base = Min(Pages(n))] /\ UNCHANGED blocks
  <2>1. n = call.whole + 1 BY <1>0, <1>3
  <2> HIDE DEF n
  <2>2. PICK m \in 1 .. NPages - n + 1 : Pages(n) = m .. m + n - 1 /\ Pages(n) \cap pool = {} /\ Min(Pages(n)) = m
    BY <1>0, <1>3, PagesFree DEF Sizes
  <2>3. m \in Nat /\ n > 0 /\ NPages \in Nat BY <1>0, <2>1, <2>2 DEF Sizes
  <2>4. call' \in CallRec /\ call'.whole = call.whole /\ call'.units = call.units /\ call'.base = m /\ call'.sc = call.sc BY <1>0, <1>3, <2>1, <2>2, <2>3 DEF CallRec
  <2>6. CallPages' = Pages(n) BY <1>0, <1>3, <2>1, <2>2, <2>4 DEF CallPages
  <2>7. heap # <<>> BY <1>0 DEF HeapCall
  <2>a. pool' \subseteq 1 .. NPages BY <1>3, <2>2, <2>3, <1>0 DEF HeapTypes
  <2>b. UNCHANGED <<kmax, max, heap, latest, lost, broken>> BY DEF large, shape
  <2>8. HeapTypes' BY <1>3, <2>a, <2>b, <2>4 DEF HeapTypes
  <2>9. HeapCall' BY <1>0, <1>3, <2>4, <2>7, <2>b DEF HeapCall
  <2>10. HeapList' BY <1>3, <2>b DEF HeapList
  <2>11. HeapSlabs' BY <1>0, <1>3, <2>b DEF HeapSlabs, Mine, Stacked, InUse
  <2>12. HeapBlocks' BY <1>3, <2>b DEF HeapBlocks, Lives, InUse, UnitsOf
  <2>13. HeapOwned'
    <3>1. PICK own \in [pool -> Owners] : Owns(own) BY DEF HeapOwned
    <3>4. <<"call", 0, 0>> \in Owners BY DEF Owners
    <3>5. PICK new : new = [x \in pool' |-> IF x \in Pages(n) THEN <<"call", 0, 0>> ELSE own[x]] OBVIOUS
    <3>2. new \in [pool' -> Owners] BY <1>3, <3>4, <3>5
    <3>3. Owns(new)'
      <4>1. \A x \in pool : new[x] = own[x] BY <1>3, <2>2, <3>5
      <4>2. \A x \in Pages(n) : new[x] = <<"call", 0, 0>> BY <1>3, <3>5
      <4>5. MetaOwned(new)' /\ BasesOwned(new)' BY <1>3, <3>1, <4>1, <4>2, <2>6, <2>b DEF Owns, MetaOwned, BasesOwned, Meta
      <4>6. WholesOwned(new)' BY <1>3, <3>1, <4>1, <4>2, <2>6, <2>b DEF Owns, WholesOwned, WholePages
      <4>7. OthersOwned(new)' BY <1>3, <3>1, <4>1, <4>2, <2>6, <2>b DEF Owns, OthersOwned, HeapTypes
      <4> QED BY <4>5, <4>6, <4>7 DEF Owns
    <3> QED BY <3>2, <3>3 DEF HeapOwned
  <2>14. HeapAccounted' BY <1>0, <1>3, <2>6, <2>b DEF HeapAccounted, WholePages, Meta
  <2> QED BY <2>8, <2>9, <2>10, <2>11, <2>12, <2>13, <2>14
<1> QED BY <1>1, <1>2, <1>3 DEF large

(* a call that ends without a change but of pages that are lost or of a broken list *)
LEMMA StepGivesUp ==
  ASSUME Sizes, HeapInv, Return, UNCHANGED <<kmax, max, heap, latest, blocks>>, kpc # "page",
         pool' \subseteq 1 .. NPages, pool \subseteq pool', lost' \subseteq pool', broken' \in BOOLEAN,
         lost' \cap CallPages = CallPages, lost' \subseteq lost \cup CallPages, lost \subseteq lost',
         ~broken' => pool' = pool /\ ~broken,
         heap = <<>> => lost' = {}
  PROVE  HeapInv'
<1> USE DEF HeapInv
<1>1. call' \in CallRec /\ kpc' = "idle" /\ CallPages' = {} BY Returned
<1>2. heap' = heap /\ blocks' = blocks /\ kpc # "page" /\ kpc' # "page" BY <1>1
<1>4. HeapTypes' BY <1>1 DEF HeapTypes
<1>5. HeapCall' BY <1>1 DEF HeapCall
<1>6. HeapList' BY <1>1 DEF HeapList
<1>7. HeapSlabs' BY <1>2 DEF HeapSlabs, Mine, Stacked, InUse
<1>8. HeapBlocks' BY <1>2 DEF HeapBlocks, Lives, InUse, UnitsOf
<1>9. HeapOwned'
  <2>1. PICK own \in [pool -> Owners] : Owns(own) BY DEF HeapOwned
  <2>2. PICK new : new = [x \in pool' |-> IF x \in pool \ lost' THEN own[x] ELSE <<"lost", 0, 0>>] OBVIOUS
  <2>3. <<"lost", 0, 0>> \in Owners BY DEF Owners
  <2>4. new \in [pool' -> Owners] BY <2>2, <2>3
  <2>5. \A x \in pool : own[x] # <<"call", 0, 0>> => x \in pool' /\ new[x] = own[x]
    BY <2>1, <2>2 DEF Owns, OthersOwned
  <2>6. MetaOwned(new)'
    <3>1. \A n \in DOMAIN heap : \A x \in Meta(heap[n]) : x \in pool /\ own[x] = <<"meta", heap[n].page, 0>>
      BY <2>1 DEF Owns, MetaOwned
    <3>2. \A n \in DOMAIN heap : \A x \in Meta(heap[n]) : x \in pool' /\ new[x] = <<"meta", heap[n].page, 0>>
      BY <2>5, <3>1
    <3> QED BY <1>2, <3>2, Zenon DEF MetaOwned, Meta
  <2>9. BasesOwned(new)' BY <1>2, <2>1, <2>5 DEF Owns, BasesOwned
  <2>7. WholesOwned(new)' BY <1>2, <2>1, <2>5 DEF Owns, WholesOwned, WholePages
  <2>8. OthersOwned(new)' BY <1>1, <2>1, <2>2 DEF Owns, OthersOwned, HeapTypes
  <2> QED BY <2>4, <2>6, <2>7, <2>8, <2>9 DEF HeapOwned, Owns
<1>10. HeapAccounted' BY <1>1 DEF HeapAccounted, WholePages, Meta
<1> QED BY <1>4, <1>5, <1>6, <1>7, <1>8, <1>9, <1>10

(* a new slab page has no slabs *)
LEMMA NewPage ==
  ASSUME NEW h \in Nat, NEW a \in Nat, NEW b \in Nat, NEW n \in Nat
  PROVE  /\ SlabPage(h, a, b, n) \in PageRec /\ SlabPage(h, a, b, n).page = h /\ SlabPage(h, a, b, n).caches = {a, b}
         /\ SlabPage(h, a, b, n).free = n /\ SlabPage(h, a, b, n).slabs = <<>> /\ SlabPage(h, a, b, n).unused = <<>>
         /\ SlabPage(h, a, b, n).inuse = <<>>
  BY EmptySeq DEF SlabPage, PageRec

(* the first slab page *)
LEMMA StepSetup == Sizes /\ HeapInv /\ setup => HeapInv'
<1> SUFFICES ASSUME Sizes, HeapInv, setup PROVE HeapInv' OBVIOUS
<1> USE DEF HeapInv
<1>0. /\ kpc = "setup" /\ heap = <<>> /\ blocks = {} /\ lost = {} /\ ~broken /\ CallPages = {}
      /\ call \in CallRec /\ call.whole \in Nat /\ call.units \in 0 .. Units /\ call.whole + call.units > 0
  BY DEF setup, CallPages, HeapTypes, HeapCall, CallRec
<1>1. pool = {} BY <1>0 DEF HeapAccounted
<1>2. UNCHANGED <<kmax, max, latest, blocks, lost>> BY DEF setup, shape
<1>3. CASE Return /\ UNCHANGED <<pool, heap, broken>>
  BY <1>0, <1>1, <1>2, <1>3, StepGivesUp DEF HeapTypes
<1>4. CASE Return /\ broken' = TRUE /\ pool' = pool \cup Pages(1) /\ UNCHANGED heap
  <2>1. 1 \in Runs(1) BY <1>1 DEF Runs, Sizes
  <2>2. pool' \subseteq 1 .. NPages BY <1>1, <1>4, <2>1, PagesFree DEF Sizes
  <2> QED BY <1>0, <1>1, <1>2, <1>4, <2>2, StepGivesUp
<1>5. CASE /\ pool' = pool \cup Pages(3) /\ heap' = <<SlabPage(Min(Runs(3)), Min(Runs(3)) + 1, Min(Runs(3)) + 2, kmax)>>
           /\ kpc' = IF call.whole > 0 THEN "pages" ELSE "find"
           /\ UNCHANGED <<call, broken>>
  <2>1. 1 \in Runs(3) BY <1>1 DEF Runs, Sizes
  <2>2. PICK m \in 1 .. NPages - 3 + 1 : m = Min(Runs(3)) /\ Pages(3) = m .. m + 3 - 1 BY <2>1, PagesFree DEF Sizes
  <2>3. m \in Nat /\ m + 2 <= NPages /\ NPages \in Nat /\ kmax \in Nat \ {0} BY <2>2 DEF Sizes, HeapTypes
  <2>4. pool' = {m, m + 1, m + 2} BY <1>1, <1>5, <2>2, <2>3
  <2>5. PICK p : p = SlabPage(m, m + 1, m + 2, kmax) /\ p \in PageRec /\ p.page = m /\ p.caches = {m + 1, m + 2} /\ p.free = kmax
                 /\ p.slabs = <<>> /\ p.unused = <<>> /\ p.inuse = <<>>
    <3>1. m \in Nat /\ m + 1 \in Nat /\ m + 2 \in Nat /\ kmax \in Nat BY <2>3
    <3>2. PICK a \in Nat, b \in Nat : a = m + 1 /\ b = m + 2 BY <3>1
    <3>3. PICK p : p = SlabPage(m, a, b, kmax) OBVIOUS
    <3>4. p \in PageRec /\ p.page = m /\ p.caches = {a, b} /\ p.free = kmax /\ p.slabs = <<>> /\ p.unused = <<>> /\ p.inuse = <<>>
      BY ONLY <3>1, <3>2, <3>3, EmptySeq DEF SlabPage, PageRec
    <3> QED BY ONLY <3>2, <3>3, <3>4
  <2>6. heap' = <<p>> BY <1>5, <2>2, <2>5
  <2>7. heap' \in Seq(PageRec) /\ Len(heap') = 1 /\ DOMAIN heap' = {1} /\ heap'[1] = p /\ heap' # <<>> BY <2>5, <2>6
  <2>8. CallPages' = {} BY <1>5, <1>0 DEF CallPages
  <2>9. HeapTypes' BY <1>1, <1>2, <1>5, <2>3, <2>4, <2>7, <1>0 DEF HeapTypes
  <2>10. HeapCall' BY <1>0, <1>2, <1>5, <2>7 DEF HeapCall
  <2>11. HeapList'
    <3>1. Len(p.slabs) = 0 BY <2>5
    <3> QED BY <1>0, <1>2, <1>5, <2>3, <2>5, <2>7, <3>1 DEF HeapList
  <2>12. HeapSlabs' BY <1>5, <2>5, <2>7 DEF HeapSlabs, Mine, Stacked, InUse
  <2>13. HeapBlocks' BY <1>0, <1>2 DEF HeapBlocks
  <2>14. HeapOwned'
    <3>1. PICK new : new = [x \in pool' |-> <<"meta", m, 0>>] OBVIOUS
    <3>2. new \in [pool' -> Owners] BY <2>3, <3>1 DEF Owners
    <3>3. MetaOwned(new)' BY <2>4, <2>5, <2>7, <3>1 DEF MetaOwned, Meta
    <3>4. BasesOwned(new)' BY <2>5, <2>7 DEF BasesOwned
    <3>5. WholesOwned(new)' /\ OthersOwned(new)' BY <1>0, <1>2, <2>8 DEF WholesOwned, OthersOwned
    <3> QED BY <3>2, <3>3, <3>4, <3>5 DEF HeapOwned, Owns
  <2>15. HeapAccounted' BY <2>4, <2>5, <2>7 DEF HeapAccounted, Meta
  <2> QED BY <2>9, <2>10, <2>11, <2>12, <2>13, <2>14, <2>15
<1> QED BY <1>3, <1>4, <1>5 DEF setup

(* the types of the fields of a slab page *)
LEMMA PageFields ==
  ASSUME NEW h \in PageRec
  PROVE  /\ h.page \in Nat /\ h.caches \subseteq Nat /\ h.free \in Nat
         /\ h.slabs \in Seq(SlabRec) /\ Len(h.slabs) \in Nat /\ DOMAIN h.slabs = 1 .. Len(h.slabs)
         /\ \A t \in DOMAIN h.slabs : /\ h.slabs[t] \in SlabRec /\ h.slabs[t].base \in Nat /\ h.slabs[t].FreeObs \in Int
                                      /\ h.slabs[t].used \subseteq 0 .. Units - 1
         /\ h.unused \in Seq(Nat) /\ Len(h.unused) \in Nat /\ DOMAIN h.unused = 1 .. Len(h.unused)
         /\ h.inuse \in Seq(BOOLEAN) /\ Len(h.inuse) \in Nat /\ DOMAIN h.inuse = 1 .. Len(h.inuse)
         /\ h = [page |-> h.page, caches |-> h.caches, free |-> h.free, slabs |-> h.slabs, unused |-> h.unused, inuse |-> h.inuse]
<1>1. /\ h.page \in Nat /\ h.caches \subseteq Nat /\ h.free \in Nat /\ h.slabs \in Seq(SlabRec)
      /\ h.unused \in Seq(Nat) /\ h.inuse \in Seq(BOOLEAN)
      /\ h = [page |-> h.page, caches |-> h.caches, free |-> h.free, slabs |-> h.slabs, unused |-> h.unused, inuse |-> h.inuse]
  BY DEF PageRec
<1>2. \A t \in DOMAIN h.slabs : h.slabs[t] \in SlabRec BY <1>1
<1> QED BY <1>1, <1>2 DEF SlabRec

(* one slab page changes *)
LEMMA Replaced ==
  ASSUME HeapTypes, NEW p \in DOMAIN heap, NEW g \in PageRec, heap' = [heap EXCEPT ![p] = g]
  PROVE  /\ heap' \in Seq(PageRec) /\ Len(heap') = Len(heap) /\ DOMAIN heap' = DOMAIN heap /\ heap' # <<>> /\ heap # <<>>
         /\ heap'[p] = g /\ \A n \in DOMAIN heap : n # p => heap'[n] = heap[n]
         /\ Len(heap) \in Nat \ {0} /\ DOMAIN heap = 1 .. Len(heap)
         /\ \A n \in DOMAIN heap : heap[n] \in PageRec
<1> heap \in Seq(PageRec) BY DEF HeapTypes
<1>1. DOMAIN heap = 1 .. Len(heap) /\ Len(heap) \in Nat /\ \A n \in DOMAIN heap : heap[n] \in PageRec OBVIOUS
<1>2. heap' \in [1 .. Len(heap) -> PageRec] BY <1>1
<1>3. heap' \in Seq(PageRec) /\ Len(heap') = Len(heap) BY <1>1, <1>2
<1> QED BY <1>1, <1>3

(* one slab page of the list changes, and the list is in order as before *)
LEMMA ListKept ==
  ASSUME HeapTypes, HeapList, NEW p \in DOMAIN heap, NEW g \in PageRec, heap' = [heap EXCEPT ![p] = g],
         UNCHANGED <<kmax, max>>, g.page = heap[p].page, g.slabs # <<>>,
         g.free + Len(g.slabs) = heap[p].free + Len(heap[p].slabs), p # Len(heap) => g.free = 0,
         latest'.page = heap[Len(heap)].page,
         heap'[Len(heap)].free > 0 => latest'.index = Len(heap'[Len(heap)].slabs),
         heap'[1].slabs # <<>>
  PROVE  HeapList'
<1>1. /\ Len(heap') = Len(heap) /\ DOMAIN heap' = DOMAIN heap /\ heap'[p] = g
      /\ \A n \in DOMAIN heap : n # p => heap'[n] = heap[n]
      /\ Len(heap) \in Nat \ {0} /\ DOMAIN heap = 1 .. Len(heap)
  BY Replaced
<1>2. heap'[Len(heap)].page = heap[Len(heap)].page BY <1>1
<1> QED BY <1>1, <1>2 DEF HeapList

(* the first slab *)
LEMMA StepFirstSlab == Sizes /\ HeapInv /\ first_slab => HeapInv'
<1> SUFFICES ASSUME Sizes, HeapInv, first_slab PROVE HeapInv' OBVIOUS
<1> USE DEF HeapInv
<1>0. kpc = "find" /\ heap[1].slabs = <<>> /\ heap # <<>> /\ UNCHANGED <<kmax, max, pool, blocks, kpc, call, lost, broken>>
  BY DEF first_slab, HeapCall, shape
<1>1. 1 \in DOMAIN heap /\ heap[1] \in PageRec /\ kmax \in Nat \ {0} /\ heap \in Seq(PageRec) /\ Len(heap) \in Nat \ {0} /\ DOMAIN heap = 1 .. Len(heap)
  BY <1>0 DEF HeapTypes
<1>2. Len(heap[1].slabs) = 0 BY <1>0
<1>3. heap[1].free = kmax
  <2>1. heap[1].free + Len(heap[1].slabs) = kmax BY <1>1 DEF HeapList
  <2> QED BY <1>1, <1>2, <2>1, PageFields
<1>4. Len(heap) = 1
  <2>1. \A n \in DOMAIN heap : n # Len(heap) => heap[n].free = 0 BY DEF HeapList
  <2> QED BY <1>1, <1>3, <2>1
<1>5. heap[1].unused = <<>> /\ heap[1].inuse = <<>>
  <2>1. Stacked(heap[1]) BY <1>1 DEF HeapSlabs
  <2>2. Len(heap[1].unused) = 0 BY <2>1, <1>1, <1>2, PageFields DEF Stacked
  <2>3. Len(heap[1].inuse) = 0 BY <2>1, <1>1, <1>2, PageFields DEF Stacked
  <2> QED BY <2>2, <2>3, <1>1, PageFields, EmptySeq
<1> DEFINE g == [heap[1] EXCEPT !.slabs = <<Slab>>, !.free = @ - 1, !.unused = Append(@, 1)]
<1>6. Slab \in SlabRec /\ Slab.used = {} /\ Slab.base = Invalid /\ Slab.FreeObs = Units BY DEF Slab, SlabRec, Sizes, Invalid
<1>7. g \in PageRec /\ g.page = heap[1].page /\ g.caches = heap[1].caches /\ g.free = kmax - 1 /\ g.slabs = <<Slab>> /\ g.unused = <<1>> /\ g.inuse = <<>>
  <2>1. <<Slab>> \in Seq(SlabRec) /\ <<1>> \in Seq(Nat) /\ kmax - 1 \in Nat BY <1>1, <1>6
  <2>2. heap[1].free - 1 = kmax - 1 /\ Append(heap[1].unused, 1) = <<1>> BY <1>3, <1>5
  <2>3. PICK f \in Nat, s \in Seq(SlabRec), u \in Seq(Nat) : f = kmax - 1 /\ s = <<Slab>> /\ u = <<1>> BY <2>1
  <2>4. g = [heap[1] EXCEPT !.slabs = s, !.free = f, !.unused = u] BY <2>2, <2>3
  <2> HIDE DEF g
  <2>5. PICK h \in PageRec : h = heap[1] BY <1>1
  <2>6. g = [h EXCEPT !.slabs = s, !.free = f, !.unused = u] BY <2>4, <2>5
  <2>7. /\ g \in PageRec /\ g.page = h.page /\ g.caches = h.caches /\ g.free = f /\ g.slabs = s
         /\ g.unused = u /\ g.inuse = h.inuse BY <2>6 DEF PageRec
  <2> QED BY <1>5, <2>3, <2>5, <2>7
<1>8. g \in PageRec BY <1>7
<1>9. heap' = [heap EXCEPT ![1] = g] BY <1>1 DEF first_slab
<1> HIDE DEF g
<1>10. /\ heap' \in Seq(PageRec) /\ Len(heap') = 1 /\ DOMAIN heap' = {1} /\ heap'[1] = g /\ heap' # <<>> /\ DOMAIN heap = {1}
  BY <1>1, <1>4, <1>8, <1>9, Replaced
<1>11. DOMAIN g.slabs = {1} /\ Len(g.slabs) = 1 /\ g.slabs[1] = Slab /\ g.slabs # <<>> /\ DOMAIN g.unused = {1} /\ g.unused[1] = 1 /\ Len(g.inuse) = 0 /\ DOMAIN g.inuse = {}
  BY <1>7
<1>12. latest' = [page |-> heap[1].page, index |-> 1] BY DEF first_slab
<1>13. HeapTypes'
  <2>1. latest' \in Ref BY <1>1, <1>12, PageFields DEF Ref
  <2> QED BY <2>1, <1>0, <1>10 DEF HeapTypes
<1>14. HeapCall' BY <1>0, <1>10 DEF HeapCall
<1>15. HeapList'
  <2>1. g.free + Len(g.slabs) = heap[1].free + Len(heap[1].slabs) BY <1>1, <1>2, <1>3, <1>7, <1>11
  <2>2. latest'.page = heap[Len(heap)].page /\ latest'.index = Len(heap'[Len(heap)].slabs) BY <1>4, <1>10, <1>11, <1>12
  <2> QED BY <1>0, <1>1, <1>4, <1>7, <1>8, <1>9, <1>10, <1>11, <2>1, <2>2, ListKept
<1>16. HeapSlabs'
  <2>1. ~InUse(g, 1) BY <1>11 DEF InUse
  <2>2. Cardinality({}) = 0 BY FS_EmptySet
  <2>3. Stacked(g)
    <3>0. g.slabs[1].FreeObs = Units /\ g.slabs[1].used = {} /\ Units \in Nat BY <1>6, <1>11 DEF Sizes
    <3>1. g.slabs[1].FreeObs = Units - Cardinality(g.slabs[1].used) BY <3>0, <2>2
    <3>2. Len(g.inuse) <= Len(g.slabs) /\ Len(g.slabs) <= Len(g.inuse) + 1 BY <1>11
    <3> QED BY <1>6, <1>11, <2>1, <3>1, <3>2 DEF Stacked
  <2> QED BY <1>0, <1>10, <1>11, <2>1, <2>3 DEF HeapSlabs
<1>17. HeapBlocks'
  <2>1. \A b \in blocks : b.units = 0 BY <1>0, <1>1 DEF HeapList
  <2>2. \A b \in blocks' : ~(b.units > 0) BY <1>0, <2>1
  <2> QED BY <2>2 DEF HeapBlocks
<1>18. HeapOwned'
  <2>1. PICK own \in [pool -> Owners] : Owns(own) BY DEF HeapOwned
  <2>2. MetaOwned(own)' BY <2>1, <1>0, <1>7, <1>10 DEF Owns, MetaOwned, Meta
  <2>3. BasesOwned(own)' BY <1>10, <1>11, <1>6 DEF BasesOwned
  <2>4. WholesOwned(own)' BY <2>1, <1>0 DEF Owns, WholesOwned, WholePages
  <2>5. OthersOwned(own)' BY <2>1, <1>0 DEF Owns, OthersOwned, CallPages
  <2> QED BY <2>1, <2>2, <2>3, <2>4, <2>5, <1>0 DEF HeapOwned, Owns
<1>19. HeapAccounted'
  <2>1. DOMAIN heap[1].slabs = {} BY <1>0
  <2> QED BY <1>0, <1>7, <1>10, <2>1 DEF HeapAccounted, Meta, CallPages, WholePages
<1> QED BY <1>13, <1>14, <1>15, <1>16, <1>17, <1>18, <1>19

(* units are taken and given back *)
LEMMA RangeSize ==
  ASSUME NEW sc \in Nat, NEW n \in Nat
  PROVE  IsFiniteSet(sc .. sc + n - 1) /\ Cardinality(sc .. sc + n - 1) = n
<1>1. CASE n = 0
  <2>1. sc .. sc + n - 1 = {} BY <1>1
  <2> QED BY <1>1, <2>1, FS_EmptySet
<1>2. CASE n > 0
  <2>1. sc \in Int /\ sc + n - 1 \in Int /\ sc <= sc + n - 1 BY <1>2
  <2>2. Cardinality(sc .. sc + n - 1) = sc + n - 1 - sc + 1 /\ IsFiniteSet(sc .. sc + n - 1) BY <2>1, FS_Interval
  <2> QED BY <2>2
<1> QED BY <1>1, <1>2

(* the units of a slab can be counted *)
LEMMA UsedFinite ==
  ASSUME Sizes, NEW U \in SUBSET (0 .. Units - 1)
  PROVE  IsFiniteSet(U) /\ Cardinality(U) \in Nat
<1>1. IsFiniteSet(0 .. Units - 1) BY FS_Interval DEF Sizes
<1>2. IsFiniteSet(U) BY <1>1, FS_Subset
<1> QED BY <1>2, FS_CardinalityType

(* taking n free units leaves n fewer *)
LEMMA UnitsTaken ==
  ASSUME Sizes, NEW U \in SUBSET (0 .. Units - 1), NEW sc \in Nat, NEW n \in Nat,
         (sc .. sc + n - 1) \cap U = {}
  PROVE  Cardinality(U \cup sc .. sc + n - 1) = Cardinality(U) + n
<1> DEFINE R == sc .. sc + n - 1
<1>1. IsFiniteSet(R) /\ Cardinality(R) = n BY RangeSize
<1>2. IsFiniteSet(U) /\ Cardinality(U) \in Nat BY UsedFinite
<1>3. U \cap R = {} OBVIOUS
<1> HIDE DEF R
<1>4. Cardinality(U \cup R) = Cardinality(U) + Cardinality(R) - Cardinality(U \cap R) BY <1>1, <1>2, FS_Union
<1>5. Cardinality(U \cap R) = 0 BY <1>3, FS_EmptySet
<1>6. Cardinality(U \cup R) = Cardinality(U) + n BY <1>1, <1>2, <1>4, <1>5
<1> QED BY <1>6 DEF R

(* giving back n units leaves n more; no unit is taken when they were the only ones *)
LEMMA UnitsFreed ==
  ASSUME Sizes, NEW U \in SUBSET (0 .. Units - 1), NEW sc \in Nat, NEW n \in Nat,
         sc .. sc + n - 1 \subseteq U
  PROVE  /\ Cardinality(U \ (sc .. sc + n - 1)) = Cardinality(U) - n
         /\ Cardinality(U) = n => U \ (sc .. sc + n - 1) = {}
<1> DEFINE R == sc .. sc + n - 1
<1>1. IsFiniteSet(R) /\ Cardinality(R) = n BY RangeSize
<1>2. IsFiniteSet(U) /\ Cardinality(U) \in Nat BY UsedFinite
<1>3. U \cap R = R OBVIOUS
<1> HIDE DEF R
<1>4. Cardinality(U \ R) = Cardinality(U) - Cardinality(U \cap R) /\ IsFiniteSet(U \ R) BY <1>1, <1>2, FS_Difference
<1>5. Cardinality(U \ R) = Cardinality(U) - n BY <1>1, <1>3, <1>4
<1>6. Cardinality(U) = n => U \ R = {} BY <1>2, <1>4, <1>5, FS_EmptySet
<1> QED BY <1>5, <1>6 DEF R

(* the contents of a slab that stays in use change *)
LEMMA StackedKept ==
  ASSUME NEW h \in PageRec, Stacked(h), NEW t \in DOMAIN h.slabs, InUse(h, t), NEW g \in PageRec,
         g.inuse = h.inuse, g.unused = h.unused, DOMAIN g.slabs = DOMAIN h.slabs, Len(g.slabs) = Len(h.slabs),
         \A j \in DOMAIN h.slabs : j # t => g.slabs[j] = h.slabs[j],
         g.slabs[t].FreeObs = Units - Cardinality(g.slabs[t].used)
  PROVE  Stacked(g) /\ \A j : InUse(g, j) <=> InUse(h, j)
<1>1. \A j : InUse(g, j) <=> InUse(h, j) BY DEF InUse
<1> QED BY <1>1 DEF Stacked

(* a small block in a slab that is in use *)
LEMMA StepTakeUsed == Sizes /\ HeapInv /\ take_used => HeapInv'
<1> SUFFICES ASSUME Sizes, HeapInv, take_used PROVE HeapInv' OBVIOUS
<1> USE DEF HeapInv
<1>0. /\ kpc = "find" /\ heap[1].slabs # <<>> /\ heap # <<>> /\ UNCHANGED <<kmax, max, pool, latest, lost, broken>>
      /\ call \in CallRec /\ call.whole \in Nat /\ call.units \in 0 .. Units /\ call.units \in Nat /\ call.units > 0 /\ ~broken
  BY DEF take_used, HeapCall, shape, HeapTypes, CallRec, Sizes
<1>1. PICK x \in Fitting : LET s == heap[x[1]].slabs[x[2]]
                               sc == find_objs(s, call.units)
                           IN  /\ heap' = [heap EXCEPT ![x[1]] = Marked(x[1], x[2], sc, call.units)]
                               /\ Finish([call EXCEPT !.slab = [page |-> heap[x[1]].page, index |-> x[2]], !.sc = sc])
  BY DEF take_used
<1>2. PICK p, t : p = x[1] /\ t = x[2] OBVIOUS
<1>3. /\ p \in DOMAIN heap /\ t \in DOMAIN heap[p].inuse /\ heap[p].inuse[t] /\ call.whole = 0
      /\ heap[p].slabs[t].FreeObs >= call.units /\ Openings(heap[p].slabs[t], call.units) # {}
  <2>1. call.whole > 0 => Fitting = {} BY DEF Fitting
  <2>2. call.whole = 0 BY <1>0, <2>1
  <2> QED BY <1>0, <1>2, <2>2 DEF Fitting
<1> DEFINE s == heap[p].slabs[t]
           sc == find_objs(s, call.units)
<1>4. /\ heap' = [heap EXCEPT ![p] = Marked(p, t, sc, call.units)]
      /\ Finish([call EXCEPT !.slab = [page |-> heap[p].page, index |-> t], !.sc = sc])
  BY <1>1, <1>2
<1>5. heap[p] \in PageRec /\ InUse(heap[p], t) /\ heap \in Seq(PageRec) BY <1>3 DEF HeapTypes, InUse
<1>6. t \in DOMAIN heap[p].slabs /\ Stacked(heap[p])
  <2>1. Stacked(heap[p]) BY <1>3 DEF HeapSlabs
  <2>2. Len(heap[p].inuse) <= Len(heap[p].slabs) BY <2>1 DEF Stacked
  <2> QED BY <1>3, <1>5, <2>1, <2>2, PageFields
<1>7. s \in SlabRec /\ s.used \in SUBSET (0 .. Units - 1) /\ s.FreeObs \in Int /\ s.base \in Nat /\ s.base # Invalid
  <2>1. s.base # Invalid BY <1>0, <1>3, <1>5, <1>6 DEF HeapSlabs, Mine
  <2> QED BY <1>5, <1>6, <2>1, PageFields
<1>8. sc \in Nat /\ sc \in 0 .. Units - call.units /\ (sc .. sc + call.units - 1) \cap s.used = {}
  <2>1. sc \in 0 .. Units - call.units /\ sc .. sc + call.units - 1 \cap s.used = {}
    BY <1>0, <1>3, ObjsFree DEF Sizes
  <2> QED BY <2>1
<1>9. PICK k \in Nat : k = sc BY <1>8
<1>10. PICK h \in PageRec : h = heap[p] BY <1>5
<1>11. PICK U \in SUBSET (0 .. Units - 1) : U = s.used \cup k .. k + call.units - 1
  <2>1. k .. k + call.units - 1 \subseteq 0 .. Units - 1 BY <1>0, <1>8, <1>9 DEF Sizes
  <2> HIDE DEF s
  <2> QED BY <1>7, <2>1
<1>12. PICK F \in Int : F = s.FreeObs - call.units BY <1>0, <1>7
<1>13. PICK r \in SlabRec : r = [s EXCEPT !.used = U, !.FreeObs = F] BY <1>7 DEF SlabRec
<1>14. r.base = s.base /\ r.used = U /\ r.FreeObs = F BY <1>7, <1>13 DEF SlabRec
<1>15. PICK g : g = [h EXCEPT !.slabs[t].used = U, !.slabs[t].FreeObs = F] OBVIOUS
<1>16. g.slabs = [h.slabs EXCEPT ![t] = r] BY <1>6, <1>10, <1>13, <1>15 DEF PageRec
<1>17. /\ g.slabs \in Seq(SlabRec) /\ Len(g.slabs) = Len(h.slabs) /\ DOMAIN g.slabs = DOMAIN h.slabs /\ g.slabs[t] = r /\ g.slabs # <<>>
       /\ \A j \in DOMAIN h.slabs : j # t => g.slabs[j] = h.slabs[j]
  <2>1. h.slabs \in Seq(SlabRec) /\ t \in DOMAIN h.slabs BY <1>6, <1>10, PageFields
  <2> QED BY <1>16, <2>1
<1>18. g \in PageRec /\ g.page = h.page /\ g.caches = h.caches /\ g.free = h.free /\ g.unused = h.unused /\ g.inuse = h.inuse
  BY <1>15, <1>17 DEF PageRec
<1>19. heap' = [heap EXCEPT ![p] = g] BY <1>4, <1>9, <1>10, <1>11, <1>12, <1>15 DEF Marked
<1>20. /\ heap' \in Seq(PageRec) /\ Len(heap') = Len(heap) /\ DOMAIN heap' = DOMAIN heap /\ heap' # <<>>
       /\ heap'[p] = g /\ \A n \in DOMAIN heap : n # p => heap'[n] = heap[n]
       /\ Len(heap) \in Nat \ {0} /\ DOMAIN heap = 1 .. Len(heap)
  BY <1>3, <1>18, <1>19, Replaced
<1>21. PICK b \in BlockRec :
           /\ blocks' = blocks \cup {b} /\ blocks' \subseteq BlockRec
           /\ b.whole = 0 /\ b.units = call.units /\ b.slab = [page |-> h.page, index |-> t] /\ b.sc = k
           /\ call' \in CallRec /\ kpc' = "idle" /\ CallPages' = {}
  <2>0. h.page \in Nat /\ t \in Nat BY <1>6, <1>10, PageFields
  <2>1. PICK q \in Ref : q = [page |-> h.page, index |-> t] BY <2>0 DEF Ref
  <2>2. PICK c \in CallRec : c = [call EXCEPT !.slab = q, !.sc = k] BY <1>0, <2>1 DEF CallRec
  <2>3. c.whole = 0 /\ c.units = call.units /\ c.slab = q /\ c.sc = k BY <1>0, <1>3, <2>2 DEF CallRec
  <2>4. Finish(c) /\ blocks \subseteq BlockRec BY <1>4, <1>9, <1>10, <2>1, <2>2 DEF HeapTypes
  <2> QED BY <2>1, <2>3, <2>4, Finished
<1> HIDE DEF s, sc
<1>22. HeapTypes' BY <1>0, <1>20, <1>21 DEF HeapTypes
<1>23. HeapCall' BY <1>0, <1>20, <1>21 DEF HeapCall
<1>24. heap'[1].slabs # <<>> BY <1>0, <1>17, <1>20
<1>25. HeapList'
  <2>1. latest'.page = heap[Len(heap)].page BY <1>0, <1>20 DEF HeapList
  <2>2. heap'[Len(heap)].free > 0 => latest'.index = Len(heap'[Len(heap)].slabs)
    <3>1. heap'[Len(heap)].free = heap[Len(heap)].free /\ Len(heap'[Len(heap)].slabs) = Len(heap[Len(heap)].slabs)
      BY <1>10, <1>17, <1>18, <1>20
    <3>2. heap[Len(heap)].free > 0 => latest.index = Len(heap[Len(heap)].slabs) BY <1>0, <1>20 DEF HeapList
    <3> QED BY <1>0, <3>1, <3>2
  <2>3. p # Len(heap) => g.free = 0 BY <1>3, <1>10, <1>18 DEF HeapList
  <2> QED BY <1>0, <1>3, <1>10, <1>17, <1>18, <1>19, <1>24, <2>1, <2>2, <2>3, ListKept
<1>26. Stacked(g) /\ \A j : InUse(g, j) <=> InUse(h, j)
  <2>1. s.FreeObs = Units - Cardinality(s.used) BY <1>6 DEF Stacked, s
  <2>2. Cardinality(U) = Cardinality(s.used) + call.units /\ Cardinality(s.used) \in Nat
    BY <1>0, <1>7, <1>8, <1>9, <1>11, UnitsTaken, UsedFinite, ZenonT(40)
  <2>3. F = Units - Cardinality(U) BY <1>0, <1>7, <1>12, <2>1, <2>2 DEF Sizes
  <2>4. g.slabs[t].FreeObs = Units - Cardinality(g.slabs[t].used) BY <1>14, <1>17, <2>3
  <2> QED BY <1>5, <1>6, <1>10, <1>17, <1>18, <2>4, StackedKept, SMTT(20)
<1>27. HeapSlabs'
  <2>1. \A n \in DOMAIN heap' : Stacked(heap'[n]) BY <1>20, <1>26 DEF HeapSlabs
  <2>2. ASSUME NEW n \in DOMAIN heap', NEW j \in DOMAIN heap'[n].slabs, InUse(heap'[n], j)
        PROVE  heap'[n].slabs[j].base # Invalid
    <3>1. \A m \in DOMAIN heap : \A l \in DOMAIN heap[m].slabs : InUse(heap[m], l) => heap[m].slabs[l].base # Invalid
      BY <1>0 DEF HeapSlabs, Mine
    <3>2. CASE n # p BY <1>20, <2>2, <3>1, <3>2
    <3>3. CASE n = p /\ j # t BY <1>3, <1>10, <1>17, <1>20, <1>26, <2>2, <3>1, <3>3
    <3>4. CASE n = p /\ j = t BY <1>7, <1>14, <1>17, <1>20, <3>4
    <3> QED BY <3>2, <3>3, <3>4
  <2> QED BY <1>21, <2>1, <2>2 DEF HeapSlabs, Mine
<1>28. HeapBlocks'
  <2>1. ASSUME NEW c \in blocks, NEW n \in DOMAIN heap, Lives(c, n) PROVE Lives(c, n)'
    <3>1. CASE n # p BY <1>20, <2>1, <3>1 DEF Lives
    <3>2. CASE n = p /\ c.slab.index # t BY <1>10, <1>17, <1>18, <1>20, <1>26, <2>1, <3>2 DEF Lives
    <3>3. CASE n = p /\ c.slab.index = t
      BY <1>10, <1>11, <1>14, <1>17, <1>18, <1>20, <1>26, <2>1, <3>3 DEF Lives, UnitsOf, s
    <3> QED BY <3>1, <3>2, <3>3
  <2>2. Lives(b, p)'
    BY <1>3, <1>5, <1>6, <1>7, <1>10, <1>11, <1>14, <1>17, <1>18, <1>20, <1>21, <1>26 DEF Lives, UnitsOf
  <2>3. \A c \in blocks' : c.units > 0 => \E n \in DOMAIN heap' : Lives(c, n)' BY <1>3, <1>20, <1>21, <2>1, <2>2 DEF HeapBlocks
  <2>4. ASSUME NEW c \in blocks, c.units > 0, c.slab = b.slab PROVE UnitsOf(c) \cap UnitsOf(b) = {}
    <3>1. PICK n \in DOMAIN heap : Lives(c, n) BY <2>4 DEF HeapBlocks
    <3>2. heap[n].page = heap[p].page BY <1>10, <1>21, <2>4, <3>1 DEF Lives
    <3>3. n = p BY <1>3, <3>2 DEF HeapList
    <3>4. c.slab.index = t BY <1>21, <2>4
    <3>5. UnitsOf(c) \subseteq s.used BY <3>1, <3>3, <3>4 DEF Lives, s
    <3> QED BY <1>8, <1>9, <1>21, <3>5 DEF UnitsOf
  <2>5. \A c, d \in blocks : c # d /\ c.units > 0 /\ d.units > 0 /\ c.slab = d.slab => UnitsOf(c) \cap UnitsOf(d) = {} BY DEF HeapBlocks
  <2>6. \A c, d \in blocks' : c # d /\ c.units > 0 /\ d.units > 0 /\ c.slab = d.slab => UnitsOf(c) \cap UnitsOf(d) = {}
    BY <1>21, <2>4, <2>5
  <2> QED BY <2>3, <2>6 DEF HeapBlocks, UnitsOf
<1>29. CallPages = {} BY <1>0, <1>3 DEF CallPages
<1>30. WholePages(b) = {} BY <1>21 DEF WholePages, BlockRec
<1>31. HeapOwned'
  <2>1. PICK own \in [pool -> Owners] : Owns(own) BY DEF HeapOwned
  <2>2. MetaOwned(own)' BY <2>1, <1>0, <1>10, <1>18, <1>20 DEF Owns, MetaOwned, Meta
  <2>3. BasesOwned(own)'
    <3>1. \A n \in DOMAIN heap' : heap'[n].page = heap[n].page /\ DOMAIN heap'[n].slabs = DOMAIN heap[n].slabs
      BY <1>10, <1>17, <1>18, <1>20
    <3>2. \A n \in DOMAIN heap' : \A j \in DOMAIN heap[n].slabs : heap'[n].slabs[j].base = heap[n].slabs[j].base
      BY <1>10, <1>14, <1>17, <1>20 DEF s
    <3> QED BY <2>1, <1>0, <1>20, <3>1, <3>2 DEF Owns, BasesOwned
  <2>4. WholesOwned(own)' BY <2>1, <1>0, <1>21, <1>30 DEF Owns, WholesOwned, WholePages
  <2>5. OthersOwned(own)' BY <2>1, <1>0, <1>21 DEF Owns, OthersOwned
  <2> QED BY <2>1, <2>2, <2>3, <2>4, <2>5, <1>0 DEF HeapOwned, Owns
<1>32. HeapAccounted'
    <3>1. \A n \in DOMAIN heap' : Meta(heap'[n]) = Meta(heap[n]) /\ DOMAIN heap'[n].slabs = DOMAIN heap[n].slabs
      BY <1>10, <1>17, <1>18, <1>20 DEF Meta
    <3>2. \A n \in DOMAIN heap' : \A j \in DOMAIN heap[n].slabs : heap'[n].slabs[j].base = heap[n].slabs[j].base
      BY <1>10, <1>14, <1>17, <1>20 DEF s
    <3> QED BY <1>0, <1>20, <1>21, <1>29, <3>1, <3>2 DEF HeapAccounted, WholePages, Meta
<1> QED BY <1>22, <1>23, <1>25, <1>27, <1>28, <1>31, <1>32

(* slab t of a page is neither in use nor on the stack *)
Loose(h, t) ==
  /\ t \in DOMAIN h.slabs /\ ~InUse(h, t) /\ h.slabs[t].used = {} /\ h.slabs[t].base = Invalid /\ h.slabs[t].FreeObs = Units
  /\ Len(h.inuse) <= Len(h.slabs) /\ Len(h.slabs) <= Len(h.inuse) + 1
  /\ \A j \in DOMAIN h.unused : h.unused[j] \in DOMAIN h.slabs /\ ~InUse(h, h.unused[j]) /\ h.unused[j] # t
  /\ \A j, k \in DOMAIN h.unused : j # k => h.unused[j] # h.unused[k]
  /\ \A l \in DOMAIN h.slabs : l = t \/ InUse(h, l) \/ \E j \in DOMAIN h.unused : h.unused[j] = l
  /\ \A l \in DOMAIN h.slabs : h.slabs[l].FreeObs = Units - Cardinality(h.slabs[l].used)
  /\ \A l \in DOMAIN h.slabs : ~InUse(h, l) => h.slabs[l].used = {} /\ h.slabs[l].base = Invalid

(* what Enter does to a cache *)
LEMMA EnteredAny ==
  ASSUME NEW w \in Seq(BOOLEAN), NEW t \in 1 .. Len(w) + 1, NEW v \in BOOLEAN, NEW e, e = Enter(w, t, v)
  PROVE  /\ e \in Seq(BOOLEAN) /\ e[t] = v /\ Len(e) = (IF t > Len(w) THEN t ELSE Len(w))
         /\ \A j \in DOMAIN w : j # t => e[j] = w[j]
<1> DEFINE n == IF t > Len(w) THEN t ELSE Len(w)
<1>1. n \in Nat /\ t \in 1 .. n /\ (\A j \in 1 .. n : j # t => j \in DOMAIN w) /\ DOMAIN w = 1 .. Len(w) /\ Len(w) <= n OBVIOUS
<1>2. e = [j \in 1 .. n |-> IF j = t THEN v ELSE w[j]] BY DEF Enter
<1> HIDE DEF n
<1>3. \A j \in 1 .. n : (IF j = t THEN v ELSE w[j]) \in BOOLEAN BY <1>1
<1>5. e \in [1 .. n -> BOOLEAN] BY <1>2, <1>3
<1>6. e \in Seq(BOOLEAN) /\ Len(e) = n /\ DOMAIN e = 1 .. n BY <1>1, <1>5
<1>7. e[t] = v /\ \A j \in DOMAIN w : j # t => e[j] = w[j] BY <1>1, <1>2
<1> QED BY <1>1, <1>6, <1>7 DEF n

(* what EnterUsed does to the used cache *)
LEMMA Entered ==
  ASSUME NEW w \in Seq(BOOLEAN), NEW t \in 1 .. Len(w) + 1
  PROVE  /\ EnterUsed(w, t) \in Seq(BOOLEAN) /\ EnterUsed(w, t)[t]
         /\ Len(EnterUsed(w, t)) = (IF t > Len(w) THEN t ELSE Len(w))
         /\ \A j \in DOMAIN w : j # t => EnterUsed(w, t)[j] = w[j]
<1>1. PICK v : v = TRUE OBVIOUS
<1>2. v \in BOOLEAN BY <1>1, Zenon
<1>3. EnterUsed(w, t) = Enter(w, t, v) BY <1>1, Zenon DEF EnterUsed
<1>4. /\ EnterUsed(w, t) \in Seq(BOOLEAN) /\ EnterUsed(w, t)[t] = v
      /\ Len(EnterUsed(w, t)) = (IF t > Len(w) THEN t ELSE Len(w))
      /\ \A j \in DOMAIN w : j # t => EnterUsed(w, t)[j] = w[j]
  BY <1>2, <1>3, EnteredAny
<1>5. EnterUsed(w, t)[t] BY <1>1, <1>4, Zenon
<1> QED BY <1>4, <1>5, Zenon

(* it is taken *)
LEMMA UsedPage ==
  ASSUME Sizes, NEW h \in PageRec, NEW t, Loose(h, t), NEW u \in 1 .. Units, NEW g \in PageRec,
         g.unused = h.unused,
         g.inuse[t], Len(g.inuse) = (IF t > Len(h.inuse) THEN t ELSE Len(h.inuse)),
         \A j \in DOMAIN h.inuse : j # t => g.inuse[j] = h.inuse[j],
         DOMAIN g.slabs = DOMAIN h.slabs, Len(g.slabs) = Len(h.slabs),
         \A j \in DOMAIN h.slabs : j # t => g.slabs[j] = h.slabs[j],
         g.slabs[t].used = 0 .. u - 1, g.slabs[t].FreeObs = Units - u
  PROVE  Stacked(g) /\ \A j : InUse(g, j) <=> j = t \/ InUse(h, j)
<1>1. /\ h.inuse \in Seq(BOOLEAN) /\ Len(h.inuse) \in Nat /\ DOMAIN h.inuse = 1 .. Len(h.inuse)
      /\ Len(h.slabs) \in Nat /\ DOMAIN h.slabs = 1 .. Len(h.slabs)
  BY PageFields
<1>2. t \in 1 .. Len(h.inuse) + 1 /\ t \in DOMAIN h.slabs /\ t <= Len(h.slabs) BY <1>1 DEF Loose
<1>3. DOMAIN g.inuse = 1 .. (IF t > Len(h.inuse) THEN t ELSE Len(h.inuse)) BY PageFields
<1>4. ASSUME NEW j PROVE InUse(g, j) <=> j = t \/ InUse(h, j)
  <2>1. j \in DOMAIN g.inuse => j = t \/ j \in DOMAIN h.inuse BY <1>1, <1>2, <1>3
  <2>2. j \in DOMAIN h.inuse => j \in DOMAIN g.inuse BY <1>1, <1>2, <1>3
  <2>3. t \in DOMAIN g.inuse BY <1>1, <1>2, <1>3
  <2> QED BY <2>1, <2>2, <2>3 DEF InUse
<1>5. Cardinality(0 .. u - 1) = u
  <2>1. 0 \in Nat /\ u \in Nat /\ 0 + u - 1 = u - 1 BY DEF Sizes
  <2> QED BY <2>1, RangeSize
<1>6. \A l \in DOMAIN g.slabs : g.slabs[l].FreeObs = Units - Cardinality(g.slabs[l].used) BY <1>5 DEF Loose
<1>7. Len(g.inuse) <= Len(g.slabs) /\ Len(g.slabs) <= Len(g.inuse) + 1
  <2>1. Len(h.inuse) <= Len(h.slabs) /\ Len(h.slabs) <= Len(h.inuse) + 1 BY DEF Loose
  <2> QED BY <1>1, <1>2, <2>1
<1>8. \A j \in DOMAIN g.unused : g.unused[j] \in DOMAIN g.slabs /\ ~InUse(g, g.unused[j]) BY <1>4 DEF Loose
<1>9. \A l \in DOMAIN g.slabs : InUse(g, l) \/ \E j \in DOMAIN g.unused : g.unused[j] = l BY <1>4 DEF Loose
<1>10. \A l \in DOMAIN g.slabs : ~InUse(g, l) => g.slabs[l].used = {} /\ g.slabs[l].base = Invalid BY <1>4 DEF Loose
<1>11. \A j, k \in DOMAIN g.unused : j # k => g.unused[j] # g.unused[k] BY DEF Loose
<1> QED BY <1>4, <1>6, <1>7, <1>8, <1>9, <1>10, <1>11 DEF Stacked

(* the call has taken a slab for its block, slab t of page p *)
LEMMA UseKeeps ==
  ASSUME Sizes, HeapInv, kpc = "find", kpc' = "page", HeapTypes', HeapList', UNCHANGED blocks, NEW p \in DOMAIN heap', NEW t,
         \A n \in DOMAIN heap : n \in DOMAIN heap' /\ heap'[n].page = heap[n].page,
         \A n \in DOMAIN heap : \A j \in DOMAIN heap[n].slabs : InUse(heap[n], j) =>
           j \in DOMAIN heap'[n].slabs /\ InUse(heap'[n], j) /\ heap'[n].slabs[j] = heap[n].slabs[j],
         \A n \in DOMAIN heap' : \A j \in DOMAIN heap'[n].slabs : InUse(heap'[n], j) /\ ~(n = p /\ j = t) =>
           n \in DOMAIN heap /\ j \in DOMAIN heap[n].slabs /\ InUse(heap[n], j),
         call'.slab = [page |-> heap'[p].page, index |-> t], t \in DOMAIN heap'[p].slabs, InUse(heap'[p], t),
         heap'[p].slabs[t].base = Invalid, heap'[p].slabs[t].used = 0 .. call'.units - 1,
         \A n \in DOMAIN heap' : Stacked(heap'[n])
  PROVE  /\ HeapSlabs' /\ HeapBlocks'
         /\ \A n \in DOMAIN heap : \A j \in DOMAIN heap[n].slabs : heap[n].slabs[j].base # Invalid =>
              j \in DOMAIN heap'[n].slabs /\ heap'[n].slabs[j] = heap[n].slabs[j]
         /\ \A n \in DOMAIN heap' : \A j \in DOMAIN heap'[n].slabs : heap'[n].slabs[j].base # Invalid =>
              n \in DOMAIN heap /\ j \in DOMAIN heap[n].slabs /\ heap[n].slabs[j] = heap'[n].slabs[j]
<1> USE DEF HeapInv
<1>1. \A n \in DOMAIN heap : \A j \in DOMAIN heap[n].slabs : InUse(heap[n], j) <=> heap[n].slabs[j].base # Invalid
  BY DEF HeapSlabs, Mine, Stacked
<1>2. ASSUME NEW n \in DOMAIN heap', NEW j \in DOMAIN heap'[n].slabs, InUse(heap'[n], j)
      PROVE  heap'[n].slabs[j].base = Invalid <=> Mine(n, j)'
  <2>1. CASE n = p /\ j = t BY <2>1 DEF Mine
  <2>2. CASE ~(n = p /\ j = t)
    <3>1. n \in DOMAIN heap /\ j \in DOMAIN heap[n].slabs /\ InUse(heap[n], j) BY <1>2, <2>2
    <3>2. heap'[n].slabs[j].base # Invalid BY <1>1, <3>1
    <3>3. heap'[n].page # heap'[p].page \/ j # t BY <2>2 DEF HeapList
    <3>4. [page |-> heap'[n].page, index |-> j] # [page |-> heap'[p].page, index |-> t]
      <4>1. [page |-> heap'[n].page, index |-> j].page = heap'[n].page /\ [page |-> heap'[n].page, index |-> j].index = j OBVIOUS
      <4>2. [page |-> heap'[p].page, index |-> t].page = heap'[p].page /\ [page |-> heap'[p].page, index |-> t].index = t OBVIOUS
      <4> QED BY <3>3, <4>1, <4>2
    <3> QED BY <3>2, <3>4 DEF Mine
  <2> QED BY <2>1, <2>2
<1>3. HeapSlabs'
  <2>1. heap'[p].page = call'.slab.page /\ call'.slab.index = t OBVIOUS
  <2> QED BY <1>2, <2>1 DEF HeapSlabs
<1>4. HeapBlocks'
  <2>1. ASSUME NEW c \in blocks, NEW n \in DOMAIN heap, Lives(c, n) PROVE Lives(c, n)' BY <2>1 DEF Lives
  <2> QED BY <2>1 DEF HeapBlocks, UnitsOf
<1>5. \A n \in DOMAIN heap' : \A j \in DOMAIN heap'[n].slabs : heap'[n].slabs[j].base # Invalid =>
              n \in DOMAIN heap /\ j \in DOMAIN heap[n].slabs /\ heap[n].slabs[j] = heap'[n].slabs[j]
  <2>1. \A n \in DOMAIN heap' : \A j \in DOMAIN heap'[n].slabs : heap'[n].slabs[j].base # Invalid => InUse(heap'[n], j) /\ ~(n = p /\ j = t)
    BY DEF Stacked
  <2> QED BY <2>1
<1> QED BY <1>1, <1>3, <1>4, <1>5

(* slab page g is h after slab t was taken, and the call remembers that slab *)
TakenAs(g, h, t) ==
  /\ g.page = h.page /\ g.caches = h.caches /\ g.free = h.free /\ g.unused = h.unused
  /\ DOMAIN g.slabs = DOMAIN h.slabs /\ Len(g.slabs) = Len(h.slabs)
  /\ \A j \in DOMAIN h.slabs : j # t => g.slabs[j] = h.slabs[j]
  /\ t \in DOMAIN g.slabs /\ g.slabs[t].base = Invalid /\ g.slabs[t].used = 0 .. call.units - 1
  /\ Stacked(g) /\ \A j : InUse(g, j) <=> j = t \/ InUse(h, j)
CallTakes(h, t) ==
  /\ call' \in CallRec /\ call'.whole = call.whole /\ call'.units = call.units /\ call'.base = call.base /\ call'.sc = call.sc
  /\ call'.slab = [page |-> h.page, index |-> t] /\ kpc' = "page"

(* what Use does with a list L of slab pages *)
LEMMA UseIs ==
  ASSUME Sizes, NEW L \in Seq(PageRec), NEW p \in DOMAIN L, NEW h \in PageRec, h = L[p], NEW t, Loose(h, t), Use(L, p, t),
         call \in CallRec, call.units \in 1 .. Units
  PROVE  (\E g \in PageRec : heap' = [L EXCEPT ![p] = g] /\ TakenAs(g, h, t)) /\ CallTakes(h, t)
<1>2. /\ h.slabs \in Seq(SlabRec) /\ h.inuse \in Seq(BOOLEAN) /\ t \in DOMAIN h.slabs /\ h.slabs[t] \in SlabRec /\ t \in Nat
      /\ t \in 1 .. Len(h.inuse) + 1 /\ h.slabs[t].base = Invalid /\ h.slabs[t].FreeObs = Units /\ h.page \in Nat
  <2>1. /\ t \in DOMAIN h.slabs /\ h.slabs[t].base = Invalid /\ h.slabs[t].FreeObs = Units
        /\ Len(h.slabs) <= Len(h.inuse) + 1 BY DEF Loose
  <2>2. /\ h.page \in Nat /\ h.slabs \in Seq(SlabRec) /\ h.inuse \in Seq(BOOLEAN) /\ Len(h.slabs) \in Nat /\ DOMAIN h.slabs = 1 .. Len(h.slabs)
        /\ Len(h.inuse) \in Nat BY PageFields
  <2>3. h.slabs[t] \in SlabRec BY <2>1, <2>2
  <2>4. t \in Nat /\ t \in 1 .. Len(h.inuse) + 1 BY <2>1, <2>2
  <2> QED BY <2>1, <2>2, <2>3, <2>4
<1>3. PICK u \in 1 .. Units : u = call.units OBVIOUS
<1>4. PICK U \in SUBSET (0 .. Units - 1) : U = 0 .. u - 1 BY DEF Sizes
<1>5. PICK F \in Int : F = h.slabs[t].FreeObs - u /\ F = Units - u BY <1>2 DEF Sizes
<1>7. PICK w : w = EnterUsed(h.inuse, t) OBVIOUS
<1>8. /\ w \in Seq(BOOLEAN) /\ w[t] /\ Len(w) = (IF t > Len(h.inuse) THEN t ELSE Len(h.inuse))
      /\ \A j \in DOMAIN h.inuse : j # t => w[j] = h.inuse[j]
  BY <1>2, <1>7, Entered
<1>9. PICK r \in SlabRec : r = [h.slabs[t] EXCEPT !.used = U, !.FreeObs = F] BY <1>2 DEF SlabRec
<1>10. r.base = Invalid /\ r.used = U /\ r.FreeObs = F BY <1>2, <1>9 DEF SlabRec
<1>11. PICK g : g = [h EXCEPT !.slabs[t].used = U, !.slabs[t].FreeObs = F, !.inuse = w] OBVIOUS
<1>12. g.slabs = [h.slabs EXCEPT ![t] = r] BY <1>2, <1>9, <1>11 DEF PageRec
<1>13. /\ g.slabs \in Seq(SlabRec) /\ Len(g.slabs) = Len(h.slabs) /\ DOMAIN g.slabs = DOMAIN h.slabs /\ g.slabs[t] = r
       /\ \A j \in DOMAIN h.slabs : j # t => g.slabs[j] = h.slabs[j]
  BY <1>2, <1>12
<1>14. g \in PageRec /\ g.page = h.page /\ g.caches = h.caches /\ g.free = h.free /\ g.unused = h.unused /\ g.inuse = w
  BY <1>8, <1>11, <1>13 DEF PageRec
<1>15. heap' = [L EXCEPT ![p] = g]
  <2>1. g = Taken(h, t) BY <1>3, <1>4, <1>5, <1>7, <1>11 DEF Taken
  <2> QED BY <2>1 DEF Use
<1>18. Stacked(g) /\ \A j : InUse(g, j) <=> j = t \/ InUse(h, j)
  <2>2. g.slabs[t].used = 0 .. u - 1 /\ g.slabs[t].FreeObs = Units - u BY <1>4, <1>5, <1>10, <1>13
  <2>3. g.inuse[t] /\ Len(g.inuse) = (IF t > Len(h.inuse) THEN t ELSE Len(h.inuse)) /\ \A j \in DOMAIN h.inuse : j # t => g.inuse[j] = h.inuse[j]
    BY <1>8, <1>14
  <2> QED BY <1>13, <1>14, <2>2, <2>3, UsedPage, ZenonT(30)
<1>19. /\ call' \in CallRec /\ call'.whole = call.whole /\ call'.units = call.units /\ call'.base = call.base /\ call'.sc = call.sc
       /\ call'.slab = [page |-> h.page, index |-> t] /\ kpc' = "page"
  <2>1. PICK q \in Ref : q = [page |-> h.page, index |-> t] BY <1>2 DEF Ref
  <2>2. call' = [call EXCEPT !.slab = q] /\ kpc' = "page" BY <2>1 DEF Use
  <2> QED BY <2>1, <2>2 DEF CallRec
<1>20. g.slabs[t].base = Invalid /\ g.slabs[t].used = 0 .. call.units - 1 /\ t \in DOMAIN g.slabs BY <1>2, <1>3, <1>4, <1>10, <1>13
<1>21. TakenAs(g, h, t) BY <1>13, <1>14, <1>18, <1>20 DEF TakenAs
<1> QED BY <1>14, <1>15, <1>19, <1>21 DEF CallTakes

(* a step of a call that keeps the pages and what they are for *)
LEMMA PagesKept ==
  ASSUME HeapInv, UNCHANGED <<pool, blocks, lost, broken>>, CallPages' = CallPages, DOMAIN heap' = DOMAIN heap,
         \A n \in DOMAIN heap : heap'[n].page = heap[n].page /\ heap'[n].caches = heap[n].caches,
         \A n \in DOMAIN heap : \A j \in DOMAIN heap[n].slabs : heap[n].slabs[j].base # Invalid =>
              j \in DOMAIN heap'[n].slabs /\ heap'[n].slabs[j].base = heap[n].slabs[j].base,
         \A n \in DOMAIN heap' : \A j \in DOMAIN heap'[n].slabs : heap'[n].slabs[j].base # Invalid =>
              j \in DOMAIN heap[n].slabs /\ heap[n].slabs[j].base = heap'[n].slabs[j].base
  PROVE  HeapOwned' /\ HeapAccounted'
<1> USE DEF HeapInv
<1>1. pool' = pool /\ blocks' = blocks /\ lost' = lost /\ broken' = broken OBVIOUS
<1>2. \A n \in DOMAIN heap : Meta(heap'[n]) = Meta(heap[n]) BY DEF Meta
<1>3. Invalid \notin pool BY DEF HeapTypes, Invalid
<1>4. HeapOwned'
  <2>1. PICK own \in [pool -> Owners] : Owns(own) BY DEF HeapOwned
  <2>2. MetaOwned(own)' BY <2>1, <1>1, <1>2 DEF Owns, MetaOwned, Meta
  <2>3. BasesOwned(own)' BY <2>1, <1>1 DEF Owns, BasesOwned
  <2>4. WholesOwned(own)' BY <2>1, <1>1 DEF Owns, WholesOwned, WholePages
  <2>5. OthersOwned(own)' BY <2>1, <1>1 DEF Owns, OthersOwned
  <2> QED BY <2>1, <2>2, <2>3, <2>4, <2>5, <1>1 DEF HeapOwned, Owns
<1>5. HeapAccounted'
  <2> SUFFICES ASSUME ~broken, NEW x \in pool
      PROVE \/ x \in lost' \cup CallPages'
            \/ \E n \in DOMAIN heap' : x \in Meta(heap'[n])
            \/ \E n \in DOMAIN heap' : \E t \in DOMAIN heap'[n].slabs : x = heap'[n].slabs[t].base
            \/ \E b \in blocks' : x \in WholePages(b)
    BY <1>1 DEF HeapAccounted, Meta, WholePages
  <2>1. CASE x \in lost \cup CallPages BY <1>1, <2>1
  <2>2. CASE \E n \in DOMAIN heap : x \in Meta(heap[n]) BY <1>2, <2>2
  <2>3. CASE \E n \in DOMAIN heap : \E t \in DOMAIN heap[n].slabs : x = heap[n].slabs[t].base BY <1>3, <2>3
  <2>4. CASE \E b \in blocks : x \in WholePages(b) BY <1>1, <2>4
  <2> QED BY <2>1, <2>2, <2>3, <2>4 DEF HeapAccounted
<1> QED BY <1>4, <1>5

(* only a slab that exists is in use *)
LEMMA InUseSlab ==
  ASSUME NEW h \in PageRec, Len(h.inuse) <= Len(h.slabs), NEW j, InUse(h, j) PROVE j \in DOMAIN h.slabs
  BY PageFields DEF InUse

(* a slab of the list is taken, and the list has become L for it *)
LEMMA UseDone ==
  ASSUME Sizes, HeapInv, kpc = "find", NEW L \in Seq(PageRec), Len(L) = Len(heap), DOMAIN L = DOMAIN heap,
         NEW p \in DOMAIN heap, NEW t, Loose(L[p], t), Use(L, p, t),
         UNCHANGED <<kmax, max, pool, blocks, lost, broken>>, latest' \in Ref,
         \A n \in DOMAIN heap : n # p => L[n] = heap[n],
         L[p].page = heap[p].page, L[p].caches = heap[p].caches,
         L[p].free + Len(L[p].slabs) = heap[p].free + Len(heap[p].slabs), p # Len(heap) => L[p].free = 0,
         heap[1].slabs # <<>>, latest'.page = heap[Len(heap)].page,
         L[Len(heap)].free > 0 => latest'.index = Len(L[Len(heap)].slabs),
         \A j : InUse(L[p], j) <=> InUse(heap[p], j),
         \A j \in DOMAIN heap[p].slabs : j \in DOMAIN L[p].slabs /\ L[p].slabs[j] = heap[p].slabs[j]
  PROVE  HeapInv'
<1> USE DEF HeapInv
<1>0. /\ call \in CallRec /\ call.units \in 1 .. Units /\ heap # <<>> /\ kpc = "find" /\ ~broken
      /\ heap \in Seq(PageRec) /\ Len(heap) \in Nat \ {0} /\ DOMAIN heap = 1 .. Len(heap) /\ Len(heap) \in DOMAIN heap /\ 1 \in DOMAIN heap
      /\ \A n \in DOMAIN heap : heap[n] \in PageRec
  <2>1. call \in CallRec /\ heap # <<>> /\ call.units > 0 /\ ~broken BY DEF HeapTypes, HeapCall
  <2>2. call.units \in 1 .. Units BY <2>1 DEF CallRec, Sizes
  <2> QED BY <2>1, <2>2 DEF HeapTypes
<1>a. PICK h \in PageRec : h = L[p] OBVIOUS
<1>b. Sizes /\ p \in DOMAIN L /\ Loose(h, t) /\ Use(L, p, t) /\ call \in CallRec /\ call.units \in 1 .. Units BY <1>0, <1>a
<1>c. (\E g \in PageRec : heap' = [L EXCEPT ![p] = g] /\ TakenAs(g, h, t)) /\ CallTakes(h, t) BY <1>a, <1>b, UseIs
<1>d. PICK g \in PageRec : heap' = [L EXCEPT ![p] = g] /\ TakenAs(g, h, t) BY <1>c
<1>1. /\ heap' \in Seq(PageRec) /\ Len(heap') = Len(L) /\ DOMAIN heap' = DOMAIN L
      /\ \A n \in DOMAIN L : n # p => heap'[n] = L[n]
      /\ heap'[p].page = L[p].page /\ heap'[p].caches = L[p].caches /\ heap'[p].free = L[p].free
      /\ DOMAIN heap'[p].slabs = DOMAIN L[p].slabs /\ Len(heap'[p].slabs) = Len(L[p].slabs)
      /\ \A j \in DOMAIN L[p].slabs : j # t => heap'[p].slabs[j] = L[p].slabs[j]
      /\ t \in DOMAIN heap'[p].slabs /\ heap'[p].slabs[t].base = Invalid /\ heap'[p].slabs[t].used = 0 .. call.units - 1
  <2>1. heap'[p] = g /\ heap' \in Seq(PageRec) /\ Len(heap') = Len(L) /\ DOMAIN heap' = DOMAIN L /\ \A n \in DOMAIN L : n # p => heap'[n] = L[n] BY <1>d
  <2> QED BY <1>a, <1>d, <2>1 DEF TakenAs
<1>2. /\ Stacked(heap'[p]) /\ \A j : InUse(heap'[p], j) <=> j = t \/ InUse(L[p], j)
      /\ call' \in CallRec /\ call'.whole = call.whole /\ call'.units = call.units /\ call'.base = call.base /\ call'.sc = call.sc
      /\ call'.slab = [page |-> L[p].page, index |-> t] /\ kpc' = "page"
  <2>1. heap'[p] = g BY <1>d
  <2>2. /\ call' \in CallRec /\ call'.whole = call.whole /\ call'.units = call.units /\ call'.base = call.base /\ call'.sc = call.sc
        /\ call'.slab = [page |-> h.page, index |-> t] /\ kpc' = "page"
    BY <1>c DEF CallTakes
  <2> QED BY <1>a, <1>d, <2>1, <2>2 DEF TakenAs
<1>3. \A n \in DOMAIN heap : heap'[n].page = heap[n].page /\ heap'[n].caches = heap[n].caches BY <1>1
<1>4. \A n \in DOMAIN heap : heap'[n] \in PageRec BY <1>1
<1>5. HeapTypes' BY <1>0, <1>1, <1>2 DEF HeapTypes
<1>6. HeapCall' BY <1>0, <1>1, <1>2 DEF HeapCall
<1>7. ~InUse(L[p], t) /\ t \in DOMAIN L[p].slabs BY DEF Loose
<1>8. \A n \in DOMAIN heap : n # p => heap'[n] = heap[n] BY <1>1
<1>9. \A n \in DOMAIN heap : heap[n].slabs # <<>> => heap'[n].slabs # <<>>
  <2>1. heap'[p].slabs # <<>>
    <3>1. DOMAIN heap'[p].slabs # {} BY <1>1
    <3> QED BY <3>1
  <2> QED BY <2>1, <1>8
<1>10. HeapList'
  <2>1. \A n, m \in DOMAIN heap' : n # m => heap'[n].page # heap'[m].page
    <3>1. \A n, m \in DOMAIN heap : n # m => heap[n].page # heap[m].page BY DEF HeapList
    <3> QED BY <1>1, <1>3, <3>1
  <2>2. \A n \in DOMAIN heap' : heap'[n].free + Len(heap'[n].slabs) = IF n = 1 THEN kmax' ELSE max'
    <3>1. \A n \in DOMAIN heap : heap[n].free + Len(heap[n].slabs) = IF n = 1 THEN kmax ELSE max BY DEF HeapList
    <3> QED BY <1>1, <1>8, <3>1
  <2>3. \A n \in DOMAIN heap' : n # Len(heap') => heap'[n].free = 0
    <3>1. \A n \in DOMAIN heap : n # Len(heap) => heap[n].free = 0 BY DEF HeapList
    <3> QED BY <1>1, <1>8, <3>1
  <2>4. \A n \in DOMAIN heap' : n > 1 => heap'[n].slabs # <<>>
    <3>1. \A n \in DOMAIN heap : n > 1 => heap[n].slabs # <<>> BY DEF HeapList
    <3> QED BY <1>1, <1>9, <3>1
  <2>5. /\ latest'.page = heap'[Len(heap')].page
        /\ heap'[Len(heap')].free > 0 => latest'.index = Len(heap'[Len(heap')].slabs)
    <3>1. heap'[Len(heap)].free = L[Len(heap)].free /\ Len(heap'[Len(heap)].slabs) = Len(L[Len(heap)].slabs) BY <1>0, <1>1
    <3> QED BY <1>0, <1>1, <1>3, <3>1
  <2>6. heap'[1].slabs # <<>> BY <1>0, <1>9
  <2> QED BY <2>1, <2>2, <2>3, <2>4, <2>5, <2>6 DEF HeapList
<1>11. \A n \in DOMAIN heap : \A j \in DOMAIN heap[n].slabs : InUse(heap[n], j) =>
           j \in DOMAIN heap'[n].slabs /\ InUse(heap'[n], j) /\ heap'[n].slabs[j] = heap[n].slabs[j]
  <2>1. \A j \in DOMAIN heap[p].slabs : InUse(heap[p], j) =>
           j \in DOMAIN heap'[p].slabs /\ InUse(heap'[p], j) /\ heap'[p].slabs[j] = heap[p].slabs[j]
    BY <1>1, <1>2, <1>7
  <2> QED BY <1>8, <2>1
<1>12. \A n \in DOMAIN heap' : \A j \in DOMAIN heap'[n].slabs : InUse(heap'[n], j) /\ ~(n = p /\ j = t) =>
           n \in DOMAIN heap /\ j \in DOMAIN heap[n].slabs /\ InUse(heap[n], j)
  <2>1. ASSUME NEW j \in DOMAIN heap'[p].slabs, InUse(heap'[p], j), j # t PROVE j \in DOMAIN heap[p].slabs /\ InUse(heap[p], j)
    <3>1. InUse(heap[p], j) BY <1>2, <2>1
    <3>2. Len(heap[p].inuse) <= Len(heap[p].slabs) BY DEF HeapSlabs, Stacked
    <3> QED BY <1>0, <3>1, <3>2, InUseSlab
  <2> QED BY <1>1, <1>8, <2>1
<1>13. \A n \in DOMAIN heap' : Stacked(heap'[n])
  <2>1. \A n \in DOMAIN heap : Stacked(heap[n]) BY DEF HeapSlabs
  <2> QED BY <1>1, <1>2, <1>8, <2>1
<1>14. InUse(heap'[p], t) /\ call'.slab = [page |-> heap'[p].page, index |-> t] /\ heap'[p].slabs[t].used = 0 .. call'.units - 1 BY <1>1, <1>2
<1>15. /\ HeapSlabs' /\ HeapBlocks'
       /\ \A n \in DOMAIN heap : \A j \in DOMAIN heap[n].slabs : heap[n].slabs[j].base # Invalid =>
              j \in DOMAIN heap'[n].slabs /\ heap'[n].slabs[j] = heap[n].slabs[j]
       /\ \A n \in DOMAIN heap' : \A j \in DOMAIN heap'[n].slabs : heap'[n].slabs[j].base # Invalid =>
              n \in DOMAIN heap /\ j \in DOMAIN heap[n].slabs /\ heap[n].slabs[j] = heap'[n].slabs[j]
  <2>1. p \in DOMAIN heap' /\ t \in DOMAIN heap'[p].slabs /\ heap'[p].slabs[t].base = Invalid /\ kpc' = "page" BY <1>1, <1>2
  <2>2. \A n \in DOMAIN heap : n \in DOMAIN heap' /\ heap'[n].page = heap[n].page BY <1>1, <1>3
  <2>3. blocks' = blocks OBVIOUS
  <2> QED BY <1>5, <1>10, <1>11, <1>12, <1>13, <1>14, <2>1, <2>2, <2>3, UseKeeps
<1>16. CallPages' = CallPages BY <1>0, <1>2 DEF CallPages
<1>17. HeapOwned' /\ HeapAccounted'
  <2>1. DOMAIN heap' = DOMAIN heap BY <1>1
  <2> QED BY <1>3, <1>15, <1>16, <2>1, PagesKept
<1> QED BY <1>5, <1>6, <1>10, <1>15, <1>17

(* a slab leaves the stack *)
LEMMA StepTakeUnused == Sizes /\ HeapInv /\ take_unused => HeapInv'
<1> SUFFICES ASSUME Sizes, HeapInv, take_unused PROVE HeapInv' OBVIOUS
<1> USE DEF HeapInv
<1>0. /\ kpc = "find" /\ heap[1].slabs # <<>> /\ WithUnused # {}
      /\ UNCHANGED <<kmax, max, pool, latest, blocks, lost, broken>> /\ heap \in Seq(PageRec)
  BY DEF take_unused, shape, HeapTypes
<1>1. PICK p : p = Min(WithUnused) OBVIOUS
<1>2. p \in DOMAIN heap /\ heap[p].unused # <<>>
  <2>1. WithUnused \in SUBSET Nat BY <1>0 DEF WithUnused
  <2>2. p \in WithUnused BY <1>0, <1>1, <2>1, MinIn
  <2> QED BY <2>2 DEF WithUnused
<1>3. PICK h \in PageRec : h = heap[p] BY <1>0, <1>2
<1>4. PICK n, t, v : n = Len(h.unused) /\ t = h.unused[n] /\ v = SubSeq(h.unused, 1, n - 1) OBVIOUS
<1>5. n \in Nat \ {0} /\ DOMAIN h.unused = 1 .. n /\ h.unused \in Seq(Nat) /\ h.unused # <<>> BY <1>2, <1>3, <1>4, PageFields
<1>6. v \in Seq(Nat) /\ Len(v) = n - 1 /\ DOMAIN v = 1 .. n - 1 /\ \A j \in 1 .. n - 1 : v[j] = h.unused[j] BY <1>4, <1>5, SMTT(40)
<1>7. PICK g : g = [h EXCEPT !.unused = v] OBVIOUS
<1>8. /\ g \in PageRec /\ g.page = h.page /\ g.caches = h.caches /\ g.free = h.free /\ g.slabs = h.slabs /\ g.unused = v /\ g.inuse = h.inuse
  BY <1>6, <1>7 DEF PageRec
<1>9. PICK L : L = [heap EXCEPT ![p] = g] OBVIOUS
<1>10. Use(L, p, t)
  <2>1. [heap EXCEPT ![p].unused = SubSeq(@, 1, n - 1)] = L BY <1>2, <1>3, <1>4, <1>7, <1>9
  <2> QED BY <1>1, <1>3, <1>4, <2>1 DEF take_unused
<1>11. L \in Seq(PageRec) /\ Len(L) = Len(heap) /\ DOMAIN L = DOMAIN heap /\ L[p] = g /\ \A m \in DOMAIN heap : m # p => L[m] = heap[m]
  BY <1>0, <1>2, <1>8, <1>9
<1>12. Stacked(h) BY <1>2, <1>3 DEF HeapSlabs
<1>13. \A j : InUse(g, j) <=> InUse(h, j) BY <1>8 DEF InUse
<1>14. Loose(g, t)
  <2>1. n \in DOMAIN h.unused /\ t \in DOMAIN h.slabs /\ ~InUse(h, t) BY <1>4, <1>5, <1>12, SMTT(30) DEF Stacked
  <2>2. h.slabs[t].used = {} /\ h.slabs[t].base = Invalid /\ h.slabs[t].FreeObs = Units - Cardinality(h.slabs[t].used) BY <1>12, <2>1 DEF Stacked
  <2>3. h.slabs[t].FreeObs = Units BY <2>2, FS_EmptySet DEF Sizes
  <2>4. \A j \in DOMAIN v : j \in DOMAIN h.unused /\ v[j] = h.unused[j] /\ j # n BY <1>5, <1>6
  <2>5. \A j, k \in DOMAIN h.unused : j # k => h.unused[j] # h.unused[k] BY <1>12 DEF Stacked
  <2>6. \A j \in DOMAIN v : v[j] # t BY <1>4, <2>1, <2>4, <2>5
  <2>7. \A j, k \in DOMAIN v : j # k => v[j] # v[k] BY <2>4, <2>5
  <2>8. \A j \in DOMAIN h.unused : j = n \/ j \in DOMAIN v BY <1>5, <1>6
  <2>9. \A l \in DOMAIN h.slabs : l = t \/ InUse(h, l) \/ \E j \in DOMAIN v : v[j] = l BY <1>4, <1>12, <2>4, <2>8, ZenonT(40) DEF Stacked
  <2>10. \A j \in DOMAIN v : v[j] \in DOMAIN h.slabs /\ ~InUse(h, v[j]) BY <1>12, <2>4 DEF Stacked
  <2> QED BY <1>8, <1>12, <1>13, <2>1, <2>2, <2>3, <2>6, <2>7, <2>9, <2>10 DEF Loose, Stacked
<1>15. latest' \in Ref /\ latest'.page = heap[Len(heap)].page /\ (L[Len(heap)].free > 0 => latest'.index = Len(L[Len(heap)].slabs))
  <2>1. Len(heap) > 0 /\ Len(heap) \in DOMAIN heap BY <1>0, <1>2
  <2>2. /\ latest.page = heap[Len(heap)].page
        /\ heap[Len(heap)].free > 0 => latest.index = Len(heap[Len(heap)].slabs) BY <1>0, <2>1 DEF HeapList
  <2>3. L[Len(heap)].free = heap[Len(heap)].free /\ L[Len(heap)].slabs = heap[Len(heap)].slabs BY <1>3, <1>8, <1>11, <2>1
  <2> QED BY <1>0, <2>2, <2>3 DEF HeapTypes
<1>16. p # Len(heap) => L[p].free = 0
  <2>1. p # Len(heap) => heap[p].free = 0 BY <1>2 DEF HeapList
  <2> QED BY <1>3, <1>8, <1>11, <2>1
<1>17. L[p].page = heap[p].page /\ L[p].caches = heap[p].caches /\ L[p].free = heap[p].free /\ L[p].slabs = heap[p].slabs BY <1>3, <1>8, <1>11
<1>18. \A j : InUse(L[p], j) <=> InUse(heap[p], j) BY <1>3, <1>11, <1>13
<1>19. Loose(L[p], t) BY <1>11, <1>14
<1> QED BY <1>0, <1>2, <1>10, <1>11, <1>15, <1>16, <1>17, <1>18, <1>19, UseDone

(* the latest slab is on the last slab page *)
LEMMA LatestLast ==
  ASSUME HeapInv, heap # <<>>, heap[1].slabs # <<>>
  PROVE  LatestPage = Len(heap) /\ Len(heap) \in DOMAIN heap /\ Len(heap) \in Nat \ {0} /\ DOMAIN heap = 1 .. Len(heap)
<1> USE DEF HeapInv
<1>1. Len(heap) \in DOMAIN heap /\ Len(heap) \in Nat \ {0} /\ DOMAIN heap = 1 .. Len(heap) BY DEF HeapTypes
<1>2. heap[Len(heap)].page = latest.page BY <1>1 DEF HeapList
<1>3. \A n \in DOMAIN heap : heap[n].page = latest.page => n = Len(heap) BY <1>1, <1>2 DEF HeapList
<1> QED BY <1>1, <1>2, <1>3 DEF LatestPage

(* e is w with v behind it *)
Longer(w, e, t, v) ==
  /\ e \in Seq(SlabRec) /\ e[t] = v /\ Len(e) = t /\ DOMAIN e = 1 .. t
  /\ \A j \in DOMAIN w : j \in DOMAIN e /\ e[j] = w[j]
(* entering a slab behind the last one *)
LEMMA EnteredSlab ==
  ASSUME NEW w \in Seq(SlabRec), NEW v \in SlabRec, NEW t, t = Len(w) + 1 PROVE Longer(w, Enter(w, t, v), t, v)
<1>0. PICK e : e = Enter(w, t, v) OBVIOUS
<1>1. t \in Nat /\ t > Len(w) /\ (\A j \in 1 .. t : j # t => j \in DOMAIN w) /\ DOMAIN w = 1 .. Len(w) OBVIOUS
<1>2. e = [j \in 1 .. t |-> IF j = t THEN v ELSE w[j]] BY <1>0, <1>1 DEF Enter
<1>3. \A j \in 1 .. t : (IF j = t THEN v ELSE w[j]) \in SlabRec BY <1>1
<1>5. e \in [1 .. t -> SlabRec] BY <1>2, <1>3
<1>6. e \in Seq(SlabRec) /\ Len(e) = t /\ DOMAIN e = 1 .. t BY <1>1, <1>5
<1>7. e[t] = v /\ \A j \in DOMAIN w : e[j] = w[j] /\ j \in 1 .. t BY <1>1, <1>2
<1> QED BY <1>0, <1>6, <1>7 DEF Longer

(* a slab more on the last slab page *)
LEMMA StepNextSlab == Sizes /\ HeapInv /\ next_slab => HeapInv'
<1> SUFFICES ASSUME Sizes, HeapInv, next_slab PROVE HeapInv' OBVIOUS
<1> USE DEF HeapInv
<1>0. /\ kpc = "find" /\ heap[1].slabs # <<>> /\ WithUnused = {} /\ heap # <<>>
      /\ UNCHANGED <<kmax, max, pool, blocks, lost, broken>> /\ heap \in Seq(PageRec)
  BY DEF next_slab, shape, HeapTypes, HeapCall
<1>1. PICK p : p = LatestPage OBVIOUS
<1>2. p = Len(heap) /\ p \in DOMAIN heap /\ p \in Nat \ {0} BY <1>0, <1>1, LatestLast
<1>3. PICK h \in PageRec : h = heap[p] BY <1>0, <1>2
<1>4. PICK t : t = latest.index + 1 OBVIOUS
<1>5. PICK e : e = Enter(h.slabs, t, Slab) OBVIOUS
<1>6. /\ h.free > 0 /\ latest' = [latest EXCEPT !.index = t]
      /\ Use([heap EXCEPT ![p] = WithSlab(@, t)], p, t)
  BY <1>1, <1>3, <1>4 DEF next_slab
<1>7. latest.page = h.page /\ latest.index = Len(h.slabs) /\ t = Len(h.slabs) + 1 /\ t \in Nat /\ Len(h.slabs) \in Nat /\ h.slabs \in Seq(SlabRec)
  <2>1. latest.page = heap[Len(heap)].page /\ (heap[Len(heap)].free > 0 => latest.index = Len(heap[Len(heap)].slabs)) BY <1>0, <1>2 DEF HeapList
  <2> QED BY <1>2, <1>3, <1>4, <1>6, <2>1, PageFields
<1>8. Slab \in SlabRec /\ Slab.used = {} /\ Slab.base = Invalid /\ Slab.FreeObs = Units BY DEF Slab, SlabRec, Sizes, Invalid
<1>9. e \in Seq(SlabRec) /\ e[t] = Slab /\ Len(e) = t /\ DOMAIN e = 1 .. t /\ \A j \in DOMAIN h.slabs : j \in DOMAIN e /\ e[j] = h.slabs[j]
  <2>1. PICK r \in SlabRec : r = Slab BY <1>8
  <2>2. PICK w \in Seq(SlabRec) : w = h.slabs BY <1>7
  <2>3. t = Len(w) + 1 /\ e = Enter(w, t, r) BY <1>5, <1>7, <2>1, <2>2
  <2>4. Longer(w, e, t, r) BY <2>3, EnteredSlab
  <2> QED BY <2>1, <2>2, <2>4 DEF Longer
<1>10. PICK f \in Nat : f = h.free - 1 BY <1>6, PageFields
<1>11. PICK g : g = [h EXCEPT !.free = f, !.slabs = e] OBVIOUS
<1>12. /\ g \in PageRec /\ g.page = h.page /\ g.caches = h.caches /\ g.free = f /\ g.slabs = e /\ g.unused = h.unused /\ g.inuse = h.inuse
  BY <1>9, <1>11 DEF PageRec
<1>13. PICK L : L = [heap EXCEPT ![p] = g] OBVIOUS
<1>14. Use(L, p, t)
  <2>1. WithSlab(h, t) = g BY <1>5, <1>10, <1>11 DEF WithSlab
  <2> QED BY <1>3, <1>6, <1>13, <2>1
<1>15. L \in Seq(PageRec) /\ Len(L) = Len(heap) /\ DOMAIN L = DOMAIN heap /\ L[p] = g /\ \A m \in DOMAIN heap : m # p => L[m] = heap[m]
  BY <1>0, <1>2, <1>12, <1>13
<1>16. Stacked(h) BY <1>2, <1>3 DEF HeapSlabs
<1>17. \A j : InUse(g, j) <=> InUse(h, j) BY <1>12 DEF InUse
<1>18. h.unused = <<>> BY <1>0, <1>2, <1>3 DEF WithUnused
<1>19. Len(h.inuse) = Len(h.slabs) /\ DOMAIN h.inuse = 1 .. Len(h.slabs) /\ DOMAIN h.slabs = 1 .. Len(h.slabs)
  <2>1. h.slabs # <<>>
    <3>1. p > 1 => heap[p].slabs # <<>> BY <1>2 DEF HeapList
    <3> QED BY <1>0, <1>2, <1>3, <3>1
  <2>2. Len(h.slabs) \in DOMAIN h.slabs /\ DOMAIN h.slabs = 1 .. Len(h.slabs) BY <1>7, <2>1
  <2>3. InUse(h, Len(h.slabs)) BY <1>16, <1>18, <2>2 DEF Stacked
  <2>4. Len(h.inuse) <= Len(h.slabs) BY <1>16 DEF Stacked
  <2> QED BY <2>2, <2>3, <2>4, <1>7, PageFields DEF InUse
<1>20. Loose(g, t)
  <2>1. t \in DOMAIN e /\ ~InUse(h, t) BY <1>7, <1>9, <1>19 DEF InUse
  <2>2. Cardinality({}) = 0 BY FS_EmptySet
  <2>3. Units = Units - Cardinality({}) BY <2>2 DEF Sizes
  <2>4. \A l \in DOMAIN e : l = t \/ l \in DOMAIN h.slabs BY <1>7, <1>9, <1>19
  <2>5. \A l \in DOMAIN e : e[l].FreeObs = Units - Cardinality(e[l].used)
    <3>1. \A l \in DOMAIN h.slabs : e[l].FreeObs = Units - Cardinality(e[l].used) BY <1>9, <1>16 DEF Stacked
    <3> QED BY <1>8, <1>9, <2>3, <2>4, <3>1
  <2>6. \A l \in DOMAIN e : ~InUse(h, l) => e[l].used = {} /\ e[l].base = Invalid
    <3>1. \A l \in DOMAIN h.slabs : ~InUse(h, l) => e[l].used = {} /\ e[l].base = Invalid BY <1>9, <1>16 DEF Stacked
    <3> QED BY <1>8, <1>9, <2>4, <3>1
  <2>7. \A l \in DOMAIN e : l = t \/ InUse(h, l) BY <1>16, <1>18, <2>4 DEF Stacked
  <2>8. DOMAIN h.unused = {} BY <1>18
  <2>9. Len(h.inuse) <= Len(e) /\ Len(e) <= Len(h.inuse) + 1 BY <1>7, <1>9, <1>19
  <2> QED BY <1>8, <1>9, <1>12, <1>17, <2>1, <2>5, <2>6, <2>7, <2>8, <2>9 DEF Loose
<1>21. latest' \in Ref /\ latest'.page = heap[Len(heap)].page /\ (L[Len(heap)].free > 0 => latest'.index = Len(L[Len(heap)].slabs))
  <2>1. latest \in Ref BY DEF HeapTypes
  <2>2. latest' \in Ref /\ latest'.page = latest.page /\ latest'.index = t BY <1>6, <1>7, <2>1 DEF Ref
  <2> QED BY <1>2, <1>3, <1>7, <1>9, <1>12, <1>15, <2>2
<1>22. L[p].free + Len(L[p].slabs) = heap[p].free + Len(heap[p].slabs)
  <2>1. L[p].free = f /\ Len(L[p].slabs) = t BY <1>9, <1>12, <1>15
  <2>2. heap[p].free = f + 1 /\ Len(heap[p].slabs) = t - 1 BY <1>3, <1>7, <1>10, PageFields
  <2>4. t \in Nat /\ f \in Nat BY <1>7
  <2>3. f + t = (f + 1) + (t - 1) BY ONLY <2>4
  <2> QED BY <2>1, <2>2, <2>3, Zenon
<1>23. L[p].page = heap[p].page /\ L[p].caches = heap[p].caches /\ (p # Len(heap) => L[p].free = 0) BY <1>2, <1>3, <1>12, <1>15
<1>24. \A j : InUse(L[p], j) <=> InUse(heap[p], j) BY <1>3, <1>15, <1>17
<1>25. \A j \in DOMAIN heap[p].slabs : j \in DOMAIN L[p].slabs /\ L[p].slabs[j] = heap[p].slabs[j] BY <1>3, <1>9, <1>12, <1>15
<1>26. Loose(L[p], t) BY <1>15, <1>20
<1> QED BY <1>0, <1>2, <1>14, <1>15, <1>21, <1>22, <1>23, <1>24, <1>25, <1>26, UseDone

(* a new slab page *)
LEMMA StepNewSlabPage == Sizes /\ HeapInv /\ new_slab_page => HeapInv'
<1> SUFFICES ASSUME Sizes, HeapInv, new_slab_page PROVE HeapInv' OBVIOUS
<1> USE DEF HeapInv
<1>0. /\ kpc = "find" /\ heap[1].slabs # <<>> /\ heap # <<>> /\ ~broken
      /\ UNCHANGED <<kmax, max, blocks>> /\ heap \in Seq(PageRec) /\ max \in Nat \ {0} /\ NPages \in Nat
      /\ call \in CallRec /\ call.units > 0 /\ call.whole \in Nat
  BY DEF new_slab_page, shape, HeapTypes, HeapCall, CallRec, Sizes
<1>1. /\ LatestPage = Len(heap) /\ Len(heap) \in DOMAIN heap /\ Len(heap) \in Nat \ {0} /\ DOMAIN heap = 1 .. Len(heap) /\ heap[Len(heap)].free = 0
      /\ \A n \in DOMAIN heap : heap[n] \in PageRec
  <2>1. LatestPage = Len(heap) /\ Len(heap) \in DOMAIN heap /\ Len(heap) \in Nat \ {0} /\ DOMAIN heap = 1 .. Len(heap) BY <1>0, LatestLast
  <2>2. heap[Len(heap)].free = 0 BY <2>1 DEF new_slab_page
  <2> QED BY <1>0, <2>1, <2>2
<1>own. PICK own \in [pool -> Owners] : Owns(own) BY DEF HeapOwned
<1>2. CASE /\ Return /\ UNCHANGED <<pool, heap, latest>>
           /\ lost' = lost \cup (IF call.whole > 0 THEN call.base .. call.base + call.whole ELSE {})
           /\ broken' \in BOOLEAN
  <2>1. lost' = lost \cup CallPages BY <1>0, <1>2 DEF CallPages
  <2>2. CallPages \subseteq pool BY <1>own DEF Owns, OthersOwned
  <2>3. pool \subseteq 1 .. NPages /\ lost \subseteq pool BY DEF HeapTypes
  <2>4. pool' = pool /\ kpc # "page" BY <1>0, <1>2
  <2>5. lost' \subseteq pool' /\ lost' \cap CallPages = CallPages /\ lost' \subseteq lost \cup CallPages /\ lost \subseteq lost' BY <2>1, <2>2, <2>3, <2>4
  <2>6. UNCHANGED <<kmax, max, heap, latest, blocks>> /\ Return /\ broken' \in BOOLEAN BY <1>0, <1>2
  <2> QED BY <1>0, <2>3, <2>4, <2>5, <2>6, StepGivesUp
<1>3. CASE /\ Runs(3) # {} /\ pool' = pool \cup Pages(3)
           /\ latest' = [page |-> Min(Runs(3)), index |-> 1]
           /\ Use(Append(heap, [SlabPage(Min(Runs(3)), Min(Runs(3)) + 1, Min(Runs(3)) + 2, max - 1) EXCEPT !.slabs = <<Slab>>]), Len(heap) + 1, 1)
           /\ UNCHANGED <<lost, broken>>
  <2>1. PICK m \in 1 .. NPages - 3 + 1 : m = Min(Runs(3)) /\ Pages(3) = m .. m + 3 - 1 /\ Pages(3) \cap pool = {} BY <1>0, <1>3, PagesFree
  <2>2. m \in Nat /\ m > 0 /\ m + 2 <= NPages BY <1>0, <2>1
  <2>3. Pages(3) = {m, m + 1, m + 2} BY <2>1, <2>2
  <2>4. PICK f \in Nat : f = max - 1 BY <1>0
  <2>5. PICK k \in PageRec : k = SlabPage(m, m + 1, m + 2, f) BY <2>2, NewPage
  <2>6. /\ k.page = m /\ k.caches = {m + 1, m + 2} /\ k.free = f /\ k.unused = <<>> /\ k.inuse = <<>>
    <3>1. PICK a \in Nat, b \in Nat : a = m + 1 /\ b = m + 2 BY <2>2
    <3>2. k = SlabPage(m, a, b, f) BY <2>5, <3>1
    <3>3. k.page = m /\ k.caches = {a, b} /\ k.free = f /\ k.unused = <<>> /\ k.inuse = <<>> BY ONLY <3>2 DEF SlabPage
    <3> QED BY <3>1, <3>3
  <2>7. Slab \in SlabRec /\ Slab.used = {} /\ Slab.base = Invalid /\ Slab.FreeObs = Units BY DEF Slab, SlabRec, Sizes, Invalid
  <2>8. PICK e \in Seq(SlabRec) : e = <<Slab>> /\ Len(e) = 1 /\ DOMAIN e = {1} /\ e[1] = Slab
    <3>1. PICK r \in SlabRec : r = Slab BY <2>7
    <3>2. <<r>> \in Seq(SlabRec) /\ Len(<<r>>) = 1 /\ DOMAIN <<r>> = {1} /\ <<r>>[1] = r OBVIOUS
    <3>3. PICK e \in Seq(SlabRec) : e = <<r>> BY <3>2
    <3>4. e = <<Slab>> /\ Len(e) = 1 /\ DOMAIN e = {1} /\ e[1] = Slab BY <3>1, <3>2, <3>3
    <3> QED BY <3>4
  <2>9. PICK q : q = [k EXCEPT !.slabs = e] OBVIOUS
  <2>10. q \in PageRec /\ q.page = m /\ q.caches = {m + 1, m + 2} /\ q.free = f /\ q.slabs = e /\ q.unused = <<>> /\ q.inuse = <<>>
    <3>1. q \in PageRec /\ q.page = k.page /\ q.caches = k.caches /\ q.free = k.free /\ q.slabs = e /\ q.unused = k.unused /\ q.inuse = k.inuse
      BY <2>9 DEF PageRec
    <3> QED BY <2>6, <3>1
  <2>11. PICK L, p : L = Append(heap, q) /\ p = Len(heap) + 1 OBVIOUS
  <2>12. Use(L, p, 1)
    <3>1. L = Append(heap, [SlabPage(Min(Runs(3)), Min(Runs(3)) + 1, Min(Runs(3)) + 2, max - 1) EXCEPT !.slabs = <<Slab>>]) BY <2>1, <2>4, <2>5, <2>8, <2>9, <2>11, Zenon
    <3> QED BY <1>3, <2>11, <3>1
  <2>13. /\ L \in Seq(PageRec) /\ p \in DOMAIN L /\ Len(L) = p /\ DOMAIN L = 1 .. p /\ L[p] = q /\ p \notin DOMAIN heap /\ p \in Nat /\ p > 1
         /\ DOMAIN L = DOMAIN heap \cup {p} /\ \A n \in DOMAIN heap : n # p /\ L[n] = heap[n]
    BY <1>0, <1>1, <2>10, <2>11
  <2>14. Loose(q, 1)
    <3>1. ~InUse(q, 1) /\ Len(q.inuse) = 0 /\ DOMAIN q.unused = {} BY <2>10 DEF InUse
    <3>2. Cardinality({}) = 0 BY FS_EmptySet
    <3>3. Units = Units - Cardinality({}) BY <3>2 DEF Sizes
    <3>4. PICK r : r = e[1] OBVIOUS
    <3>5. r.used = {} /\ r.base = Invalid /\ r.FreeObs = Units /\ r.FreeObs = Units - Cardinality(r.used) BY <2>7, <2>8, <3>3, <3>4
    <3>6. Len(q.inuse) <= Len(q.slabs) /\ Len(q.slabs) <= Len(q.inuse) + 1 BY <2>8, <2>10, <3>1
    <3>7. DOMAIN q.slabs = {1} /\ q.slabs[1] = r BY <2>8, <2>10, <3>4
    <3> QED BY <3>1, <3>5, <3>6, <3>7 DEF Loose
  <2>15. call.units \in 1 .. Units BY <1>0 DEF CallRec, Sizes
  <2>16. (\E g \in PageRec : heap' = [L EXCEPT ![p] = g] /\ TakenAs(g, q, 1)) /\ CallTakes(q, 1)
    BY <1>0, <2>10, <2>12, <2>13, <2>14, <2>15, UseIs, SMTT(30)
  <2>17. PICK g \in PageRec : heap' = [L EXCEPT ![p] = g] /\ TakenAs(g, q, 1) BY <2>16
  <2>18. /\ heap' \in Seq(PageRec) /\ Len(heap') = p /\ DOMAIN heap' = DOMAIN heap \cup {p} /\ heap'[p] = g /\ \A n \in DOMAIN heap : heap'[n] = heap[n]
    BY <2>13, <2>17
  <2>19. /\ g.page = m /\ g.caches = {m + 1, m + 2} /\ g.free = f /\ DOMAIN g.slabs = {1} /\ Len(g.slabs) = 1
         /\ g.slabs[1].base = Invalid /\ g.slabs[1].used = 0 .. call.units - 1 /\ Stacked(g) /\ \A j : InUse(g, j) <=> j = 1 \/ InUse(q, j)
    BY <2>8, <2>10, <2>17 DEF TakenAs
  <2>20. /\ call' \in CallRec /\ call'.whole = call.whole /\ call'.units = call.units /\ call'.base = call.base /\ call'.sc = call.sc
         /\ call'.slab = [page |-> m, index |-> 1] /\ kpc' = "page"
    BY <2>10, <2>16 DEF CallTakes
  <2>21. latest' \in Ref /\ latest'.page = m /\ latest'.index = 1 BY <1>3, <2>1, <2>2 DEF Ref
  <2>22. pool' \subseteq 1 .. NPages /\ pool \subseteq pool' /\ pool' = pool \cup {m, m + 1, m + 2}
    <3>1. pool \subseteq 1 .. NPages BY DEF HeapTypes
    <3>2. Pages(3) \subseteq 1 .. NPages BY <1>0, <2>1, <2>2
    <3> QED BY <1>3, <2>3, <3>1, <3>2
  <2>23. HeapTypes' BY <1>0, <1>3, <2>18, <2>20, <2>21, <2>22 DEF HeapTypes
  <2>24. HeapCall' BY <1>0, <1>3, <2>18, <2>13, <2>20 DEF HeapCall
  <2>25. \A n \in DOMAIN heap : heap[n].page # m
    <3>1. \A n \in DOMAIN heap : heap[n].page \in pool BY <1>own DEF Owns, MetaOwned, Meta
    <3> QED BY <2>1, <2>3, <3>1
  <2>26. g.slabs # <<>>
    <3>1. DOMAIN g.slabs # {} BY <2>19
    <3> QED BY <3>1
  <2>27. HeapList'
    <3>1. \A n, l \in DOMAIN heap' : n # l => heap'[n].page # heap'[l].page
      <4>1. \A n, l \in DOMAIN heap : n # l => heap[n].page # heap[l].page BY DEF HeapList
      <4> QED BY <2>18, <2>19, <2>25, <4>1
    <3>2. \A n \in DOMAIN heap' : heap'[n].free + Len(heap'[n].slabs) = IF n = 1 THEN kmax' ELSE max'
      <4>1. \A n \in DOMAIN heap : heap[n].free + Len(heap[n].slabs) = IF n = 1 THEN kmax ELSE max BY DEF HeapList
      <4>2. g.free + Len(g.slabs) = max BY <1>0, <2>4, <2>19
      <4> QED BY <1>0, <2>13, <2>18, <4>1, <4>2, SMTT(30)
    <3>3. \A n \in DOMAIN heap' : n # Len(heap') => heap'[n].free = 0
      <4>1. \A n \in DOMAIN heap : n # Len(heap) => heap[n].free = 0 BY DEF HeapList
      <4> QED BY <1>1, <2>18, <4>1
    <3>4. \A n \in DOMAIN heap' : n > 1 => heap'[n].slabs # <<>>
      <4>1. \A n \in DOMAIN heap : n > 1 => heap[n].slabs # <<>> BY DEF HeapList
      <4> QED BY <2>18, <2>26, <4>1
    <3>5. /\ latest'.page = heap'[Len(heap')].page
          /\ heap'[Len(heap')].free > 0 => latest'.index = Len(heap'[Len(heap')].slabs) BY <2>18, <2>19, <2>21
    <3>6. heap'[1].slabs # <<>> BY <1>0, <1>1, <2>18, SMTT(30)
    <3> QED BY <3>1, <3>2, <3>3, <3>4, <3>5, <3>6 DEF HeapList
  <2>28. InUse(g, 1) /\ 1 \in DOMAIN g.slabs /\ (\A j \in DOMAIN g.slabs : j = 1) BY <2>19
  <2>29. \A n \in DOMAIN heap' : Stacked(heap'[n])
    <3>1. \A n \in DOMAIN heap : Stacked(heap[n]) BY DEF HeapSlabs
    <3> QED BY <2>18, <2>19, <3>1
  <2>30. \A n \in DOMAIN heap' : \A j \in DOMAIN heap'[n].slabs : InUse(heap'[n], j) /\ ~(n = p /\ j = 1) =>
             n \in DOMAIN heap /\ j \in DOMAIN heap[n].slabs /\ InUse(heap[n], j)
    BY <2>18, <2>28
  <2>31. \A n \in DOMAIN heap : \A j \in DOMAIN heap[n].slabs : InUse(heap[n], j) =>
             j \in DOMAIN heap'[n].slabs /\ InUse(heap'[n], j) /\ heap'[n].slabs[j] = heap[n].slabs[j]
    BY <2>18
  <2>32. /\ HeapSlabs' /\ HeapBlocks'
         /\ \A n \in DOMAIN heap : \A j \in DOMAIN heap[n].slabs : heap[n].slabs[j].base # Invalid =>
              j \in DOMAIN heap'[n].slabs /\ heap'[n].slabs[j] = heap[n].slabs[j]
         /\ \A n \in DOMAIN heap' : \A j \in DOMAIN heap'[n].slabs : heap'[n].slabs[j].base # Invalid =>
              n \in DOMAIN heap /\ j \in DOMAIN heap[n].slabs /\ heap[n].slabs[j] = heap'[n].slabs[j]
    <3>1. /\ p \in DOMAIN heap' /\ 1 \in DOMAIN heap'[p].slabs /\ heap'[p].slabs[1].base = Invalid /\ InUse(heap'[p], 1)
          /\ call'.slab = [page |-> heap'[p].page, index |-> 1] /\ heap'[p].slabs[1].used = 0 .. call'.units - 1
      BY <2>18, <2>19, <2>20, <2>28
    <3>2. \A n \in DOMAIN heap : n \in DOMAIN heap' /\ heap'[n].page = heap[n].page BY <2>18
    <3>3. blocks' = blocks /\ kpc = "find" /\ kpc' = "page" BY <1>0, <2>20
    <3> QED BY <2>23, <2>27, <2>29, <2>30, <2>31, <3>1, <3>2, <3>3, UseKeeps
  <2>33. CallPages' = CallPages BY <1>0, <2>20 DEF CallPages
  <2>34. HeapOwned'
    <3>1. <<"meta", m, 0>> \in Owners BY <2>2 DEF Owners
    <3>2. PICK new : new = [x \in pool' |-> IF x \in Pages(3) THEN <<"meta", m, 0>> ELSE own[x]] OBVIOUS
    <3>3. new \in [pool' -> Owners] BY <1>3, <3>1, <3>2
    <3>4. \A x \in pool : new[x] = own[x] /\ x \in pool' BY <1>3, <2>1, <3>2
    <3>5. \A x \in Pages(3) : new[x] = <<"meta", m, 0>> /\ x \in pool' BY <1>3, <3>2
    <3>6. MetaOwned(new)'
      <4>1. \A n \in DOMAIN heap : \A x \in Meta(heap[n]) : x \in pool' /\ new[x] = <<"meta", heap[n].page, 0>> BY <1>own, <3>4 DEF Owns, MetaOwned
      <4>2. \A x \in Meta(g) : x \in pool' /\ new[x] = <<"meta", g.page, 0>> BY <2>3, <2>19, <3>5 DEF Meta
      <4> QED BY <2>18, <4>1, <4>2 DEF MetaOwned, Meta
    <3>7. BasesOwned(new)' BY <1>own, <2>18, <2>32, <3>4 DEF Owns, BasesOwned
    <3>8. WholesOwned(new)' BY <1>0, <1>own, <3>4 DEF Owns, WholesOwned, WholePages
    <3>9. OthersOwned(new)' BY <1>3, <1>own, <2>33, <3>4 DEF Owns, OthersOwned, HeapTypes
    <3> QED BY <3>3, <3>6, <3>7, <3>8, <3>9 DEF HeapOwned, Owns
  <2>35. HeapAccounted'
    <3>1. \A x \in Pages(3) : x \in Meta(g) BY <2>3, <2>19 DEF Meta
    <3>2. \A n \in DOMAIN heap : n \in DOMAIN heap' /\ heap'[n] = heap[n] BY <2>18
    <3>3. p \in DOMAIN heap' /\ heap'[p] = g BY <2>18
    <3>4. ASSUME NEW x \in pool', ~broken'
          PROVE  \/ x \in lost' \cup CallPages'
                 \/ \E n \in DOMAIN heap' : x \in Meta(heap'[n])
                 \/ \E n \in DOMAIN heap' : \E t \in DOMAIN heap'[n].slabs : x = heap'[n].slabs[t].base
                 \/ \E b \in blocks' : x \in WholePages(b)
      <4>1. CASE x \in Pages(3) BY <3>1, <3>3, <4>1
      <4>2. CASE x \notin Pages(3)
        <5>1. x \in pool /\ ~broken /\ blocks' = blocks /\ lost' = lost BY <1>0, <1>3, <3>4, <4>2
        <5>2. \/ x \in lost \cup CallPages
              \/ \E n \in DOMAIN heap : x \in Meta(heap[n])
              \/ \E n \in DOMAIN heap : \E t \in DOMAIN heap[n].slabs : x = heap[n].slabs[t].base
              \/ \E b \in blocks : x \in WholePages(b)
          BY <5>1, Zenon DEF HeapInv, HeapAccounted
        <5> QED BY <2>33, <3>2, <5>1, <5>2, ZenonT(30)
      <4> QED BY <4>1, <4>2
    <3> QED BY <3>4, ZenonT(30) DEF HeapAccounted, Meta, WholePages
  <2> QED BY <2>23, <2>24, <2>27, <2>32, <2>34, <2>35
<1> QED BY <1>2, <1>3 DEF new_slab_page

-----------------------------------------------------------------------------
(* slab pages g and h differ in slab t and in the caches only *)
SlabKept(g, h, t) ==
  /\ g.page = h.page /\ g.caches = h.caches /\ g.free = h.free
  /\ DOMAIN g.slabs = DOMAIN h.slabs /\ Len(g.slabs) = Len(h.slabs)
  /\ \A j \in DOMAIN h.slabs : j # t => g.slabs[j] = h.slabs[j]

(* the last units of a slab are given back *)
AllFreed(g, h, t) ==
  /\ SlabKept(g, h, t) /\ g.slabs[t].base = Invalid /\ g.slabs[t].used = {}
  /\ Stacked(g) /\ \A j : InUse(g, j) <=> j # t /\ InUse(h, j)
(* some units of a slab are given back *)
SomeFreed(g, h, t, R) ==
  /\ SlabKept(g, h, t) /\ g.slabs[t].base = h.slabs[t].base /\ g.slabs[t].used = h.slabs[t].used \ R
  /\ Stacked(g) /\ \A j : InUse(g, j) <=> InUse(h, j)

(* what clean_slab does when no unit is left: the slab goes back on the stack *)
LEMMA ReleasedAll ==
  ASSUME Sizes, NEW h \in PageRec, Stacked(h), NEW t \in DOMAIN h.slabs, InUse(h, t), NEW sc, NEW n \in Nat,
         h.slabs[t].FreeObs + n = Units, h.slabs[t].used \ (sc .. sc + n - 1) = {}
  PROVE  Released(h, t, sc, n) \in PageRec /\ AllFreed(Released(h, t, sc, n), h, t)
<1>1. /\ h.slabs \in Seq(SlabRec) /\ h.inuse \in Seq(BOOLEAN) /\ h.unused \in Seq(Nat) /\ h.slabs[t].base \in Nat
      /\ DOMAIN h.slabs = 1 .. Len(h.slabs) /\ Len(h.slabs) \in Nat /\ t \in Nat /\ Len(h.unused) \in Nat /\ DOMAIN h.unused = 1 .. Len(h.unused)
  BY PageFields
<1>a. PICK U \in SUBSET (0 .. Units - 1) : U = {} OBVIOUS
<1>b. PICK F \in Int, W \in Nat : F = Units /\ W = Invalid BY DEF Sizes, Invalid
<1>2. PICK r \in SlabRec : r = [base |-> W, used |-> U, FreeObs |-> F] BY DEF SlabRec
<1>3. r.base = Invalid /\ r.used = {} /\ r.FreeObs = Units BY <1>2, <1>a, <1>b
<1>d. PICK z : z = ~(h.slabs[t].FreeObs + n = Units) OBVIOUS
<1>e. z \in BOOLEAN /\ ~z BY <1>d, Zenon
<1>4. PICK w : w = [h.inuse EXCEPT ![t] = z] OBVIOUS
<1>5. t \in DOMAIN h.inuse BY DEF InUse
<1>6. w \in Seq(BOOLEAN) /\ Len(w) = Len(h.inuse) /\ DOMAIN w = DOMAIN h.inuse /\ ~w[t] /\ \A j \in DOMAIN h.inuse : j # t => w[j] = h.inuse[j]
  <2>1. w \in Seq(BOOLEAN) /\ Len(w) = Len(h.inuse) /\ DOMAIN w = DOMAIN h.inuse /\ \A j \in DOMAIN h.inuse : j # t => w[j] = h.inuse[j]
    BY <1>1, <1>4, <1>5, <1>e
  <2>2. w[t] = z BY <1>1, <1>4, <1>5
  <2> QED BY <1>e, <2>1, <2>2
<1>7. PICK v : v = Append(h.unused, t) OBVIOUS
<1>8. v \in Seq(Nat) /\ Len(v) = Len(h.unused) + 1 /\ DOMAIN v = 1 .. Len(h.unused) + 1 /\ v[Len(h.unused) + 1] = t /\ \A j \in DOMAIN h.unused : v[j] = h.unused[j]
  BY <1>1, <1>7
<1>9. PICK e : e = [h.slabs EXCEPT ![t] = r] OBVIOUS
<1>10. e \in Seq(SlabRec) /\ Len(e) = Len(h.slabs) /\ DOMAIN e = DOMAIN h.slabs /\ e[t] = r /\ \A j \in DOMAIN h.slabs : j # t => e[j] = h.slabs[j] BY <1>1, <1>9
<1>11. PICK g : g = [h EXCEPT !.slabs = e, !.inuse = w, !.unused = v] OBVIOUS
<1>12. g \in PageRec /\ g.page = h.page /\ g.caches = h.caches /\ g.free = h.free /\ g.slabs = e /\ g.inuse = w /\ g.unused = v
  BY <1>6, <1>8, <1>10, <1>11 DEF PageRec
<1>13. g = Released(h, t, sc, n)
  <2>1. r = [base |-> IF h.slabs[t].FreeObs + n = Units THEN Invalid ELSE h.slabs[t].base,
             used |-> h.slabs[t].used \ (sc .. sc + n - 1), FreeObs |-> h.slabs[t].FreeObs + n]
    BY <1>2, <1>a, <1>b
  <2> QED BY <2>1, <1>d, <1>4, <1>7, <1>9, <1>11 DEF Released
<1>14. SlabKept(g, h, t) /\ g.slabs[t].base = Invalid /\ g.slabs[t].used = {} BY <1>3, <1>10, <1>12 DEF SlabKept
<1>15. \A j : InUse(g, j) <=> j # t /\ InUse(h, j) BY <1>6, <1>12 DEF InUse
<1>16. Stacked(g)
  <2>1. Len(g.inuse) <= Len(g.slabs) /\ Len(g.slabs) <= Len(g.inuse) + 1 BY <1>6, <1>10, <1>12 DEF Stacked
  <2>2. \A j \in DOMAIN v : j \in DOMAIN h.unused \/ (j = Len(h.unused) + 1 /\ v[j] = t) BY <1>1, <1>8
  <2>3. \A j \in DOMAIN h.unused : j \in DOMAIN v /\ v[j] = h.unused[j] /\ v[j] # t /\ v[j] \in DOMAIN h.slabs /\ ~InUse(h, v[j])
    <3>1. \A j \in DOMAIN h.unused : h.unused[j] \in DOMAIN h.slabs /\ ~InUse(h, h.unused[j]) BY DEF Stacked
    <3>2. \A j \in DOMAIN h.unused : j \in DOMAIN v BY <1>1, <1>8
    <3> QED BY <1>8, <3>1, <3>2
  <2>4. \A j \in DOMAIN g.unused : g.unused[j] \in DOMAIN g.slabs /\ ~InUse(g, g.unused[j]) BY <1>10, <1>12, <1>15, <2>2, <2>3
  <2>5. \A j, k \in DOMAIN g.unused : j # k => g.unused[j] # g.unused[k]
    <3>1. \A j, k \in DOMAIN h.unused : j # k => h.unused[j] # h.unused[k] BY DEF Stacked
    <3> QED BY <1>12, <2>2, <2>3, <3>1
  <2>6. Len(h.unused) + 1 \in DOMAIN v BY <1>1, <1>8
  <2>7. \A l \in DOMAIN g.slabs : InUse(g, l) \/ \E j \in DOMAIN g.unused : g.unused[j] = l
    <3>1. \A l \in DOMAIN h.slabs : InUse(h, l) \/ \E j \in DOMAIN h.unused : h.unused[j] = l BY DEF Stacked
    <3>2. \A l \in DOMAIN h.slabs : l = t \/ InUse(g, l) \/ \E j \in DOMAIN v : v[j] = l BY <1>15, <2>3, <3>1
    <3>3. \E j \in DOMAIN v : v[j] = t BY <1>8, <2>6
    <3> QED BY <1>10, <1>12, <3>2, <3>3
  <2>8. Cardinality({}) = 0 BY FS_EmptySet
  <2>9. Units = Units - Cardinality({}) BY <2>8 DEF Sizes
  <2>10. \A l \in DOMAIN g.slabs : g.slabs[l].FreeObs = Units - Cardinality(g.slabs[l].used)
    <3>1. \A l \in DOMAIN h.slabs : h.slabs[l].FreeObs = Units - Cardinality(h.slabs[l].used) BY DEF Stacked
    <3>2. r.FreeObs = Units - Cardinality(r.used) BY <1>3, <2>9
    <3> QED BY <1>10, <1>12, <3>1, <3>2
  <2>11. \A l \in DOMAIN g.slabs : ~InUse(g, l) => g.slabs[l].used = {} /\ g.slabs[l].base = Invalid
    <3>1. \A l \in DOMAIN h.slabs : ~InUse(h, l) => h.slabs[l].used = {} /\ h.slabs[l].base = Invalid BY DEF Stacked
    <3> QED BY <1>3, <1>10, <1>12, <1>15, <3>1
  <2> QED BY <2>1, <2>4, <2>5, <2>7, <2>10, <2>11 DEF Stacked
<1> QED BY <1>12, <1>13, <1>14, <1>15, <1>16 DEF AllFreed

(* what clean_slab does when others are left: the slab stays in use *)
LEMMA ReleasedSome ==
  ASSUME Sizes, NEW h \in PageRec, Stacked(h), NEW t \in DOMAIN h.slabs, InUse(h, t), NEW sc \in Nat, NEW n \in Nat,
         h.slabs[t].FreeObs + n # Units, sc .. sc + n - 1 \subseteq h.slabs[t].used
  PROVE  Released(h, t, sc, n) \in PageRec /\ SomeFreed(Released(h, t, sc, n), h, t, sc .. sc + n - 1)
<1>1. /\ h.slabs \in Seq(SlabRec) /\ h.inuse \in Seq(BOOLEAN) /\ h.unused \in Seq(Nat) /\ h.slabs[t].base \in Nat
      /\ DOMAIN h.slabs = 1 .. Len(h.slabs) /\ Len(h.slabs) \in Nat /\ t \in Nat /\ h.slabs[t].FreeObs \in Int
      /\ h.slabs[t].used \in SUBSET (0 .. Units - 1)
  BY PageFields
<1>a. PICK U \in SUBSET (0 .. Units - 1) : U = h.slabs[t].used \ (sc .. sc + n - 1) BY <1>1
<1>b. PICK F \in Int : F = h.slabs[t].FreeObs + n BY <1>1
<1>c. PICK W \in Nat : W = h.slabs[t].base BY <1>1
<1>2. PICK r \in SlabRec : r = [base |-> W, used |-> U, FreeObs |-> F] BY DEF SlabRec
<1>3. r.base = W /\ r.used = U /\ r.FreeObs = F BY <1>2
<1>4. PICK w : w = [h.inuse EXCEPT ![t] = ~(h.slabs[t].FreeObs + n = Units)] OBVIOUS
<1>5. t \in DOMAIN h.inuse /\ h.inuse[t] BY DEF InUse
<1>6. w \in Seq(BOOLEAN) /\ Len(w) = Len(h.inuse) /\ DOMAIN w = DOMAIN h.inuse /\ w[t] /\ \A j \in DOMAIN h.inuse : j # t => w[j] = h.inuse[j]
  BY <1>1, <1>4, <1>5
<1>9. PICK e : e = [h.slabs EXCEPT ![t] = r] OBVIOUS
<1>10. e \in Seq(SlabRec) /\ Len(e) = Len(h.slabs) /\ DOMAIN e = DOMAIN h.slabs /\ e[t] = r /\ \A j \in DOMAIN h.slabs : j # t => e[j] = h.slabs[j] BY <1>1, <1>9
<1>11. PICK g : g = [h EXCEPT !.slabs = e, !.inuse = w, !.unused = h.unused] OBVIOUS
<1>12. g \in PageRec /\ g.page = h.page /\ g.caches = h.caches /\ g.free = h.free /\ g.slabs = e /\ g.inuse = w /\ g.unused = h.unused
  BY <1>1, <1>6, <1>10, <1>11 DEF PageRec
<1>13. g = Released(h, t, sc, n)
  <2>1. r = [base |-> IF h.slabs[t].FreeObs + n = Units THEN Invalid ELSE h.slabs[t].base,
             used |-> h.slabs[t].used \ (sc .. sc + n - 1), FreeObs |-> h.slabs[t].FreeObs + n]
    BY <1>2, <1>a, <1>b, <1>c
  <2> QED BY <2>1, <1>4, <1>9, <1>11 DEF Released
<1>14. SlabKept(g, h, t) /\ g.slabs[t].base = h.slabs[t].base /\ g.slabs[t].used = h.slabs[t].used \ (sc .. sc + n - 1)
  BY <1>3, <1>10, <1>12, <1>a, <1>c DEF SlabKept
<1>15. \A j : InUse(g, j) <=> InUse(h, j) BY <1>5, <1>6, <1>12 DEF InUse
<1>16. Stacked(g)
  <2>1. Len(g.inuse) <= Len(g.slabs) /\ Len(g.slabs) <= Len(g.inuse) + 1 BY <1>6, <1>10, <1>12 DEF Stacked
  <2>10. \A l \in DOMAIN g.slabs : g.slabs[l].FreeObs = Units - Cardinality(g.slabs[l].used)
    <3>1. \A l \in DOMAIN h.slabs : h.slabs[l].FreeObs = Units - Cardinality(h.slabs[l].used) BY DEF Stacked
    <3>2. Cardinality(U) = Cardinality(h.slabs[t].used) - n /\ Cardinality(h.slabs[t].used) \in Nat BY <1>1, <1>a, UnitsFreed, UsedFinite
    <3>3. F = Units - Cardinality(U) BY <1>b, <3>1, <3>2 DEF Sizes
    <3> QED BY <1>3, <1>10, <1>12, <3>1, <3>3
  <2>11. \A l \in DOMAIN g.slabs : ~InUse(g, l) => g.slabs[l].used = {} /\ g.slabs[l].base = Invalid
    <3>1. \A l \in DOMAIN h.slabs : ~InUse(h, l) => h.slabs[l].used = {} /\ h.slabs[l].base = Invalid BY DEF Stacked
    <3> QED BY <1>10, <1>12, <1>15, <3>1
  <2> QED BY <2>1, <1>10, <1>12, <1>15, <2>10, <2>11 DEF Stacked
<1> QED BY <1>12, <1>13, <1>14, <1>15, <1>16 DEF SomeFreed

(* the slab page of a reference is the one that has its page *)
LEMMA SlabFound ==
  ASSUME HeapList, NEW x, NEW n \in DOMAIN heap, heap[n].page = x.page
  PROVE  SlabPageOf(x) = n
<1>1. \A m \in DOMAIN heap : heap[m].page = x.page => m = n BY DEF HeapList
<1> QED BY <1>1 DEF SlabPageOf

(* a call that found no page for its slab puts the slab back *)
LEMMA PutBack ==
  ASSUME Sizes, HeapInv, kpc = "page", call.whole = 0, heap' = Cleaned(call.slab, 0, call.units), Return,
         UNCHANGED <<kmax, max, pool, latest, blocks, lost, broken>>
  PROVE  HeapInv'
<1> USE DEF HeapInv
<1>1. PICK p \in DOMAIN heap : /\ heap[p].page = call.slab.page /\ call.slab.index \in DOMAIN heap[p].slabs
                                /\ InUse(heap[p], call.slab.index) /\ heap[p].slabs[call.slab.index].used = 0 .. call.units - 1
  BY DEF HeapSlabs
<1>2. PICK t : t = call.slab.index OBVIOUS
<1>3. PICK h \in PageRec : h = heap[p] BY DEF HeapTypes
<1>4. Stacked(h) /\ InUse(h, t) /\ t \in DOMAIN h.slabs /\ h.slabs[t].used = 0 .. call.units - 1 /\ h.page = call.slab.page
  BY <1>1, <1>2, <1>3 DEF HeapSlabs
<1>5. call \in CallRec /\ call.units \in Nat /\ call.units \in 0 .. Units BY DEF HeapTypes, CallRec, Sizes
<1>6. call.slab = [page |-> h.page, index |-> t]
  <2>1. call.slab \in Ref BY <1>5 DEF CallRec
  <2> QED BY <1>2, <1>4, <2>1 DEF Ref
<1>7. h.slabs[t].base = Invalid BY <1>1, <1>2, <1>3, <1>6 DEF HeapSlabs, Mine
<1>8. h.slabs[t].FreeObs + call.units = Units
  <2>1. Cardinality(0 .. call.units - 1) = call.units
    <3>1. 0 \in Nat /\ 0 + call.units - 1 = call.units - 1 BY <1>5
    <3> QED BY <1>5, <3>1, RangeSize
  <2>2. h.slabs[t].FreeObs = Units - Cardinality(h.slabs[t].used) BY <1>4 DEF Stacked
  <2> QED BY <1>4, <1>5, <2>1, <2>2 DEF Sizes
<1>9. h.slabs[t].used \ (0 .. 0 + call.units - 1) = {} BY <1>4, <1>5
<1>10. PICK g : g = Released(h, t, 0, call.units) OBVIOUS
<1>11. g \in PageRec /\ AllFreed(g, h, t) BY <1>4, <1>5, <1>8, <1>9, <1>10, ReleasedAll
<1>12. heap' = [heap EXCEPT ![p] = g]
  <2>1. SlabPageOf(call.slab) = p BY <1>1, SlabFound
  <2> QED BY <1>2, <1>3, <1>10, <2>1 DEF Cleaned
<1>13. /\ heap' \in Seq(PageRec) /\ Len(heap') = Len(heap) /\ DOMAIN heap' = DOMAIN heap /\ heap' # <<>> /\ heap # <<>>
       /\ heap'[p] = g /\ \A n \in DOMAIN heap : n # p => heap'[n] = heap[n]
       /\ Len(heap) \in Nat \ {0} /\ DOMAIN heap = 1 .. Len(heap)
  BY <1>11, <1>12, Replaced
<1>14. SlabKept(g, h, t) /\ g.slabs[t].base = Invalid /\ g.slabs[t].used = {} /\ Stacked(g) /\ \A j : InUse(g, j) <=> j # t /\ InUse(h, j)
  BY <1>11 DEF AllFreed
<1>15. /\ g.page = h.page /\ g.caches = h.caches /\ g.free = h.free
       /\ DOMAIN g.slabs = DOMAIN h.slabs /\ Len(g.slabs) = Len(h.slabs)
       /\ \A j \in DOMAIN h.slabs : j # t => g.slabs[j] = h.slabs[j]
  BY <1>14 DEF SlabKept
<1>16. call' \in CallRec /\ kpc' = "idle" /\ CallPages' = {} BY Returned
<1>17. HeapTypes' BY <1>13, <1>16 DEF HeapTypes
<1>18. HeapCall' BY <1>13, <1>16 DEF HeapCall
<1>19. heap[1].slabs # <<>> /\ (\A n \in DOMAIN heap : Len(heap'[n].slabs) = Len(heap[n].slabs) /\ heap'[n].free = heap[n].free)
  BY <1>3, <1>13, <1>15 DEF HeapList
<1>20. HeapList'
  <2>1. g.slabs # <<>>
    <3>1. DOMAIN g.slabs # {} BY <1>4, <1>15
    <3> QED BY <3>1
  <2>2. heap'[1].slabs # <<>> BY <1>13, <1>19, <2>1
  <2>3. latest.page = heap[Len(heap)].page /\ (heap[Len(heap)].free > 0 => latest.index = Len(heap[Len(heap)].slabs)) BY <1>13, <1>19 DEF HeapList
  <2>4. p # Len(heap) => heap[p].free = 0 BY DEF HeapList
  <2>5. UNCHANGED <<kmax, max>> /\ latest' = latest OBVIOUS
  <2>6. latest'.page = heap[Len(heap)].page /\ (heap'[Len(heap)].free > 0 => latest'.index = Len(heap'[Len(heap)].slabs)) BY <1>13, <1>19, <2>3, <2>5
  <2>7. g.page = heap[p].page /\ g.free + Len(g.slabs) = heap[p].free + Len(heap[p].slabs) /\ (p # Len(heap) => g.free = 0) BY <1>3, <1>15, <2>4
  <2>8. g \in PageRec BY <1>11
  <2> QED BY <1>12, <2>1, <2>2, <2>5, <2>6, <2>7, <2>8, ListKept
<1>21. \A n \in DOMAIN heap : \A j \in DOMAIN heap[n].slabs : Mine(n, j) => n = p /\ j = t
  <2>1. SUFFICES ASSUME NEW n \in DOMAIN heap, NEW j \in DOMAIN heap[n].slabs, Mine(n, j) PROVE n = p /\ j = t OBVIOUS
  <2>2. [page |-> heap[n].page, index |-> j] = [page |-> h.page, index |-> t] BY <1>6, <2>1 DEF Mine
  <2>3. heap[n].page = h.page /\ j = t BY <2>2
  <2> QED BY <1>3, <2>3 DEF HeapList
<1>22. HeapSlabs'
  <2>1. \A n \in DOMAIN heap : Stacked(heap'[n]) BY <1>13, <1>14 DEF HeapSlabs
  <2>2. \A n \in DOMAIN heap : \A j \in DOMAIN heap[n].slabs : InUse(heap[n], j) => (heap[n].slabs[j].base = Invalid <=> Mine(n, j)) BY DEF HeapSlabs
  <2>3. ASSUME NEW n \in DOMAIN heap', NEW j \in DOMAIN heap'[n].slabs, InUse(heap'[n], j) PROVE heap'[n].slabs[j].base # Invalid
    <3>1. j \in DOMAIN heap[n].slabs /\ InUse(heap[n], j) /\ ~(n = p /\ j = t) /\ heap'[n].slabs[j] = heap[n].slabs[j]
      BY <1>3, <1>13, <1>14, <1>15, <2>3
    <3> QED BY <1>13, <1>21, <2>2, <3>1
  <2> QED BY <1>13, <1>16, <2>1, <2>3 DEF HeapSlabs, Mine
<1>23. HeapBlocks'
  <2>1. ASSUME NEW c \in blocks, NEW n \in DOMAIN heap, Lives(c, n) PROVE Lives(c, n)'
    <3>1. ~(n = p /\ c.slab.index = t) BY <1>3, <1>7, <2>1 DEF Lives
    <3>2. CASE n # p BY <1>13, <2>1, <3>2, SMTT(30) DEF Lives
    <3>3. CASE n = p BY <1>3, <1>13, <1>14, <1>15, <2>1, <3>1, <3>3 DEF Lives
    <3> QED BY <3>2, <3>3
  <2>2. blocks' = blocks OBVIOUS
  <2> QED BY <1>13, <2>1, <2>2 DEF HeapBlocks, UnitsOf
<1>24. CallPages = {} BY DEF CallPages
<1>25. HeapOwned' /\ HeapAccounted'
  <2>1. \A n \in DOMAIN heap : heap'[n].page = heap[n].page /\ heap'[n].caches = heap[n].caches BY <1>3, <1>13, <1>15
  <2>2. \A n \in DOMAIN heap : \A j \in DOMAIN heap[n].slabs : heap[n].slabs[j].base # Invalid =>
              j \in DOMAIN heap'[n].slabs /\ heap'[n].slabs[j].base = heap[n].slabs[j].base
    BY <1>3, <1>7, <1>13, <1>15, SMTT(30)
  <2>3. \A n \in DOMAIN heap' : \A j \in DOMAIN heap'[n].slabs : heap'[n].slabs[j].base # Invalid =>
              j \in DOMAIN heap[n].slabs /\ heap[n].slabs[j].base = heap'[n].slabs[j].base
    BY <1>3, <1>13, <1>14, <1>15
  <2>4. DOMAIN heap' = DOMAIN heap /\ CallPages' = CallPages /\ UNCHANGED <<pool, blocks, lost, broken>> BY <1>13, <1>16, <1>24
  <2> QED BY <2>1, <2>2, <2>3, <2>4, PagesKept
<1> QED BY <1>17, <1>18, <1>20, <1>22, <1>23, <1>25

(* the slab of the call gets page a, and the block is handed out *)
LEMMA PutPage ==
  ASSUME Sizes, HeapInv, kpc = "page", Finish(call), UNCHANGED <<kmax, max, latest, lost, broken>>,
         NEW a \in 1 .. NPages, heap' = [heap EXCEPT ![SlabPageOf(call.slab)].slabs[call.slab.index].base = a],
         pool' = pool \cup {a},
         \/ call.whole = 0 /\ a \notin pool
         \/ call.whole > 0 /\ a = call.base + call.whole
  PROVE  HeapInv'
<1> USE DEF HeapInv
<1>1. PICK p \in DOMAIN heap : /\ heap[p].page = call.slab.page /\ call.slab.index \in DOMAIN heap[p].slabs
                                /\ InUse(heap[p], call.slab.index) /\ heap[p].slabs[call.slab.index].used = 0 .. call.units - 1
  BY DEF HeapSlabs
<1>2. PICK t : t = call.slab.index OBVIOUS
<1>3. PICK h \in PageRec : h = heap[p] BY DEF HeapTypes
<1>4. Stacked(h) /\ InUse(h, t) /\ t \in DOMAIN h.slabs /\ h.slabs[t].used = 0 .. call.units - 1 /\ h.page = call.slab.page
  BY <1>1, <1>2, <1>3 DEF HeapSlabs
<1>5. call \in CallRec /\ call.units \in Nat /\ call.units > 0 /\ call.units \in 0 .. Units /\ call.sc = 0 /\ call.base \in Nat /\ call.whole \in Nat /\ ~broken
  BY DEF HeapTypes, CallRec, Sizes, HeapCall
<1>6. call.slab = [page |-> h.page, index |-> t] /\ t \in Nat /\ h.page \in Nat
  <2>1. call.slab \in Ref BY <1>5, SMTT(30) DEF CallRec
  <2> QED BY <1>2, <1>4, <2>1 DEF Ref
<1>7. h.slabs[t].base = Invalid BY <1>1, <1>2, <1>3, <1>6 DEF HeapSlabs, Mine
<1>8. a \in Nat /\ a # Invalid BY DEF Invalid, Sizes
<1>9. h.slabs \in Seq(SlabRec) /\ h.slabs[t] \in SlabRec BY <1>4, PageFields
<1>10. PICK r \in SlabRec : r = [h.slabs[t] EXCEPT !.base = a] BY <1>8, <1>9 DEF SlabRec
<1>11. r.base = a /\ r.used = h.slabs[t].used /\ r.FreeObs = h.slabs[t].FreeObs BY <1>9, <1>10 DEF SlabRec
<1>12. PICK e : e = [h.slabs EXCEPT ![t] = r] OBVIOUS
<1>13. e \in Seq(SlabRec) /\ Len(e) = Len(h.slabs) /\ DOMAIN e = DOMAIN h.slabs /\ e[t] = r /\ \A j \in DOMAIN h.slabs : j # t => e[j] = h.slabs[j]
  BY <1>4, <1>9, <1>12
<1>14. PICK g : g = [h EXCEPT !.slabs = e] OBVIOUS
<1>15. g \in PageRec /\ g.page = h.page /\ g.caches = h.caches /\ g.free = h.free /\ g.slabs = e /\ g.inuse = h.inuse /\ g.unused = h.unused
  BY <1>13, <1>14 DEF PageRec
<1>16. heap' = [heap EXCEPT ![p] = g]
  <2>1. SlabPageOf(call.slab) = p BY <1>1, SlabFound, SMTT(20)
  <2> QED BY <1>2, <1>3, <1>10, <1>12, <1>14, <2>1
<1>17. /\ heap' \in Seq(PageRec) /\ Len(heap') = Len(heap) /\ DOMAIN heap' = DOMAIN heap /\ heap' # <<>> /\ heap # <<>>
       /\ heap'[p] = g /\ \A n \in DOMAIN heap : n # p => heap'[n] = heap[n]
       /\ Len(heap) \in Nat \ {0} /\ DOMAIN heap = 1 .. Len(heap)
  BY <1>15, <1>16, Replaced, Zenon
<1>18. Stacked(g) /\ \A j : InUse(g, j) <=> InUse(h, j)
  <2>1. g.slabs[t].FreeObs = Units - Cardinality(g.slabs[t].used) BY <1>4, <1>11, <1>13, <1>15 DEF Stacked
  <2> QED BY <1>4, <1>13, <1>15, <2>1, StackedKept, SMTT(30)
<1>19. PICK b \in BlockRec :
           /\ blocks' = blocks \cup {b} /\ blocks' \subseteq BlockRec
           /\ b.whole = call.whole /\ b.units = call.units /\ b.base = call.base /\ b.slab = call.slab /\ b.sc = call.sc
           /\ call' \in CallRec /\ kpc' = "idle" /\ CallPages' = {}
  <2>1. blocks \subseteq BlockRec BY DEF HeapTypes
  <2> QED BY <1>5, <2>1, Finished
<1>20. pool' \subseteq 1 .. NPages /\ pool \subseteq pool' BY DEF HeapTypes
<1>21. HeapTypes' BY <1>17, <1>19, <1>20 DEF HeapTypes
<1>22. HeapCall' BY <1>17, <1>19, <1>5 DEF HeapCall
<1>23. heap[1].slabs # <<>> /\ (\A n \in DOMAIN heap : Len(heap'[n].slabs) = Len(heap[n].slabs) /\ heap'[n].free = heap[n].free)
  BY <1>3, <1>13, <1>17, <1>15, SMTT(40) DEF HeapList
<1>24. HeapList'
  <2>1. g.slabs # <<>>
    <3>1. DOMAIN g.slabs # {} BY <1>4, <1>13, <1>15
    <3> QED BY <3>1
  <2>2. heap'[1].slabs # <<>> BY <1>17, <1>23, <2>1
  <2>3. latest.page = heap[Len(heap)].page /\ (heap[Len(heap)].free > 0 => latest.index = Len(heap[Len(heap)].slabs)) BY <1>17, <1>23 DEF HeapList
  <2>4. p # Len(heap) => heap[p].free = 0 BY DEF HeapList
  <2>5. UNCHANGED <<kmax, max>> /\ latest' = latest OBVIOUS
  <2>6. latest'.page = heap[Len(heap)].page /\ (heap'[Len(heap)].free > 0 => latest'.index = Len(heap'[Len(heap)].slabs)) BY <1>17, <1>23, <2>3, <2>5
  <2>7. g.page = heap[p].page /\ g.free + Len(g.slabs) = heap[p].free + Len(heap[p].slabs) /\ (p # Len(heap) => g.free = 0) BY <1>3, <1>13, <1>15, <2>4
  <2> QED BY <1>15, <1>16, <2>1, <2>2, <2>5, <2>6, <2>7, ListKept
<1>25. \A n \in DOMAIN heap : \A j \in DOMAIN heap[n].slabs : Mine(n, j) => n = p /\ j = t
  <2>1. SUFFICES ASSUME NEW n \in DOMAIN heap, NEW j \in DOMAIN heap[n].slabs, Mine(n, j) PROVE n = p /\ j = t OBVIOUS
  <2>2. [page |-> heap[n].page, index |-> j] = [page |-> h.page, index |-> t] BY <1>6, <2>1 DEF Mine
  <2>3. heap[n].page = h.page /\ j = t BY <2>2, SMTT(40)
  <2> QED BY <1>3, <2>3 DEF HeapList
<1>26. HeapSlabs'
  <2>1. \A n \in DOMAIN heap : Stacked(heap'[n]) BY <1>17, <1>18 DEF HeapSlabs
  <2>2. \A n \in DOMAIN heap : \A j \in DOMAIN heap[n].slabs : InUse(heap[n], j) => (heap[n].slabs[j].base = Invalid <=> Mine(n, j)) BY DEF HeapSlabs
  <2>3. ASSUME NEW n \in DOMAIN heap', NEW j \in DOMAIN heap'[n].slabs, InUse(heap'[n], j) PROVE heap'[n].slabs[j].base # Invalid
    <3>1. CASE n = p /\ j = t BY <1>8, <1>11, <1>13, <1>15, <1>17, <3>1
    <3>2. CASE ~(n = p /\ j = t)
      <4>1. j \in DOMAIN heap[n].slabs /\ InUse(heap[n], j) /\ heap'[n].slabs[j] = heap[n].slabs[j]
        BY <1>3, <1>13, <1>15, <1>17, <1>18, <2>3, <3>2, ZenonT(40)
      <4>2. n \in DOMAIN heap /\ ~Mine(n, j) BY <1>17, <1>25, <3>2, <4>1
      <4>3. heap[n].slabs[j].base # Invalid BY <2>2, <4>1, <4>2
      <4> QED BY <4>1, <4>3
    <3> QED BY <3>1, <3>2
  <2> QED BY <1>17, <1>19, <2>1, <2>3, ZenonT(40) DEF HeapSlabs, Mine
<1>27. HeapBlocks'
  <2>1. ASSUME NEW c \in blocks, NEW n \in DOMAIN heap, Lives(c, n) PROVE Lives(c, n)' /\ ~(n = p /\ c.slab.index = t)
    <3>1. ~(n = p /\ c.slab.index = t) BY <1>3, <1>7, <2>1, SMTT(40) DEF Lives
    <3>2. CASE n # p BY <1>17, <2>1, <3>1, <3>2 DEF Lives
    <3>3. CASE n = p
      <4>1. g.slabs[c.slab.index] = h.slabs[c.slab.index] /\ c.slab.index \in DOMAIN g.slabs /\ InUse(g, c.slab.index) /\ g.page = c.slab.page
        BY <1>3, <1>13, <1>15, <1>18, <2>1, <3>1, <3>3 DEF Lives
      <4>2. h.slabs[c.slab.index].base # Invalid /\ UnitsOf(c) \subseteq h.slabs[c.slab.index].used BY <1>3, <2>1, <3>3, SMTT(30) DEF Lives
      <4> QED BY <1>17, <3>1, <3>3, <4>1, <4>2 DEF Lives, UnitsOf
    <3> QED BY <3>2, <3>3
  <2>2. Lives(b, p)'
    <3>1. b.slab.page = h.page /\ b.slab.index = t BY <1>2, <1>4, <1>19
    <3>2. UnitsOf(b) = 0 .. call.units - 1 BY <1>5, <1>19 DEF UnitsOf
    <3> QED BY <1>4, <1>8, <1>11, <1>13, <1>15, <1>17, <1>18, <3>1, <3>2, ZenonT(40) DEF Lives, UnitsOf
  <2>3. \A c \in blocks' : c.units > 0 => \E n \in DOMAIN heap' : Lives(c, n)' BY <1>17, <1>19, <2>1, <2>2 DEF HeapBlocks
  <2>4. ASSUME NEW c \in blocks, c.units > 0 PROVE c.slab # b.slab
    <3>1. PICK n \in DOMAIN heap : Lives(c, n) BY <2>4 DEF HeapBlocks
    <3>2. SUFFICES ASSUME c.slab = b.slab PROVE FALSE OBVIOUS
    <3>3. heap[n].page = heap[p].page /\ c.slab.index = t BY <1>1, <1>2, <1>19, <3>1, <3>2 DEF Lives
    <3>4. n = p BY <3>3 DEF HeapList
    <3> QED BY <2>1, <3>1, <3>3, <3>4
  <2>5. \A c, d \in blocks : c # d /\ c.units > 0 /\ d.units > 0 /\ c.slab = d.slab => UnitsOf(c) \cap UnitsOf(d) = {} BY DEF HeapBlocks
  <2>6. \A c, d \in blocks' : c # d /\ c.units > 0 /\ d.units > 0 /\ c.slab = d.slab => UnitsOf(c) \cap UnitsOf(d) = {}
    BY <1>19, <2>4, <2>5
  <2> QED BY <2>3, <2>6 DEF HeapBlocks, UnitsOf
<1>28. WholePages(b) = call.base .. call.base + call.whole - 1 BY <1>19 DEF WholePages
<1>29. /\ a \notin WholePages(b) /\ WholePages(b) \subseteq CallPages /\ CallPages \subseteq WholePages(b) \cup {a}
       /\ a \in pool => a \in CallPages
  <2>1. CASE call.whole = 0 /\ a \notin pool
    <3>1. WholePages(b) = {} /\ CallPages = {} BY <1>5, <1>28, <2>1 DEF CallPages
    <3> QED BY <2>1, <3>1
  <2>2. CASE call.whole > 0 /\ a = call.base + call.whole
    <3>1. CallPages = call.base .. call.base + call.whole BY <2>2 DEF CallPages
    <3> QED BY <1>5, <1>28, <2>2, <3>1
  <2> QED BY <2>1, <2>2
<1>30. \A n \in DOMAIN heap : heap'[n].page = heap[n].page /\ heap'[n].caches = heap[n].caches /\ DOMAIN heap'[n].slabs = DOMAIN heap[n].slabs
  BY <1>3, <1>13, <1>15, <1>17
<1>31. \A n \in DOMAIN heap : \A j \in DOMAIN heap[n].slabs : ~(n = p /\ j = t) => heap'[n].slabs[j] = heap[n].slabs[j]
  BY <1>3, <1>13, <1>15, <1>17, ZenonT(40)
<1>32. heap'[p].slabs[t].base = a /\ heap[p].slabs[t].base = Invalid BY <1>3, <1>7, <1>11, <1>13, <1>15, <1>17
<1>33. HeapOwned'
  <2>1. PICK own \in [pool -> Owners] : Owns(own) BY DEF HeapOwned
  <2>2. <<"slab", h.page, t>> \in Owners /\ <<"block", b, 0>> \in Owners BY <1>6 DEF Owners
  <2>3. PICK new : new = [x \in pool' |-> IF x = a THEN <<"slab", h.page, t>> ELSE IF x \in WholePages(b) THEN <<"block", b, 0>> ELSE own[x]] OBVIOUS
  <2>4. new \in [pool' -> Owners] BY <2>2, <2>3
  <2>5. \A x \in CallPages : x \in pool /\ own[x] = <<"call", 0, 0>> BY <2>1 DEF Owns, OthersOwned
  <2>6. \A x \in pool : own[x] # <<"call", 0, 0>> => x \in pool' /\ new[x] = own[x]
    <3>1. SUFFICES ASSUME NEW x \in pool, own[x] # <<"call", 0, 0>> PROVE x \in pool' /\ new[x] = own[x] OBVIOUS
    <3>2. x \notin CallPages BY <2>5, <3>1
    <3>3. x # a /\ x \notin WholePages(b) BY <1>29, <3>2
    <3> QED BY <1>20, <2>3, <3>3
  <2>7. \A x \in WholePages(b) : x \in pool' /\ new[x] = <<"block", b, 0>> BY <1>20, <1>29, <2>3, <2>5
  <2>8. a \in pool' /\ new[a] = <<"slab", h.page, t>> BY <2>3
  <2>9. MetaOwned(new)' BY <1>17, <1>30, <2>1, <2>6, SMTT(40) DEF Owns, MetaOwned, Meta
  <2>10. BasesOwned(new)'
    <3>1. ASSUME NEW n \in DOMAIN heap', NEW j \in DOMAIN heap'[n].slabs, heap'[n].slabs[j].base # Invalid
          PROVE  heap'[n].slabs[j].base \in pool' /\ new[heap'[n].slabs[j].base] = <<"slab", heap'[n].page, j>>
      <4>1. CASE n = p /\ j = t BY <1>3, <1>30, <1>32, <2>8, <4>1, SMTT(30)
      <4>2. CASE ~(n = p /\ j = t)
        <5>1. n \in DOMAIN heap /\ j \in DOMAIN heap[n].slabs /\ heap'[n].slabs[j] = heap[n].slabs[j] BY <1>17, <1>30, <1>31, <3>1, <4>2, SMTT(30)
        <5>2. heap[n].slabs[j].base \in pool /\ own[heap[n].slabs[j].base] = <<"slab", heap[n].page, j>> BY <2>1, <3>1, <5>1 DEF Owns, BasesOwned
        <5>3. PICK y \in pool : y = heap[n].slabs[j].base BY <5>2
        <5>4. own[y] = <<"slab", heap[n].page, j>> BY <5>2, <5>3
        <5>5. own[y] # <<"call", 0, 0>> BY <5>4
        <5>6. y \in pool' /\ new[y] = own[y] BY <2>6, <5>5
        <5>7. heap'[n].slabs[j].base = y /\ heap'[n].page = heap[n].page BY <1>30, <5>1, <5>3
        <5> QED BY <5>4, <5>6, <5>7, SMTT(30)
      <4> QED BY <4>1, <4>2, Zenon
    <3> QED BY <3>1, ZenonT(30) DEF BasesOwned
  <2>11. WholesOwned(new)'
    <3>1. \A c \in blocks : \A x \in WholePages(c) : x \in pool' /\ new[x] = <<"block", c, 0>> BY <2>1, <2>6 DEF Owns, WholesOwned
    <3> QED BY <1>19, <2>7, <3>1 DEF WholesOwned, WholePages
  <2>12. OthersOwned(new)' BY <1>19, <2>1, <2>6, SMTT(40) DEF Owns, OthersOwned, HeapTypes
  <2> QED BY <2>4, <2>9, <2>10, <2>11, <2>12 DEF HeapOwned, Owns
<1>34. HeapAccounted'
  <2>0. Invalid \notin pool BY DEF HeapTypes, Invalid
  <2> SUFFICES ASSUME NEW x \in pool'
      PROVE \/ x \in lost' \cup CallPages'
            \/ \E n \in DOMAIN heap' : x \in Meta(heap'[n])
            \/ \E n \in DOMAIN heap' : \E j \in DOMAIN heap'[n].slabs : x = heap'[n].slabs[j].base
            \/ \E c \in blocks' : x \in WholePages(c)
    BY SMTT(40) DEF HeapAccounted, Meta, WholePages
  <2>1. CASE x = a BY <1>2, <1>3, <1>4, <1>17, <1>30, <1>32, <2>1
  <2>2. CASE x \in lost BY <2>2
  <2>3. CASE x \in CallPages BY <1>19, <1>29, <2>1, <2>3
  <2>4. CASE \E n \in DOMAIN heap : x \in Meta(heap[n]) BY <1>17, <1>30, <2>4 DEF Meta
  <2>5. CASE x # a /\ \E n \in DOMAIN heap : \E j \in DOMAIN heap[n].slabs : x = heap[n].slabs[j].base
    <3>0. PICK n \in DOMAIN heap : \E j \in DOMAIN heap[n].slabs : x = heap[n].slabs[j].base BY <2>5
    <3>1. PICK j \in DOMAIN heap[n].slabs : x = heap[n].slabs[j].base BY <3>0
    <3>2. x \in pool BY <2>5
    <3>3. ~(n = p /\ j = t) BY <1>32, <2>0, <3>1, <3>2
    <3>4. j \in DOMAIN heap'[n].slabs /\ x = heap'[n].slabs[j].base /\ n \in DOMAIN heap' BY <1>17, <1>30, <1>31, <3>1, <3>3
    <3> QED BY <3>4
  <2>6. CASE \E c \in blocks : x \in WholePages(c) BY <1>19, <2>6
  <2> QED BY <1>5, <2>1, <2>2, <2>3, <2>4, <2>5, <2>6 DEF HeapAccounted
<1> QED BY <1>21, <1>22, <1>24, <1>26, <1>27, <1>33, <1>34

(* the page of a slab just taken (slab_page) *)
LEMMA StepSlabPage == Sizes /\ HeapInv /\ slab_page => HeapInv'
<1> SUFFICES ASSUME Sizes, HeapInv, slab_page PROVE HeapInv' OBVIOUS
<1>0. kpc = "page" /\ UNCHANGED <<kmax, max, latest, lost, broken>> BY DEF slab_page, shape
<1>1. CASE /\ call.whole = 0 /\ heap' = Cleaned(call.slab, 0, call.units) /\ Return
           /\ UNCHANGED <<pool, blocks>>
  BY <1>0, <1>1, PutBack, SMTT(40)
<1>2. CASE /\ call.whole = 0 /\ Runs(1) # {} /\ pool' = pool \cup Pages(1)
           /\ heap' = [heap EXCEPT ![SlabPageOf(call.slab)].slabs[call.slab.index].base = Min(Pages(1))]
           /\ Finish(call)
  <2>1. PICK m \in 1 .. NPages - 1 + 1 : Pages(1) = m .. m + 1 - 1 /\ Pages(1) \cap pool = {} /\ Min(Pages(1)) = m
    BY <1>2, PagesFree DEF Sizes
  <2>2. m \in 1 .. NPages /\ Pages(1) = {m} BY <2>1 DEF Sizes
  <2>3. m \notin pool /\ pool' = pool \cup {m} BY <1>2, <2>1, <2>2, SMTT(30)
  <2>4. heap' = [heap EXCEPT ![SlabPageOf(call.slab)].slabs[call.slab.index].base = m] BY <1>2, <2>1
  <2> QED BY <1>0, <1>2, <2>2, <2>3, <2>4, PutPage
<1>3. CASE /\ call.whole > 0
           /\ heap' = [heap EXCEPT ![SlabPageOf(call.slab)].slabs[call.slab.index].base = call.base + call.whole]
           /\ Finish(call)
           /\ UNCHANGED pool
  <2>1. call.base \in Nat /\ call.whole \in Nat BY DEF HeapInv, HeapTypes, CallRec
  <2>2. PICK a \in Nat : a = call.base + call.whole BY <2>1
  <2>3. a \in CallPages BY <1>0, <1>3, <2>1, <2>2 DEF CallPages
  <2>4. a \in pool /\ pool \subseteq 1 .. NPages BY <2>3 DEF HeapInv, HeapOwned, Owns, OthersOwned, HeapTypes
  <2>5. a \in 1 .. NPages /\ pool' = pool \cup {a} BY <1>3, <2>4
  <2>6. heap' = [heap EXCEPT ![SlabPageOf(call.slab)].slabs[call.slab.index].base = a] BY <1>3, <2>2
  <2> QED BY <1>0, <1>3, <2>2, <2>5, <2>6, PutPage
<1> QED BY <1>1, <1>2, <1>3 DEF slab_page

-----------------------------------------------------------------------------
(* a block of whole pages is freed *)
LEMMA FreeWhole ==
  ASSUME Sizes, HeapInv, kpc = "idle", NEW b \in blocks, blocks' = blocks \ {b}, pool' = pool \ WholePages(b),
         UNCHANGED <<kmax, max, heap, latest, kpc, call, lost, broken>>
  PROVE  HeapInv'
<1> USE DEF HeapInv
<1>0. PICK own \in [pool -> Owners] : Owns(own) BY DEF HeapOwned
<1>1. \A x \in WholePages(b) : x \in pool /\ own[x] = <<"block", b, 0>> BY <1>0 DEF Owns, WholesOwned
<1>2. CallPages = {} /\ CallPages' = {} BY DEF CallPages
<1>3. heap' = heap /\ kpc' = "idle" /\ lost' = lost OBVIOUS
<1>4. lost \subseteq pool'
  <2>1. \A x \in lost : x \in pool /\ own[x] = <<"lost", 0, 0>> BY <1>0 DEF Owns, OthersOwned, HeapTypes
  <2> QED BY <1>1, <2>1
<1>5. HeapTypes' BY <1>4 DEF HeapTypes
<1>6. HeapCall' BY DEF HeapCall
<1>7. HeapList' BY DEF HeapList
<1>8. HeapSlabs' BY <1>3 DEF HeapSlabs, Mine, Stacked, InUse
<1>9. HeapBlocks' BY <1>3 DEF HeapBlocks, Lives, InUse, UnitsOf
<1>10. HeapOwned'
  <2>1. PICK new : new = [x \in pool' |-> own[x]] OBVIOUS
  <2>2. new \in [pool' -> Owners] BY <2>1
  <2>3. \A x \in pool : own[x] # <<"block", b, 0>> => x \in pool' /\ new[x] = own[x] BY <1>1, <2>1
  <2>4. MetaOwned(new)' BY <1>0, <1>3, <2>3 DEF Owns, MetaOwned, Meta
  <2>5. BasesOwned(new)'
    <3>1. ASSUME NEW n \in DOMAIN heap, NEW j \in DOMAIN heap[n].slabs, heap[n].slabs[j].base # Invalid
          PROVE  heap[n].slabs[j].base \in pool' /\ new[heap[n].slabs[j].base] = <<"slab", heap[n].page, j>>
      <4>1. PICK y \in pool : y = heap[n].slabs[j].base /\ own[y] = <<"slab", heap[n].page, j>> BY <1>0, <3>1 DEF Owns, BasesOwned
      <4>2. own[y] # <<"block", b, 0>> BY <4>1
      <4> QED BY <2>3, <4>1, <4>2
    <3> QED BY <1>3, <3>1 DEF BasesOwned
  <2>6. WholesOwned(new)'
    <3>1. ASSUME NEW c \in blocks, c # b, NEW x \in WholePages(c) PROVE x \in pool' /\ new[x] = <<"block", c, 0>>
      <4>1. x \in pool /\ own[x] = <<"block", c, 0>> BY <1>0 DEF Owns, WholesOwned
      <4>2. own[x] # <<"block", b, 0>> BY <3>1, <4>1
      <4> QED BY <2>3, <4>1, <4>2
    <3> QED BY <3>1 DEF WholesOwned, WholePages
  <2>7. OthersOwned(new)' BY <1>0, <1>2, <1>3, <2>3 DEF Owns, OthersOwned, HeapTypes
  <2> QED BY <2>2, <2>4, <2>5, <2>6, <2>7 DEF HeapOwned, Owns
<1>11. HeapAccounted' BY <1>2, <1>3 DEF HeapAccounted, WholePages, Meta
<1> QED BY <1>5, <1>6, <1>7, <1>8, <1>9, <1>10, <1>11

(* a block with units in a slab is freed; the pages without a slab in use are next *)
LEMMA FreeUnits ==
  ASSUME Sizes, HeapInv, kpc = "idle", ~broken, NEW b \in blocks, b.units > 0, blocks' = blocks \ {b},
         free_slab(b), kpc' = "sweep", call' = [Idle EXCEPT !.whole = b.whole, !.base = b.base, !.at = LatestPage],
         UNCHANGED <<kmax, max, latest, lost, broken>>
  PROVE  HeapInv'
<1> USE DEF HeapInv
<1>1. PICK p \in DOMAIN heap : Lives(b, p) BY DEF HeapBlocks
<1>2. PICK t : t = b.slab.index OBVIOUS
<1>3. PICK h \in PageRec : h = heap[p] BY DEF HeapTypes
<1>4. PICK sc \in Nat, n \in Nat : sc = b.sc /\ n = b.units /\ n > 0 BY DEF HeapTypes, BlockRec, Sizes
<1>5. /\ Stacked(h) /\ h.page = b.slab.page /\ t \in DOMAIN h.slabs /\ InUse(h, t) /\ h.slabs[t].base # Invalid
      /\ sc .. sc + n - 1 \subseteq h.slabs[t].used /\ UnitsOf(b) = sc .. sc + n - 1
  BY <1>1, <1>2, <1>3, <1>4 DEF HeapSlabs, Lives, UnitsOf
<1>6. heap # <<>> /\ heap[1].slabs # <<>>
  <2>1. heap # <<>> BY DEF HeapCall
  <2>2. Len(heap) > 0 BY <2>1 DEF HeapTypes
  <2> QED BY <2>1, <2>2 DEF HeapList
<1>7. LatestPage = Len(heap) /\ Len(heap) \in DOMAIN heap /\ Len(heap) \in Nat \ {0} /\ DOMAIN heap = 1 .. Len(heap) BY <1>6, LatestLast
<1>8. SlabPageOf(b.slab) = p /\ SlabAt(b.slab) = h.slabs[t]
  <2>1. \A m \in DOMAIN heap : heap[m].page = b.slab.page <=> m = p BY <1>1 DEF HeapList, Lives
  <2>2. SlabPageOf(b.slab) = p BY <2>1 DEF SlabPageOf
  <2>3. (CHOOSE m \in DOMAIN heap : heap[m].page = b.slab.page) = p BY <2>1
  <2> QED BY <1>2, <1>3, <2>2, <2>3 DEF SlabAt
<1>9. PICK g : g = Released(h, t, sc, n) OBVIOUS
<1>10. heap' = [heap EXCEPT ![p] = g]
  <2>1. heap' = Cleaned(b.slab, b.sc, b.units) BY DEF free_slab
  <2> QED BY <1>2, <1>3, <1>4, <1>8, <1>9, <2>1 DEF Cleaned
<1>11. /\ h.slabs[t].FreeObs = Units - Cardinality(h.slabs[t].used) /\ h.slabs[t].used \in SUBSET (0 .. Units - 1)
       /\ Cardinality(h.slabs[t].used) \in Nat
  BY <1>5, PageFields, UsedFinite DEF Stacked
<1> DEFINE Gone == /\ g.slabs[t].base = Invalid /\ ~InUse(g, t) /\ pool' = pool \ {h.slabs[t].base}
                   /\ h.slabs[t].used = UnitsOf(b)
           Less == /\ g.slabs[t].base = h.slabs[t].base /\ g.slabs[t].used = h.slabs[t].used \ UnitsOf(b) /\ InUse(g, t)
                   /\ pool' = pool
<1>12. g \in PageRec /\ SlabKept(g, h, t) /\ Stacked(g) /\ (\A j : j # t => (InUse(g, j) <=> InUse(h, j))) /\ (Gone \/ Less)
  <2>1. CASE h.slabs[t].FreeObs + n = Units
    <3>1. Cardinality(h.slabs[t].used) = n BY <1>11, <2>1 DEF Sizes
    <3>2. h.slabs[t].used \ (sc .. sc + n - 1) = {} BY <1>5, <1>11, <3>1, UnitsFreed
    <3>3. g \in PageRec /\ AllFreed(g, h, t) BY <1>5, <1>9, <2>1, <3>2, ReleasedAll
    <3>4. pool' = pool \ {h.slabs[t].base} BY <1>4, <1>8, <2>1 DEF free_slab
    <3>5. h.slabs[t].used = UnitsOf(b) BY <1>5, <3>2
    <3> QED BY <3>3, <3>4, <3>5 DEF AllFreed
  <2>2. CASE h.slabs[t].FreeObs + n # Units
    <3>3. g \in PageRec /\ SomeFreed(g, h, t, sc .. sc + n - 1) BY <1>5, <1>9, <2>2, ReleasedSome
    <3>4. pool' = pool BY <1>4, <1>8, <2>2 DEF free_slab
    <3> QED BY <1>5, <3>3, <3>4 DEF SomeFreed
  <2> QED BY <2>1, <2>2
<1> HIDE DEF Gone, Less
<1>13. /\ heap' \in Seq(PageRec) /\ Len(heap') = Len(heap) /\ DOMAIN heap' = DOMAIN heap /\ heap' # <<>> /\ heap # <<>>
       /\ heap'[p] = g /\ \A m \in DOMAIN heap : m # p => heap'[m] = heap[m]
  BY <1>10, <1>12, Replaced
<1>14. /\ g.page = h.page /\ g.caches = h.caches /\ g.free = h.free
       /\ DOMAIN g.slabs = DOMAIN h.slabs /\ Len(g.slabs) = Len(h.slabs)
       /\ \A j \in DOMAIN h.slabs : j # t => g.slabs[j] = h.slabs[j]
  BY <1>12 DEF SlabKept
<1>15. call' \in CallRec /\ call'.whole = b.whole /\ call'.base = b.base /\ call'.at = Len(heap) /\ ~call'.miss
  <2>1. b \in BlockRec BY DEF HeapTypes
  <2>2. PICK w \in Nat, d \in Nat, l \in Nat : w = b.whole /\ d = b.base /\ l = Len(heap) BY <1>7, <2>1 DEF BlockRec
  <2>3. call' = [Idle EXCEPT !.whole = w, !.base = d, !.at = l] BY <1>7, <2>2
  <2>4. Idle \in CallRec /\ ~Idle.miss BY Idles DEF Idle
  <2>5. PICK k \in CallRec : k = Idle /\ ~k.miss BY <2>4
  <2>6. call' = [k EXCEPT !.whole = w, !.base = d, !.at = l] BY <2>3, <2>5
  <2>7. call' \in CallRec /\ call'.whole = w /\ call'.base = d /\ call'.at = l /\ call'.miss = k.miss BY <2>6 DEF CallRec
  <2> QED BY <2>2, <2>5, <2>7
<1>16. CallPages = {} /\ CallPages' = WholePages(b) BY <1>15 DEF CallPages, WholePages
<1>17. PICK own \in [pool -> Owners] : Owns(own) BY DEF HeapOwned
<1>18. h.slabs[t].base \in pool /\ own[h.slabs[t].base] = <<"slab", h.page, t>> BY <1>3, <1>5, <1>17 DEF Owns, BasesOwned
<1>19. pool' \subseteq pool /\ (\A x \in pool : x # h.slabs[t].base => x \in pool') /\ (h.slabs[t].base \in pool' => Less)
  BY <1>12 DEF Gone, Less
<1>20. lost \subseteq pool'
  <2>1. \A x \in lost : x \in pool /\ own[x] = <<"lost", 0, 0>> BY <1>17 DEF Owns, OthersOwned, HeapTypes
  <2>2. \A x \in lost : x # h.slabs[t].base BY <1>18, <2>1
  <2> QED BY <1>19, <2>1, <2>2
<1>21. HeapTypes' BY <1>13, <1>15, <1>19, <1>20 DEF HeapTypes
<1>22. HeapCall' BY <1>7, <1>13, <1>15 DEF HeapCall
<1>23. \A m \in DOMAIN heap : Len(heap'[m].slabs) = Len(heap[m].slabs) /\ heap'[m].free = heap[m].free
  BY <1>3, <1>13, <1>14
<1>24. HeapList'
  <2>1. g.slabs # <<>>
    <3>1. DOMAIN g.slabs # {} BY <1>5, <1>14
    <3> QED BY <3>1
  <2>2. heap'[1].slabs # <<>> BY <1>6, <1>7, <1>13, <2>1
  <2>3. latest.page = heap[Len(heap)].page /\ (heap[Len(heap)].free > 0 => latest.index = Len(heap[Len(heap)].slabs)) BY <1>6, <1>7 DEF HeapList
  <2>4. p # Len(heap) => heap[p].free = 0 BY DEF HeapList
  <2>5. UNCHANGED <<kmax, max>> /\ latest' = latest OBVIOUS
  <2>6. latest'.page = heap[Len(heap)].page /\ (heap'[Len(heap)].free > 0 => latest'.index = Len(heap'[Len(heap)].slabs)) BY <1>7, <1>23, <2>3, <2>5
  <2>7. g.page = heap[p].page /\ g.free + Len(g.slabs) = heap[p].free + Len(heap[p].slabs) /\ (p # Len(heap) => g.free = 0) BY <1>3, <1>14, <2>4
  <2> QED BY <1>10, <1>12, <2>1, <2>2, <2>5, <2>6, <2>7, ListKept
<1>25. HeapSlabs'
  <2>1. \A m \in DOMAIN heap : Stacked(heap'[m]) BY <1>12, <1>13 DEF HeapSlabs
  <2>2. \A m \in DOMAIN heap : \A j \in DOMAIN heap[m].slabs : InUse(heap[m], j) => heap[m].slabs[j].base # Invalid BY DEF HeapSlabs, Mine
  <2>3. ASSUME NEW m \in DOMAIN heap', NEW j \in DOMAIN heap'[m].slabs, InUse(heap'[m], j) PROVE heap'[m].slabs[j].base # Invalid
    <3>1. CASE m = p /\ j = t
      <4>1. Less BY <1>12, <1>13, <2>3, <3>1 DEF Gone
      <4> QED BY <1>5, <1>13, <3>1, <4>1 DEF Less
    <3>2. CASE ~(m = p /\ j = t)
      <4>1. m \in DOMAIN heap /\ j \in DOMAIN heap[m].slabs /\ InUse(heap[m], j) /\ heap'[m].slabs[j] = heap[m].slabs[j]
        BY <1>3, <1>12, <1>13, <1>14, <2>3, <3>2
      <4> QED BY <2>2, <4>1
    <3> QED BY <3>1, <3>2
  <2> QED BY <1>13, <2>1, <2>3 DEF HeapSlabs, Mine
<1>26. HeapBlocks'
  <2>1. ASSUME NEW c \in blocks, c # b, c.units > 0, NEW m \in DOMAIN heap, Lives(c, m) PROVE Lives(c, m)'
    <3>1. CASE m # p BY <1>13, <2>1, <3>1 DEF Lives
    <3>2. CASE m = p /\ c.slab.index # t
      <4>1. g.slabs[c.slab.index] = h.slabs[c.slab.index] /\ c.slab.index \in DOMAIN g.slabs /\ InUse(g, c.slab.index) /\ g.page = c.slab.page
        BY <1>3, <1>12, <1>14, <2>1, <3>2 DEF Lives
      <4>2. h.slabs[c.slab.index].base # Invalid /\ UnitsOf(c) \subseteq h.slabs[c.slab.index].used BY <1>3, <2>1, <3>2 DEF Lives
      <4> QED BY <1>13, <3>2, <4>1, <4>2 DEF Lives, UnitsOf
    <3>3. CASE m = p /\ c.slab.index = t
      <4>1. c \in BlockRec /\ b \in BlockRec BY DEF HeapTypes
      <4>2. c.slab \in Ref /\ b.slab \in Ref /\ c.sc \in Nat /\ c.units \in Nat BY <4>1 DEF BlockRec, Sizes
      <4>3. c.slab.page = b.slab.page /\ c.slab.index = b.slab.index BY <1>2, <1>3, <1>5, <2>1, <3>3 DEF Lives
      <4>4. c.slab = b.slab BY <4>2, <4>3 DEF Ref
      <4>5. UnitsOf(c) \cap UnitsOf(b) = {} BY <2>1, <4>4 DEF HeapBlocks
      <4>6. c.sc \in UnitsOf(c) BY <2>1, <4>2 DEF UnitsOf
      <4>7. UnitsOf(c) \subseteq h.slabs[t].used BY <1>3, <2>1, <3>3 DEF Lives
      <4>8. Less BY <1>12, <4>5, <4>6, <4>7 DEF Gone
      <4>9. g.slabs[t].base # Invalid /\ UnitsOf(c) \subseteq g.slabs[t].used /\ InUse(g, t) BY <1>5, <4>5, <4>7, <4>8 DEF Less
      <4>10. g.page = c.slab.page /\ t \in DOMAIN g.slabs BY <1>5, <1>14, <4>3
      <4> QED BY <1>13, <3>3, <4>9, <4>10 DEF Lives, UnitsOf
    <3> QED BY <3>1, <3>2, <3>3
  <2>2. \A c \in blocks' : c.units > 0 => \E m \in DOMAIN heap' : Lives(c, m)' BY <1>13, <2>1 DEF HeapBlocks
  <2>3. \A c, d \in blocks : c # d /\ c.units > 0 /\ d.units > 0 /\ c.slab = d.slab => UnitsOf(c) \cap UnitsOf(d) = {} BY DEF HeapBlocks
  <2> QED BY <2>2, <2>3 DEF HeapBlocks, UnitsOf
<1>30. \A m \in DOMAIN heap : heap'[m].page = heap[m].page /\ heap'[m].caches = heap[m].caches /\ DOMAIN heap'[m].slabs = DOMAIN heap[m].slabs
  BY <1>3, <1>13, <1>14
<1>31. \A m \in DOMAIN heap : \A j \in DOMAIN heap[m].slabs : ~(m = p /\ j = t) => heap'[m].slabs[j] = heap[m].slabs[j]
  BY <1>3, <1>13, <1>14
<1>32. \A x \in WholePages(b) : x \in pool' /\ own[x] = <<"block", b, 0>>
  <2>1. \A x \in WholePages(b) : x \in pool /\ own[x] = <<"block", b, 0>> BY <1>17 DEF Owns, WholesOwned
  <2>2. \A x \in WholePages(b) : x # h.slabs[t].base BY <1>18, <2>1
  <2> QED BY <1>19, <2>1, <2>2
<1>33. HeapOwned'
  <2>2. <<"call", 0, 0>> \in Owners BY DEF Owners
  <2>3. PICK new : new = [x \in pool' |-> IF x \in WholePages(b) THEN <<"call", 0, 0>> ELSE own[x]] OBVIOUS
  <2>4. new \in [pool' -> Owners] BY <1>19, <2>2, <2>3
  <2>6. \A x \in pool : x # h.slabs[t].base /\ own[x] # <<"block", b, 0>> => x \in pool' /\ new[x] = own[x] BY <1>19, <1>32, <2>3
  <2>9. MetaOwned(new)'
    <3>1. ASSUME NEW m \in DOMAIN heap, NEW x \in Meta(heap[m]) PROVE x \in pool' /\ new[x] = <<"meta", heap[m].page, 0>>
      <4>1. x \in pool /\ own[x] = <<"meta", heap[m].page, 0>> BY <1>17, <3>1 DEF Owns, MetaOwned
      <4>2. x # h.slabs[t].base /\ own[x] # <<"block", b, 0>> BY <1>18, <4>1
      <4> QED BY <2>6, <4>1, <4>2
    <3>2. \A m \in DOMAIN heap : Meta(heap'[m]) = Meta(heap[m]) BY <1>30 DEF Meta
    <3> QED BY <1>13, <1>30, <3>1, <3>2 DEF MetaOwned, Meta
  <2>10. BasesOwned(new)'
    <3>1. ASSUME NEW m \in DOMAIN heap', NEW j \in DOMAIN heap'[m].slabs, heap'[m].slabs[j].base # Invalid
          PROVE  heap'[m].slabs[j].base \in pool' /\ new[heap'[m].slabs[j].base] = <<"slab", heap'[m].page, j>>
      <4>1. CASE m = p /\ j = t
        <5>1. Less BY <1>12, <1>13, <3>1, <4>1 DEF Gone
        <5>2. PICK y \in pool : y = h.slabs[t].base /\ own[y] = <<"slab", h.page, t>> BY <1>18
        <5>3. own[y] # <<"block", b, 0>> /\ y \in pool' BY <5>1, <5>2 DEF Less
        <5>4. new[y] = own[y] BY <1>32, <2>3, <5>3
        <5>5. heap'[m].slabs[j].base = y /\ heap'[m].page = h.page BY <1>13, <1>14, <4>1, <5>1, <5>2 DEF Less
        <5> QED BY <4>1, <5>2, <5>3, <5>4, <5>5
      <4>2. CASE ~(m = p /\ j = t)
        <5>1. m \in DOMAIN heap /\ j \in DOMAIN heap[m].slabs /\ heap'[m].slabs[j] = heap[m].slabs[j] BY <1>13, <1>30, <1>31, <3>1, <4>2
        <5>2. heap[m].slabs[j].base \in pool /\ own[heap[m].slabs[j].base] = <<"slab", heap[m].page, j>> BY <1>17, <3>1, <5>1 DEF Owns, BasesOwned
        <5>3. PICK y \in pool : y = heap[m].slabs[j].base BY <5>2
        <5>4. own[y] = <<"slab", heap[m].page, j>> BY <5>2, <5>3
        <5>5. own[y] # <<"block", b, 0>> BY <5>4
        <5>8. heap[m].page # h.page \/ j # t
          <6>1. \A k, l \in DOMAIN heap : k # l => heap[k].page # heap[l].page BY DEF HeapList
          <6> QED BY <1>3, <4>2, <5>1, <6>1
        <5>9. y # h.slabs[t].base BY <1>18, <5>4, <5>8
        <5>6. y \in pool' /\ new[y] = own[y] BY <2>6, <5>5, <5>9
        <5>7. heap'[m].slabs[j].base = y /\ heap'[m].page = heap[m].page BY <1>30, <5>1, <5>3
        <5> QED BY <5>4, <5>6, <5>7
      <4> QED BY <4>1, <4>2
    <3> QED BY <3>1 DEF BasesOwned
  <2>11. WholesOwned(new)'
    <3>1. ASSUME NEW c \in blocks, c # b, NEW x \in WholePages(c) PROVE x \in pool' /\ new[x] = <<"block", c, 0>>
      <4>1. x \in pool /\ own[x] = <<"block", c, 0>> BY <1>17 DEF Owns, WholesOwned
      <4>2. own[x] # <<"block", b, 0>> /\ x # h.slabs[t].base BY <1>18, <3>1, <4>1
      <4> QED BY <2>6, <4>1, <4>2
    <3> QED BY <3>1 DEF WholesOwned, WholePages
  <2>12. OthersOwned(new)'
    <3>1. \A x \in CallPages' : x \in pool' /\ new[x] = <<"call", 0, 0>> BY <1>16, <1>32, <2>3
    <3>2. ASSUME NEW x \in lost PROVE new[x] = <<"lost", 0, 0>>
      <4>1. x \in pool /\ own[x] = <<"lost", 0, 0>> BY <1>17 DEF Owns, OthersOwned, HeapTypes
      <4>2. own[x] # <<"block", b, 0>> /\ x # h.slabs[t].base BY <1>18, <4>1
      <4> QED BY <2>6, <4>1, <4>2
    <3> QED BY <3>1, <3>2 DEF OthersOwned
  <2> QED BY <2>4, <2>9, <2>10, <2>11, <2>12 DEF HeapOwned, Owns
<1>34. HeapAccounted'
  <2> SUFFICES ASSUME NEW x \in pool'
      PROVE \/ x \in lost' \cup CallPages'
            \/ \E m \in DOMAIN heap' : x \in Meta(heap'[m])
            \/ \E m \in DOMAIN heap' : \E j \in DOMAIN heap'[m].slabs : x = heap'[m].slabs[j].base
            \/ \E c \in blocks' : x \in WholePages(c)
    BY DEF HeapAccounted, Meta, WholePages
  <2>0. x \in pool BY <1>19
  <2>1. CASE x = h.slabs[t].base
    <3>1. Less BY <1>19, <2>1
    <3>2. x = heap'[p].slabs[t].base /\ p \in DOMAIN heap' /\ t \in DOMAIN heap'[p].slabs BY <1>5, <1>13, <1>14, <2>1, <3>1 DEF Less
    <3> QED BY <3>2
  <2>2. CASE x \in lost BY <2>2
  <2>4. CASE \E m \in DOMAIN heap : x \in Meta(heap[m]) BY <1>13, <1>30, <2>4 DEF Meta
  <2>5. CASE x # h.slabs[t].base /\ \E m \in DOMAIN heap : \E j \in DOMAIN heap[m].slabs : x = heap[m].slabs[j].base
    <3>0. PICK m \in DOMAIN heap : \E j \in DOMAIN heap[m].slabs : x = heap[m].slabs[j].base BY <2>5
    <3>1. PICK j \in DOMAIN heap[m].slabs : x = heap[m].slabs[j].base BY <3>0
    <3>3. ~(m = p /\ j = t) BY <1>3, <2>5, <3>1
    <3>4. j \in DOMAIN heap'[m].slabs /\ x = heap'[m].slabs[j].base /\ m \in DOMAIN heap' BY <1>13, <1>30, <1>31, <3>1, <3>3
    <3> QED BY <3>4
  <2>6. CASE \E c \in blocks : x \in WholePages(c) BY <1>16, <2>6
  <2> QED BY <1>16, <2>0, <2>1, <2>2, <2>4, <2>5, <2>6 DEF HeapAccounted
<1> QED BY <1>21, <1>22, <1>24, <1>25, <1>26, <1>33, <1>34

(* a block is given back (kfree) *)
LEMMA StepKfree ==
  ASSUME Sizes, HeapInv, NEW b \in blocks, kfree(b) PROVE HeapInv'
<1>1. kpc = "idle" /\ ~broken /\ blocks' = blocks \ {b} /\ UNCHANGED <<kmax, max, latest, lost, broken>> BY DEF kfree, shape
<1>2. CASE b.units > 0
  <2>1. free_slab(b) /\ kpc' = "sweep" /\ call' = [Idle EXCEPT !.whole = b.whole, !.base = b.base, !.at = LatestPage] BY <1>2 DEF kfree
  <2> QED BY <1>1, <1>2, <2>1, FreeUnits
<1>3. CASE ~(b.units > 0)
  <2>1. pool' = pool \ WholePages(b) /\ UNCHANGED <<heap, kpc, call>> BY <1>3 DEF kfree, WholePages
  <2> QED BY <1>1, <2>1, FreeWhole
<1> QED BY <1>2, <1>3

-----------------------------------------------------------------------------
(* as many slabs on the stack as there are: none is in use *)
LEMMA AllStacked ==
  ASSUME NEW h \in PageRec, Stacked(h), Len(h.unused) = Len(h.slabs)
  PROVE  \A t : ~InUse(h, t)
<1>1. PICK l \in Nat : l = Len(h.slabs) /\ DOMAIN h.slabs = 1 .. l /\ DOMAIN h.unused = 1 .. l BY PageFields
<1>2. h.unused \in Seq(Nat) BY PageFields
<1>3. h.unused \in Injection(1 .. l, 1 .. l)
  <2>1. \A j \in 1 .. l : h.unused[j] \in 1 .. l BY <1>1 DEF Stacked
  <2>2. \A j, k \in 1 .. l : j # k => h.unused[j] # h.unused[k] BY <1>1 DEF Stacked
  <2>3. h.unused \in [1 .. l -> 1 .. l] BY <1>1, <1>2, <2>1
  <2> QED BY <2>2, <2>3 DEF Injection, IsInjective
<1>4. IsFiniteSet(1 .. l) BY FS_Interval
<1>5. PICK f \in Injection(1 .. l, 1 .. l) : f = h.unused BY <1>3
<1>6. f \in Surjection(1 .. l, 1 .. l) BY <1>4, FS_Injection
<1>7. \A t \in 1 .. l : \E j \in 1 .. l : h.unused[j] = t BY <1>5, <1>6 DEF Surjection
<1>8. \A t \in DOMAIN h.slabs : ~InUse(h, t)
  <2>1. \A j \in DOMAIN h.unused : ~InUse(h, h.unused[j]) BY DEF Stacked
  <2> QED BY <1>1, <1>7, <2>1
<1>9. Len(h.inuse) <= Len(h.slabs) BY DEF Stacked
<1> QED BY <1>8, <1>9, InUseSlab

(* the search for slab pages to give back goes on to the one before *)
LEMMA SweepOn ==
  ASSUME Sizes, HeapInv, kpc = "sweep", call.at > 1, call' = [call EXCEPT !.at = call.at - 1, !.miss = TRUE],
         UNCHANGED <<kmax, max, pool, heap, latest, blocks, kpc, lost, broken>>
  PROVE  HeapInv'
<1> USE DEF HeapInv
<1>1. call \in CallRec /\ call.at \in Nat BY DEF HeapTypes, CallRec
<1>2. PICK a \in Nat, z \in BOOLEAN : a = call.at - 1 /\ z = TRUE
  <2>1. PICK z : z = TRUE OBVIOUS
  <2>2. z \in BOOLEAN BY <2>1, Zenon
  <2>3. \E y \in BOOLEAN : y = TRUE BY <2>1, <2>2, Zenon
  <2>4. \E a \in Nat : a = call.at - 1 BY <1>1
  <2> QED BY <2>3, <2>4, Zenon
<1>3. z BY <1>2, Zenon
<1>4. call' = [call EXCEPT !.at = a, !.miss = z] BY <1>2, Zenon
<1>5. call' \in CallRec /\ call'.at = a /\ call'.miss = z /\ call'.whole = call.whole /\ call'.base = call.base BY <1>1, <1>4 DEF CallRec
<1>6. call'.miss BY <1>3, <1>5
<1>7. a = call.at - 1 BY <1>2, Zenon
<1>8. HeapTypes' BY <1>5 DEF HeapTypes
<1>9. HeapCall'
  <2>1. call.at \in 1 .. Len(heap) /\ heap # <<>> /\ ~broken BY DEF HeapCall
  <2>2. Len(heap) \in Nat BY DEF HeapTypes
  <2>3. call'.at \in 1 .. Len(heap) /\ call'.at < Len(heap) BY <1>1, <1>5, <1>7, <2>1, <2>2
  <2> QED BY <1>6, <2>1, <2>3 DEF HeapCall
<1>10. kpc' = "sweep" /\ heap' = heap /\ blocks' = blocks OBVIOUS
<1>11. HeapList' BY <1>10 DEF HeapList
<1>12. HeapSlabs' BY <1>10 DEF HeapSlabs, Mine, Stacked, InUse
<1>13. HeapBlocks' BY <1>10 DEF HeapBlocks, Lives, InUse, UnitsOf
<1>14. CallPages' = CallPages BY <1>5, <1>10 DEF CallPages
<1>15. HeapOwned' /\ HeapAccounted' BY <1>10, <1>14, PagesKept
<1> QED BY <1>8, <1>9, <1>11, <1>12, <1>13, <1>15

(* page n of the list is given back *)
LEMMA SweepPage ==
  ASSUME Sizes, HeapInv, kpc = "sweep", NEW n, n = call.at, n > 1, check_page(heap[n]), deallocate_slab(heap[n]),
         heap' = [t \in 1 .. Len(heap) - 1 |-> IF t < n THEN heap[t] ELSE heap[t + 1]],
         latest' = (IF call.miss THEN latest ELSE [page |-> heap[n - 1].page, index |-> kmax - heap[n - 1].free]),
         call' = [call EXCEPT !.at = n - 1],
         UNCHANGED <<kmax, max, blocks, kpc, lost, broken>>
  PROVE  HeapInv'
<1> USE DEF HeapInv
<1>1. /\ heap \in Seq(PageRec) /\ Len(heap) \in Nat \ {0} /\ DOMAIN heap = 1 .. Len(heap) /\ heap # <<>> /\ ~broken /\ call \in CallRec
      /\ n \in Nat /\ n \in DOMAIN heap /\ n > 1 /\ n <= Len(heap) /\ (IF call.miss THEN n < Len(heap) ELSE n = Len(heap))
      /\ \A m \in DOMAIN heap : heap[m] \in PageRec
  <2>1. heap # <<>> /\ call.at \in 1 .. Len(heap) /\ (IF call.miss THEN call.at < Len(heap) ELSE call.at = Len(heap)) /\ ~broken BY DEF HeapCall
  <2> QED BY <2>1 DEF HeapTypes
<1>2. PICK h \in PageRec : h = heap[n] BY <1>1
<1>3. Len(h.unused) = Len(h.slabs)
  <2>1. h.free + Len(h.slabs) = max BY <1>1, <1>2 DEF HeapList
  <2>2. max - h.free - Len(h.unused) = 0 BY <1>2 DEF check_page
  <2>3. max \in Nat BY DEF HeapTypes
  <2> QED BY <2>1, <2>2, <2>3, PageFields
<1>4. Stacked(h) /\ \A t : ~InUse(h, t)
  <2>1. Stacked(h) BY <1>1, <1>2 DEF HeapSlabs
  <2> QED BY <1>3, <2>1, AllStacked
<1>5. \A t \in DOMAIN h.slabs : h.slabs[t].base = Invalid BY <1>4 DEF Stacked
<1> DEFINE from(k) == IF k < n THEN k ELSE k + 1
           to(m) == IF m < n THEN m ELSE m - 1
<1>6. /\ \A k \in 1 .. Len(heap) - 1 : from(k) \in DOMAIN heap /\ from(k) # n /\ to(from(k)) = k
      /\ \A m \in DOMAIN heap : m # n => to(m) \in 1 .. Len(heap) - 1 /\ from(to(m)) = m
  BY <1>1
<1>7. heap' \in Seq(PageRec) /\ Len(heap') = Len(heap) - 1 /\ DOMAIN heap' = 1 .. Len(heap) - 1 /\ \A k \in DOMAIN heap' : heap'[k] = heap[from(k)]
  <2>1. heap' \in [1 .. Len(heap) - 1 -> PageRec] BY <1>1
  <2>2. Len(heap) - 1 \in Nat BY <1>1
  <2>3. heap' \in Seq(PageRec) /\ Len(heap') = Len(heap) - 1 BY <2>1, <2>2
  <2> QED BY <2>1, <2>3
<1>8. \A m \in DOMAIN heap : m # n => to(m) \in DOMAIN heap' /\ heap'[to(m)] = heap[m] BY <1>6, <1>7
<1>9. \A k \in DOMAIN heap' : from(k) \in DOMAIN heap /\ from(k) # n /\ heap'[k] = heap[from(k)] BY <1>6, <1>7
<1>10. 1 \in DOMAIN heap' /\ heap'[1] = heap[1] /\ heap' # <<>> /\ Len(heap') \in DOMAIN heap' /\ Len(heap') \in Nat \ {0}
  BY <1>1, <1>7
<1>11. call' \in CallRec /\ call'.at = n - 1 /\ call'.miss = call.miss /\ call'.whole = call.whole /\ call'.base = call.base
  <2>1. PICK a \in Nat : a = n - 1 BY <1>1
  <2>2. call' = [call EXCEPT !.at = a] BY <2>1
  <2> QED BY <1>1, <2>1, <2>2 DEF CallRec
<1>12. /\ latest' \in Ref /\ latest'.page = heap'[Len(heap')].page
       /\ heap'[Len(heap')].free > 0 => latest'.index = Len(heap'[Len(heap')].slabs)
  <2>1. CASE call.miss
    <3>0. n < Len(heap) BY <1>1, <2>1, Zenon
    <3>a. n \in Nat /\ Len(heap) \in Nat BY <1>1
    <3>1. from(Len(heap) - 1) = Len(heap) BY ONLY <3>0, <3>a
    <3>2. heap'[Len(heap')] = heap[Len(heap)] BY <1>7, <1>10, <3>1
    <3>3. heap[1].slabs # <<>> BY DEF HeapList
    <3>4. /\ latest.page = heap[Len(heap)].page
          /\ heap[Len(heap)].free > 0 => latest.index = Len(heap[Len(heap)].slabs)
      BY <1>1, <3>3 DEF HeapList
    <3>5. latest' = latest BY <2>1
    <3> QED BY <3>2, <3>4, <3>5 DEF HeapTypes
  <2>2. CASE ~call.miss
    <3>1. n = Len(heap) /\ n - 1 \in DOMAIN heap /\ n - 1 # Len(heap) BY <1>1, <2>2
    <3>2. heap'[Len(heap')] = heap[n - 1]
      <4>1. Len(heap') = n - 1 /\ from(n - 1) = n - 1 BY <1>1, <1>7, <3>1
      <4> QED BY <1>7, <1>10, <4>1
    <3>3. heap[n - 1].free = 0 BY <3>1 DEF HeapList
    <3>4. latest' = [page |-> heap[n - 1].page, index |-> kmax - heap[n - 1].free] BY <2>2
    <3>5. PICK e \in PageRec : e = heap[n - 1] BY <1>1, <3>1
    <3>6. PICK l \in Nat, y \in Nat : l = kmax - e.free /\ y = e.page
      <4>1. kmax \in Nat BY DEF HeapTypes
      <4>2. e.free = 0 BY <3>3, <3>5
      <4> QED BY <4>1, <4>2, PageFields
    <3>7. latest' = [page |-> y, index |-> l] BY <3>4, <3>5, <3>6
    <3>8. latest' \in Ref /\ latest'.page = e.page BY <3>6, <3>7 DEF Ref
    <3>9. heap'[Len(heap')].free = 0 BY <3>2, <3>3
    <3>10. ~(heap'[Len(heap')].free > 0) BY ONLY <3>9
    <3>11. latest'.page = heap'[Len(heap')].page BY <3>2, <3>5, <3>8
    <3> QED BY <3>8, <3>10, <3>11
  <2> QED BY <2>1, <2>2
<1> HIDE DEF from, to
<1>13. PICK own \in [pool -> Owners] : Owns(own) BY DEF HeapOwned
<1>14. pool' = pool \ Meta(h) BY <1>2 DEF deallocate_slab, Meta
<1>15. \A x \in Meta(h) : x \in pool /\ own[x] = <<"meta", h.page, 0>> BY <1>1, <1>2, <1>13 DEF Owns, MetaOwned
<1>16. lost \subseteq pool'
  <2>1. \A x \in lost : x \in pool /\ own[x] = <<"lost", 0, 0>> BY <1>13 DEF Owns, OthersOwned, HeapTypes
  <2> QED BY <1>14, <1>15, <2>1
<1>17. HeapTypes'
  <2>1. heap' \in Seq(PageRec) /\ call' \in CallRec /\ latest' \in Ref /\ pool' \subseteq pool BY <1>7, <1>11, <1>12, <1>14
  <2> QED BY <2>1, <1>16 DEF HeapTypes
<1>18. HeapCall'
  <2>1. kpc' = "sweep" /\ ~broken' BY <1>1
  <2>2. call'.at \in 1 .. Len(heap') /\ (IF call'.miss THEN call'.at < Len(heap') ELSE call'.at = Len(heap')) BY <1>1, <1>7, <1>11
  <2> QED BY <1>10, <2>1, <2>2 DEF HeapCall
<1>19. HeapList'
    <3>1. \A k, l \in DOMAIN heap' : k # l => heap'[k].page # heap'[l].page
      <4>1. \A k, l \in DOMAIN heap : k # l => heap[k].page # heap[l].page BY DEF HeapList
      <4>2. \A k, l \in DOMAIN heap' : k # l => from(k) # from(l) BY <1>6, <1>7
      <4> QED BY <1>9, <4>1, <4>2
    <3>2. \A k \in DOMAIN heap' : heap'[k].free + Len(heap'[k].slabs) = IF k = 1 THEN kmax' ELSE max'
      <4>1. \A k \in DOMAIN heap : heap[k].free + Len(heap[k].slabs) = IF k = 1 THEN kmax ELSE max BY DEF HeapList
      <4>2. \A k \in DOMAIN heap' : from(k) = 1 <=> k = 1 BY <1>1, <1>7 DEF from
      <4> QED BY <1>9, <4>1, <4>2
    <3>3. \A k \in DOMAIN heap' : k # Len(heap') => heap'[k].free = 0
      <4>1. \A k \in DOMAIN heap : k # Len(heap) => heap[k].free = 0 BY DEF HeapList
      <4>2. \A k \in DOMAIN heap' : k # Len(heap') => from(k) # Len(heap) BY <1>1, <1>7 DEF from
      <4> QED BY <1>9, <4>1, <4>2
    <3>4. \A k \in DOMAIN heap' : k > 1 => heap'[k].slabs # <<>>
      <4>1. \A k \in DOMAIN heap : k > 1 => heap[k].slabs # <<>> BY DEF HeapList
      <4>2. \A k \in DOMAIN heap' : k > 1 => from(k) > 1 BY <1>1, <1>7 DEF from
      <4> QED BY <1>9, <4>1, <4>2
    <3>6. heap'[1].slabs # <<>> BY <1>10 DEF HeapList
    <3> QED BY <1>12, <3>1, <3>2, <3>3, <3>4, <3>6 DEF HeapList
<1>20. HeapSlabs'
  <2>1. \A k \in DOMAIN heap' : Stacked(heap'[k]) BY <1>9 DEF HeapSlabs
  <2>2. \A m \in DOMAIN heap : \A j \in DOMAIN heap[m].slabs : InUse(heap[m], j) => heap[m].slabs[j].base # Invalid BY DEF HeapSlabs, Mine
  <2>3. \A k \in DOMAIN heap' : \A j \in DOMAIN heap'[k].slabs : InUse(heap'[k], j) => heap'[k].slabs[j].base # Invalid BY <1>9, <2>2
  <2>4. kpc' = "sweep" OBVIOUS
  <2> QED BY <2>1, <2>3, <2>4 DEF HeapSlabs, Mine
<1>21. HeapBlocks'
  <2>1. ASSUME NEW c \in blocks, NEW m \in DOMAIN heap, Lives(c, m) PROVE \E k \in DOMAIN heap' : Lives(c, k)'
    <3>1. m # n BY <1>2, <1>4, <2>1 DEF Lives
    <3>2. to(m) \in DOMAIN heap' /\ heap'[to(m)] = heap[m] BY <1>8, <3>1
    <3>3. PICK k \in DOMAIN heap' : heap'[k] = heap[m] BY <3>2
    <3>4. Lives(c, k)' BY <2>1, <3>3 DEF Lives, UnitsOf
    <3> QED BY <3>4
  <2>2. blocks' = blocks OBVIOUS
  <2> QED BY <2>1, <2>2 DEF HeapBlocks, UnitsOf
<1>22. CallPages' = CallPages BY <1>11 DEF CallPages
<1>23. HeapOwned'
  <2>1. PICK new : new = [x \in pool' |-> own[x]] OBVIOUS
  <2>2. new \in [pool' -> Owners] BY <1>14, <2>1
  <2>3. \A x \in pool : own[x] # <<"meta", h.page, 0>> => x \in pool' /\ new[x] = own[x] BY <1>14, <1>15, <2>1
  <2>4. MetaOwned(new)'
    <3>1. ASSUME NEW m \in DOMAIN heap, m # n, NEW x \in Meta(heap[m]) PROVE x \in pool' /\ new[x] = <<"meta", heap[m].page, 0>>
      <4>1. x \in pool /\ own[x] = <<"meta", heap[m].page, 0>> BY <1>13, <3>1 DEF Owns, MetaOwned
      <4>2. heap[m].page # h.page BY <1>1, <1>2, <3>1 DEF HeapList
      <4>3. own[x] # <<"meta", h.page, 0>> BY <4>1, <4>2
      <4> QED BY <2>3, <4>1, <4>3
    <3>2. \A k \in DOMAIN heap' : Meta(heap'[k]) = Meta(heap[from(k)]) BY <1>9
    <3> QED BY <1>9, <3>1, <3>2 DEF MetaOwned, Meta
  <2>5. BasesOwned(new)'
    <3>1. ASSUME NEW m \in DOMAIN heap, NEW j \in DOMAIN heap[m].slabs, heap[m].slabs[j].base # Invalid
          PROVE  heap[m].slabs[j].base \in pool' /\ new[heap[m].slabs[j].base] = <<"slab", heap[m].page, j>>
      <4>1. PICK y \in pool : y = heap[m].slabs[j].base /\ own[y] = <<"slab", heap[m].page, j>> BY <1>13, <3>1 DEF Owns, BasesOwned
      <4>2. own[y] # <<"meta", h.page, 0>> BY <4>1
      <4> QED BY <2>3, <4>1, <4>2
    <3>2. ASSUME NEW k \in DOMAIN heap', NEW j \in DOMAIN heap'[k].slabs, heap'[k].slabs[j].base # Invalid
          PROVE  heap'[k].slabs[j].base \in pool' /\ new[heap'[k].slabs[j].base] = <<"slab", heap'[k].page, j>>
      <4>1. PICK m \in DOMAIN heap : heap'[k] = heap[m] BY <1>9
      <4>2. j \in DOMAIN heap[m].slabs /\ heap[m].slabs[j].base # Invalid BY <3>2, <4>1
      <4>3. heap[m].slabs[j].base \in pool' /\ new[heap[m].slabs[j].base] = <<"slab", heap[m].page, j>> BY <3>1, <4>2
      <4> QED BY <4>1, <4>3
    <3> QED BY <3>2 DEF BasesOwned
  <2>6. WholesOwned(new)' BY <1>13, <2>3 DEF Owns, WholesOwned, WholePages
  <2>7. OthersOwned(new)' BY <1>13, <1>22, <2>3 DEF Owns, OthersOwned, HeapTypes
  <2> QED BY <2>2, <2>4, <2>5, <2>6, <2>7 DEF HeapOwned, Owns
<1>24. HeapAccounted'
  <2> SUFFICES ASSUME NEW x \in pool'
      PROVE \/ x \in lost' \cup CallPages'
            \/ \E k \in DOMAIN heap' : x \in Meta(heap'[k])
            \/ \E k \in DOMAIN heap' : \E j \in DOMAIN heap'[k].slabs : x = heap'[k].slabs[j].base
            \/ \E c \in blocks' : x \in WholePages(c)
    BY DEF HeapAccounted, Meta, WholePages
  <2>0. x \in pool /\ x \notin Meta(h) /\ x # Invalid BY <1>14 DEF HeapTypes, Invalid
  <2>1. CASE x \in lost \cup CallPages BY <1>22, <2>1
  <2>2. CASE \E m \in DOMAIN heap : x \in Meta(heap[m])
    <3>1. PICK m \in DOMAIN heap : x \in Meta(heap[m]) BY <2>2
    <3>2. m # n BY <1>2, <2>0, <3>1
    <3>3. to(m) \in DOMAIN heap' /\ heap'[to(m)] = heap[m] BY <1>8, <3>2
    <3>4. PICK k \in DOMAIN heap' : heap'[k] = heap[m] BY <3>3
    <3> QED BY <3>1, <3>4
  <2>3. CASE \E m \in DOMAIN heap : \E j \in DOMAIN heap[m].slabs : x = heap[m].slabs[j].base
    <3>1. PICK m \in DOMAIN heap : \E j \in DOMAIN heap[m].slabs : x = heap[m].slabs[j].base BY <2>3
    <3>2. m # n BY <1>2, <1>5, <2>0, <3>1
    <3>3. to(m) \in DOMAIN heap' /\ heap'[to(m)] = heap[m] BY <1>8, <3>2
    <3>4. PICK k \in DOMAIN heap' : heap'[k] = heap[m] BY <3>3
    <3>5. PICK j \in DOMAIN heap[m].slabs : x = heap[m].slabs[j].base BY <3>1
    <3>6. j \in DOMAIN heap'[k].slabs /\ x = heap'[k].slabs[j].base BY <3>4, <3>5
    <3> QED BY <3>6
  <2>4. CASE \E c \in blocks : x \in WholePages(c) BY <2>4
  <2> QED BY <1>1, <2>0, <2>1, <2>2, <2>3, <2>4 DEF HeapAccounted
<1> QED BY <1>17, <1>18, <1>19, <1>20, <1>21, <1>23, <1>24

(* a step of the search for slab pages to give back *)
LEMMA StepSweep == Sizes /\ HeapInv /\ sweep => HeapInv'
<1> SUFFICES ASSUME Sizes, HeapInv, sweep PROVE HeapInv' OBVIOUS
<1>1. kpc = "sweep" /\ call.at > 1 /\ UNCHANGED <<kmax, max, blocks, kpc, lost, broken>> BY DEF sweep, shape
<1>2. CASE check_page(heap[call.at])
  <2>1. PICK n : n = call.at OBVIOUS
  <2>2. /\ deallocate_slab(heap[n])
        /\ heap' = [t \in 1 .. Len(heap) - 1 |-> IF t < n THEN heap[t] ELSE heap[t + 1]]
        /\ latest' = (IF call.miss THEN latest ELSE [page |-> heap[n - 1].page, index |-> kmax - heap[n - 1].free])
        /\ call' = [call EXCEPT !.at = n - 1]
    BY <1>2, <2>1 DEF sweep
  <2> QED BY <1>1, <1>2, <2>1, <2>2, SweepPage
<1>3. CASE ~check_page(heap[call.at])
  <2>1. call' = [call EXCEPT !.at = call.at - 1, !.miss = TRUE] /\ UNCHANGED <<pool, heap, latest>> BY <1>3, Zenon DEF sweep
  <2> QED BY <1>1, <2>1, SweepOn, Zenon
<1> QED BY <1>2, <1>3

-----------------------------------------------------------------------------
(* every step of the heap keeps the invariant *)
LEMMA StepHeap == Sizes /\ HeapInv /\ [Next]_vars => HeapInv'
<1> SUFFICES ASSUME Sizes, HeapInv, [Next]_vars PROVE HeapInv' OBVIOUS
<1>1. CASE \E w \in 0 .. MaxWhole, u \in 0 .. Units : w + u > 0 /\ kmalloc(w, u)
  <2>1. PICK w \in 0 .. MaxWhole, u \in 0 .. Units : w + u > 0 /\ kmalloc(w, u) BY <1>1
  <2>2. w \in Nat BY DEF Sizes
  <2> QED BY <2>1, <2>2, StepKmalloc
<1>2. CASE setup BY <1>2, StepSetup
<1>3. CASE large BY <1>3, StepLarge
<1>4. CASE first_slab BY <1>4, StepFirstSlab
<1>5. CASE take_used BY <1>5, StepTakeUsed
<1>6. CASE take_unused BY <1>6, StepTakeUnused
<1>7. CASE next_slab BY <1>7, StepNextSlab
<1>8. CASE new_slab_page BY <1>8, StepNewSlabPage
<1>9. CASE slab_page BY <1>9, StepSlabPage
<1>10. CASE \E b \in blocks : kfree(b) BY <1>10, StepKfree
<1>11. CASE sweep BY <1>11, StepSweep
<1>12. CASE kfree_done BY <1>12, StepKfreeDone
<1>13. CASE UNCHANGED vars
  <2>1. UNCHANGED <<kmax, max, pool, heap, latest, blocks, kpc, call, lost, broken>> BY <1>13 DEF vars, shape
  <2>2. heap' = heap /\ kpc' = kpc /\ call' = call /\ blocks' = blocks /\ pool' = pool BY <2>1
  <2>3. HeapTypes' BY <2>1 DEF HeapTypes, HeapInv
  <2>4. HeapCall' BY <2>1 DEF HeapCall, HeapInv
  <2>5. HeapList' BY <2>1 DEF HeapList, HeapInv
  <2>6. HeapSlabs' BY <2>2 DEF HeapSlabs, HeapInv, Mine, Stacked, InUse
  <2>7. HeapBlocks' BY <2>2 DEF HeapBlocks, HeapInv, Lives, InUse, UnitsOf
  <2>8. CallPages' = CallPages BY <2>2 DEF CallPages
  <2>9. HeapOwned' /\ HeapAccounted' BY <2>1, <2>2, <2>8, PagesKept
  <2> QED BY <2>3, <2>4, <2>5, <2>6, <2>7, <2>9 DEF HeapInv
<1> QED BY <1>1, <1>2, <1>3, <1>4, <1>5, <1>6, <1>7, <1>8, <1>9, <1>10, <1>11, <1>12, <1>13 DEF Next

(* the slab that a block refers to *)
LEMMA SlabAtIs ==
  ASSUME HeapInv, NEW b \in blocks, b.units > 0
  PROVE  \E n \in DOMAIN heap : Lives(b, n) /\ SlabAt(b.slab) = heap[n].slabs[b.slab.index]
<1>1. PICK n \in DOMAIN heap : Lives(b, n) BY DEF HeapInv, HeapBlocks
<1>2. \A m \in DOMAIN heap : heap[m].page = b.slab.page <=> m = n BY <1>1 DEF HeapInv, HeapList, Lives
<1>3. (CHOOSE m \in DOMAIN heap : heap[m].page = b.slab.page) = n BY <1>2
<1> QED BY <1>1, <1>3 DEF SlabAt

(* who owns the memory of a block *)
LEMMA MemoryOwned ==
  ASSUME HeapInv, NEW own, Owns(own), NEW b \in blocks, NEW x \in Memory(b)
  PROVE  /\ x[1] \in pool
         /\ \/ own[x[1]] = <<"block", b, 0>>
            \/ b.units > 0 /\ own[x[1]] = <<"slab", b.slab.page, b.slab.index>> /\ x[2] \in UnitsOf(b)
<1>1. CASE x \in WholePages(b) \X (0 .. Units - 1)
  <2>1. x[1] \in WholePages(b) BY <1>1
  <2> QED BY <2>1 DEF Owns, WholesOwned
<1>2. CASE b.units # 0 /\ x \in {SlabAt(b.slab).base} \X (b.sc .. b.sc + b.units - 1)
  <2>1. b.units > 0 BY <1>2 DEF HeapInv, HeapTypes, BlockRec
  <2>2. PICK n \in DOMAIN heap : Lives(b, n) /\ SlabAt(b.slab) = heap[n].slabs[b.slab.index] BY <2>1, SlabAtIs
  <2>3. PICK y : y = heap[n].slabs[b.slab.index].base OBVIOUS
  <2>4. x[1] = y /\ x[2] \in UnitsOf(b) BY <1>2, <2>2, <2>3 DEF UnitsOf
  <2>5. y \in pool /\ own[y] = <<"slab", heap[n].page, b.slab.index>> BY <2>2, <2>3 DEF Lives, Owns, BasesOwned
  <2>6. heap[n].page = b.slab.page BY <2>2 DEF Lives
  <2> QED BY <2>1, <2>4, <2>5, <2>6
<1> QED BY <1>1, <1>2 DEF Memory

(* no memory belongs to two blocks, and none of the heap's own belongs to a block *)
LEMMA InvDisjoint == HeapInv => BlocksDisjoint
<1> SUFFICES ASSUME HeapInv PROVE BlocksDisjoint OBVIOUS
<1>0. PICK own \in [pool -> Owners] : Owns(own) BY DEF HeapInv, HeapOwned
<1>1. ASSUME NEW b \in blocks, NEW c \in blocks, b # c, NEW x \in Memory(b), x \in Memory(c) PROVE FALSE
  <2>1. \/ own[x[1]] = <<"block", b, 0>>
        \/ b.units > 0 /\ own[x[1]] = <<"slab", b.slab.page, b.slab.index>> /\ x[2] \in UnitsOf(b)
    BY <1>0, MemoryOwned
  <2>2. \/ own[x[1]] = <<"block", c, 0>>
        \/ c.units > 0 /\ own[x[1]] = <<"slab", c.slab.page, c.slab.index>> /\ x[2] \in UnitsOf(c)
    BY <1>0, <1>1, MemoryOwned
  <2>3. CASE own[x[1]] = <<"block", b, 0>>
    <3>1. own[x[1]] # <<"block", c, 0>> BY <1>1, <2>3
    <3>2. own[x[1]] # <<"slab", c.slab.page, c.slab.index>> BY <2>3
    <3> QED BY <2>2, <3>1, <3>2
  <2>4. CASE b.units > 0 /\ own[x[1]] = <<"slab", b.slab.page, b.slab.index>> /\ x[2] \in UnitsOf(b)
    <3>1. own[x[1]] # <<"block", c, 0>> BY <2>4
    <3>2. c.units > 0 /\ own[x[1]] = <<"slab", c.slab.page, c.slab.index>> /\ x[2] \in UnitsOf(c) BY <2>2, <3>1
    <3>3. b.slab.page = c.slab.page /\ b.slab.index = c.slab.index BY <2>4, <3>2
    <3>4. b.slab \in Ref /\ c.slab \in Ref BY DEF HeapInv, HeapTypes, BlockRec
    <3>5. b.slab = c.slab BY <3>3, <3>4 DEF Ref
    <3>6. UnitsOf(b) \cap UnitsOf(c) = {} BY <1>1, <2>4, <3>2, <3>5 DEF HeapInv, HeapBlocks
    <3> QED BY <2>4, <3>2, <3>6
  <2> QED BY <2>1, <2>3, <2>4
<1>2. ASSUME NEW b \in blocks, NEW x \in Memory(b) PROVE x[1] \in pool \ Metadata
  <2>1. x[1] \in pool /\ (own[x[1]] = <<"block", b, 0>> \/ own[x[1]] = <<"slab", b.slab.page, b.slab.index>>) BY <1>0, MemoryOwned
  <2>2. ASSUME x[1] \in Metadata PROVE FALSE
    <3>1. PICK n \in DOMAIN heap : x[1] \in Meta(heap[n]) BY <2>2 DEF Metadata, Meta
    <3>2. own[x[1]] = <<"meta", heap[n].page, 0>> BY <1>0, <3>1 DEF Owns, MetaOwned
    <3> QED BY <2>1, <3>2
  <2> QED BY <2>1, <2>2
<1> QED BY <1>1, <1>2 DEF BlocksDisjoint

(* between calls every page of the pool has a use, and the latest slab is the last one of its page *)
LEMMA InvAccounted == HeapInv => PagesAccounted
<1> SUFFICES ASSUME HeapInv, kpc = "idle", ~broken
             PROVE  /\ pool = lost \cup Metadata \cup (UNION {WholePages(b) : b \in blocks})
                         \cup (UNION {{s.base : s \in {heap[n].slabs[t] : t \in DOMAIN heap[n].slabs}} \ {Invalid} : n \in DOMAIN heap})
                    /\ \A n \in DOMAIN heap :
                         (heap[n].free > 0 /\ heap[n].slabs # <<>>) => latest = [page |-> heap[n].page, index |-> Len(heap[n].slabs)]
  BY DEF PagesAccounted
<1> DEFINE Bases == UNION {{s.base : s \in {heap[n].slabs[t] : t \in DOMAIN heap[n].slabs}} \ {Invalid} : n \in DOMAIN heap}
<1>0. PICK own \in [pool -> Owners] : Owns(own) BY DEF HeapInv, HeapOwned
<1>1. CallPages = {} BY DEF CallPages
<1>2. \A x : x \in Bases <=> x # Invalid /\ \E n \in DOMAIN heap : \E t \in DOMAIN heap[n].slabs : x = heap[n].slabs[t].base
  OBVIOUS
<1>3. \A x : x \in Metadata <=> \E n \in DOMAIN heap : x \in Meta(heap[n]) BY DEF Metadata, Meta
<1>4. \A x : x \in (UNION {WholePages(b) : b \in blocks}) <=> \E b \in blocks : x \in WholePages(b) OBVIOUS
<1> HIDE DEF Bases
<1>5. ASSUME NEW x \in pool PROVE x \in lost \cup Metadata \cup (UNION {WholePages(b) : b \in blocks}) \cup Bases
  <2>1. x # Invalid BY DEF HeapInv, HeapTypes, Invalid
  <2> QED BY <1>1, <1>2, <1>3, <1>4, <2>1 DEF HeapInv, HeapAccounted
<1>6. lost \subseteq pool BY DEF HeapInv, HeapTypes
<1>7. Metadata \subseteq pool BY <1>0, <1>3 DEF Owns, MetaOwned
<1>8. (UNION {WholePages(b) : b \in blocks}) \subseteq pool BY <1>0, <1>4 DEF Owns, WholesOwned
<1>9. Bases \subseteq pool BY <1>0, <1>2 DEF Owns, BasesOwned
<1>10. pool = lost \cup Metadata \cup (UNION {WholePages(b) : b \in blocks}) \cup Bases BY <1>5, <1>6, <1>7, <1>8, <1>9
<1>11. ASSUME NEW n \in DOMAIN heap, heap[n].free > 0, heap[n].slabs # <<>>
       PROVE  latest = [page |-> heap[n].page, index |-> Len(heap[n].slabs)]
  <2>0. heap \in Seq(PageRec) /\ Len(heap) \in Nat \ {0} /\ 1 \in DOMAIN heap /\ kmax \in Nat \ {0} /\ latest \in Ref BY DEF HeapInv, HeapTypes
  <2>1. n = Len(heap)
    <3>1. n # Len(heap) => heap[n].free = 0 BY DEF HeapInv, HeapList
    <3> QED BY <1>11, <3>1
  <2>2. heap[1].slabs # <<>>
    <3>1. CASE n = 1 BY <1>11, <3>1
    <3>2. CASE n # 1
      <4>1. heap[1].free = 0 BY <2>0, <2>1, <3>2 DEF HeapInv, HeapList
      <4>2. heap[1].free + Len(heap[1].slabs) = kmax BY <2>0 DEF HeapInv, HeapList
      <4>3. PICK h \in PageRec : h = heap[1] BY <2>0
      <4>4. Len(h.slabs) # 0 BY <2>0, <4>1, <4>2, <4>3
      <4>5. h.slabs # <<>> BY <4>4
      <4> QED BY <4>3, <4>5
    <3> QED BY <3>1, <3>2
  <2>3. latest.page = heap[n].page /\ latest.index = Len(heap[n].slabs) BY <1>11, <2>0, <2>1, <2>2 DEF HeapInv, HeapList
  <2> QED BY <2>0, <2>3 DEF Ref
<1> QED BY <1>10, <1>11 DEF Bases

-----------------------------------------------------------------------------
(* What is true of each value of a recursive function is proved by looking at the least exception. *)

(* A non-empty set of natural numbers has a least element. *)
LEMMA LeastNat ==
  ASSUME NEW S \in SUBSET Nat, S # {}
  PROVE  \E m \in S : \A x \in S : m <= x
<1> DEFINE R == {ss \in Nat \X Nat : ss[1] < ss[2]}
<1>1. OpToRel(<, Nat) = R
  BY DEF OpToRel
<1>2. IsWellFoundedOn(R, Nat)
  BY <1>1, NatLessThanWellFounded, Zenon
<1>3. ASSUME NEW x \in Nat, NEW y \in Nat, y < x PROVE <<y, x>> \in R
  BY <1>3
<1> HIDE DEF R
<1>4. PICK m \in S : \A y \in S : ~(<<y, m>> \in R)
  BY <1>2, WFMin, Zenon
<1>5. ASSUME NEW x \in S PROVE m <= x
  <2>1. ~(x < m)
    BY <1>3, <1>4
  <2> QED BY <2>1
<1> QED BY <1>5

(* Induction on the numbers up to n, for a set of exceptions. *)
LEMMA NoException ==
  ASSUME NEW n \in Nat, NEW Bad \in SUBSET (0 .. n), 0 \notin Bad,
         \A k \in 1 .. n : k - 1 \notin Bad => k \notin Bad
  PROVE  Bad = {}
<1> SUFFICES ASSUME Bad # {} PROVE FALSE
  OBVIOUS
<1>1. Bad \in SUBSET Nat
  OBVIOUS
<1>2. PICK m \in Bad : \A x \in Bad : m <= x
  BY <1>1, LeastNat, Zenon
<1>3. m \in 1 .. n
  BY <1>2
<1>4. m - 1 \notin Bad
  <2> SUFFICES ASSUME m - 1 \in Bad PROVE FALSE
    OBVIOUS
  <2>1. m <= m - 1
    BY <1>2
  <2> QED BY <2>1, <1>3
<1> QED BY <1>2, <1>3, <1>4

-----------------------------------------------------------------------------
CONSTANTS Trees, DescriptorSize
VARIABLES tree, offset, interfaces_count, interfaces, wanted, endpoints, no_memory, furthest, pc, held, result

T == INSTANCE UsbTree

(* The configuration of a USB device.  The reference definition goes from descriptor to descriptor *)
(* by a recursive function; the places it comes to are all that the proofs need of it.             *)
TreeLen == Len(tree)

(* one step of the walk *)
Hop(o) == IF o \in T!Whole THEN o + T!At(o) ELSE o

(* a step of the walk stays in the tree *)
LEMMA HopStays ==
  ASSUME tree \in Seq(Nat), NEW o \in 0 .. TreeLen
  PROVE  Hop(o) \in 0 .. TreeLen /\ Hop(o) >= o /\ (o \in T!Whole => Hop(o) >= o + 2)
<1>1. TreeLen \in Nat
  BY DEF TreeLen
<1>2. CASE o \in T!Whole
  <2>1. T!At(o) \in 2 .. TreeLen - o
    BY <1>2 DEF T!Whole, T!max_length, TreeLen
  <2> QED BY <1>1, <1>2, <2>1 DEF Hop
<1>3. CASE o \notin T!Whole
  BY <1>1, <1>3 DEF Hop
<1> QED BY <1>2, <1>3

(* The walk exists. *)
LEMMA HopsExist ==
  ASSUME tree \in Seq(Nat)
  PROVE  \E g : g = [k \in 0 .. TreeLen |-> IF k = 0 THEN 0 ELSE Hop(g[k - 1])]
<1> DEFINE Walk(n, g) == g \in [0 .. n -> 0 .. TreeLen] /\ g[0] = 0 /\ \A k \in 1 .. n : g[k] = Hop(g[k - 1])
           Bad == {n \in 0 .. TreeLen : ~ \E g : Walk(n, g)}
<1>0. TreeLen \in Nat
  BY DEF TreeLen
<1>1. 0 \notin Bad
  <2>1. Walk(0, [k \in 0 .. 0 |-> 0])
    BY <1>0, SMT
  <2> QED BY <2>1, Zenon
<1>2. ASSUME NEW m \in 1 .. TreeLen, m - 1 \notin Bad PROVE m \notin Bad
  <2>1. m - 1 \in 0 .. TreeLen /\ m \in Nat /\ m > 0
    BY <1>0, SMT
  <2>2. PICK g : Walk(m - 1, g)
    BY <2>1, <1>2, Zenon
  <2>3. PICK z \in 0 .. TreeLen : z = Hop(g[m - 1])
    BY <2>1, <2>2, HopStays
  <2>4. PICK h : h = [k \in 0 .. m |-> IF k = m THEN z ELSE g[k]]
    OBVIOUS
  <2>5. h[m] = z /\ \A k \in 0 .. m - 1 : h[k] = g[k]
    BY <2>1, <2>4
  <2>6. h \in [0 .. m -> 0 .. TreeLen] /\ h[0] = 0
    BY <2>1, <2>2, <2>4
  <2>7. ASSUME NEW k \in 1 .. m PROVE h[k] = Hop(h[k - 1])
    <3>1. k \in 0 .. m /\ k - 1 \in 0 .. m - 1 /\ h[k - 1] = g[k - 1]
      BY <2>1, <2>5
    <3>2. CASE k = m
      BY <2>3, <2>5, <3>1, <3>2
    <3>3. CASE k # m
      BY <2>1, <2>2, <2>5, <3>1, <3>3
    <3> QED BY <3>2, <3>3
  <2>8. Walk(m, h)
    BY <2>6, <2>7, Zenon
  <2> QED BY <2>8, Zenon
<1>3. TreeLen \in 0 .. TreeLen /\ Bad \in SUBSET (0 .. TreeLen)
  BY <1>0, SMT
<1>4. Bad = {}
  <2> HIDE DEF Bad
  <2> QED BY <1>0, <1>1, <1>2, <1>3, NoException, Zenon
<1>5. PICK g : Walk(TreeLen, g)
  BY <1>3, <1>4, Zenon
<1>6. g = [k \in 0 .. TreeLen |-> IF k = 0 THEN 0 ELSE Hop(g[k - 1])]
  BY <1>0, <1>5, SMT
<1> QED BY <1>6, Zenon

(* What the walk computes, one descriptor at a time. *)
LEMMA BeginSteps ==
  ASSUME tree \in Seq(Nat)
  PROVE  T!begin[0] = 0 /\ \A k \in 1 .. TreeLen : T!begin[k] = Hop(T!begin[k - 1])
<1>0. TreeLen \in Nat
  BY DEF TreeLen
<1>1. T!begin = CHOOSE g : g = [k \in 0 .. TreeLen |-> IF k = 0 THEN 0 ELSE Hop(g[k - 1])]
  BY Zenon DEF T!begin, Hop, TreeLen, T!max_length
<1>2. T!begin = [k \in 0 .. TreeLen |-> IF k = 0 THEN 0 ELSE Hop(T!begin[k - 1])]
  BY <1>1, HopsExist, Zenon
<1> QED BY <1>0, <1>2, SMT

(* the places of the walk, in the tree and in order; behind n descriptors n bytes at least *)
LEMMA BeginRises ==
  ASSUME tree \in Seq(Nat)
  PROVE  /\ \A n \in 0 .. TreeLen : T!begin[n] \in 0 .. TreeLen /\ (T!begin[n] \in T!Whole => T!begin[n] >= n)
         /\ \A n \in 0 .. TreeLen : \A m \in 0 .. n : T!begin[m] <= T!begin[n]
<1>0. TreeLen \in Nat
  BY DEF TreeLen
<1>1. T!begin[0] = 0 /\ \A k \in 1 .. TreeLen : T!begin[k] = Hop(T!begin[k - 1])
  BY BeginSteps
<1>2. \A n \in 0 .. TreeLen : T!begin[n] \in 0 .. TreeLen /\ (T!begin[n] \in T!Whole => T!begin[n] >= n)
  <2> DEFINE Bad == {n \in 0 .. TreeLen : ~(T!begin[n] \in 0 .. TreeLen /\ (T!begin[n] \in T!Whole => T!begin[n] >= n))}
  <2>1. 0 \notin Bad
    BY <1>0, <1>1
  <2>2. ASSUME NEW m \in 1 .. TreeLen, m - 1 \notin Bad PROVE m \notin Bad
    <3>1. m - 1 \in 0 .. TreeLen /\ m \in Nat /\ m > 0 /\ T!begin[m] = Hop(T!begin[m - 1])
      BY <1>0, <1>1
    <3>2. PICK y \in 0 .. TreeLen : y = T!begin[m - 1] /\ (y \in T!Whole => y >= m - 1)
      BY <2>2, <3>1
    <3>3. Hop(y) \in 0 .. TreeLen /\ Hop(y) >= y /\ (y \in T!Whole => Hop(y) >= y + 2) /\ (y \notin T!Whole => Hop(y) = y)
      BY HopStays DEF Hop
    <3> QED BY <1>0, <3>1, <3>2, <3>3
  <2>3. Bad \in SUBSET (0 .. TreeLen)
    OBVIOUS
  <2>4. Bad = {}
    <3> HIDE DEF Bad
    <3> QED BY <1>0, <2>1, <2>2, <2>3, NoException, Zenon
  <2> QED BY <2>4
<1>3. \A n \in 0 .. TreeLen : \A m \in 0 .. n : T!begin[m] <= T!begin[n]
  <2> DEFINE Bad == {n \in 0 .. TreeLen : \E m \in 0 .. n : ~(T!begin[m] <= T!begin[n])}
  <2>1. 0 \notin Bad
    BY <1>0, <1>1
  <2>2. ASSUME NEW m \in 1 .. TreeLen, m - 1 \notin Bad PROVE m \notin Bad
    <3>1. m - 1 \in 0 .. TreeLen /\ m \in 0 .. TreeLen /\ m \in Nat /\ m > 0 /\ T!begin[m] = Hop(T!begin[m - 1])
      BY <1>0, <1>1
    <3>2. PICK y \in 0 .. TreeLen : y = T!begin[m - 1]
      BY <1>2, <3>1
    <3>3. Hop(y) \in 0 .. TreeLen /\ Hop(y) >= y
      BY HopStays
    <3>4. ASSUME NEW k \in 0 .. m PROVE T!begin[k] <= T!begin[m]
      <4>1. CASE k = m
        <5>1. T!begin[m] \in Int
          BY <3>1, <3>2, <3>3
        <5> QED BY <4>1, <5>1
      <4>2. CASE k # m
        <5>1. k \in 0 .. m - 1 /\ k \in 0 .. TreeLen
          BY <1>0, <3>1, <4>2
        <5>2. T!begin[k] <= T!begin[m - 1] /\ T!begin[k] \in 0 .. TreeLen
          BY <1>2, <2>2, <3>1, <5>1
        <5> QED BY <1>0, <3>1, <3>2, <3>3, <5>2
      <4> QED BY <4>1, <4>2
    <3> QED BY <3>4, Zenon
  <2>3. Bad \in SUBSET (0 .. TreeLen)
    OBVIOUS
  <2>4. Bad = {}
    <3> HIDE DEF Bad
    <3> QED BY <1>0, <2>1, <2>2, <2>3, NoException, Zenon
  <2> QED BY <2>4, Zenon
<1> QED BY <1>2, <1>3

(* Where no descriptor begins the walk stays. *)
LEMMA BeginStays ==
  ASSUME tree \in Seq(Nat), NEW n \in 0 .. TreeLen, T!begin[n] \notin T!Whole, NEW m \in n .. TreeLen
  PROVE  T!begin[m] = T!begin[n]
<1> DEFINE Bad == {k \in 0 .. TreeLen : k >= n /\ T!begin[k] # T!begin[n]}
<1>0. TreeLen \in Nat
  BY DEF TreeLen
<1>1. 0 \notin Bad
  BY <1>0
<1>2. ASSUME NEW k \in 1 .. TreeLen, k - 1 \notin Bad PROVE k \notin Bad
  <2>1. k - 1 \in 0 .. TreeLen /\ T!begin[k] = Hop(T!begin[k - 1])
    BY <1>0, BeginSteps
  <2>2. CASE k <= n
    BY <1>0, <2>2
  <2>3. CASE ~(k <= n)
    <3>1. T!begin[k - 1] = T!begin[n]
      BY <1>0, <1>2, <2>1, <2>3
    <3> QED BY <2>1, <3>1 DEF Hop
  <2> QED BY <2>2, <2>3
<1>3. Bad \in SUBSET (0 .. TreeLen)
  OBVIOUS
<1>4. Bad = {}
  <2> HIDE DEF Bad
  <2> QED BY <1>0, <1>1, <1>2, <1>3, NoException, Zenon
<1> QED BY <1>0, <1>4

(* the places the walk comes to *)
Chain == {T!begin[n] : n \in 0 .. TreeLen}

(* The descriptors begin at those places of the chain where the length makes sense; the chain goes *)
(* from each to the next, and ends at the first place that is no descriptor.                       *)
LEMMA ChainFacts ==
  ASSUME tree \in Seq(Nat)
  PROVE  /\ TreeLen \in Nat /\ Chain \subseteq 0 .. TreeLen /\ 0 \in Chain /\ T!Descriptors = Chain \cap T!Whole
         /\ \A x \in T!Descriptors : x + T!At(x) \in Chain /\ T!At(x) \in 2 .. TreeLen - x
         /\ \A x \in T!Descriptors, y \in Chain : y > x => y >= x + T!At(x)
         /\ \A x \in Chain \ T!Descriptors, y \in Chain : y <= x
<1>0. TreeLen \in Nat
  BY DEF TreeLen
<1>1. Chain \subseteq 0 .. TreeLen
  BY BeginRises DEF Chain
<1>2. 0 \in Chain
  BY <1>0, BeginSteps DEF Chain
<1>3. T!Descriptors = Chain \cap T!Whole
  BY DEF T!Descriptors, Chain, TreeLen, T!max_length
<1>4. ASSUME NEW x \in T!Descriptors
      PROVE  /\ x + T!At(x) \in Chain /\ T!At(x) \in 2 .. TreeLen - x
             /\ \A y \in Chain : y > x => y >= x + T!At(x)
  <2>1. PICK n \in 0 .. TreeLen : x = T!begin[n]
    BY <1>3 DEF Chain
  <2>2. x \in T!Whole /\ x >= n /\ x \in 0 .. TreeLen - 2 /\ T!At(x) \in 2 .. TreeLen - x
    BY <1>3, <2>1, BeginRises DEF T!Whole, TreeLen, T!max_length
  <2>3. n + 1 \in 1 .. TreeLen /\ n + 1 \in 0 .. TreeLen /\ (n + 1) - 1 = n
    BY <1>0, <2>2
  <2>4. T!begin[n + 1] = x + T!At(x)
    <3>1. T!begin[n + 1] = Hop(T!begin[(n + 1) - 1])
      BY ONLY tree \in Seq(Nat), <2>3, BeginSteps
    <3> QED BY <2>1, <2>2, <2>3, <3>1 DEF Hop
  <2>5. ASSUME NEW y \in Chain, y > x PROVE y >= x + T!At(x)
    <3>1. PICK m \in 0 .. TreeLen : y = T!begin[m]
      BY DEF Chain
    <3>2. CASE m <= n
      <4>1. T!begin[m] <= T!begin[n]
        BY <3>2, BeginRises
      <4>2. x \in Int /\ y \in Int
        BY <1>1, <2>2
      <4> QED BY <2>1, <2>5, <3>1, <4>1, <4>2
    <3>3. CASE ~(m <= n)
      <4>1. n + 1 \in 0 .. m
        BY <1>0, <3>3
      <4>2. T!begin[n + 1] <= T!begin[m]
        BY <4>1, BeginRises
      <4>3. x \in Int /\ y \in Int /\ T!At(x) \in Int
        BY <1>1, <2>2
      <4> QED BY <2>4, <3>1, <4>2, <4>3
    <3> QED BY <3>2, <3>3
  <2>6. x + T!At(x) \in Chain
    BY <2>3, <2>4 DEF Chain
  <2> QED BY <2>2, <2>5, <2>6
<1>5. ASSUME NEW x \in Chain \ T!Descriptors, NEW y \in Chain PROVE y <= x
  <2>1. PICK n \in 0 .. TreeLen : x = T!begin[n]
    BY DEF Chain
  <2>2. PICK m \in 0 .. TreeLen : y = T!begin[m]
    BY DEF Chain
  <2>3. T!begin[n] \notin T!Whole /\ x \in Int /\ y \in Int
    <3>1. x \in Chain /\ x \notin T!Descriptors
      OBVIOUS
    <3>2. x \notin T!Whole
      BY <1>3, <3>1, Zenon
    <3>3. x \in Int /\ y \in Int
      BY <1>1
    <3> QED BY <2>1, <3>2, <3>3
  <2>4. CASE m <= n
    <3>1. T!begin[m] <= T!begin[n]
      BY <2>4, BeginRises
    <3> QED BY <2>1, <2>2, <3>1
  <2>5. CASE ~(m <= n)
    <3>1. T!begin[m] = T!begin[n]
      <4>1. m \in n .. TreeLen
        BY <1>0, <2>5
      <4> QED BY ONLY tree \in Seq(Nat), n \in 0 .. TreeLen, <2>3, <4>1, BeginStays
    <3> QED BY <2>1, <2>2, <2>3, <3>1
  <2> QED BY <2>4, <2>5
<1> QED BY <1>0, <1>1, <1>2, <1>3, <1>4, <1>5, Zenon

(* the interfaces *)
Ifs == T!OfType(T!Interface)

(* an endpoint whose descriptor, and whose companion if it has one, is of the right length *)
Sound(e) == T!At(e) >= DescriptorSize /\ (T!HasCompanion(e + T!At(e)) => T!CompanionFits(e + T!At(e)))

EndpointSet == [address : Nat, companion : BOOLEAN]

(* s has what is to be read of the interfaces in front of x, and they are all complete *)
InterfacesRead(s, x) ==
  /\ s \in Seq(Seq(EndpointSet)) /\ Len(s) = T!Cardinality(T!Below(Ifs, x))
  /\ \A o \in T!Below(Ifs, x) : T!Complete(o)
  /\ \A n \in 1 .. Len(s) :
       \E o \in T!Below(Ifs, x) : T!Cardinality(T!Below(Ifs, o)) = n - 1 /\ s[n] = T!EndpointsOf(o)

(* s has what is to be read of the endpoints of interface o in front of x, and they are sound *)
EndpointsRead(s, o, x) ==
  /\ s \in Seq(EndpointSet) /\ Len(s) = T!Cardinality(T!Below(T!After(o), x))
  /\ \A e \in T!Below(T!After(o), x) : Sound(e)
  /\ \A n \in 1 .. Len(s) :
       \E e \in T!Below(T!After(o), x) : T!Cardinality(T!Below(T!After(o), e)) = n - 1 /\ s[n] = T!Read(e)

(* reader at interface o: those in front of it were read, and it has w endpoints *)
Working(s, w, o) == o \in Ifs /\ InterfacesRead(s, o) /\ T!At(o) >= DescriptorSize /\ w = T!At(o + 2) /\ w > 0

(* what is said of the device in the end *)
Outcome(ok, s) ==
  /\ ok <=> Ifs # {} /\ \A o \in Ifs : T!Complete(o)
  /\ ok => s = [n \in 1 .. T!Cardinality(Ifs) |-> T!EndpointsOf(T!InOrder(Ifs)[n])]

(* the places of the reader: behind an interface, among its endpoints *)
Skipping(o, x) == o <= x /\ \A d \in T!Descriptors : o < d /\ d <= x => d \notin Ifs /\ T!At(d + 1) # T!Endpoint
Among(o, x) == o < x /\ \A d \in Ifs : ~(o < d /\ d < x)

(* The tree stays, and what is defined from it. *)
LEMMA TreeStays ==
  ASSUME tree' = tree
  PROVE  /\ TreeLen' = TreeLen /\ Chain' = Chain /\ T!Descriptors' = T!Descriptors /\ Ifs' = Ifs
         /\ \A o : T!At(o)' = T!At(o) /\ T!Complete(o)' = T!Complete(o) /\ T!Fits(o)' = T!Fits(o)
         /\ \A s, x : InterfacesRead(s, x)' = InterfacesRead(s, x)
         /\ \A s, o, x : EndpointsRead(s, o, x)' = EndpointsRead(s, o, x)
         /\ \A s, w, o : Working(s, w, o)' = Working(s, w, o)
         /\ \A o, x : Skipping(o, x)' = Skipping(o, x) /\ Among(o, x)' = Among(o, x)
         /\ \A ok, s : Outcome(ok, s)' = Outcome(ok, s)
<1>1. TreeLen' = TreeLen /\ T!max_length' = T!max_length
  BY DEF TreeLen, T!max_length
<1>2. \A o : T!At(o)' = T!At(o)
  BY <1>1 DEF T!At
<1>3. T!Whole' = T!Whole
  BY <1>1, <1>2 DEF T!Whole
<1>4. T!begin' = T!begin
  BY ONLY tree' = tree DEF T!begin, T!Whole, T!At, T!max_length
<1>5. Chain' = Chain /\ T!Descriptors' = T!Descriptors
  BY <1>1, <1>3, <1>4 DEF Chain, T!Descriptors
<1>6. \A t : T!OfType(t)' = T!OfType(t)
  BY <1>2, <1>5 DEF T!OfType
<1>7. Ifs' = Ifs
  BY <1>6 DEF Ifs, T!Interface
<1>8. \A o : T!After(o)' = T!After(o)
  BY <1>6 DEF T!After, T!Interface, T!Endpoint
<1>9. \A o : T!Own(o)' = T!Own(o)
  BY <1>2, <1>8 DEF T!Own
<1>10. \A o : T!HasCompanion(o)' = T!HasCompanion(o) /\ T!CompanionFits(o)' = T!CompanionFits(o) /\ T!Fits(o)' = T!Fits(o)
  BY <1>1, <1>2 DEF T!HasCompanion, T!CompanionFits, T!Fits
<1>11. \A o : T!Complete(o)' = T!Complete(o)
  BY <1>2, <1>9, <1>10 DEF T!Complete
<1>12. \A e : T!Read(e)' = T!Read(e)
  BY <1>2, <1>10 DEF T!Read
<1>13. \A o : T!EndpointsOf(o)' = T!EndpointsOf(o)
  BY <1>9, <1>12 DEF T!EndpointsOf
<1>14. \A s, x : InterfacesRead(s, x)' = InterfacesRead(s, x)
  BY <1>7, <1>11, <1>13 DEF InterfacesRead
<1>15. \A s, o, x : EndpointsRead(s, o, x)' = EndpointsRead(s, o, x)
  BY <1>2, <1>8, <1>10, <1>12 DEF EndpointsRead, Sound
<1>16. \A s, w, o : Working(s, w, o)' = Working(s, w, o)
  BY <1>2, <1>7, <1>14 DEF Working
<1>17. \A o, x : Skipping(o, x)' = Skipping(o, x) /\ Among(o, x)' = Among(o, x)
  BY <1>2, <1>5, <1>7 DEF Skipping, Among
<1>18. \A ok, s : Outcome(ok, s)' = Outcome(ok, s)
  BY <1>7, <1>11, <1>13 DEF Outcome
<1> QED
  BY <1>1, <1>2, <1>5, <1>7, <1>10, <1>11, <1>14, <1>15, <1>16, <1>17, <1>18

(* the reference definition counts as the library does *)
LEMMA TreeCount == \A S : T!Cardinality(S) = Cardinality(S)
  BY Zenon DEF T!Cardinality, Cardinality

(* at a place of the chain the reader's tests say whether a descriptor begins there *)
LEMMA FitsIs ==
  ASSUME tree \in Seq(Nat), NEW x \in Chain
  PROVE  T!Fits(x) <=> x \in T!Descriptors
<1>1. x \in 0 .. TreeLen /\ TreeLen \in Nat /\ T!Descriptors = Chain \cap T!Whole
  BY ChainFacts
<1>2. T!At(x) \in Nat
  BY <1>1 DEF T!At, T!max_length, TreeLen
<1>3. T!Fits(x) <=> x \in T!Whole
  BY <1>1, <1>2 DEF T!Fits, T!Whole, T!max_length, TreeLen
<1> QED BY <1>1, <1>3, Zenon

(* sets of descriptors are finite *)
LEMMA DescriptorSets ==
  ASSUME tree \in Seq(Nat), NEW S \in SUBSET T!Descriptors
  PROVE  IsFiniteSet(S) /\ S \subseteq 0 .. TreeLen /\ T!Cardinality(S) \in Nat
         /\ \A x : IsFiniteSet(T!Below(S, x)) /\ T!Below(S, x) \subseteq S /\ T!Cardinality(T!Below(S, x)) \in 0 .. T!Cardinality(S)
<1>1. S \subseteq 0 .. TreeLen /\ TreeLen \in Nat
  BY ChainFacts
<1>2. IsFiniteSet(0 .. TreeLen)
  BY <1>1, FS_Interval
<1>3. IsFiniteSet(S)
  BY <1>1, <1>2, FS_Subset
<1>4. Cardinality(S) \in Nat
  BY <1>3, FS_CardinalityType
<1>5. ASSUME NEW x PROVE IsFiniteSet(T!Below(S, x)) /\ T!Below(S, x) \subseteq S /\ Cardinality(T!Below(S, x)) \in 0 .. Cardinality(S)
  <2>1. T!Below(S, x) \subseteq S
    BY DEF T!Below
  <2>2. IsFiniteSet(T!Below(S, x)) /\ Cardinality(T!Below(S, x)) <= Cardinality(S)
    BY <1>3, <2>1, FS_Subset
  <2>3. Cardinality(T!Below(S, x)) \in Nat
    BY <2>2, FS_CardinalityType
  <2> QED BY <1>4, <2>1, <2>2, <2>3
<1> QED BY <1>1, <1>3, <1>4, <1>5, TreeCount

(* From a descriptor to the next place, only itself is passed. *)
LEMMA NextBelow ==
  ASSUME tree \in Seq(Nat), NEW S \in SUBSET T!Descriptors, NEW x \in T!Descriptors
  PROVE  /\ x + T!At(x) \in Chain /\ x + T!At(x) > x
         /\ x \notin S => T!Below(S, x + T!At(x)) = T!Below(S, x)
         /\ x \in S => /\ T!Below(S, x + T!At(x)) = T!Below(S, x) \cup {x}
                       /\ T!Cardinality(T!Below(S, x + T!At(x))) = T!Cardinality(T!Below(S, x)) + 1
<1>1. x + T!At(x) \in Chain /\ T!At(x) \in 2 .. TreeLen - x /\ x \in 0 .. TreeLen /\ TreeLen \in Nat /\ S \subseteq 0 .. TreeLen
  BY ChainFacts
<1>2. PICK a \in Nat : a = x + T!At(x) /\ a > x
  BY <1>1
<1>3. ASSUME NEW y \in S PROVE y < a <=> y < x \/ y = x
  <2>1. y > x => y >= x + T!At(x)
    BY ChainFacts
  <2> QED BY <1>1, <1>2, <2>1
<1>4. T!Below(S, a) = T!Below(S, x) \cup (S \cap {x})
  BY <1>3 DEF T!Below
<1>5. CASE x \in S
  <2>1. T!Below(S, a) = T!Below(S, x) \cup {x}
    BY <1>4, <1>5
  <2>2. x \notin T!Below(S, x)
    BY <1>1 DEF T!Below
  <2>3. IsFiniteSet(T!Below(S, x))
    BY DescriptorSets
  <2>4. Cardinality(T!Below(S, x) \cup {x}) = Cardinality(T!Below(S, x)) + 1
    BY <2>2, <2>3, FS_AddElement
  <2> QED BY <1>1, <1>2, <1>5, <2>1, <2>4, TreeCount
<1>6. CASE x \notin S
  <2>1. T!Below(S, a) = T!Below(S, x)
    BY <1>4, <1>6
  <2> QED BY <1>1, <1>2, <1>6, <2>1
<1> QED BY <1>5, <1>6

(* At the end of the chain all descriptors have been passed. *)
LEMMA AllBelow ==
  ASSUME tree \in Seq(Nat), NEW S \in SUBSET T!Descriptors, NEW x \in Chain \ T!Descriptors
  PROVE  T!Below(S, x) = S
<1>1. Chain \subseteq 0 .. TreeLen /\ S \subseteq Chain /\ x \in Chain /\ x \notin S
  BY ChainFacts
<1>2. ASSUME NEW y \in S PROVE y < x
  <2>1. y <= x
    BY <1>1, ChainFacts
  <2> QED BY <1>1, <2>1
<1> QED BY <1>2 DEF T!Below

(* A descriptor of a set is in front of a place when fewer of the set are in front of it. *)
LEMMA Ranks ==
  ASSUME tree \in Seq(Nat), NEW S \in SUBSET T!Descriptors, NEW e \in S, NEW x \in Nat
  PROVE  e < x <=> T!Cardinality(T!Below(S, e)) < T!Cardinality(T!Below(S, x))
<1>1. S \subseteq 0 .. TreeLen /\ TreeLen \in Nat
  BY ChainFacts
<1>2. IsFiniteSet(T!Below(S, e)) /\ IsFiniteSet(T!Below(S, x))
  BY DescriptorSets
<1>3. Cardinality(T!Below(S, e)) \in Nat /\ Cardinality(T!Below(S, x)) \in Nat
  BY <1>2, FS_CardinalityType
<1>4. \A y \in S : y \in Nat
  BY <1>1
<1>5. CASE e < x
  <2>1. ASSUME NEW y \in S, y < e PROVE y < x
    BY <1>4, <1>5, <2>1
  <2>2. e \notin T!Below(S, e)
    BY <1>4 DEF T!Below
  <2>3. T!Below(S, e) \cup {e} \subseteq T!Below(S, x)
    BY <1>5, <2>1 DEF T!Below
  <2>4. Cardinality(T!Below(S, e) \cup {e}) = Cardinality(T!Below(S, e)) + 1
    BY <1>2, <2>2, FS_AddElement
  <2>5. Cardinality(T!Below(S, e) \cup {e}) <= Cardinality(T!Below(S, x))
    BY <1>2, <2>3, FS_Subset
  <2> QED BY <1>3, <1>5, <2>4, <2>5, TreeCount
<1>6. CASE ~(e < x)
  <2>1. ASSUME NEW y \in S, y < x PROVE y < e
    BY <1>4, <1>6, <2>1
  <2>2. T!Below(S, x) \subseteq T!Below(S, e)
    BY <2>1 DEF T!Below
  <2>3. Cardinality(T!Below(S, x)) <= Cardinality(T!Below(S, e))
    BY <1>2, <2>2, FS_Subset
  <2> QED BY <1>3, <1>6, <2>3, TreeCount
<1> QED BY <1>5, <1>6

(* So the one with n - 1 in front is the n-th. *)
LEMMA InOrderIs ==
  ASSUME tree \in Seq(Nat), NEW S \in SUBSET T!Descriptors, NEW o \in S, NEW n \in 1 .. T!Cardinality(S),
         T!Cardinality(T!Below(S, o)) = n - 1
  PROVE  T!InOrder(S)[n] = o
<1>1. ASSUME NEW p \in S, T!Cardinality(T!Below(S, p)) = n - 1 PROVE p = o
  <2>1. o \in Nat /\ p \in Nat
    BY ChainFacts
  <2>2. n - 1 \in Int
    BY DescriptorSets
  <2>3. p < o <=> n - 1 < n - 1
    BY <1>1, <2>1, Ranks
  <2>4. o < p <=> n - 1 < n - 1
    BY <1>1, <2>1, Ranks
  <2> QED BY <2>1, <2>2, <2>3, <2>4
<1>2. (CHOOSE p \in S : T!Cardinality(T!Below(S, p)) = n - 1) = o
  BY <1>1
<1> QED BY <1>2 DEF T!InOrder

(* what the bytes and the sets of descriptors are *)
LEMMA TreeTypes ==
  ASSUME tree \in Seq(Nat)
  PROVE  /\ \A x \in Nat : T!At(x) \in Nat
         /\ Ifs \in SUBSET T!Descriptors /\ \A x \in T!Descriptors : x \in Nat
         /\ \A o : T!After(o) \in SUBSET T!Descriptors /\ T!Own(o) \in SUBSET T!After(o)
<1>1. \A x \in Nat : T!At(x) \in Nat
  BY DEF T!At, T!max_length
<1>2. Ifs \in SUBSET T!Descriptors
  BY DEF Ifs, T!OfType
<1>3. \A o : T!After(o) \in SUBSET T!Descriptors
  BY DEF T!After, T!OfType
<1>4. \A o : T!Own(o) \in SUBSET T!After(o)
  BY DEF T!Own
<1>5. \A x \in T!Descriptors : x \in Nat
  BY ChainFacts
<1> QED BY <1>1, <1>2, <1>3, <1>4, <1>5

(* a sequence and one element more *)
LEMMA Appended ==
  ASSUME NEW S, NEW s \in Seq(S), NEW e \in S
  PROVE  /\ Append(s, e) \in Seq(S) /\ Len(s) \in Nat /\ Len(Append(s, e)) = Len(s) + 1
         /\ Append(s, e)[Len(s) + 1] = e /\ \A n \in 1 .. Len(s) : Append(s, e)[n] = s[n]
  OBVIOUS

(* An interface that is not complete, and the device is given up. *)
LEMMA GivenUp ==
  ASSUME NEW o \in Ifs, ~T!Complete(o), NEW s
  PROVE  Outcome(FALSE, s)
  BY DEF Outcome

(* All were read, and the device is used. *)
LEMMA Used ==
  ASSUME tree \in Seq(Nat), NEW s, NEW x, InterfacesRead(s, x), Len(s) = T!Cardinality(Ifs), Len(s) > 0
  PROVE  Outcome(TRUE, s)
<1>1. Ifs \in SUBSET T!Descriptors
  BY TreeTypes
<1>2. IsFiniteSet(Ifs) /\ T!Below(Ifs, x) \subseteq Ifs
  BY <1>1, DescriptorSets
<1>3. Cardinality(T!Below(Ifs, x)) = Cardinality(Ifs)
  BY TreeCount DEF InterfacesRead
<1>4. T!Below(Ifs, x) = Ifs
  BY <1>2, <1>3, FS_Subset
<1>5. Ifs # {}
  <2> SUFFICES ASSUME Ifs = {} PROVE FALSE
    OBVIOUS
  <2>1. T!Cardinality(Ifs) = 0
    BY FS_EmptySet, TreeCount
  <2> QED BY <2>1
<1>6. \A o \in Ifs : T!Complete(o)
  BY <1>4 DEF InterfacesRead
<1>7. ASSUME NEW n \in 1 .. Len(s) PROVE s[n] = T!EndpointsOf(T!InOrder(Ifs)[n])
  <2>1. PICK o \in Ifs : T!Cardinality(T!Below(Ifs, o)) = n - 1 /\ s[n] = T!EndpointsOf(o)
    BY <1>4 DEF InterfacesRead
  <2>2. T!InOrder(Ifs)[n] = o
    BY <1>1, <2>1, InOrderIs
  <2> QED BY <2>1, <2>2
<1>8. s = [n \in 1 .. Len(s) |-> s[n]]
  BY DEF InterfacesRead
<1>9. s = [n \in 1 .. T!Cardinality(Ifs) |-> T!EndpointsOf(T!InOrder(Ifs)[n])]
  BY <1>7, <1>8
<1> QED BY <1>5, <1>6, <1>9 DEF Outcome

(* One more complete interface, and no other up to x. *)
LEMMA OneMore ==
  ASSUME tree \in Seq(Nat), NEW s, NEW o \in Ifs, InterfacesRead(s, o), T!Complete(o),
         NEW x \in Nat, Among(o, x), T!EndpointsOf(o) \in Seq(EndpointSet)
  PROVE  InterfacesRead(Append(s, T!EndpointsOf(o)), x)
<1>1. Ifs \in SUBSET T!Descriptors /\ o \in Nat /\ \A d \in Ifs : d \in Nat
  BY TreeTypes
<1>2. T!Below(Ifs, x) = T!Below(Ifs, o) \cup {o} /\ o \notin T!Below(Ifs, o)
  <2>1. ASSUME NEW d \in Ifs PROVE d < x <=> d < o \/ d = o
    BY <1>1 DEF Among
  <2>2. T!Below(Ifs, x) = T!Below(Ifs, o) \cup {o}
    BY <2>1 DEF T!Below
  <2>3. o \notin T!Below(Ifs, o)
    BY <1>1 DEF T!Below
  <2> QED BY <2>2, <2>3
<1>3. T!Cardinality(T!Below(Ifs, x)) = T!Cardinality(T!Below(Ifs, o)) + 1
  <2>1. IsFiniteSet(T!Below(Ifs, o))
    BY <1>1, DescriptorSets
  <2> QED BY <1>2, <2>1, FS_AddElement, TreeCount
<1>4. PICK N \in Nat : N = Len(s) /\ N = T!Cardinality(T!Below(Ifs, o)) /\ s \in Seq(Seq(EndpointSet))
  BY DEF InterfacesRead
<1>5. PICK r : r = Append(s, T!EndpointsOf(o))
  OBVIOUS
<1>6. r \in Seq(Seq(EndpointSet)) /\ Len(r) = N + 1 /\ r[N + 1] = T!EndpointsOf(o) /\ \A n \in 1 .. N : r[n] = s[n]
  <2>1. s \in Seq(Seq(EndpointSet)) /\ T!EndpointsOf(o) \in Seq(EndpointSet)
    BY <1>4
  <2>2. PICK S : S = Seq(EndpointSet)
    OBVIOUS
  <2>3. PICK e \in S : e = T!EndpointsOf(o)
    BY <2>1, <2>2
  <2>4. s \in Seq(S)
    BY <2>1, <2>2
  <2>5. Append(s, e) \in Seq(S) /\ Len(Append(s, e)) = N + 1 /\ Append(s, e)[N + 1] = e /\ \A n \in 1 .. N : Append(s, e)[n] = s[n]
    <3>1. /\ Append(s, e) \in Seq(S) /\ Len(Append(s, e)) = Len(s) + 1
          /\ Append(s, e)[Len(s) + 1] = e /\ \A n \in 1 .. Len(s) : Append(s, e)[n] = s[n]
      BY ONLY e \in S, <2>4, Appended
    <3> QED BY <1>4, <3>1, Zenon
  <2> QED BY <1>5, <2>2, <2>3, <2>5, Zenon
<1>7. \A p \in T!Below(Ifs, x) : T!Complete(p)
  BY <1>2 DEF InterfacesRead
<1>8. ASSUME NEW n \in 1 .. N + 1
      PROVE  \E p \in T!Below(Ifs, x) : T!Cardinality(T!Below(Ifs, p)) = n - 1 /\ r[n] = T!EndpointsOf(p)
  <2>1. CASE n = N + 1
    BY <1>2, <1>4, <1>6, <2>1
  <2>2. CASE n \in 1 .. N
    <3>1. PICK p \in T!Below(Ifs, o) : T!Cardinality(T!Below(Ifs, p)) = n - 1 /\ s[n] = T!EndpointsOf(p)
      BY <1>4, <2>2 DEF InterfacesRead
    <3> QED BY <1>2, <1>6, <2>2, <3>1
  <2> QED BY <2>1, <2>2
<1>9. Len(r) = T!Cardinality(T!Below(Ifs, x))
  BY <1>3, <1>4, <1>6
<1> QED BY <1>5, <1>6, <1>7, <1>8, <1>9 DEF InterfacesRead

(* Anything else than an interface is passed over. *)
LEMMA PassedOver ==
  ASSUME tree \in Seq(Nat), NEW s, NEW x \in T!Descriptors \ Ifs, InterfacesRead(s, x)
  PROVE  InterfacesRead(s, x + T!At(x))
<1>1. Ifs \in SUBSET T!Descriptors
  BY TreeTypes
<1>2. T!Below(Ifs, x + T!At(x)) = T!Below(Ifs, x)
  BY <1>1, NextBelow
<1> QED BY <1>2 DEF InterfacesRead

(* the next place is behind an interface, and no other interface is between *)
LEMMA NextReading ==
  ASSUME tree \in Seq(Nat), NEW x \in T!Descriptors, NEW o \in Nat, o <= x, o = x \/ (Among(o, x) /\ x \notin Ifs)
  PROVE  Among(o, x + T!At(x)) /\ x + T!At(x) \in Nat /\ x + T!At(x) \in Chain
<1>1. Ifs \in SUBSET T!Descriptors /\ x \in Nat /\ \A d \in Ifs : d \in Nat
  BY TreeTypes
<1>2. x + T!At(x) \in Chain /\ T!At(x) \in 2 .. TreeLen - x /\ TreeLen \in Nat
  BY ChainFacts
<1>3. x + T!At(x) \in Nat /\ x < x + T!At(x)
  BY <1>1, <1>2
<1>4. ASSUME NEW d \in Ifs PROVE ~(o < d /\ d < x + T!At(x))
  <2>1. d > x => d >= x + T!At(x)
    BY <1>1, ChainFacts
  <2>2. CASE o = x
    BY <1>1, <1>3, <2>1, <2>2
  <2>3. CASE Among(o, x) /\ x \notin Ifs
    <3>1. ~(o < d /\ d < x) /\ d # x
      BY <2>3 DEF Among
    <3> QED BY <1>1, <1>3, <2>1, <3>1
  <2> QED BY <2>2, <2>3
<1> QED BY <1>1, <1>2, <1>3, <1>4 DEF Among

(* An interface without endpoints is complete as it is. *)
LEMMA NoEndpoints ==
  ASSUME tree \in Seq(Nat), NEW s, NEW o \in Ifs, InterfacesRead(s, o), T!At(o) >= DescriptorSize, ~(T!At(o + 2) > 0)
  PROVE  InterfacesRead(Append(s, <<>>), o + T!At(o))
<1>1. o \in T!Descriptors /\ o \in Nat /\ T!At(o + 2) = 0 /\ T!After(o) \in SUBSET T!Descriptors
  BY TreeTypes, SMTT(30)
<1>2. T!Own(o) = {}
  <2>1. ASSUME NEW e PROVE ~(T!Cardinality(T!Below(T!After(o), e)) < 0)
    <3>1. T!Cardinality(T!Below(T!After(o), e)) \in 0 .. T!Cardinality(T!After(o))
      BY <1>1, DescriptorSets, Zenon
    <3> QED BY <3>1
  <2>2. ASSUME NEW e \in T!Own(o) PROVE FALSE
    <3>1. T!Cardinality(T!Below(T!After(o), e)) < T!At(o + 2)
      BY <2>2 DEF T!Own
    <3> QED BY <1>1, <2>1, <3>1
  <2> QED BY <2>2
<1>3. T!Cardinality(T!Own(o)) = 0
  BY <1>2, FS_EmptySet, TreeCount
<1>4. T!Complete(o)
  BY <1>1, <1>2, <1>3 DEF T!Complete
<1>5. T!EndpointsOf(o) = <<>>
  BY <1>3 DEF T!EndpointsOf
<1>6. T!EndpointsOf(o) \in Seq(EndpointSet)
  BY <1>5
<1>7. Among(o, o + T!At(o)) /\ o + T!At(o) \in Nat
  BY <1>1, NextReading
<1>8. InterfacesRead(Append(s, T!EndpointsOf(o)), o + T!At(o))
  BY <1>4, <1>6, <1>7, OneMore
<1> QED BY <1>5, <1>8

(* An interface is not complete when it is followed by too few endpoints. *)
LEMMA TooFew ==
  ASSUME tree \in Seq(Nat), NEW o \in Ifs, T!Cardinality(T!After(o)) < T!At(o + 2)
  PROVE  ~T!Complete(o)
<1>1. T!After(o) \in SUBSET T!Descriptors /\ T!Own(o) \subseteq T!After(o) /\ T!At(o + 2) \in Nat
  <2>1. o \in T!Descriptors
    BY TreeTypes
  <2>2. o \in Nat
    BY <2>1, TreeTypes
  <2>3. o + 2 \in Nat
    BY <2>2
  <2> QED BY <2>3, TreeTypes
<1>2. IsFiniteSet(T!After(o)) /\ T!Cardinality(T!After(o)) \in Nat
  BY <1>1, DescriptorSets
<1>3. Cardinality(T!Own(o)) <= Cardinality(T!After(o)) /\ IsFiniteSet(T!Own(o))
  BY <1>1, <1>2, FS_Subset
<1>4. Cardinality(T!Own(o)) \in Nat
  BY <1>3, FS_CardinalityType
<1>5. T!Cardinality(T!Own(o)) # T!At(o + 2)
  BY <1>1, <1>2, <1>3, <1>4, TreeCount
<1> QED BY <1>5 DEF T!Complete

(* All endpoints of an interface are in front of the next interface, and of the end. *)
LEMMA NoneBehind ==
  ASSUME tree \in Seq(Nat), NEW o \in Ifs, NEW x \in Chain, o < x, x \in Ifs \/ x \notin T!Descriptors
  PROVE  T!Below(T!After(o), x) = T!After(o)
<1>1. T!After(o) \in SUBSET T!Descriptors /\ o \in Nat /\ \A d \in T!Descriptors : d \in Nat
  BY TreeTypes
<1>2. CASE x \notin T!Descriptors
  BY <1>1, <1>2, AllBelow
<1>3. CASE x \in Ifs
  <2>1. ASSUME NEW e \in T!After(o) PROVE e < x
    <3>1. T!At(e + 1) = T!Endpoint /\ ~(o < x /\ x < e)
      BY <1>3 DEF T!After, T!OfType, Ifs
    <3>2. e # x
      BY <1>3, <3>1 DEF Ifs, T!OfType, T!Interface, T!Endpoint
    <3>3. e \in Nat /\ x \in Nat
      BY <1>1, <1>3, TreeTypes
    <3> QED BY <3>1, <3>2, <3>3
  <2> QED BY <2>1 DEF T!Below
<1> QED BY <1>2, <1>3

(* Between an interface and its first endpoint: the next descriptor is the first endpoint, or *)
(* another one to skip; or the interface has no endpoint.                                     *)
LEMMA Skipped ==
  ASSUME tree \in Seq(Nat), NEW s, NEW w, NEW o, Working(s, w, o), NEW x \in T!Descriptors, Skipping(o, x),
         NEW a, a = x + T!At(x)
  PROVE  /\ a \in Chain /\ a \in Nat
         /\ (a \in Ifs \/ a \notin T!Descriptors) => ~T!Complete(o)
         /\ a \in T!Descriptors \ Ifs /\ T!At(a + 1) # T!Endpoint => Skipping(o, a)
         /\ a \in T!Descriptors /\ T!At(a + 1) = T!Endpoint => Among(o, a) /\ EndpointsRead(<<>>, o, a)
<1>1. o \in Ifs /\ o \in T!Descriptors /\ o \in Nat /\ x \in Nat /\ (\A d \in T!Descriptors : d \in Nat) /\ o <= x
      /\ T!At(o + 2) \in Nat /\ T!At(o + 2) > 0
  <2>1. o \in Ifs /\ T!At(o + 2) > 0 /\ o <= x
    BY DEF Working, Skipping
  <2>2. o \in T!Descriptors /\ o \in Nat /\ x \in Nat /\ (\A d \in T!Descriptors : d \in Nat)
    BY <2>1, TreeTypes
  <2>3. o + 2 \in Nat
    BY <2>2
  <2> QED BY <2>1, <2>2, <2>3, TreeTypes
<1>2. a \in Chain /\ a \in Nat /\ a > x /\ \A d \in T!Descriptors : d < a <=> d <= x
  <2>1. a \in Chain /\ T!At(x) \in 2 .. TreeLen - x /\ TreeLen \in Nat
    BY ChainFacts
  <2>2. ASSUME NEW d \in T!Descriptors PROVE d < a <=> d <= x
    <3>1. d > x => d >= a
      BY ChainFacts
    <3> QED BY <1>1, <2>1, <3>1
  <2> QED BY <1>1, <2>1, <2>2
<1>3. T!Below(T!After(o), a) = {}
  <2> SUFFICES ASSUME NEW e \in T!Below(T!After(o), a) PROVE FALSE
    OBVIOUS
  <2>1. e \in T!Descriptors /\ T!At(e + 1) = T!Endpoint /\ e > o /\ e < a
    BY DEF T!Below, T!After, T!OfType
  <2>2. o < e /\ e <= x
    BY <1>1, <1>2, <2>1
  <2> QED BY <2>1, <2>2 DEF Skipping
<1>4. T!Cardinality(T!Below(T!After(o), a)) = 0
  BY <1>3, FS_EmptySet, TreeCount
<1>5. o < a
  BY <1>1, <1>2
<1>6. ASSUME a \in Ifs \/ a \notin T!Descriptors PROVE ~T!Complete(o)
  <2>1. T!Below(T!After(o), a) = T!After(o)
    BY <1>1, <1>2, <1>5, <1>6, NoneBehind
  <2>2. T!Cardinality(T!After(o)) < T!At(o + 2)
    BY <1>1, <1>4, <2>1
  <2> QED BY <1>1, <2>2, TooFew
<1>7. ASSUME a \in T!Descriptors \ Ifs, T!At(a + 1) # T!Endpoint PROVE Skipping(o, a)
  <2>1. ASSUME NEW d \in T!Descriptors, o < d, d <= a PROVE d \notin Ifs /\ T!At(d + 1) # T!Endpoint
    <3>1. CASE d = a
      BY <1>7, <3>1
    <3>2. CASE d # a
      <4>1. d <= x
        BY <1>1, <1>2, <2>1, <3>2
      <4> QED BY <2>1, <4>1 DEF Skipping
    <3> QED BY <3>1, <3>2
  <2>2. o <= a
    BY <1>1, <1>2, <1>5
  <2> QED BY <2>1, <2>2 DEF Skipping
<1>8. Among(o, a)
  <2>1. ASSUME NEW d \in Ifs, o < d, d < a PROVE FALSE
    <3>1. d \in T!Descriptors
      BY TreeTypes
    <3> QED BY <1>2, <2>1, <3>1 DEF Skipping
  <2> QED BY <1>5, <2>1 DEF Among
<1>9. EndpointsRead(<<>>, o, a)
  BY <1>3, <1>4 DEF EndpointsRead
<1> QED BY <1>2, <1>6, <1>7, <1>8, <1>9

(* What an endpoint that is read adds: the descriptor at x, which is no interface. *)
LEMMA OneEndpoint ==
  ASSUME tree \in Seq(Nat), NEW s, NEW o \in Ifs, NEW x \in T!Descriptors \ Ifs, Among(o, x), EndpointsRead(s, o, x),
         T!At(x + 1) = T!Endpoint, Sound(x)
  PROVE  EndpointsRead(Append(s, T!Read(x)), o, x + T!At(x))
<1>1. T!After(o) \in SUBSET T!Descriptors /\ o \in Nat /\ x \in Nat /\ (\A d \in T!Descriptors : d \in Nat)
  BY TreeTypes
<1>2. x \in T!After(o)
  <2>1. x \in T!OfType(T!Endpoint) /\ x > o
    BY <1>1 DEF T!OfType, Among
  <2>2. \A d \in T!OfType(T!Interface) : ~(o < d /\ d < x)
    BY DEF Among, Ifs
  <2> QED BY <2>1, <2>2 DEF T!After
<1>3. PICK a : a = x + T!At(x)
  OBVIOUS
<1>4. /\ T!Below(T!After(o), a) = T!Below(T!After(o), x) \cup {x}
      /\ T!Cardinality(T!Below(T!After(o), a)) = T!Cardinality(T!Below(T!After(o), x)) + 1
  BY <1>1, <1>2, <1>3, NextBelow
<1>5. PICK N \in Nat : N = Len(s) /\ N = T!Cardinality(T!Below(T!After(o), x)) /\ s \in Seq(EndpointSet)
  BY DEF EndpointsRead
<1>6. T!Read(x) \in EndpointSet
  <2>1. x + 2 \in Nat
    BY <1>1
  <2>2. T!At(x + 2) \in Nat /\ T!HasCompanion(x + T!At(x)) \in BOOLEAN
    BY <2>1, TreeTypes DEF T!HasCompanion
  <2> QED BY <2>2 DEF T!Read, EndpointSet
<1>7. PICK r : r = Append(s, T!Read(x))
  OBVIOUS
<1>8. r \in Seq(EndpointSet) /\ Len(r) = N + 1 /\ r[N + 1] = T!Read(x) /\ \A n \in 1 .. N : r[n] = s[n]
  <2>1. PICK e \in EndpointSet : e = T!Read(x)
    BY <1>6
  <2>2. s \in Seq(EndpointSet)
    BY <1>5
  <2>3. /\ Append(s, e) \in Seq(EndpointSet) /\ Len(Append(s, e)) = Len(s) + 1
        /\ Append(s, e)[Len(s) + 1] = e /\ \A n \in 1 .. Len(s) : Append(s, e)[n] = s[n]
    BY ONLY e \in EndpointSet, <2>2, Appended
  <2> QED BY <1>5, <1>7, <2>1, <2>3, Zenon
<1>9. \A e \in T!Below(T!After(o), a) : Sound(e)
  BY <1>4 DEF EndpointsRead
<1>10. ASSUME NEW n \in 1 .. N + 1
       PROVE  \E e \in T!Below(T!After(o), a) : T!Cardinality(T!Below(T!After(o), e)) = n - 1 /\ r[n] = T!Read(e)
  <2>1. CASE n = N + 1
    BY <1>4, <1>5, <1>8, <2>1
  <2>2. CASE n \in 1 .. N
    <3>1. PICK e \in T!Below(T!After(o), x) : T!Cardinality(T!Below(T!After(o), e)) = n - 1 /\ s[n] = T!Read(e)
      BY <1>5, <2>2 DEF EndpointsRead
    <3> QED BY <1>4, <1>8, <2>2, <3>1
  <2> QED BY <2>1, <2>2
<1>11. Len(r) = T!Cardinality(T!Below(T!After(o), a))
  BY <1>4, <1>5, <1>8
<1> QED BY <1>3, <1>7, <1>8, <1>9, <1>10, <1>11 DEF EndpointsRead

(* a descriptor of another type adds nothing *)
LEMMA NoEndpoint ==
  ASSUME tree \in Seq(Nat), NEW s, NEW o \in Ifs, NEW x \in T!Descriptors, EndpointsRead(s, o, x), T!At(x + 1) # T!Endpoint
  PROVE  EndpointsRead(s, o, x + T!At(x))
<1>1. T!After(o) \in SUBSET T!Descriptors
  BY TreeTypes
<1>2. x \notin T!After(o)
  BY DEF T!After, T!OfType
<1>3. T!Below(T!After(o), x + T!At(x)) = T!Below(T!After(o), x)
  BY <1>1, <1>2, NextBelow
<1> QED BY <1>3 DEF EndpointsRead

(* The last endpoint was read: the interface is complete. *)
LEMMA LastEndpoint ==
  ASSUME tree \in Seq(Nat), NEW r, NEW s, NEW w, NEW o, Working(s, w, o), NEW x \in Nat, EndpointsRead(r, o, x), Len(r) = w
  PROVE  T!Complete(o) /\ r = T!EndpointsOf(o)
<1>1. T!After(o) \in SUBSET T!Descriptors /\ w = T!At(o + 2) /\ T!At(o) >= DescriptorSize
  BY TreeTypes DEF Working
<1>2. w = T!Cardinality(T!Below(T!After(o), x)) /\ r \in Seq(EndpointSet)
  BY DEF EndpointsRead
<1>3. T!Own(o) = T!Below(T!After(o), x)
  <2>1. ASSUME NEW e \in T!After(o) PROVE e < x <=> T!Cardinality(T!Below(T!After(o), e)) < w
    BY <1>1, <1>2, Ranks
  <2> QED BY <1>1, <2>1 DEF T!Own, T!Below
<1>4. T!Complete(o)
  BY <1>1, <1>2, <1>3 DEF T!Complete, EndpointsRead, Sound
<1>5. ASSUME NEW n \in 1 .. w PROVE r[n] = T!Read(T!InOrder(T!Own(o))[n])
  <2>1. PICK e \in T!Own(o) : T!Cardinality(T!Below(T!After(o), e)) = n - 1 /\ r[n] = T!Read(e)
    BY <1>3 DEF EndpointsRead
  <2>2. T!Below(T!Own(o), e) = T!Below(T!After(o), e)
    <3>1. \A d \in T!After(o) : d \in Nat
      BY <1>1, TreeTypes
    <3>2. e < x /\ e \in Nat
      BY <1>3, <2>1, <3>1 DEF T!Below
    <3>3. ASSUME NEW d \in T!After(o), d < e PROVE d < x
      BY <3>1, <3>2, <3>3
    <3> QED BY <1>3, <3>3 DEF T!Below
  <2>3. T!Own(o) \in SUBSET T!Descriptors
    BY <1>1, TreeTypes
  <2>4. n \in 1 .. T!Cardinality(T!Own(o)) /\ T!Cardinality(T!Below(T!Own(o), e)) = n - 1
    BY <1>2, <1>3, <2>1, <2>2
  <2>5. T!InOrder(T!Own(o))[n] = e
    BY <2>1, <2>3, <2>4, InOrderIs
  <2> QED BY <2>1, <2>5
<1>6. r = [n \in 1 .. w |-> r[n]]
  BY <1>2
<1>7. w = T!Cardinality(T!Own(o))
  BY <1>2, <1>3
<1>8. r = T!EndpointsOf(o)
  BY <1>5, <1>6, <1>7 DEF T!EndpointsOf
<1> QED BY <1>4, <1>8

(* Endpoints are missing where the next interface, or the end, is. *)
LEMMA EndpointsMissing ==
  ASSUME tree \in Seq(Nat), NEW r, NEW s, NEW w, NEW o, Working(s, w, o), NEW x \in Chain, o < x, x \in Ifs \/ x \notin T!Descriptors,
         EndpointsRead(r, o, x), Len(r) < w
  PROVE  ~T!Complete(o)
<1>1. o \in Ifs /\ w = T!At(o + 2)
  BY DEF Working
<1>2. T!Below(T!After(o), x) = T!After(o)
  BY <1>1, NoneBehind
<1>3. T!Cardinality(T!After(o)) < T!At(o + 2)
  BY <1>1, <1>2 DEF EndpointsRead
<1> QED BY <1>1, <1>3, TooFew

(* One of the endpoints that belong to the interface cannot be read. *)
LEMMA EndpointUnsound ==
  ASSUME tree \in Seq(Nat), NEW r, NEW s, NEW w, NEW o, Working(s, w, o), NEW x \in T!Descriptors \ Ifs, Among(o, x),
         EndpointsRead(r, o, x), Len(r) < w, T!At(x + 1) = T!Endpoint, ~Sound(x)
  PROVE  ~T!Complete(o)
<1>1. o \in Ifs /\ w = T!At(o + 2) /\ o \in Nat /\ x \in Nat
  BY TreeTypes DEF Working
<1>2. x \in T!After(o)
  <2>1. x \in T!OfType(T!Endpoint) /\ x > o
    BY <1>1 DEF T!OfType, Among
  <2>2. \A d \in T!OfType(T!Interface) : ~(o < d /\ d < x)
    BY DEF Among, Ifs
  <2> QED BY <2>1, <2>2 DEF T!After
<1>3. x \in T!Own(o)
  BY <1>1, <1>2 DEF T!Own, EndpointsRead
<1> QED BY <1>3 DEF T!Complete, Sound

(* at most as many interfaces were read as there are *)
LEMMA ReadLength ==
  ASSUME tree \in Seq(Nat), NEW s, NEW x, InterfacesRead(s, x)
  PROVE  Len(s) \in Nat /\ Len(s) <= T!Cardinality(Ifs) /\ T!Cardinality(Ifs) \in Nat
<1>1. Ifs \in SUBSET T!Descriptors
  BY TreeTypes
<1>2. T!Cardinality(T!Below(Ifs, x)) \in 0 .. T!Cardinality(Ifs) /\ T!Cardinality(Ifs) \in Nat
  BY <1>1, DescriptorSets, Zenon
<1> QED BY <1>2 DEF InterfacesRead

-----------------------------------------------------------------------------
(* The phases of get_device: what each knows. *)
Phase(p, x, count, ints, w, eps) ==
  /\ p = "count" => count = T!Cardinality(T!Below(Ifs, x)) /\ ints = <<>> /\ eps = <<>>
  /\ p # "count" => count = T!Cardinality(Ifs)
  /\ p = "allocate" => x = 0 /\ ints = <<>> /\ eps = <<>>
  /\ p \notin {"count", "done"} => count > 0
  /\ p = "next" => InterfacesRead(ints, x) /\ eps = <<>>
  /\ p = "skip" => x \in T!Descriptors /\ eps = <<>> /\ \E o \in Ifs : Working(ints, w, o) /\ Skipping(o, x)
  /\ p = "endpoint" => /\ x \in T!Descriptors /\ Len(eps) < w
                       /\ \E o \in Ifs : Working(ints, w, o) /\ Among(o, x) /\ EndpointsRead(eps, o, x)

(* the memory that is held, and what get_device returns in the end *)
Held(p, ints, h, res, short) ==
  /\ p # "done" => ~res /\ ~short /\ (h <=> p \in {"next", "skip", "endpoint"})
  /\ p = "done" => (h <=> res) /\ (short => ~res) /\ (~short => Outcome(res, ints))

(* the inductive invariant *)
TreeInv ==
  /\ tree \in Seq(Nat) /\ furthest \in 0 .. TreeLen /\ offset \in Chain /\ wanted \in Nat /\ interfaces_count \in Nat /\ no_memory \in BOOLEAN
  /\ T!TypeOK
  /\ Phase(pc, offset, interfaces_count, interfaces, wanted, endpoints)
  /\ Held(pc, interfaces, held, result, no_memory)

(* It is kept when the tree stays and it holds of what a step makes of the rest. *)
LEMMA TreeKept ==
  ASSUME tree' = tree, tree \in Seq(Nat), furthest' \in 0 .. TreeLen, offset' \in Chain, wanted' \in Nat, interfaces_count' \in Nat,
         no_memory' \in BOOLEAN, pc' \in {"count", "allocate", "next", "skip", "endpoint", "done"},
         Len(interfaces') <= interfaces_count', Len(endpoints') <= wanted', held' \in BOOLEAN, result' \in BOOLEAN,
         Phase(pc', offset', interfaces_count', interfaces', wanted', endpoints'),
         Held(pc', interfaces', held', result', no_memory')
  PROVE  TreeInv'
<1>1. Phase(pc, offset, interfaces_count, interfaces, wanted, endpoints)'
  BY TreeStays DEF Phase
<1>2. Held(pc, interfaces, held, result, no_memory)'
  BY TreeStays DEF Held
<1>3. T!TypeOK'
  <2>1. offset' \in 0 .. TreeLen /\ TreeLen' = TreeLen
    BY ChainFacts, TreeStays
  <2> QED BY <2>1 DEF T!TypeOK, T!max_length, TreeLen
<1> QED BY <1>1, <1>2, <1>3, TreeStays DEF TreeInv

(* the invariant holds at first *)
LEMMA TreeStarts == Trees \subseteq Seq(Nat) /\ T!Init => TreeInv
<1> SUFFICES ASSUME Trees \subseteq Seq(Nat), T!Init PROVE TreeInv
  OBVIOUS
<1>1. tree \in Seq(Nat) /\ pc = "count" /\ offset = 0 /\ interfaces_count = 0 /\ interfaces = <<>> /\ wanted = 0 /\ endpoints = <<>>
      /\ held = FALSE /\ result = FALSE /\ no_memory = FALSE /\ furthest = 0
  BY DEF T!Init
<1>2. 0 \in Chain /\ TreeLen \in Nat
  BY <1>1, ChainFacts
<1>3. T!Below(Ifs, 0) = {}
  <2>1. \A d \in Ifs : d \in Nat
    BY <1>1, TreeTypes
  <2> QED BY <2>1 DEF T!Below
<1>4. T!Cardinality(T!Below(Ifs, 0)) = 0
  BY <1>3, FS_EmptySet, TreeCount
<1>5. Phase(pc, offset, interfaces_count, interfaces, wanted, endpoints)
  BY <1>1, <1>4 DEF Phase
<1>6. Held(pc, interfaces, held, result, no_memory)
  <2>1. pc # "done" /\ pc \notin {"next", "skip", "endpoint"}
    BY <1>1
  <2> QED BY <1>1, <2>1, Zenon DEF Held
<1>7. T!TypeOK
  <2>1. held \in BOOLEAN /\ result \in BOOLEAN
    BY <1>1, Zenon
  <2>2. /\ pc \in {"count", "allocate", "next", "skip", "endpoint", "done"} /\ offset \in 0 .. T!max_length
        /\ Len(interfaces) <= interfaces_count /\ Len(endpoints) <= wanted
    BY <1>1, <1>2 DEF T!max_length, TreeLen
  <2> QED BY <2>1, <2>2, Zenon DEF T!TypeOK
<1>8. no_memory \in BOOLEAN
  BY <1>1, Zenon
<1>9. furthest \in 0 .. TreeLen /\ offset \in Chain /\ wanted \in Nat /\ interfaces_count \in Nat
  BY <1>1, <1>2
<1> QED BY <1>1, <1>5, <1>6, <1>7, <1>8, <1>9, Zenon DEF TreeInv

(* what the reader looks at is in the tree *)
LEMMA Noted ==
  ASSUME NEW m \in Nat, furthest \in 0 .. m, NEW n \in 0 .. m, T!Reading(n)
  PROVE  furthest' \in 0 .. m
  BY DEF T!Reading

(* the two bytes in front of a descriptor are in the tree, or not read *)
LEMMA HeadingIn ==
  ASSUME tree \in Seq(Nat), NEW x \in 0 .. TreeLen
  PROVE  T!Heading(x) \in 0 .. TreeLen
<1>1. TreeLen \in Nat
  BY DEF TreeLen
<1> QED BY <1>1 DEF T!Heading, T!max_length, TreeLen

(* count_tree *)
LEMMA CountKeeps == ASSUME TreeInv, T!count_tree PROVE TreeInv'
<1>1. /\ tree \in Seq(Nat) /\ furthest \in 0 .. TreeLen /\ offset \in Chain /\ wanted \in Nat /\ interfaces_count \in Nat
      /\ no_memory \in BOOLEAN /\ held \in BOOLEAN /\ result \in BOOLEAN /\ pc = "count"
  BY Zenon DEF TreeInv, T!TypeOK, T!count_tree
<1>2. interfaces_count = T!Cardinality(T!Below(Ifs, offset)) /\ interfaces = <<>> /\ endpoints = <<>>
  BY <1>1 DEF TreeInv, Phase
<1>3. ~result /\ ~no_memory /\ ~held
  <2>1. pc # "done" /\ pc \notin {"next", "skip", "endpoint"}
    BY <1>1
  <2> QED BY <1>1, <2>1, Zenon DEF TreeInv, Held
<1>4. tree' = tree /\ interfaces' = interfaces /\ wanted' = wanted /\ endpoints' = endpoints /\ held' = held /\ result' = result
      /\ no_memory' = no_memory
  BY DEF T!count_tree
<1>5. TreeLen \in Nat /\ offset \in 0 .. TreeLen /\ 0 \in Chain
  BY <1>1, ChainFacts
<1>6. furthest' \in 0 .. TreeLen
  BY <1>1, <1>5, HeadingIn, Noted DEF T!count_tree
<1>7. Ifs \in SUBSET T!Descriptors
  BY <1>1, TreeTypes
<1>8. ~result' /\ ~no_memory' /\ ~held' /\ no_memory' \in BOOLEAN /\ held' \in BOOLEAN /\ result' \in BOOLEAN
  BY <1>1, <1>3, <1>4, Zenon
<1>9. Len(interfaces') = 0 /\ Len(endpoints') = 0
  BY <1>2, <1>4
<1>10. CASE T!Fits(offset)
  <2>1. offset \in T!Descriptors
    BY <1>1, <1>10, FitsIs
  <2>2. pc' = "count" /\ offset' = offset + T!At(offset)
        /\ interfaces_count' = interfaces_count + (IF T!At(offset + 1) = T!Interface THEN 1 ELSE 0)
    BY <1>1, <1>10 DEF T!count_tree
  <2>3. offset \in Ifs <=> T!At(offset + 1) = T!Interface
    BY <2>1 DEF Ifs, T!OfType
  <2>4. offset' \in Chain
    BY <1>1, <2>1, <2>2, ChainFacts
  <2>5. interfaces_count' = T!Cardinality(T!Below(Ifs, offset'))
    <3>1. CASE offset \in Ifs
      BY <1>1, <1>2, <1>7, <2>1, <2>2, <2>3, <3>1, NextBelow
    <3>2. CASE offset \notin Ifs
      <4>1. T!Below(Ifs, offset') = T!Below(Ifs, offset)
        BY <1>1, <1>7, <2>1, <2>2, <3>2, NextBelow
      <4>2. interfaces_count' = interfaces_count
        BY <1>1, <2>2, <2>3, <3>2
      <4> QED BY <1>2, <4>1, <4>2
    <3> QED BY <3>1, <3>2
  <2>6. interfaces_count' \in Nat
    BY <1>1, <2>2
  <2>7. Phase(pc', offset', interfaces_count', interfaces', wanted', endpoints')
    BY <1>2, <1>4, <2>2, <2>5 DEF Phase
  <2>8. Held(pc', interfaces', held', result', no_memory')
    <3>1. pc' # "done" /\ pc' \notin {"next", "skip", "endpoint"}
      BY <2>2
    <3> QED BY <1>8, <3>1, Zenon DEF Held
  <2>9. wanted' \in Nat /\ pc' \in {"count", "allocate", "next", "skip", "endpoint", "done"}
        /\ Len(interfaces') <= interfaces_count' /\ Len(endpoints') <= wanted'
    BY <1>1, <1>4, <1>9, <2>2, <2>6
  <2> QED BY ONLY <1>1, <1>4, <1>6, <1>8, <2>4, <2>6, <2>7, <2>8, <2>9, TreeKept
<1>11. CASE ~T!Fits(offset)
  <2>1. offset \in Chain \ T!Descriptors
    BY <1>1, <1>11, FitsIs
  <2>2. pc' = (IF interfaces_count = 0 THEN "done" ELSE "allocate") /\ offset' = 0 /\ interfaces_count' = interfaces_count
    BY <1>11 DEF T!count_tree
  <2>3. interfaces_count = T!Cardinality(Ifs)
    <3>1. T!Below(Ifs, offset) = Ifs
      BY <1>1, <1>7, <2>1, AllBelow
    <3> QED BY <1>2, <3>1
  <2>4. Phase(pc', offset', interfaces_count', interfaces', wanted', endpoints')
    BY <1>1, <1>2, <1>4, <2>2, <2>3 DEF Phase
  <2>5. Held(pc', interfaces', held', result', no_memory')
    <3>1. CASE interfaces_count = 0
      <4>1. IsFiniteSet(Ifs) /\ Cardinality(Ifs) = 0
        BY <1>1, <1>7, <2>3, <3>1, DescriptorSets, TreeCount
      <4>2. Ifs = {}
        BY <4>1, FS_EmptySet
      <4>3. Outcome(result', interfaces')
        BY <1>8, <4>2, Zenon DEF Outcome
      <4>4. pc' = "done"
        BY <2>2, <3>1
      <4> QED BY <1>8, <4>3, <4>4, Zenon DEF Held
    <3>2. CASE interfaces_count # 0
      <4>1. pc' # "done" /\ pc' \notin {"next", "skip", "endpoint"}
        BY <2>2, <3>2
      <4> QED BY <1>8, <4>1, Zenon DEF Held
    <3> QED BY <3>1, <3>2
  <2>6. wanted' \in Nat /\ interfaces_count' \in Nat /\ offset' \in Chain /\ pc' \in {"count", "allocate", "next", "skip", "endpoint", "done"}
        /\ Len(interfaces') <= interfaces_count' /\ Len(endpoints') <= wanted'
    BY <1>1, <1>4, <1>5, <1>9, <2>2
  <2> QED BY ONLY <1>1, <1>4, <1>6, <1>8, <2>4, <2>5, <2>6, TreeKept
<1> QED BY <1>10, <1>11

(* fill_interfaces returns, and get_device with it *)
LEMMA DoneKeeps ==
  ASSUME TreeInv, pc # "count", NEW ok \in BOOLEAN, T!Done(ok), tree' = tree, interfaces_count' = interfaces_count,
         furthest' \in 0 .. TreeLen, no_memory' \in BOOLEAN, no_memory' => ~ok, ~no_memory' => Outcome(ok, interfaces)
  PROVE  TreeInv'
<1>1. /\ tree \in Seq(Nat) /\ offset \in Chain /\ wanted \in Nat /\ interfaces_count \in Nat
      /\ Len(interfaces) <= interfaces_count /\ Len(endpoints) <= wanted
  BY Zenon DEF TreeInv, T!TypeOK
<1>2. pc' = "done" /\ result' = ok /\ held' = ok /\ offset' = offset /\ interfaces' = interfaces /\ wanted' = wanted /\ endpoints' = endpoints
  BY Zenon DEF T!Done
<1>3. Phase(pc', offset', interfaces_count', interfaces', wanted', endpoints')
  <2>1. interfaces_count = T!Cardinality(Ifs)
    BY DEF TreeInv, Phase
  <2> QED BY <1>2, <2>1 DEF Phase
<1>4. Held(pc', interfaces', held', result', no_memory')
  BY <1>2, Zenon DEF Held
<1>5. held' \in BOOLEAN /\ result' \in BOOLEAN
  BY <1>2, Zenon
<1>6. offset' \in Chain /\ wanted' \in Nat /\ interfaces_count' \in Nat /\ pc' \in {"count", "allocate", "next", "skip", "endpoint", "done"}
      /\ Len(interfaces') <= interfaces_count' /\ Len(endpoints') <= wanted'
  BY <1>1, <1>2
<1> QED BY ONLY tree' = tree, furthest' \in 0 .. TreeLen, no_memory' \in BOOLEAN, <1>1, <1>3, <1>4, <1>5, <1>6, TreeKept

(* the reader goes on, with the memory it has *)
LEMMA GoesOn ==
  ASSUME TreeInv, pc \in {"next", "skip", "endpoint"}, pc' \in {"next", "skip", "endpoint"}, T!Stay, tree' = tree,
         interfaces_count' = interfaces_count, no_memory' = no_memory, furthest' \in 0 .. TreeLen, offset' \in Chain, wanted' \in Nat,
         Len(interfaces') <= interfaces_count, Len(endpoints') <= wanted',
         Phase(pc', offset', interfaces_count, interfaces', wanted', endpoints')
  PROVE  TreeInv'
<1>1. /\ tree \in Seq(Nat) /\ interfaces_count \in Nat /\ no_memory \in BOOLEAN /\ held \in BOOLEAN /\ result \in BOOLEAN
  BY Zenon DEF TreeInv, T!TypeOK
<1>2. held' = held /\ result' = result
  BY Zenon DEF T!Stay
<1>3. Held(pc', interfaces', held', result', no_memory')
  <2>1. pc # "done" /\ pc' # "done"
    OBVIOUS
  <2>2. ~result /\ ~no_memory /\ held
    BY <1>1, <2>1, Zenon DEF TreeInv, Held
  <2> QED BY <1>2, <2>1, <2>2, Zenon DEF Held
<1>4. no_memory' \in BOOLEAN /\ held' \in BOOLEAN /\ result' \in BOOLEAN
  BY <1>1, <1>2, Zenon
<1>5. interfaces_count' \in Nat /\ Len(interfaces') <= interfaces_count'
      /\ Phase(pc', offset', interfaces_count', interfaces', wanted', endpoints')
  BY <1>1, Zenon
<1>6. pc' \in {"count", "allocate", "next", "skip", "endpoint", "done"}
  OBVIOUS
<1> QED
  BY ONLY tree' = tree, furthest' \in 0 .. TreeLen, offset' \in Chain, wanted' \in Nat, Len(endpoints') <= wanted',
          <1>1, <1>3, <1>4, <1>5, <1>6, TreeKept

(* get_device takes memory *)
LEMMA AllocateKeeps == ASSUME TreeInv, T!allocate PROVE TreeInv'
<1>1. /\ tree \in Seq(Nat) /\ furthest \in 0 .. TreeLen /\ offset \in Chain /\ wanted \in Nat /\ interfaces_count \in Nat
      /\ no_memory \in BOOLEAN /\ held \in BOOLEAN /\ result \in BOOLEAN /\ pc = "allocate"
  BY Zenon DEF TreeInv, T!TypeOK, T!allocate
<1>2. offset = 0 /\ interfaces_count = T!Cardinality(Ifs) /\ interfaces_count > 0 /\ interfaces = <<>> /\ endpoints = <<>>
  BY <1>1 DEF TreeInv, Phase
<1>3. ~result /\ ~no_memory /\ ~held
  <2>1. pc # "done" /\ pc \notin {"next", "skip", "endpoint"}
    BY <1>1
  <2> QED BY <1>1, <2>1, Zenon DEF TreeInv, Held
<1>4. /\ tree' = tree /\ interfaces' = interfaces /\ wanted' = wanted /\ endpoints' = endpoints /\ offset' = offset
      /\ interfaces_count' = interfaces_count /\ result' = result /\ furthest' = furthest
      /\ (pc' = "next" /\ held' = TRUE /\ no_memory' = no_memory) \/ (pc' = "done" /\ no_memory' = TRUE /\ held' = held)
  BY Zenon DEF T!allocate
<1>5. InterfacesRead(<<>>, 0)
  <2>1. \A d \in Ifs : d \in Nat
    BY <1>1, TreeTypes
  <2>2. T!Below(Ifs, 0) = {}
    BY <2>1 DEF T!Below
  <2>3. T!Cardinality(T!Below(Ifs, 0)) = 0
    BY <2>2, FS_EmptySet, TreeCount
  <2> QED BY <2>2, <2>3 DEF InterfacesRead
<1>6. pc' \in {"next", "done"}
  BY <1>4
<1>7. Phase(pc', offset', interfaces_count', interfaces', wanted', endpoints')
  BY <1>2, <1>4, <1>5, <1>6 DEF Phase
<1>8. Held(pc', interfaces', held', result', no_memory')
  <2>1. CASE pc' = "next" /\ held' = TRUE /\ no_memory' = no_memory
    <3>1. pc' # "done" /\ pc' \in {"next", "skip", "endpoint"}
      BY <2>1
    <3>2. ~result' /\ ~no_memory' /\ held'
      BY <1>3, <1>4, <2>1, Zenon
    <3> QED BY <3>1, <3>2, Zenon DEF Held
  <2>2. CASE pc' = "done" /\ no_memory' = TRUE /\ held' = held
    <3>1. ~result' /\ no_memory' /\ ~held'
      BY <1>3, <1>4, <2>2, Zenon
    <3> QED BY <2>2, <3>1, Zenon DEF Held
  <2> QED BY <1>4, <2>1, <2>2, Zenon
<1>9. held' \in BOOLEAN /\ result' \in BOOLEAN /\ no_memory' \in BOOLEAN
  BY <1>1, <1>4, Zenon
<1>10. offset' \in Chain /\ wanted' \in Nat /\ interfaces_count' \in Nat /\ furthest' \in 0 .. TreeLen
       /\ pc' \in {"count", "allocate", "next", "skip", "endpoint", "done"}
       /\ Len(interfaces') <= interfaces_count' /\ Len(endpoints') <= wanted'
  BY <1>1, <1>2, <1>4, <1>6
<1> QED BY ONLY <1>1, <1>4, <1>7, <1>8, <1>9, <1>10, TreeKept

(* what the loop over the interfaces knows *)
LEMMA AtNext ==
  ASSUME TreeInv, pc = "next"
  PROVE  /\ tree \in Seq(Nat) /\ furthest \in 0 .. TreeLen /\ TreeLen \in Nat /\ offset \in Chain /\ offset \in 0 .. TreeLen
         /\ InterfacesRead(interfaces, offset) /\ endpoints = <<>> /\ wanted \in Nat
         /\ interfaces_count = T!Cardinality(Ifs) /\ interfaces_count \in Nat /\ interfaces_count > 0
         /\ Len(interfaces) \in Nat /\ Len(interfaces) <= interfaces_count /\ ~no_memory /\ no_memory \in BOOLEAN
         /\ offset \notin T!Descriptors => Len(interfaces) = interfaces_count
<1>1. tree \in Seq(Nat) /\ furthest \in 0 .. TreeLen /\ offset \in Chain /\ wanted \in Nat /\ no_memory \in BOOLEAN /\ interfaces_count \in Nat
  BY Zenon DEF TreeInv
<1>2. InterfacesRead(interfaces, offset) /\ endpoints = <<>> /\ interfaces_count = T!Cardinality(Ifs) /\ interfaces_count > 0
  BY DEF TreeInv, Phase
<1>3. ~no_memory
  <2>1. pc # "done"
    OBVIOUS
  <2> QED BY <2>1, Zenon DEF TreeInv, Held
<1>4. Len(interfaces) \in Nat /\ Len(interfaces) <= interfaces_count
  BY <1>1, <1>2, ReadLength
<1>5. ASSUME offset \notin T!Descriptors PROVE Len(interfaces) = interfaces_count
  <2>1. Ifs \in SUBSET T!Descriptors /\ offset \in Chain \ T!Descriptors
    BY <1>1, <1>5, TreeTypes
  <2>2. T!Below(Ifs, offset) = Ifs
    BY <1>1, <2>1, AllBelow
  <2> QED BY <1>2, <2>2 DEF InterfacesRead
<1>6. TreeLen \in Nat /\ offset \in 0 .. TreeLen
  BY <1>1, ChainFacts
<1> QED BY <1>1, <1>2, <1>3, <1>4, <1>5, <1>6, Zenon

(* the loop over the interfaces ends *)
LEMMA EndKeeps == ASSUME DescriptorSize \in Nat, TreeInv, T!interfaces_end PROVE TreeInv'
<1>1. pc = "next" /\ tree' = tree /\ interfaces_count' = interfaces_count /\ no_memory' = no_memory
  BY Zenon DEF T!interfaces_end
<1>2. /\ tree \in Seq(Nat) /\ furthest \in 0 .. TreeLen /\ TreeLen \in Nat /\ offset \in Chain /\ offset \in 0 .. TreeLen
      /\ InterfacesRead(interfaces, offset) /\ interfaces_count = T!Cardinality(Ifs) /\ interfaces_count \in Nat /\ interfaces_count > 0
      /\ Len(interfaces) \in Nat /\ Len(interfaces) <= interfaces_count
      /\ offset \notin T!Descriptors => Len(interfaces) = interfaces_count
  BY <1>1, AtNext
<1>3. ~no_memory' /\ no_memory' \in BOOLEAN
  BY <1>1, AtNext, Zenon
<1>4. pc # "count"
  BY <1>1
<1>5. CASE /\ offset >= T!max_length \/ Len(interfaces) = interfaces_count
           /\ T!Done(Len(interfaces) = interfaces_count) /\ furthest' = furthest
  <2>1. Len(interfaces) = interfaces_count
    <3>1. CASE offset >= T!max_length
      <4>1. offset \notin T!Descriptors
        <5> SUFFICES ASSUME offset \in T!Descriptors PROVE FALSE
          OBVIOUS
        <5>1. T!At(offset) \in 2 .. TreeLen - offset
          BY <1>2, ChainFacts
        <5>2. offset >= TreeLen
          BY <3>1 DEF T!max_length, TreeLen
        <5> QED BY <1>2, <5>1, <5>2
      <4> QED BY <1>2, <4>1
    <3>2. CASE Len(interfaces) = interfaces_count
      BY <3>2
    <3> QED BY <1>5, <3>1, <3>2
  <2>2. (Len(interfaces) = interfaces_count) = TRUE
    BY <2>1, Zenon
  <2>3. T!Done(TRUE)
    BY <1>5, <2>2, Zenon
  <2>4. Outcome(TRUE, interfaces)
    <3>1. Len(interfaces) = T!Cardinality(Ifs) /\ Len(interfaces) > 0
      BY <1>2, <2>1
    <3> QED BY <1>2, <3>1, Used
  <2>5. furthest' \in 0 .. TreeLen
    BY <1>2, <1>5
  <2>6. TRUE \in BOOLEAN
    OBVIOUS
  <2> QED BY ONLY TreeInv, <1>1, <1>3, <1>4, <2>3, <2>4, <2>5, <2>6, DoneKeeps
<1>6. CASE /\ offset < T!max_length /\ Len(interfaces) < interfaces_count
           /\ ~T!Fits(offset) \/ (T!At(offset + 1) = T!Interface /\ T!At(offset) < DescriptorSize)
           /\ T!Done(FALSE) /\ T!Reading(T!Heading(offset))
  <2>1. offset \in T!Descriptors /\ T!Fits(offset)
    <3>1. offset \in T!Descriptors
      BY <1>2, <1>6
    <3> QED BY <1>2, <3>1, FitsIs
  <2>2. offset \in Ifs /\ T!At(offset) < DescriptorSize
    BY <1>6, <2>1 DEF Ifs, T!OfType
  <2>3. ~T!Complete(offset)
    <3>1. T!At(offset) \in Nat
      BY <1>2, TreeTypes
    <3> QED BY <2>2, <3>1 DEF T!Complete
  <2>4. Outcome(FALSE, interfaces)
    BY <2>2, <2>3, GivenUp
  <2>5. furthest' \in 0 .. TreeLen
    BY <1>2, <1>6, HeadingIn, Noted
  <2>6. FALSE \in BOOLEAN /\ T!Done(FALSE)
    BY <1>6
  <2> QED BY ONLY TreeInv, <1>1, <1>3, <1>4, <2>4, <2>5, <2>6, DoneKeeps
<1> QED BY <1>5, <1>6, Zenon DEF T!interfaces_end

(* the descriptor at x, which begins where the reader is, and the place after it *)
LEMMA PlaceFacts ==
  ASSUME tree \in Seq(Nat), NEW x \in T!Descriptors
  PROVE  /\ x \in Nat /\ TreeLen \in Nat /\ x \in 0 .. TreeLen /\ T!At(x) \in 2 .. TreeLen - x /\ x + T!At(x) \in 0 .. TreeLen /\ x + T!At(x) \in Chain
         /\ T!At(x + 1) \in Nat /\ T!At(x + 2) \in Nat
         /\ x \in Ifs <=> T!At(x + 1) = T!Interface
<1>1. TreeLen \in Nat /\ x + T!At(x) \in Chain /\ T!At(x) \in 2 .. TreeLen - x /\ x \in 0 .. TreeLen
  BY ChainFacts
<1>2. x \in Nat /\ x + 1 \in Nat /\ x + 2 \in Nat /\ x + T!At(x) \in 0 .. TreeLen
  BY <1>1
<1>3. T!At(x + 1) \in Nat /\ T!At(x + 2) \in Nat
  BY <1>2, TreeTypes
<1>4. x \in Ifs <=> T!At(x + 1) = T!Interface
  BY DEF Ifs, T!OfType
<1> QED BY <1>1, <1>2, <1>3, <1>4

(* one round of it *)
LEMMA NextKeeps == ASSUME DescriptorSize \in Nat, TreeInv, T!next_interface PROVE TreeInv'
<1> DEFINE found == T!At(offset + 1) = T!Interface
<1>1. /\ pc = "next" /\ tree' = tree /\ interfaces_count' = interfaces_count /\ Len(interfaces) < interfaces_count
      /\ T!Fits(offset) /\ (found => T!At(offset) >= DescriptorSize) /\ T!Reading(offset + IF found THEN DescriptorSize ELSE 2)
  BY Zenon DEF T!next_interface
<1>2. /\ tree \in Seq(Nat) /\ furthest \in 0 .. TreeLen /\ TreeLen \in Nat /\ offset \in Chain /\ offset \in 0 .. TreeLen /\ wanted \in Nat
      /\ InterfacesRead(interfaces, offset) /\ endpoints = <<>> /\ interfaces_count = T!Cardinality(Ifs)
      /\ interfaces_count \in Nat /\ interfaces_count > 0 /\ Len(interfaces) \in Nat
  BY <1>1, AtNext
<1>3. ~no_memory /\ no_memory \in BOOLEAN
  BY <1>1, AtNext, Zenon
<1>4. offset \in T!Descriptors
  BY <1>1, <1>2, FitsIs
<1>5. /\ offset \in Nat /\ T!At(offset) \in 2 .. TreeLen - offset /\ offset + T!At(offset) \in 0 .. TreeLen /\ offset + T!At(offset) \in Chain
      /\ T!At(offset + 2) \in Nat /\ (offset \in Ifs <=> found)
  BY <1>2, <1>4, PlaceFacts
<1> HIDE DEF found
<1>6. furthest' \in 0 .. TreeLen
  <2>1. offset + (IF found THEN DescriptorSize ELSE 2) \in 0 .. TreeLen
    BY <1>1, <1>2, <1>5
  <2> QED BY <1>1, <1>2, <2>1, Noted
<1>7. CASE /\ found /\ T!At(offset + 2) > 0 /\ pc' = "skip"
           /\ wanted' = T!At(offset + 2) /\ endpoints' = <<>> /\ T!Stay /\ UNCHANGED <<offset, interfaces, no_memory>>
  <2>1. Working(interfaces', wanted', offset)
    BY <1>1, <1>2, <1>5, <1>7 DEF Working
  <2>2. Skipping(offset, offset')
    <3>1. offset' = offset /\ \A d \in T!Descriptors : d \in Nat
      BY <1>2, <1>7, TreeTypes
    <3> QED BY <1>5, <3>1 DEF Skipping
  <2>3. Phase(pc', offset', interfaces_count, interfaces', wanted', endpoints')
    BY <1>2, <1>4, <1>5, <1>7, <2>1, <2>2 DEF Phase
  <2>4. pc \in {"next", "skip", "endpoint"} /\ pc' \in {"next", "skip", "endpoint"} /\ offset' \in Chain /\ wanted' \in Nat
        /\ Len(interfaces') <= interfaces_count /\ Len(endpoints') <= wanted' /\ no_memory' = no_memory /\ T!Stay
    BY <1>1, <1>2, <1>5, <1>7
  <2> QED BY ONLY TreeInv, <1>1, <1>6, <2>3, <2>4, GoesOn
<1>8. CASE found /\ T!At(offset + 2) > 0 /\ T!Done(FALSE) /\ no_memory' = TRUE
  <2>1. FALSE \in BOOLEAN /\ no_memory' \in BOOLEAN /\ (no_memory' => ~FALSE) /\ (~no_memory' => Outcome(FALSE, interfaces)) /\ T!Done(FALSE)
    BY <1>8, Zenon
  <2>2. pc # "count"
    BY <1>1
  <2> QED BY ONLY TreeInv, <1>1, <1>6, <2>1, <2>2, DoneKeeps
<1>9. CASE /\ ~(found /\ T!At(offset + 2) > 0)
           /\ interfaces' = IF found THEN Append(interfaces, <<>>) ELSE interfaces
           /\ offset' = offset + T!At(offset) /\ T!Stay /\ UNCHANGED <<pc, wanted, endpoints, no_memory>>
  <2>1. InterfacesRead(interfaces', offset')
    <3>1. CASE found
      BY <1>1, <1>2, <1>5, <1>9, <3>1, NoEndpoints
    <3>2. CASE ~found
      BY <1>2, <1>4, <1>5, <1>9, <3>2, PassedOver
    <3> QED BY <3>1, <3>2
  <2>2. Len(interfaces') <= interfaces_count
    BY <1>2, <2>1, ReadLength
  <2>3. Phase(pc', offset', interfaces_count, interfaces', wanted', endpoints')
    BY <1>1, <1>2, <1>9, <2>1 DEF Phase
  <2>4. pc \in {"next", "skip", "endpoint"} /\ pc' \in {"next", "skip", "endpoint"} /\ offset' \in Chain /\ wanted' \in Nat
        /\ Len(endpoints') <= wanted' /\ no_memory' = no_memory /\ T!Stay
    BY <1>1, <1>2, <1>5, <1>9
  <2> QED BY ONLY TreeInv, <1>1, <1>6, <2>2, <2>3, <2>4, GoesOn
<1> QED BY <1>7, <1>8, <1>9, Zenon DEF T!next_interface, found

(* what the reader of the endpoints knows of the interface and of the place after the descriptor *)
LEMMA AtEndpoint ==
  ASSUME TreeInv, pc \in {"skip", "endpoint"}
  PROVE  /\ tree \in Seq(Nat) /\ furthest \in 0 .. TreeLen /\ offset \in T!Descriptors /\ wanted \in Nat
         /\ interfaces_count = T!Cardinality(Ifs) /\ interfaces_count \in Nat /\ interfaces_count > 0
         /\ ~no_memory /\ no_memory \in BOOLEAN /\ Len(interfaces) <= interfaces_count
<1>1. tree \in Seq(Nat) /\ furthest \in 0 .. TreeLen /\ wanted \in Nat /\ no_memory \in BOOLEAN /\ interfaces_count \in Nat
      /\ Len(interfaces) <= interfaces_count
  BY Zenon DEF TreeInv, T!TypeOK
<1>2. interfaces_count = T!Cardinality(Ifs) /\ interfaces_count > 0 /\ offset \in T!Descriptors
  BY DEF TreeInv, Phase
<1>3. ~no_memory
  <2>1. pc # "done"
    OBVIOUS
  <2> QED BY <2>1, Zenon DEF TreeInv, Held
<1> QED BY <1>1, <1>2, <1>3, Zenon

(* skip_to_endpoint *)
LEMMA SkipKeeps == ASSUME DescriptorSize \in Nat, TreeInv, T!skip_to_endpoint PROVE TreeInv'
<1>1. PICK a : a = offset + T!At(offset)
  OBVIOUS
<1>2. /\ pc = "skip" /\ tree' = tree /\ interfaces_count' = interfaces_count /\ no_memory' = no_memory /\ T!Reading(T!Heading(a))
      /\ IF T!Fits(a) /\ T!At(a + 1) # T!Interface
         THEN /\ offset' = a /\ pc' = (IF T!At(a + 1) = T!Endpoint THEN "endpoint" ELSE "skip")
              /\ T!Stay /\ interfaces' = interfaces /\ wanted' = wanted /\ endpoints' = endpoints
         ELSE T!Done(FALSE)
  BY <1>1, Zenon DEF T!skip_to_endpoint
<1>3. pc \in {"skip", "endpoint"} /\ pc # "count"
  BY <1>2
<1>4. /\ tree \in Seq(Nat) /\ furthest \in 0 .. TreeLen /\ offset \in T!Descriptors /\ wanted \in Nat
      /\ interfaces_count = T!Cardinality(Ifs) /\ interfaces_count \in Nat /\ interfaces_count > 0 /\ Len(interfaces) <= interfaces_count
  BY <1>3, AtEndpoint
<1>5. ~no_memory /\ no_memory \in BOOLEAN
  BY <1>3, AtEndpoint, Zenon
<1>6. endpoints = <<>>
  BY <1>2 DEF TreeInv, Phase
<1>7. PICK o \in Ifs : Working(interfaces, wanted, o) /\ Skipping(o, offset)
  BY <1>2 DEF TreeInv, Phase
<1>8. /\ a \in Chain /\ a \in Nat
      /\ (a \in Ifs \/ a \notin T!Descriptors) => ~T!Complete(o)
      /\ a \in T!Descriptors \ Ifs /\ T!At(a + 1) # T!Endpoint => Skipping(o, a)
      /\ a \in T!Descriptors /\ T!At(a + 1) = T!Endpoint => Among(o, a) /\ EndpointsRead(<<>>, o, a)
  BY ONLY <1>1, <1>4, <1>7, Skipped
<1>9. TreeLen \in Nat /\ a \in 0 .. TreeLen
  BY <1>1, <1>4, PlaceFacts
<1>10. furthest' \in 0 .. TreeLen
  BY <1>2, <1>4, <1>9, HeadingIn, Noted
<1>11. CASE T!Fits(a) /\ T!At(a + 1) # T!Interface
  <2>1. a \in T!Descriptors
    BY <1>4, <1>8, <1>11, FitsIs
  <2>2. a \notin Ifs
    BY <1>4, <1>11, <2>1, PlaceFacts
  <2>3. offset' = a /\ pc' = (IF T!At(a + 1) = T!Endpoint THEN "endpoint" ELSE "skip") /\ interfaces' = interfaces
        /\ wanted' = wanted /\ endpoints' = <<>>
    BY <1>2, <1>6, <1>11
  <2>4. wanted > 0
    BY <1>7 DEF Working
  <2>5. Phase(pc', offset', interfaces_count, interfaces', wanted', endpoints')
    <3>1. CASE T!At(a + 1) = T!Endpoint
      BY <1>4, <1>7, <1>8, <2>1, <2>3, <2>4, <3>1 DEF Phase
    <3>2. CASE T!At(a + 1) # T!Endpoint
      BY <1>4, <1>7, <1>8, <2>1, <2>2, <2>3, <3>2 DEF Phase
    <3> QED BY <3>1, <3>2
  <2>6. pc \in {"next", "skip", "endpoint"} /\ pc' \in {"next", "skip", "endpoint"} /\ offset' \in Chain /\ wanted' \in Nat
        /\ Len(interfaces') <= interfaces_count /\ Len(endpoints') <= wanted'
    BY <1>2, <1>4, <1>8, <2>3
  <2>7. T!Stay
    BY <1>2, <1>11, Zenon
  <2> QED BY ONLY TreeInv, <1>2, <1>10, <2>5, <2>6, <2>7, GoesOn
<1>12. CASE ~(T!Fits(a) /\ T!At(a + 1) # T!Interface)
  <2>1. a \in Ifs \/ a \notin T!Descriptors
    <3>1. a \in T!Descriptors => T!Fits(a)
      BY <1>4, <1>8, FitsIs
    <3>2. a \in T!Descriptors /\ T!At(a + 1) = T!Interface => a \in Ifs
      BY <1>4, PlaceFacts
    <3> QED BY <1>12, <3>1, <3>2
  <2>2. Outcome(FALSE, interfaces)
    BY <1>8, <2>1, GivenUp
  <2>3. FALSE \in BOOLEAN /\ ~no_memory' /\ no_memory' \in BOOLEAN /\ T!Done(FALSE)
    BY <1>2, <1>5, <1>12, Zenon
  <2> QED BY ONLY TreeInv, <1>2, <1>3, <1>10, <2>2, <2>3, DoneKeeps
<1> QED BY <1>11, <1>12

(* what is read of an endpoint and of its companion is in the tree *)
LEMMA EndpointNoted ==
  ASSUME DescriptorSize \in Nat, tree \in Seq(Nat), furthest \in 0 .. TreeLen, offset \in T!Descriptors, T!read_endpoint
  PROVE  furthest' \in 0 .. TreeLen
<1>1. PICK a : a = offset + T!At(offset)
  OBVIOUS
<1>2. PICK n : n = IF T!At(offset + 1) # T!Endpoint THEN T!Heading(a)
                   ELSE IF T!At(offset) < DescriptorSize THEN offset + 2
                   ELSE IF T!HasCompanion(a) /\ T!CompanionFits(a) THEN a + DescriptorSize
                   ELSE IF offset + DescriptorSize > T!Heading(a) THEN offset + DescriptorSize ELSE T!Heading(a)
  OBVIOUS
<1>3. T!Reading(n)
  BY <1>1, <1>2, Zenon DEF T!read_endpoint
<1>4. TreeLen \in Nat /\ offset \in Nat /\ T!At(offset) \in 2 .. TreeLen - offset /\ a \in 0 .. TreeLen
  BY <1>1, PlaceFacts
<1>5. T!Heading(a) \in 0 .. TreeLen
  BY <1>4, HeadingIn
<1>6. T!At(a) \in Nat
  <2>1. a \in Nat
    BY <1>4
  <2> QED BY <2>1, TreeTypes
<1>7. T!CompanionFits(a) => a + DescriptorSize \in 0 .. TreeLen
  BY <1>4, <1>6 DEF T!CompanionFits, T!max_length, TreeLen
<1>8. offset + 2 \in 0 .. TreeLen /\ (~(T!At(offset) < DescriptorSize) => offset + DescriptorSize \in 0 .. TreeLen)
  BY <1>4
<1>9. n \in 0 .. TreeLen
  <2>1. CASE T!At(offset + 1) # T!Endpoint
    <3>1. n = T!Heading(a)
      BY <1>2, <2>1
    <3> QED BY <1>5, <3>1
  <2>2. CASE ~(T!At(offset + 1) # T!Endpoint) /\ T!At(offset) < DescriptorSize
    <3>1. n = offset + 2
      BY <1>2, <2>2
    <3> QED BY <1>8, <3>1
  <2>3. CASE ~(T!At(offset + 1) # T!Endpoint) /\ ~(T!At(offset) < DescriptorSize) /\ T!HasCompanion(a) /\ T!CompanionFits(a)
    <3>1. n = a + DescriptorSize
      BY <1>2, <2>3
    <3> QED BY <1>7, <2>3, <3>1
  <2>4. CASE ~(T!At(offset + 1) # T!Endpoint) /\ ~(T!At(offset) < DescriptorSize) /\ ~(T!HasCompanion(a) /\ T!CompanionFits(a))
    <3>1. n = IF offset + DescriptorSize > T!Heading(a) THEN offset + DescriptorSize ELSE T!Heading(a)
      BY <1>2, <2>4
    <3> QED BY <1>5, <1>8, <2>4, <3>1
  <2> QED BY <2>1, <2>2, <2>3, <2>4, Zenon
<1> QED BY <1>3, <1>4, <1>9, Noted

(* one round of the loop over the endpoints *)
LEMMA EndpointKeeps == ASSUME DescriptorSize \in Nat, TreeInv, T!read_endpoint PROVE TreeInv'
<1>1. PICK a : a = offset + T!At(offset)
  OBVIOUS
<1>2. PICK type : type = T!At(offset + 1)
  OBVIOUS
<1>3. PICK r : r = IF type = T!Endpoint THEN Append(endpoints, T!Read(offset)) ELSE endpoints
  OBVIOUS
<1> DEFINE Broken == \/ type = T!Interface
                     \/ type = T!Endpoint /\ (T!At(offset) < DescriptorSize \/ (T!HasCompanion(a) /\ ~T!CompanionFits(a)))
                     \/ Len(r) < wanted /\ ~T!Fits(a)
<1>4. /\ pc = "endpoint" /\ tree' = tree /\ interfaces_count' = interfaces_count /\ no_memory' = no_memory
      /\ IF Broken THEN T!Done(FALSE)
         ELSE /\ offset' = a /\ T!Stay /\ wanted' = wanted
              /\ IF Len(r) = wanted THEN pc' = "next" /\ interfaces' = Append(interfaces, r) /\ endpoints' = <<>>
                 ELSE endpoints' = r /\ pc' = pc /\ interfaces' = interfaces
  BY <1>1, <1>2, <1>3, Zenon DEF T!read_endpoint, T!Read
<1>5. pc \in {"skip", "endpoint"} /\ pc # "count"
  BY <1>4
<1>6. /\ tree \in Seq(Nat) /\ furthest \in 0 .. TreeLen /\ offset \in T!Descriptors /\ wanted \in Nat
      /\ interfaces_count = T!Cardinality(Ifs) /\ interfaces_count \in Nat /\ interfaces_count > 0 /\ Len(interfaces) <= interfaces_count
  BY <1>5, AtEndpoint
<1>7. ~no_memory /\ no_memory \in BOOLEAN
  BY <1>5, AtEndpoint, Zenon
<1>8. Len(endpoints) < wanted
  BY <1>4 DEF TreeInv, Phase
<1>9. PICK o \in Ifs : Working(interfaces, wanted, o) /\ Among(o, offset) /\ EndpointsRead(endpoints, o, offset)
  BY <1>4 DEF TreeInv, Phase
<1>10. furthest' \in 0 .. TreeLen
  BY <1>6, EndpointNoted
<1>11. /\ offset \in Nat /\ a \in 0 .. TreeLen /\ a \in Chain /\ TreeLen \in Nat /\ (offset \in Ifs <=> type = T!Interface)
       /\ T!At(offset) \in 2 .. TreeLen - offset
  BY <1>1, <1>2, <1>6, PlaceFacts
<1>12. o \in Nat /\ o < offset /\ o <= offset /\ a \in Nat /\ offset < a
  <2>1. o \in Nat /\ o < offset
    BY <1>6, <1>9, TreeTypes DEF Among
  <2> QED BY <1>1, <1>11, <2>1
<1>13. Sound(offset) <=> ~(T!At(offset) < DescriptorSize \/ (T!HasCompanion(a) /\ ~T!CompanionFits(a)))
  <2>1. T!At(offset) >= DescriptorSize <=> ~(T!At(offset) < DescriptorSize)
    BY <1>11
  <2> QED BY <1>1, <2>1, Zenon DEF Sound
<1>14. ASSUME type # T!Interface, type = T!Endpoint => Sound(offset)
       PROVE  EndpointsRead(r, o, a) /\ Among(o, a)
  <2>1. offset \in T!Descriptors \ Ifs
    BY <1>6, <1>11, <1>14
  <2>2. Among(o, a)
    BY <1>1, <1>6, <1>9, <1>12, <2>1, NextReading
  <2>3. CASE type = T!Endpoint
    <3>1. r = Append(endpoints, T!Read(offset)) /\ T!At(offset + 1) = T!Endpoint /\ Sound(offset)
      BY <1>2, <1>3, <1>14, <2>3
    <3>2. EndpointsRead(Append(endpoints, T!Read(offset)), o, offset + T!At(offset))
      BY <1>6, <1>9, <2>1, <3>1, OneEndpoint
    <3> QED BY <1>1, <2>2, <3>1, <3>2
  <2>4. CASE type # T!Endpoint
    <3>1. r = endpoints /\ T!At(offset + 1) # T!Endpoint
      BY <1>2, <1>3, <2>4
    <3>2. EndpointsRead(endpoints, o, offset + T!At(offset))
      BY <1>6, <1>9, <3>1, NoEndpoint
    <3> QED BY <1>1, <2>2, <3>1, <3>2
  <2> QED BY <2>3, <2>4
<1>15. CASE Broken
  <2>1. ~T!Complete(o)
    <3>1. CASE type = T!Interface
      <4>1. offset \in Chain /\ offset \in Ifs
        BY <1>6, <1>11, <3>1, ChainFacts
      <4> QED BY <1>6, <1>8, <1>9, <1>12, <4>1, EndpointsMissing
    <3>2. CASE type # T!Interface /\ type = T!Endpoint /\ ~Sound(offset)
      <4>1. offset \in T!Descriptors \ Ifs /\ T!At(offset + 1) = T!Endpoint
        BY <1>2, <1>6, <1>11, <3>2
      <4> QED BY <1>6, <1>8, <1>9, <3>2, <4>1, EndpointUnsound
    <3>3. CASE type # T!Interface /\ (type = T!Endpoint => Sound(offset)) /\ Len(r) < wanted /\ ~T!Fits(a)
      <4>1. EndpointsRead(r, o, a) /\ Among(o, a)
        BY <1>14, <3>3
      <4>2. a \notin T!Descriptors /\ o < a
        BY <1>6, <1>11, <1>12, <3>3, FitsIs
      <4> QED BY <1>6, <1>9, <1>11, <3>3, <4>1, <4>2, EndpointsMissing
    <3> QED BY <1>13, <1>15, <3>1, <3>2, <3>3, Zenon
  <2>2. Outcome(FALSE, interfaces)
    BY <2>1, GivenUp
  <2>3. FALSE \in BOOLEAN /\ ~no_memory' /\ no_memory' \in BOOLEAN /\ T!Done(FALSE)
    BY <1>4, <1>7, <1>15, Zenon
  <2> HIDE DEF Broken
  <2> QED BY ONLY TreeInv, <1>4, <1>5, <1>10, <2>2, <2>3, DoneKeeps
<1>16. CASE ~Broken
  <2>1. EndpointsRead(r, o, a) /\ Among(o, a)
    <3>1. type # T!Interface /\ (type = T!Endpoint => Sound(offset))
      BY <1>13, <1>16, Zenon
    <3> QED BY <1>14, <3>1
  <2>2. offset' = a /\ T!Stay /\ wanted' = wanted
        /\ IF Len(r) = wanted THEN pc' = "next" /\ interfaces' = Append(interfaces, r) /\ endpoints' = <<>>
           ELSE endpoints' = r /\ pc' = pc /\ interfaces' = interfaces
    BY <1>4, <1>16, Zenon
  <2>3. pc \in {"next", "skip", "endpoint"} /\ offset' \in Chain /\ wanted' \in Nat /\ no_memory' = no_memory
    BY <1>4, <1>6, <1>11, <2>2
  <2>4. Len(r) \in Nat /\ (Len(r) < wanted \/ Len(r) = wanted)
    <3>1. endpoints \in Seq(EndpointSet) /\ r \in Seq(EndpointSet)
      BY <1>9, <2>1 DEF EndpointsRead
    <3>2. Len(endpoints) \in Nat /\ Len(r) \in Nat
      BY <3>1
    <3>3. Len(r) = Len(endpoints) + 1 \/ Len(r) = Len(endpoints)
      <4>1. CASE type = T!Endpoint
        BY <1>3, <3>1, <4>1
      <4>2. CASE type # T!Endpoint
        BY <1>3, <4>2
      <4> QED BY <4>1, <4>2
    <3> QED BY <1>6, <1>8, <3>2, <3>3
  <2>5. ~(Len(r) < wanted /\ ~T!Fits(a))
    BY <1>16, Zenon
  <2> HIDE DEF Broken
  <2>6. CASE Len(r) = wanted
    <3>1. pc' = "next" /\ interfaces' = Append(interfaces, r) /\ endpoints' = <<>>
      BY <2>2, <2>6
    <3>2. T!Complete(o) /\ r = T!EndpointsOf(o)
      BY <1>6, <1>9, <1>12, <2>1, <2>6, LastEndpoint
    <3>3. InterfacesRead(interfaces, o) /\ T!EndpointsOf(o) \in Seq(EndpointSet)
      BY <1>9, <2>1, <3>2 DEF Working, EndpointsRead
    <3>4. InterfacesRead(Append(interfaces, T!EndpointsOf(o)), a)
      BY ONLY <1>6, o \in Ifs, <3>3, <3>2, <1>12, <2>1, OneMore
    <3>5. InterfacesRead(interfaces', offset')
      BY <2>2, <3>1, <3>2, <3>4
    <3>6. Phase(pc', offset', interfaces_count, interfaces', wanted', endpoints')
      BY <1>6, <3>1, <3>5 DEF Phase
    <3>7. Len(interfaces') <= interfaces_count /\ Len(endpoints') <= wanted' /\ pc' \in {"next", "skip", "endpoint"}
      <4>1. Len(interfaces') <= interfaces_count
        BY <1>6, <3>5, ReadLength
      <4>2. Len(endpoints') = 0 /\ wanted' = wanted
        BY <2>2, <3>1
      <4> QED BY <1>6, <3>1, <4>1, <4>2
    <3> QED BY ONLY TreeInv, <1>4, <1>10, <2>2, <2>3, <3>6, <3>7, GoesOn
  <2>7. CASE Len(r) < wanted
    <3>1. pc' = "endpoint" /\ interfaces' = interfaces /\ endpoints' = r
      BY <1>4, <1>6, <2>2, <2>4, <2>7
    <3>2. a \in T!Descriptors
      BY <1>6, <1>11, <2>5, <2>7, FitsIs
    <3>3. Phase(pc', offset', interfaces_count, interfaces', wanted', endpoints')
      BY <1>6, <1>9, <2>1, <2>2, <2>7, <3>1, <3>2 DEF Phase
    <3>4. Len(interfaces') <= interfaces_count /\ Len(endpoints') <= wanted' /\ pc' \in {"next", "skip", "endpoint"}
      BY <1>6, <2>2, <2>4, <2>7, <3>1
    <3> QED BY ONLY TreeInv, <1>4, <1>10, <2>2, <2>3, <3>3, <3>4, GoesOn
  <2> QED BY <2>4, <2>6, <2>7
<1> QED BY <1>15, <1>16

(* Every step keeps it. *)
LEMMA TreeSteps == DescriptorSize \in Nat /\ TreeInv /\ [T!Next]_(T!vars) => TreeInv'
<1> SUFFICES ASSUME DescriptorSize \in Nat, TreeInv, [T!Next]_(T!vars) PROVE TreeInv'
  OBVIOUS
<1>1. CASE T!Next
  BY <1>1, CountKeeps, AllocateKeeps, EndKeeps, NextKeeps, SkipKeeps, EndpointKeeps, Zenon DEF T!Next
<1>2. CASE UNCHANGED T!vars
  <2>1. /\ tree' = tree /\ pc' = pc /\ offset' = offset /\ interfaces_count' = interfaces_count /\ interfaces' = interfaces
        /\ wanted' = wanted /\ endpoints' = endpoints /\ held' = held /\ result' = result /\ no_memory' = no_memory
        /\ furthest' = furthest
    BY <1>2 DEF T!vars
  <2>2. /\ tree \in Seq(Nat) /\ furthest' \in 0 .. TreeLen /\ offset' \in Chain /\ wanted' \in Nat /\ interfaces_count' \in Nat
        /\ no_memory' \in BOOLEAN /\ pc' \in {"count", "allocate", "next", "skip", "endpoint", "done"}
        /\ Len(interfaces') <= interfaces_count' /\ Len(endpoints') <= wanted' /\ held' \in BOOLEAN /\ result' \in BOOLEAN
        /\ Phase(pc', offset', interfaces_count', interfaces', wanted', endpoints')
        /\ Held(pc', interfaces', held', result', no_memory')
    BY <2>1, Zenon DEF TreeInv, T!TypeOK
  <2> QED BY ONLY <2>1, <2>2, TreeKept
<1> QED BY <1>1, <1>2

(* The invariant says what was to be shown. *)
LEMMA TreeIsRead == TreeInv => T!TreeRead
<1> SUFFICES ASSUME TreeInv PROVE T!TreeRead
  OBVIOUS
<1>1. tree \in Seq(Nat) /\ furthest \in 0 .. TreeLen /\ held \in BOOLEAN /\ result \in BOOLEAN /\ no_memory \in BOOLEAN
  BY Zenon DEF TreeInv, T!TypeOK
<1>2. furthest <= T!max_length
  BY <1>1 DEF T!max_length, TreeLen
<1>3. ASSUME pc = "done"
      PROVE  /\ held = result
             /\ ~no_memory => (result <=> T!OfType(T!Interface) # {} /\ \A o \in T!OfType(T!Interface) : T!Complete(o))
             /\ result => interfaces = [n \in 1 .. T!Cardinality(T!OfType(T!Interface)) |-> T!EndpointsOf(T!InOrder(T!OfType(T!Interface))[n])]
  <2>1. (held <=> result) /\ (no_memory => ~result) /\ (~no_memory => Outcome(result, interfaces))
    BY <1>3, Zenon DEF TreeInv, Held
  <2>2. held = result
    <3>1. CASE result
      <4>1. held = TRUE /\ result = TRUE
        BY <1>1, <2>1, <3>1, Zenon
      <4> QED BY <4>1, Zenon
    <3>2. CASE ~result
      <4>1. held = FALSE /\ result = FALSE
        BY <1>1, <2>1, <3>2, Zenon
      <4> QED BY <4>1, Zenon
    <3> QED BY <3>1, <3>2
  <2> QED BY <2>1, <2>2, Zenon DEF Outcome, Ifs
<1> QED BY <1>2, <1>3, Zenon DEF T!TreeRead

-----------------------------------------------------------------------------
CONSTANTS Maps, Images, Clusters, None
VARIABLES path, e820, efi_map, image, cluster_size, i, region, kernelstart, addr, copied, headers, ram

B == INSTANCE Loader

(* The loaders.  What the segments take is a recursive function of their number; what is true of *)
(* each value is proved by looking at the least exception.                                       *)

Entries == [base : Nat, length : Nat, usable : BOOLEAN]
Headers == [load : BOOLEAN, offset : Nat, vaddr : Nat, filesz : Nat, memsz : Nat]
Regions == [start : Nat, pages : Nat, usable : BOOLEAN]

(* rounding up to whole pages *)
LEMMA Rounded ==
  ASSUME NEW x \in Nat
  PROVE  /\ B!Pages(x) \in Nat /\ B!RoundUp(x) = B!Pages(x) * 4 /\ B!RoundUp(x) \in Nat
         /\ B!RoundUp(x) >= x /\ B!RoundUp(x) < x + 4 /\ B!RoundUp(x) % 4 = 0
         /\ \A y \in Nat : y % 4 = 0 => B!RoundUp(y + x) = y + B!RoundUp(x)
         /\ x % 4 = 0 => B!RoundUp(x) = x
  BY DEF B!Pages, B!RoundUp, B!PageSize

(* the pages of some bytes hold them *)
LEMMA PagesHold == ASSUME NEW x \in Nat PROVE B!Pages(x) \in Nat /\ B!Pages(x) * 4 >= x
  BY DEF B!Pages, B!PageSize

(* whole pages and whole pages are whole pages *)
LEMMA FoursAdd ==
  ASSUME NEW x \in Nat, x % 4 = 0, NEW y \in Nat, y % 4 = 0
  PROVE  (x + y) % 4 = 0 /\ x + y \in Nat
  OBVIOUS

(* what the segments take up to one of them, given what those before it take *)
Grown(n, z) == IF image[n].load THEN B!RoundUp(z + image[n].memsz) ELSE z

(* one more segment *)
LEMMA GrownIs ==
  ASSUME image \in Seq(Headers), NEW n \in 1 .. Len(image), NEW z \in Nat, z % 4 = 0
  PROVE  /\ Grown(n, z) \in Nat /\ Grown(n, z) % 4 = 0 /\ Grown(n, z) >= z
         /\ image[n].load => Grown(n, z) = z + B!RoundUp(image[n].memsz) /\ Grown(n, z) >= z + image[n].memsz
         /\ ~image[n].load => Grown(n, z) = z
<1>0. image[n] \in Headers
  OBVIOUS
<1>1. image[n].memsz \in Nat
  BY <1>0 DEF Headers
<1>2. PICK q \in Nat : q = image[n].memsz
  BY <1>1
<1>3. B!RoundUp(z + q) = z + B!RoundUp(q) /\ B!RoundUp(q) \in Nat /\ B!RoundUp(q) >= q /\ B!RoundUp(q) % 4 = 0
  BY Rounded
<1>4. PICK r \in Nat : r = B!RoundUp(q) /\ r >= q /\ r % 4 = 0
  BY <1>3
<1>5. (z + r) % 4 = 0
  BY <1>4
<1>6. CASE image[n].load
  <2>1. Grown(n, z) = z + r
    BY <1>2, <1>3, <1>4, <1>6 DEF Grown
  <2> QED BY <1>2, <1>4, <1>5, <1>6, <2>1
<1>7. CASE ~image[n].load
  BY <1>7 DEF Grown
<1> QED BY <1>6, <1>7

(* The sizes exist. *)
LEMMA SizesExist ==
  ASSUME image \in Seq(Headers)
  PROVE  \E g : g = [k \in 0 .. Len(image) |-> IF k = 0 THEN 0 ELSE Grown(k, g[k - 1])]
<1>0. PICK L \in Nat : L = Len(image)
  OBVIOUS
<1> DEFINE Fours == {y \in Nat : y % 4 = 0}
           Sums(n, g) == g \in [0 .. n -> Fours] /\ g[0] = 0 /\ \A k \in 1 .. n : g[k] = Grown(k, g[k - 1])
           Bad == {n \in 0 .. L : ~ \E g : Sums(n, g)}
<1>1. 0 \notin Bad
  <2>1. Sums(0, [k \in 0 .. 0 |-> 0])
    BY SMT
  <2> QED BY <2>1, Zenon
<1>2. ASSUME NEW m \in 1 .. L, m - 1 \notin Bad PROVE m \notin Bad
  <2>1. m - 1 \in 0 .. L /\ m \in Nat /\ m > 0
    BY SMT
  <2>2. PICK g : Sums(m - 1, g)
    BY <2>1, <1>2, Zenon
  <2>3. PICK z \in Fours : z = Grown(m, g[m - 1])
    <3>1. PICK y \in Nat : y = g[m - 1] /\ y % 4 = 0
      BY <2>1, <2>2
    <3>2. Grown(m, y) \in Nat /\ Grown(m, y) % 4 = 0
      BY <1>0, <3>1, GrownIs
    <3> QED BY <3>1, <3>2
  <2>4. PICK f : f = [k \in 0 .. m |-> IF k = m THEN z ELSE g[k]]
    OBVIOUS
  <2> HIDE DEF Fours
  <2>5. f[m] = z /\ \A k \in 0 .. m - 1 : f[k] = g[k]
    BY <2>1, <2>4
  <2>6. f \in [0 .. m -> Fours] /\ f[0] = 0
    BY <2>1, <2>2, <2>4
  <2>7. ASSUME NEW k \in 1 .. m PROVE f[k] = Grown(k, f[k - 1])
    <3>1. k \in 0 .. m /\ k - 1 \in 0 .. m - 1 /\ f[k - 1] = g[k - 1]
      BY <2>1, <2>5
    <3>2. CASE k = m
      BY <2>3, <2>5, <3>1, <3>2
    <3>3. CASE k # m
      BY <2>1, <2>2, <2>5, <3>1, <3>3
    <3> QED BY <3>2, <3>3
  <2>8. Sums(m, f)
    BY <2>6, <2>7, Zenon
  <2> QED BY <2>8, Zenon
<1>3. L \in 0 .. L /\ Bad \in SUBSET (0 .. L)
  BY SMT
<1>4. Bad = {}
  <2> HIDE DEF Bad
  <2> QED BY <1>1, <1>2, <1>3, NoException, Zenon
<1>5. PICK g : Sums(L, g)
  BY <1>3, <1>4, Zenon
<1>6. g = [k \in 0 .. L |-> IF k = 0 THEN 0 ELSE Grown(k, g[k - 1])]
  <2> HIDE DEF Fours
  <2> QED BY <1>5, SMT
<1> QED BY <1>0, <1>6, Zenon

(* What the segments take, one at a time. *)
LEMMA SizesStep ==
  ASSUME image \in Seq(Headers)
  PROVE  B!sizes[0] = 0 /\ \A k \in 1 .. Len(image) : B!sizes[k] = Grown(k, B!sizes[k - 1])
<1>0. PICK L \in Nat : L = Len(image)
  OBVIOUS
<1>1. B!sizes = CHOOSE g : g = [k \in 0 .. Len(image) |-> IF k = 0 THEN 0 ELSE Grown(k, g[k - 1])]
  BY Zenon DEF B!sizes, Grown
<1>2. B!sizes = [k \in 0 .. L |-> IF k = 0 THEN 0 ELSE Grown(k, B!sizes[k - 1])]
  BY <1>0, <1>1, SizesExist, Zenon
<1> QED BY <1>0, <1>2, SMT

(* whole pages, and more with every segment *)
LEMMA SizesRise ==
  ASSUME image \in Seq(Headers)
  PROVE  /\ \A n \in 0 .. Len(image) : B!sizes[n] \in Nat /\ B!sizes[n] % 4 = 0
         /\ \A n \in 0 .. Len(image) : \A m \in 0 .. n : B!sizes[m] <= B!sizes[n]
<1>0. PICK L \in Nat : L = Len(image)
  OBVIOUS
<1>1. B!sizes[0] = 0 /\ \A k \in 1 .. L : B!sizes[k] = Grown(k, B!sizes[k - 1])
  BY <1>0, SizesStep
<1>2. \A n \in 0 .. L : B!sizes[n] \in Nat /\ B!sizes[n] % 4 = 0
  <2> DEFINE Bad == {n \in 0 .. L : ~(B!sizes[n] \in Nat /\ B!sizes[n] % 4 = 0)}
  <2>1. 0 \notin Bad
    BY <1>1
  <2>2. ASSUME NEW m \in 1 .. L, m - 1 \notin Bad PROVE m \notin Bad
    <3>1. m - 1 \in 0 .. L /\ B!sizes[m] = Grown(m, B!sizes[m - 1])
      BY <1>1
    <3>2. PICK y \in Nat : y = B!sizes[m - 1] /\ y % 4 = 0
      BY <2>2, <3>1
    <3>3. Grown(m, y) \in Nat /\ Grown(m, y) % 4 = 0
      BY <1>0, <3>2, GrownIs
    <3> QED BY <3>1, <3>2, <3>3
  <2>3. Bad \in SUBSET (0 .. L)
    OBVIOUS
  <2>4. Bad = {}
    <3> HIDE DEF Bad
    <3> QED BY <2>1, <2>2, <2>3, NoException, Zenon
  <2> QED BY <2>4
<1>3. \A n \in 0 .. L : \A m \in 0 .. n : B!sizes[m] <= B!sizes[n]
  <2> DEFINE Bad == {n \in 0 .. L : \E m \in 0 .. n : ~(B!sizes[m] <= B!sizes[n])}
  <2>1. 0 \notin Bad
    BY <1>1
  <2>2. ASSUME NEW m \in 1 .. L, m - 1 \notin Bad PROVE m \notin Bad
    <3>1. m - 1 \in 0 .. L /\ m \in 0 .. L /\ B!sizes[m] = Grown(m, B!sizes[m - 1])
      BY <1>1
    <3>2. PICK y \in Nat : y = B!sizes[m - 1] /\ y % 4 = 0
      BY <1>2, <3>1
    <3>3. Grown(m, y) \in Nat /\ Grown(m, y) >= y
      BY <1>0, <3>2, GrownIs
    <3>4. ASSUME NEW k \in 0 .. m PROVE B!sizes[k] <= B!sizes[m]
      <4>1. CASE k = m
        BY <4>1, <3>1, <3>2, <3>3
      <4>2. CASE k # m
        <5>1. k \in 0 .. m - 1 /\ k \in 0 .. L
          BY <4>2
        <5>2. B!sizes[k] <= B!sizes[m - 1] /\ B!sizes[k] \in Nat
          BY <1>2, <2>2, <3>1, <5>1
        <5> QED BY <3>1, <3>2, <3>3, <5>2
      <4> QED BY <4>1, <4>2
    <3> QED BY <3>4, Zenon
  <2>3. Bad \in SUBSET (0 .. L)
    OBVIOUS
  <2>4. Bad = {}
    <3> HIDE DEF Bad
    <3> QED BY <2>1, <2>2, <2>3, NoException, Zenon
  <2> QED BY <2>4, Zenon
<1> QED BY <1>0, <1>2, <1>3


(* what link.ld says of the headers at hand *)
HeadersLinked ==
  /\ image \in Seq(Headers) /\ Len(image) >= 1 /\ image[1].load
  /\ \A n \in DOMAIN image : image[n].load => image[n].vaddr % 4 = 0 /\ image[n].filesz <= image[n].memsz
  /\ \A n \in DOMAIN image : \A m \in 1 .. n - 1 :
       (image[m].load /\ image[n].load /\ \A k \in m + 1 .. n - 1 : ~image[k].load)
         => image[n].vaddr = B!RoundUp(image[m].vaddr + image[m].memsz)

(* the assumption, for one image *)
LEMMA LinkedIs == ASSUME B!Linked, image \in Images PROVE HeadersLinked
  BY Zenon DEF B!Linked, HeadersLinked, Headers, B!PageSize

(* the fields of a header *)
LEMMA HeaderFields ==
  ASSUME image \in Seq(Headers), NEW n \in 1 .. Len(image)
  PROVE  /\ image[n].load \in BOOLEAN /\ image[n].offset \in Nat /\ image[n].vaddr \in Nat
         /\ image[n].filesz \in Nat /\ image[n].memsz \in Nat
<1>1. image[n] \in Headers
  OBVIOUS
<1> QED BY <1>1 DEF Headers

(* A segment has the place that the sizes of those before it give. *)
LEMMA Offsets ==
  ASSUME HeadersLinked, NEW n \in 1 .. Len(image), image[n].load
  PROVE  image[n].vaddr - image[1].vaddr = B!sizes[n - 1]
<1>0. PICK L \in Nat : L = Len(image) /\ L >= 1
  BY DEF HeadersLinked
<1>1. image \in Seq(Headers) /\ image[1].load /\ DOMAIN image = 1 .. L
  BY <1>0 DEF HeadersLinked
<1>2. PICK v \in Nat : v = image[1].vaddr /\ v % 4 = 0
  <2>1. 1 \in 1 .. Len(image) /\ 1 \in DOMAIN image
    BY <1>0, <1>1
  <2>2. image[1].vaddr \in Nat
    BY <1>1, <2>1, HeaderFields
  <2> QED BY <1>1, <2>1, <2>2 DEF HeadersLinked
<1> DEFINE Last(k, m) == /\ m \in 1 .. k /\ image[m].load /\ (\A l \in m + 1 .. k : ~image[l].load)
                         /\ B!RoundUp(image[m].vaddr + image[m].memsz) = v + B!sizes[k]
           Bad == {k \in 0 .. L : k >= 1 /\ ~ \E m \in 1 .. k : Last(k, m)}
<1>3. 0 \notin Bad
  OBVIOUS
<1>4. ASSUME NEW k \in 1 .. L, k > 1, image[k].load, NEW m \in 1 .. k - 1, Last(k - 1, m)
      PROVE  image[k].vaddr = v + B!sizes[k - 1]
  <2>1. k \in DOMAIN image /\ image[m].load /\ (\A l \in m + 1 .. k - 1 : ~image[l].load)
        /\ B!RoundUp(image[m].vaddr + image[m].memsz) = v + B!sizes[k - 1]
    BY <1>1, <1>4, Zenon
  <2>2. image[k].vaddr = B!RoundUp(image[m].vaddr + image[m].memsz)
    BY <1>4, <2>1, Zenon DEF HeadersLinked
  <2> QED BY <2>1, <2>2
<1>5. ASSUME NEW k \in 1 .. L, image[k].load, image[k].vaddr = v + B!sizes[k - 1] PROVE Last(k, k)
  <2>1. k \in 1 .. Len(image) /\ k - 1 \in 0 .. Len(image) /\ k \in Nat
    BY <1>0
  <2>2. PICK z \in Nat, q \in Nat : z = B!sizes[k - 1] /\ z % 4 = 0 /\ q = image[k].memsz
    BY <1>1, <2>1, SizesRise, HeaderFields
  <2>3. B!sizes[k] = Grown(k, z)
    BY <1>1, <2>1, <2>2, SizesStep
  <2>4. B!sizes[k] = z + B!RoundUp(q)
    <3>1. z \in Nat /\ z % 4 = 0 /\ image[k].load
      BY <1>5, <2>2
    <3>2. Grown(k, z) = z + B!RoundUp(image[k].memsz)
      BY ONLY <1>1, <2>1, <3>1, GrownIs
    <3> QED BY <2>2, <2>3, <3>2
  <2>5. (v + z) % 4 = 0 /\ v + z \in Nat
    BY <1>2, <2>2, FoursAdd
  <2>6. B!RoundUp((v + z) + q) = (v + z) + B!RoundUp(q) /\ B!RoundUp(q) \in Nat
    BY <2>5, Rounded
  <2>7. B!RoundUp(image[k].vaddr + image[k].memsz) = v + B!sizes[k]
    BY <1>5, <2>2, <2>4, <2>6
  <2>8. k \in 1 .. k /\ \A l \in k + 1 .. k : ~image[l].load
    BY <2>1
  <2> QED BY <1>5, <2>7, <2>8
<1>6. ASSUME NEW k \in 1 .. L, k - 1 \notin Bad PROVE k \notin Bad
  <2>0. k - 1 \in 0 .. L /\ k \in Nat /\ k >= 1 /\ k \in 1 .. Len(image)
    BY <1>0
  <2>1. CASE k = 1
    <3>1. B!sizes[k - 1] = 0
      BY <1>1, <2>1, SizesStep
    <3>2. Last(k, k)
      BY <1>1, <1>2, <1>5, <2>1, <3>1
    <3> QED BY <2>0, <3>2
  <2>2. CASE k > 1
    <3>1. PICK m \in 1 .. k - 1 : Last(k - 1, m)
      BY <1>6, <2>0, <2>2
    <3>2. CASE image[k].load
      <4>1. image[k].vaddr = v + B!sizes[k - 1]
        BY <1>4, <2>2, <3>1, <3>2
      <4>2. Last(k, k)
        BY <1>5, <3>2, <4>1
      <4> QED BY <2>0, <4>2
    <3>3. CASE ~image[k].load
      <4>1. PICK z \in Nat : z = B!sizes[k - 1] /\ z % 4 = 0
        BY <1>0, <1>1, <2>0, SizesRise
      <4>2. B!sizes[k] = B!sizes[k - 1]
        BY <1>1, <2>0, <3>3, <4>1, SizesStep, GrownIs
      <4>3. m \in 1 .. k /\ \A l \in m + 1 .. k : ~image[l].load
        <5>1. ASSUME NEW l \in m + 1 .. k PROVE ~image[l].load
          BY <2>0, <3>1, <3>3
        <5> QED BY <2>0, <5>1
      <4>4. Last(k, m)
        BY <3>1, <4>2, <4>3
      <4> QED BY <4>3, <4>4
    <3> QED BY <3>2, <3>3
  <2> QED BY <2>0, <2>1, <2>2
<1>7. Bad \in SUBSET (0 .. L)
  OBVIOUS
<1>8. Bad = {}
  <2> HIDE DEF Bad
  <2> QED BY <1>3, <1>6, <1>7, NoException, Zenon
<1>9. B!sizes[n - 1] \in Nat /\ image[n].vaddr \in Nat /\ n \in 1 .. L /\ n - 1 \in 0 .. L
  <2>1. n \in 1 .. L /\ n - 1 \in 0 .. L /\ n - 1 \in 0 .. Len(image)
    BY <1>0
  <2>2. image[n].vaddr \in Nat
    BY <1>1, HeaderFields
  <2>3. B!sizes[n - 1] \in Nat
    BY <1>1, <2>1, SizesRise, Zenon
  <2> QED BY <2>1, <2>2, <2>3
<1>10. CASE n = 1
  BY <1>1, <1>2, <1>10, SizesStep
<1>11. CASE n # 1
  <2>1. n - 1 \notin Bad /\ n > 1
    <3>1. n > 1
      BY <1>9, <1>11
    <3> HIDE DEF Bad
    <3> QED BY <1>8, <3>1
  <2>2. PICK m \in 1 .. n - 1 : Last(n - 1, m)
    BY <1>9, <2>1
  <2>3. image[n].vaddr = v + B!sizes[n - 1]
    BY <1>4, <1>9, <2>1, <2>2
  <2> QED BY <1>2, <1>9, <2>3
<1> QED BY <1>10, <1>11


(* The memory map for the kernel.  A region of usable memory lies in an entry of the firmware's map, *)
(* and on the BIOS path the regions have all whole usable pages of the entries that were converted.  *)
Backed(r) ==
  \E m \in DOMAIN e820 : e820[m].usable /\ e820[m].base <= r.start * 4 /\ (r.start + r.pages) * 4 <= e820[m].base + e820[m].length
Gives(e, p) == e.usable /\ e.base + e.length < 80 /\ B!Page(p) \subseteq e.base .. e.base + e.length - 1
Covers(r, p) == r.usable /\ p \in r.start .. r.start + r.pages - 1
Converted(k) == \A p \in 0 .. 19 : B!InMap(p) <=> \E m \in DOMAIN e820 : m < k /\ Gives(e820[m], p)
MapInv ==
  /\ e820 \in Seq(Entries) /\ \A m \in DOMAIN e820 : e820[m].base + e820[m].length <= 80
  /\ efi_map \in Seq(Regions)
  /\ \A n \in DOMAIN efi_map : efi_map[n].start + efi_map[n].pages <= 20 /\ (efi_map[n].usable => Backed(efi_map[n]))
  /\ path = "bios" => Converted(IF pc = "convert" THEN i ELSE Len(e820) + 1)
  /\ pc = "convert" => path = "bios" /\ i \in 1 .. Len(e820) + 1

(* the pages of an entry *)
NewRegion(e) == [start |-> B!first_page(e), pages |-> B!end_page(e) - B!first_page(e), usable |-> e.usable]

(* The pages an entry is converted to are those it has whole, if it is usable. *)
LEMMA EntryPages ==
  ASSUME NEW e \in Entries
  PROVE  /\ ~B!Skipped(e) => /\ NewRegion(e) \in Regions /\ NewRegion(e).start + NewRegion(e).pages <= 20
                             /\ e.usable => e.base <= NewRegion(e).start * 4
                                            /\ (NewRegion(e).start + NewRegion(e).pages) * 4 <= e.base + e.length
         /\ \A p \in 0 .. 19 : Gives(e, p) <=> ~B!Skipped(e) /\ Covers(NewRegion(e), p)
<1>1. PICK x \in Nat, l \in Nat, u \in BOOLEAN : x = e.base /\ l = e.length /\ u = e.usable
  BY DEF Entries
<1>2. PICK f, g : f = B!first_page(e) /\ g = B!end_page(e)
  OBVIOUS
<1>3. f \in Nat /\ g \in Nat
  BY <1>1, <1>2 DEF B!first_page, B!end_page, B!Pages, B!PageSize
<1>4. B!Skipped(e) <=> (l = 0 \/ l > 79 - x \/ g <= f)
  BY <1>1, <1>2 DEF B!Skipped, B!Top
<1>5. NewRegion(e).start = f /\ NewRegion(e).pages = g - f /\ NewRegion(e).usable = u
  BY <1>1, <1>2 DEF NewRegion
<1>6. x + l < 80 => g <= 20
  BY <1>1, <1>2 DEF B!end_page, B!Pages, B!PageSize
<1>7. CASE u
  <2>1. f = (x + 3) \div 4 /\ g = (x + l) \div 4
    BY <1>1, <1>2, <1>7 DEF B!first_page, B!end_page, B!Pages, B!PageSize
  <2>2. x <= f * 4 /\ g * 4 <= x + l /\ \A p \in Nat : (x <= p * 4 => f <= p) /\ ((p + 1) * 4 <= x + l => p + 1 <= g)
    BY <2>1
  <2>3. ASSUME NEW p \in 0 .. 19 PROVE Gives(e, p) <=> ~B!Skipped(e) /\ Covers(NewRegion(e), p)
    <3>1. Gives(e, p) <=> x + l < 80 /\ p * 4 .. (p + 1) * 4 - 1 \subseteq x .. x + l - 1
      BY <1>1, <1>7 DEF Gives, B!Page, B!PageSize
    <3>2. (p * 4 .. (p + 1) * 4 - 1 \subseteq x .. x + l - 1) <=> (x <= p * 4 /\ (p + 1) * 4 <= x + l)
      <4>1. p * 4 \in p * 4 .. (p + 1) * 4 - 1 /\ (p + 1) * 4 - 1 \in p * 4 .. (p + 1) * 4 - 1
        OBVIOUS
      <4> QED BY <4>1
    <3>3. Covers(NewRegion(e), p) <=> f <= p /\ p < g
      BY <1>3, <1>5, <1>7 DEF Covers
    <3> QED BY <1>3, <1>4, <2>2, <3>1, <3>2, <3>3
  <2>4. ~B!Skipped(e) => NewRegion(e) \in Regions
    BY <1>1, <1>2, <1>3, <1>4 DEF NewRegion, Regions
  <2> QED BY <1>1, <1>3, <1>4, <1>5, <1>6, <1>7, <2>2, <2>3, <2>4
<1>8. CASE ~u
  <2>1. \A p \in 0 .. 19 : ~Gives(e, p) /\ ~Covers(NewRegion(e), p)
    BY <1>1, <1>5, <1>8 DEF Gives, Covers
  <2>2. ~B!Skipped(e) => NewRegion(e) \in Regions
    BY <1>1, <1>2, <1>3, <1>4 DEF NewRegion, Regions
  <2> QED BY <1>1, <1>3, <1>4, <1>5, <1>6, <1>8, <2>1, <2>2
<1> QED BY <1>7, <1>8

(* a map in its parts *)
LEMMA InMapIs == ASSUME NEW p PROVE B!InMap(p) <=> \E n \in DOMAIN efi_map : Covers(efi_map[n], p)
  BY DEF B!InMap, Covers


(* the map at the start *)
LEMMA MapStarts ==
  ASSUME B!Addresses, B!Init
  PROVE  MapInv
<1>1. e820 \in Seq(Entries) /\ \A m \in DOMAIN e820 : e820[m].base + e820[m].length <= 80
  BY Zenon DEF B!Init, B!Addresses, Entries, B!Top
<1>2. PICK L \in Nat : L = Len(e820) /\ DOMAIN e820 = 1 .. L
  BY <1>1
<1>3. CASE path = "bios" /\ efi_map = <<>> /\ pc = "convert"
  <2>1. i = 1 /\ efi_map \in Seq(Regions) /\ DOMAIN efi_map = {}
    BY <1>3 DEF B!Init
  <2>2. Converted(i)
    <3>1. \A m \in DOMAIN e820 : ~(m < 1)
      BY <1>2
    <3>2. \A p \in 0 .. 19 : ~B!InMap(p)
      BY <2>1, InMapIs
    <3> QED BY <2>1, <3>1, <3>2, Zenon DEF Converted
  <2>3. i \in 1 .. Len(e820) + 1
    BY <1>2, <2>1
  <2> QED BY <1>1, <1>3, <2>1, <2>2, <2>3, Zenon DEF MapInv
<1>4. CASE /\ path = "uefi" /\ pc = "plan"
           /\ \A n \in DOMAIN e820 : e820[n].base % B!PageSize = 0 /\ e820[n].length % B!PageSize = 0
           /\ efi_map = [n \in DOMAIN e820 |->
                [start |-> e820[n].base \div B!PageSize, pages |-> e820[n].length \div B!PageSize, usable |-> e820[n].usable]]
  <2>1. ASSUME NEW n \in DOMAIN e820
        PROVE  /\ efi_map[n] \in Regions /\ efi_map[n].start + efi_map[n].pages <= 20
               /\ efi_map[n].usable => Backed(efi_map[n])
    <3>1. PICK x \in Nat, l \in Nat, u \in BOOLEAN : x = e820[n].base /\ l = e820[n].length /\ u = e820[n].usable
      <4>1. e820[n] \in Entries
        BY <1>1, <1>2
      <4> QED BY <4>1 DEF Entries
    <3>2. x % 4 = 0 /\ l % 4 = 0 /\ x + l <= 80
      BY <1>1, <1>4, <3>1 DEF B!PageSize
    <3>3. PICK y \in Nat, k \in Nat : y = x \div 4 /\ k = l \div 4 /\ y * 4 = x /\ k * 4 = l
      BY <3>2
    <3>4. efi_map[n] = [start |-> y, pages |-> k, usable |-> u]
      BY <1>4, <3>1, <3>3 DEF B!PageSize
    <3>5. y + k <= 20
      BY <3>2, <3>3
    <3>6. u => Backed(efi_map[n])
      <4>1. efi_map[n].start * 4 = x /\ (efi_map[n].start + efi_map[n].pages) * 4 = x + l
        BY <3>3, <3>4
      <4>2. u => e820[n].usable /\ e820[n].base <= efi_map[n].start * 4
                 /\ (efi_map[n].start + efi_map[n].pages) * 4 <= e820[n].base + e820[n].length
        BY <3>1, <4>1
      <4> QED BY <4>2, Zenon DEF Backed
    <3>7. efi_map[n].start = y /\ efi_map[n].pages = k /\ efi_map[n].usable = u /\ efi_map[n] \in Regions
      BY <3>4 DEF Regions
    <3> QED BY <3>5, <3>6, <3>7
  <2>2. efi_map = [n \in 1 .. L |-> efi_map[n]] /\ DOMAIN efi_map = DOMAIN e820
    BY <1>2, <1>4
  <2>3. efi_map \in Seq(Regions)
    BY <1>2, <2>1, <2>2
  <2>4. path # "bios" /\ pc # "convert"
    BY <1>4
  <2> QED BY <1>1, <2>1, <2>2, <2>3, <2>4, Zenon DEF MapInv
<1> QED BY <1>3, <1>4, Zenon DEF B!Init

(* an entry of the firmware's map is converted *)
LEMMA ConvertKeepsMap == ASSUME MapInv, B!convert_e820_to_efi PROVE MapInv'
<1>1. /\ pc = "convert" /\ i <= Len(e820) /\ i' = i + 1 /\ pc' = "convert" /\ path' = path /\ e820' = e820
      /\ efi_map' = IF B!Skipped(e820[i]) THEN efi_map ELSE Append(efi_map, NewRegion(e820[i]))
  BY DEF B!convert_e820_to_efi, NewRegion
<1>2. /\ e820 \in Seq(Entries) /\ efi_map \in Seq(Regions)
      /\ \A n \in DOMAIN efi_map : efi_map[n].start + efi_map[n].pages <= 20 /\ (efi_map[n].usable => Backed(efi_map[n]))
      /\ path = "bios" /\ i \in 1 .. Len(e820) + 1 /\ Converted(i)
  BY <1>1, Zenon DEF MapInv
<1>3. PICK L \in Nat : L = Len(e820) /\ DOMAIN e820 = 1 .. L /\ i \in 1 .. L
  BY <1>1, <1>2
<1>4. PICK e \in Entries : e = e820[i]
  BY <1>2, <1>3
<1>5. /\ ~B!Skipped(e) => /\ NewRegion(e) \in Regions /\ NewRegion(e).start + NewRegion(e).pages <= 20
                          /\ e.usable => e.base <= NewRegion(e).start * 4
                                         /\ (NewRegion(e).start + NewRegion(e).pages) * 4 <= e.base + e.length
      /\ \A p \in 0 .. 19 : Gives(e, p) <=> ~B!Skipped(e) /\ Covers(NewRegion(e), p)
  BY EntryPages, Zenon
<1>6. PICK N \in Nat : N = Len(efi_map) /\ DOMAIN efi_map = 1 .. N
  BY <1>2
<1>7. \A r : Backed(r)' <=> Backed(r)
  BY <1>1 DEF Backed
<1>8. \A p \in 0 .. 19 : B!InMap(p)' <=> B!InMap(p) \/ Gives(e, p)
  <2>1. CASE B!Skipped(e)
    <3>1. efi_map' = efi_map
      BY <1>1, <1>4, <2>1
    <3> QED BY <1>5, <2>1, <3>1, Zenon DEF B!InMap
  <2>2. CASE ~B!Skipped(e)
    <3>1. PICK r \in Regions : r = NewRegion(e)
      BY <1>5, <2>2
    <3>2. efi_map' = Append(efi_map, r)
      BY <1>1, <1>4, <2>2, <3>1
    <3>3. DOMAIN efi_map' = 1 .. N + 1 /\ efi_map'[N + 1] = r /\ \A n \in 1 .. N : efi_map'[n] = efi_map[n]
      BY <1>2, <1>6, <3>2
    <3>4. ASSUME NEW p \in 0 .. 19 PROVE B!InMap(p)' <=> B!InMap(p) \/ Covers(r, p)
      <4>1. B!InMap(p)' <=> \E n \in 1 .. N + 1 : Covers(efi_map'[n], p)
        BY <3>3 DEF B!InMap, Covers
      <4>2. B!InMap(p) <=> \E n \in 1 .. N : Covers(efi_map[n], p)
        BY <1>6, InMapIs
      <4>3. 1 .. N + 1 = 1 .. N \cup {N + 1}
        OBVIOUS
      <4> HIDE DEF Covers
      <4> QED BY <3>3, <4>1, <4>2, <4>3, Zenon
    <3> QED BY <1>5, <2>2, <3>1, <3>4, Zenon
  <2> QED BY <2>1, <2>2
<1>9. Converted(i)'
  <2>1. ASSUME NEW p \in 0 .. 19 PROVE B!InMap(p)' <=> \E m \in DOMAIN e820 : m < i + 1 /\ Gives(e820[m], p)
    <3>1. \A m \in DOMAIN e820 : m < i + 1 <=> m < i \/ m = i
      BY <1>3
    <3>2. B!InMap(p) <=> \E m \in DOMAIN e820 : m < i /\ Gives(e820[m], p)
      BY <1>2, Zenon DEF Converted
    <3> QED BY <1>3, <1>4, <1>8, <3>1, <3>2, Zenon
  <2> QED BY <1>1, <2>1 DEF Converted, Gives, B!Page, B!PageSize
<1>10. /\ efi_map' \in Seq(Regions)
       /\ \A n \in DOMAIN efi_map' : efi_map'[n].start + efi_map'[n].pages <= 20 /\ (efi_map'[n].usable => Backed(efi_map'[n]))
  <2>1. CASE B!Skipped(e)
    <3>1. efi_map' = efi_map
      BY <1>1, <1>4, <2>1
    <3> QED BY <1>2, <3>1, Zenon
  <2>2. CASE ~B!Skipped(e)
    <3>1. PICK r \in Regions : r = NewRegion(e)
      BY <1>5, <2>2
    <3>2. efi_map' = Append(efi_map, r)
      BY <1>1, <1>4, <2>2, <3>1
    <3>3. DOMAIN efi_map' = 1 .. N + 1 /\ efi_map'[N + 1] = r /\ \A n \in 1 .. N : efi_map'[n] = efi_map[n]
      BY <1>2, <1>6, <3>2
    <3>4. r.start + r.pages <= 20
      BY <1>5, <2>2, <3>1
    <3>5. r.usable => Backed(r)
      <4> SUFFICES ASSUME r.usable PROVE Backed(r)
        OBVIOUS
      <4>1. e.usable
        BY <3>1 DEF NewRegion
      <4>2. e.base <= r.start * 4 /\ (r.start + r.pages) * 4 <= e.base + e.length
        BY <1>5, <2>2, <3>1, <4>1
      <4> QED BY <1>3, <1>4, <4>1, <4>2, Zenon DEF Backed
    <3>6. \A n \in 1 .. N + 1 : n \in 1 .. N \/ n = N + 1
      OBVIOUS
    <3>7. efi_map' \in Seq(Regions)
      BY <1>2, <3>2
    <3> QED BY <1>2, <1>6, <3>3, <3>4, <3>5, <3>6, <3>7, Zenon
  <2> QED BY <2>1, <2>2
<1>11. i' \in 1 .. Len(e820) + 1
  BY <1>1, <1>3
<1>12. \A m \in DOMAIN e820' : e820'[m].base + e820'[m].length <= 80
  BY <1>1, Zenon DEF MapInv
<1> QED BY <1>1, <1>2, <1>7, <1>10, <1>9, <1>11, <1>12, Zenon DEF MapInv


(* the steps behind the conversion *)
Later == B!find_free_region \/ B!place_map \/ B!next_header \/ B!start_segment \/ B!load_page \/ B!end_segment \/ B!enter_kernel

(* They keep both maps. *)
LEMMA LaterSteps ==
  ASSUME Later
  PROVE  pc # "convert" /\ pc' # "convert" /\ path' = path /\ e820' = e820 /\ efi_map' = efi_map /\ image' = image /\ cluster_size' = cluster_size
<1>1. CASE B!find_free_region
  BY <1>1 DEF B!find_free_region
<1>2. CASE B!place_map
  BY <1>2 DEF B!place_map
<1>3. CASE B!next_header
  BY <1>3 DEF B!next_header
<1>4. CASE B!start_segment
  BY <1>4 DEF B!start_segment
<1>5. CASE B!load_page
  BY <1>5 DEF B!load_page
<1>6. CASE B!end_segment
  BY <1>6 DEF B!end_segment
<1>7. CASE B!enter_kernel
  BY <1>7 DEF B!enter_kernel
<1> QED BY <1>1, <1>2, <1>3, <1>4, <1>5, <1>6, <1>7 DEF Later

(* the steps and the map *)
LEMMA MapSteps == MapInv /\ [B!Next]_(B!vars) => MapInv'
<1> SUFFICES ASSUME MapInv, [B!Next]_(B!vars) PROVE MapInv'
  OBVIOUS
<1>1. ASSUME e820' = e820, efi_map' = efi_map
      PROVE  /\ \A r : Backed(r)' <=> Backed(r)
             /\ \A k : Converted(k)' <=> Converted(k)
  BY <1>1 DEF Backed, Converted, Gives, B!InMap, B!Page, B!PageSize
<1>2. CASE B!convert_e820_to_efi
  BY <1>2, ConvertKeepsMap
<1>3. CASE B!converted
  <2>1. pc = "convert" /\ i > Len(e820) /\ pc' = "plan" /\ path' = path /\ e820' = e820 /\ efi_map' = efi_map
    BY <1>3 DEF B!converted
  <2>2. e820 \in Seq(Entries) /\ i \in 1 .. Len(e820) + 1 /\ (path = "bios" => Converted(i))
    BY <2>1, Zenon DEF MapInv
  <2>3. i = Len(e820) + 1
    BY <2>1, <2>2
  <2> QED BY <1>1, <2>1, <2>2, <2>3, Zenon DEF MapInv
<1>4. CASE Later
  BY <1>1, <1>4, LaterSteps, Zenon DEF MapInv
<1>5. CASE UNCHANGED B!vars
  BY <1>1, <1>5, Zenon DEF MapInv, B!vars
<1> QED BY <1>2, <1>3, <1>4, <1>5, Zenon DEF B!Next, Later

(* the map is right *)
LEMMA MapIsRight == MapInv => B!MapRight
<1> SUFFICES ASSUME MapInv, path = "bios", pc # "convert", NEW p \in 0 .. B!Pages(B!Top) - 1
             PROVE  B!InMap(p) <=> \E n \in DOMAIN e820 :
                      /\ e820[n].usable /\ e820[n].base + e820[n].length < B!Top
                      /\ B!Page(p) \subseteq e820[n].base .. e820[n].base + e820[n].length - 1
  BY Zenon DEF B!MapRight
<1>1. p \in 0 .. 19
  BY DEF B!Pages, B!Top, B!PageSize
<1>2. e820 \in Seq(Entries) /\ Converted(Len(e820) + 1)
  BY Zenon DEF MapInv
<1>3. \A m \in DOMAIN e820 : m < Len(e820) + 1
  BY <1>2
<1>4. B!InMap(p) <=> \E m \in DOMAIN e820 : Gives(e820[m], p)
  BY <1>1, <1>2, <1>3, Zenon DEF Converted
<1> QED BY <1>4, Zenon DEF Gives, B!Top


(* Where the parts of the kernel lie. *)

(* A bound on some numbers gives the largest of them. *)
LEMMA LargestIs ==
  ASSUME NEW S \in SUBSET Nat, S # {}, NEW b \in Nat, \A x \in S : x <= b
  PROVE  B!Max(S) \in S /\ \A x \in S : B!Max(S) >= x
<1> DEFINE U == {u \in Nat : \A x \in S : x <= u}
<1>1. U \in SUBSET Nat /\ U # {}
  <2>1. b \in U
    OBVIOUS
  <2> QED BY <2>1
<1>2. PICK m \in U : \A u \in U : m <= u
  <2> HIDE DEF U
  <2> QED BY <1>1, LeastNat, Zenon
<1>3. m \in Nat /\ \A x \in S : x <= m
  BY <1>2
<1>4. m \in S
  <2> SUFFICES ASSUME m \notin S PROVE FALSE
    OBVIOUS
  <2>1. PICK y \in S : TRUE
    OBVIOUS
  <2>2. m - 1 \in Nat /\ \A x \in S : x <= m - 1
    BY <1>3, <2>1
  <2>3. m <= m - 1
    BY <1>2, <2>2
  <2> QED BY <1>3, <2>3
<1>5. \E x \in S : \A y \in S : x >= y
  <2>1. \A y \in S : m >= y
    BY <1>3
  <2> QED BY <1>4, <2>1
<1> QED BY <1>5, Zenon DEF B!Max

(* the least of some numbers *)
LEMMA SmallestIs ==
  ASSUME NEW S \in SUBSET Nat, S # {}
  PROVE  B!Min(S) \in S
<1>1. \E x \in S : \A y \in S : x <= y
  BY LeastNat, Zenon
<1> QED BY <1>1, Zenon DEF B!Min

(* The bitmap has a bit for every page of the map. *)
LEMMA BitmapSize ==
  ASSUME MapInv
  PROVE  /\ B!highest_page \in Nat /\ B!bitmap_size \in Nat
         /\ path = "bios" => B!bitmap_size % 4 = 0
         /\ \A p \in Nat : B!InMap(p) => p < B!bitmap_size * 8
<1>1. efi_map \in Seq(Regions) /\ \A n \in DOMAIN efi_map : efi_map[n].start + efi_map[n].pages <= 20
  BY Zenon DEF MapInv
<1>2. ASSUME NEW n \in DOMAIN efi_map PROVE efi_map[n].start \in Nat /\ efi_map[n].pages \in Nat
  <2>1. efi_map[n] \in Regions
    BY <1>1
  <2> QED BY <2>1 DEF Regions
<1> DEFINE S == {efi_map[n].start + efi_map[n].pages : n \in DOMAIN efi_map} \cup {0}
<1>3. S \in SUBSET Nat /\ S # {} /\ \A x \in S : x <= 20
  BY <1>1, <1>2
<1>4. B!highest_page = B!Max(S)
  BY DEF B!highest_page
<1>5. PICK t \in Nat : t = B!highest_page /\ \A x \in S : t >= x
  <2> HIDE DEF S
  <2>1. 20 \in Nat
    OBVIOUS
  <2>2. B!Max(S) \in S /\ \A x \in S : B!Max(S) >= x
    BY <1>3, <2>1, LargestIs, Zenon
  <2> QED BY <1>3, <1>4, <2>2
<1>6. PICK y \in Nat : y = (t + 7) \div 8 /\ y * 8 >= t
  OBVIOUS
<1>7. B!bitmap_size = IF path = "bios" THEN B!RoundUp(y) ELSE y
  BY <1>5, <1>6 DEF B!bitmap_size
<1>8. B!RoundUp(y) \in Nat /\ B!RoundUp(y) >= y /\ B!RoundUp(y) % 4 = 0
  BY Rounded
<1>9. B!bitmap_size \in Nat /\ B!bitmap_size >= y /\ (path = "bios" => B!bitmap_size % 4 = 0)
  BY <1>7, <1>8
<1>10. ASSUME NEW p \in Nat, B!InMap(p) PROVE p < B!bitmap_size * 8
  <2>1. PICK n \in DOMAIN efi_map : p \in efi_map[n].start .. efi_map[n].start + efi_map[n].pages - 1
    BY <1>10 DEF B!InMap
  <2>2. efi_map[n].start + efi_map[n].pages \in S
    OBVIOUS
  <2>3. PICK x \in Nat, g \in Nat : x = efi_map[n].start /\ g = efi_map[n].pages /\ t >= x + g
    BY <1>2, <1>5, <2>2
  <2>4. p < t
    BY <2>1, <2>3
  <2> QED BY <1>6, <1>9, <2>4
<1> QED BY <1>5, <1>9, <1>10

(* The pages of the region are enough for all that lies from kernelstart on. *)
LEMMA Enough ==
  ASSUME MapInv, HeadersLinked, path \in {"bios", "uefi"}, kernelstart \in Nat
  PROVE  /\ B!size \in Nat /\ B!Rest \in Nat /\ B!total_pages \in Nat /\ B!MMP \in Nat
         /\ B!MMP >= kernelstart + B!size + 4 /\ B!kernel_end = B!MMP + B!Rest
         /\ B!kernel_end <= kernelstart + B!total_pages * 4
         /\ B!stack + B!bitmap_size <= B!MMP
<1>1. PICK L \in Nat : L = Len(image) /\ image \in Seq(Headers)
  BY DEF HeadersLinked
<1>2. PICK z \in Nat : z = B!size /\ z % 4 = 0
  BY <1>1, SizesRise DEF B!size
<1>3. PICK y \in Nat : y = B!bitmap_size /\ (path = "bios" => y % 4 = 0)
  BY BitmapSize
<1>4. PICK r \in Nat : r = B!Rest
  BY DEF B!Rest, MapInv
<1>5. PICK w \in Nat, q \in Nat : w = B!RoundUp(y) /\ q = B!Pages(y) /\ w = q * 4 /\ w >= y /\ (y % 4 = 0 => w = y)
  BY Rounded
<1>6. B!stack = kernelstart + z + 4 /\ B!MMP = kernelstart + z + 4 + w
  BY <1>2, <1>3, <1>5 DEF B!stack, B!MMP, B!StackSize
<1>7. B!kernel_end = B!MMP + r
  BY <1>4 DEF B!kernel_end
<1>8. CASE path = "bios"
  <2>0. PICK x \in Nat : x = z + 4 + y + r
    OBVIOUS
  <2>1. PICK t \in Nat : t = B!Pages(z + 4 + y + r) /\ t * 4 >= z + 4 + y + r
    BY <2>0, PagesHold
  <2>2. B!total_pages = t
    BY <1>2, <1>3, <1>4, <1>8, <2>1 DEF B!total_pages, B!StackSize
  <2>3. w = y
    BY <1>3, <1>5, <1>8
  <2> QED BY <1>2, <1>3, <1>4, <1>5, <1>6, <1>7, <2>1, <2>2, <2>3
<1>9. CASE path = "uefi"
  <2>1. PICK t \in Nat : t = B!Pages(r) /\ t * 4 >= r
    BY PagesHold
  <2>2. PICK d \in Nat : d = z \div 4 /\ d * 4 = z
    BY <1>2
  <2>3. B!total_pages = d + 1 + q + t
    BY <1>2, <1>3, <1>4, <1>5, <1>9, <2>1, <2>2 DEF B!total_pages, B!StackSize, B!PageSize
  <2> QED BY <1>2, <1>3, <1>4, <1>5, <1>6, <1>7, <2>1, <2>2, <2>3
<1> QED BY <1>8, <1>9


(* Loading.  Where the loaders found a region at an address they can use, the segments before the one *)
(* at work are complete, its pages that were copied too, and the map stays as it was written.         *)
Good == region # None /\ kernelstart = efi_map[region].start * 4
Loading == {"load", "segment", "kernel"}
Content(n, k) == IF k < image[n].filesz THEN <<"file", image[n].offset + k>> ELSE "zero"
SegmentRight(n) == image[n].load => \A k \in 0 .. image[n].memsz - 1 : ram[kernelstart + B!sizes[n - 1] + k] = Content(n, k)
MapWritten == \A k \in 0 .. B!Rest - 1 : (path = "uefi" /\ B!Parameter(k) /\ pc # "kernel") \/ ram[B!MMP + k] = "map"
AtWork ==
  \A k \in 0 .. image[i].memsz - 1 :
    /\ k < image[i].filesz /\ k < copied * 4 => ram[addr + k] = Content(i, k)
    /\ path = "uefi" /\ k >= image[i].filesz => ram[addr + k] = "zero"
RamInv ==
  /\ pc = "place" => addr = kernelstart
  /\ pc \in Loading => MapWritten /\ \A n \in 1 .. i - 1 : SegmentRight(n)
  /\ pc = "segment" \/ (pc = "load" /\ path = "bios") => addr = kernelstart + B!sizes[i - 1]
  /\ pc = "segment" => AtWork
LoadTypes ==
  /\ path \in {"bios", "uefi"} /\ HeadersLinked /\ (path = "bios" => cluster_size \in Nat \ {0})
  /\ pc \in {"convert", "plan", "place"} \cup Loading /\ headers \in BOOLEAN /\ copied \in Nat
  /\ kernelstart \in 0 .. 80 /\ i \in Nat
ControlInv ==
  /\ pc \in {"convert", "plan"} => region = None
  /\ pc \in {"place"} \cup Loading =>
       region = None \/ (region \in DOMAIN efi_map /\ efi_map[region].usable /\ efi_map[region].pages >= B!total_pages)
  /\ pc = "place" => i = 1
  /\ pc \in Loading => i \in 1 .. Len(image) + 1
  /\ (pc # "segment" \/ path = "bios") => headers
  /\ pc = "segment" => i <= Len(image) /\ image[i].load /\ copied * 4 < image[i].filesz + 4
  /\ pc = "kernel" => i = Len(image) + 1
LoaderInv == MapInv /\ LoadTypes /\ ControlInv /\ (Good => RamInv)

(* The invariant holds at the start. *)
LEMMA LoaderStarts ==
  ASSUME B!Addresses, B!Linked, Clusters \subseteq Nat \ {0}, B!Init
  PROVE  LoaderInv
<1>1. MapInv
  BY MapStarts
<1>2. HeadersLinked
  BY LinkedIs DEF B!Init
<1>3. /\ path \in {"bios", "uefi"} /\ pc \in {"convert", "plan"} /\ (path = "bios" => cluster_size \in Nat \ {0})
      /\ headers = TRUE /\ copied = 0 /\ kernelstart = 0 /\ i = 1 /\ region = None
  BY DEF B!Init
<1>4. pc \notin {"place"} \cup Loading /\ pc \notin {"load", "segment", "place", "kernel"}
  BY <1>3 DEF Loading
<1>5. headers \in BOOLEAN /\ copied \in Nat /\ kernelstart \in 0 .. 80 /\ i \in Nat
  BY <1>3
<1>6. LoadTypes
  BY <1>2, <1>3, <1>5, Zenon DEF LoadTypes
<1>7. ControlInv
  BY <1>3, <1>4, Zenon DEF ControlInv
<1>8. RamInv
  BY <1>3, <1>4, Zenon DEF RamInv, Loading
<1> QED BY <1>1, <1>6, <1>7, <1>8 DEF LoaderInv

(* a step leaves the headers *)
LEMMA LinkedStays == ASSUME image' = image PROVE HeadersLinked' <=> HeadersLinked
  BY DEF HeadersLinked, B!RoundUp, B!Pages, B!PageSize

(* a step leaves the sizes *)
LEMMA SizesStay ==
  ASSUME image' = image, path' = path, efi_map' = efi_map
  PROVE  /\ B!sizes' = B!sizes /\ B!size' = B!size /\ B!Rest' = B!Rest
         /\ B!bitmap_size' = B!bitmap_size /\ B!total_pages' = B!total_pages
<1>1. B!sizes' = B!sizes
  BY ONLY image' = image DEF B!sizes, B!RoundUp, B!Pages, B!PageSize
<1>2. B!size' = B!size
  BY <1>1 DEF B!size
<1>3. B!Rest' = B!Rest
  BY DEF B!Rest
<1>4. B!highest_page' = B!highest_page
  BY DEF B!highest_page, B!Max
<1>5. B!bitmap_size' = B!bitmap_size
  BY <1>4 DEF B!bitmap_size, B!RoundUp, B!Pages, B!PageSize
<1>7. B!total_pages' = B!total_pages
  BY <1>2, <1>3, <1>5 DEF B!total_pages, B!StackSize, B!Pages, B!PageSize
<1> QED BY <1>1, <1>2, <1>3, <1>5, <1>7

(* and, where the kernel stays, all of the layout *)
LEMMA LayoutStays ==
  ASSUME image' = image, path' = path, efi_map' = efi_map, kernelstart' = kernelstart
  PROVE  /\ B!sizes' = B!sizes /\ B!size' = B!size /\ B!Rest' = B!Rest /\ B!MMP' = B!MMP
         /\ B!total_pages' = B!total_pages
         /\ \A k : (B!Parameter(k)' <=> B!Parameter(k)) /\ \A n : Content(n, k)' = Content(n, k)
<1>1. /\ B!sizes' = B!sizes /\ B!size' = B!size /\ B!Rest' = B!Rest
      /\ B!bitmap_size' = B!bitmap_size /\ B!total_pages' = B!total_pages
  BY SizesStay
<1>2. B!MMP' = B!MMP
  BY <1>1 DEF B!MMP, B!stack, B!StackSize, B!RoundUp, B!Pages, B!PageSize
<1>3. \A k : (B!Parameter(k)' <=> B!Parameter(k)) /\ \A n : Content(n, k)' = Content(n, k)
  BY DEF B!Parameter, Content
<1> QED BY <1>1, <1>2, <1>3

(* Where all of it lies. *)
LEMMA Layout ==
  ASSUME LoaderInv, Good, pc \in {"place"} \cup Loading
  PROVE  /\ kernelstart \in Nat /\ kernelstart % 4 = 0 /\ B!size \in Nat /\ B!Rest \in Nat /\ B!MMP \in Nat
         /\ kernelstart + B!size + 4 <= B!MMP /\ B!MMP + B!Rest <= 80
         /\ B!stack + B!bitmap_size <= B!MMP
         /\ \A x \in kernelstart .. B!kernel_end - 1 : B!Usable(x)
         /\ image \in Seq(Headers) /\ Len(image) \in Nat
         /\ \A n \in 1 .. Len(image) :
              /\ B!sizes[n - 1] \in Nat /\ B!sizes[n] \in Nat /\ B!sizes[n - 1] % 4 = 0 /\ B!sizes[n] <= B!size
              /\ \A m \in 1 .. n - 1 : B!sizes[m] \in Nat /\ B!sizes[m] <= B!sizes[n - 1]
              /\ image[n].offset \in Nat /\ image[n].filesz \in Nat /\ image[n].memsz \in Nat
              /\ image[n].load => /\ image[n].filesz <= image[n].memsz /\ image[n].vaddr - image[1].vaddr = B!sizes[n - 1]
                                  /\ B!sizes[n] = B!sizes[n - 1] + B!RoundUp(image[n].memsz)
              /\ ~image[n].load => B!sizes[n] = B!sizes[n - 1]
<1>0. MapInv /\ HeadersLinked /\ path \in {"bios", "uefi"} /\ kernelstart \in Nat
  BY DEF LoaderInv, LoadTypes
<1>1. PICK L \in Nat : L = Len(image) /\ image \in Seq(Headers)
  BY <1>0 DEF HeadersLinked
<1>2. /\ B!size \in Nat /\ B!Rest \in Nat /\ B!total_pages \in Nat /\ B!MMP \in Nat
      /\ B!MMP >= kernelstart + B!size + 4 /\ B!kernel_end = B!MMP + B!Rest
      /\ B!kernel_end <= kernelstart + B!total_pages * 4
      /\ B!stack + B!bitmap_size <= B!MMP
  BY <1>0, Enough
<1>3. /\ region \in DOMAIN efi_map /\ efi_map[region].usable /\ efi_map[region].pages >= B!total_pages
      /\ kernelstart = efi_map[region].start * 4 /\ efi_map \in Seq(Regions)
      /\ efi_map[region].start + efi_map[region].pages <= 20 /\ Backed(efi_map[region])
  BY Zenon DEF LoaderInv, ControlInv, Good, MapInv
<1>4. PICK y \in Nat, g \in Nat : y = efi_map[region].start /\ g = efi_map[region].pages
  <2>1. efi_map[region] \in Regions
    BY <1>3
  <2> QED BY <2>1 DEF Regions
<1>5. kernelstart = y * 4 /\ kernelstart % 4 = 0 /\ B!kernel_end <= (y + g) * 4 /\ y + g <= 20 /\ B!kernel_end \in Nat
  <2>1. kernelstart = y * 4 /\ g >= B!total_pages /\ y + g <= 20
    BY <1>3, <1>4
  <2>2. PICK t \in Nat, e \in Nat : t = B!total_pages /\ e = B!kernel_end /\ e <= kernelstart + t * 4
    BY <1>2
  <2>3. kernelstart % 4 = 0
    BY <2>1
  <2> QED BY <2>1, <2>2, <2>3
<1>6. B!MMP + B!Rest <= 80
  BY <1>2, <1>5
<1>7. ASSUME NEW x \in kernelstart .. B!kernel_end - 1 PROVE B!Usable(x)
  <2>1. PICK m \in DOMAIN e820 : e820[m].usable /\ e820[m].base <= y * 4 /\ (y + g) * 4 <= e820[m].base + e820[m].length
    BY <1>3, <1>4 DEF Backed
  <2>2. e820[m].base \in Nat /\ e820[m].length \in Nat
    <3>1. e820 \in Seq(Entries)
      BY <1>0 DEF MapInv
    <3>2. e820[m] \in Entries
      BY <3>1
    <3> QED BY <3>2 DEF Entries
  <2>3. x \in e820[m].base .. e820[m].base + e820[m].length - 1
    BY <1>5, <1>7, <2>1, <2>2
  <2> QED BY <2>1, <2>3 DEF B!Usable
<1>8. ASSUME NEW n \in 1 .. L
      PROVE  /\ B!sizes[n - 1] \in Nat /\ B!sizes[n] \in Nat /\ B!sizes[n - 1] % 4 = 0 /\ B!sizes[n] <= B!size
             /\ \A m \in 1 .. n - 1 : B!sizes[m] \in Nat /\ B!sizes[m] <= B!sizes[n - 1]
             /\ image[n].offset \in Nat /\ image[n].filesz \in Nat /\ image[n].memsz \in Nat
             /\ image[n].load => /\ image[n].filesz <= image[n].memsz /\ image[n].vaddr - image[1].vaddr = B!sizes[n - 1]
                                 /\ B!sizes[n] = B!sizes[n - 1] + B!RoundUp(image[n].memsz)
             /\ ~image[n].load => B!sizes[n] = B!sizes[n - 1]
  <2>1. n - 1 \in 0 .. L /\ n \in 0 .. L /\ L \in 0 .. L /\ n \in 0 .. L /\ n \in DOMAIN image /\ n \in 1 .. Len(image)
    BY <1>1, <1>8
  <2>2. B!sizes[n - 1] \in Nat /\ B!sizes[n] \in Nat /\ B!sizes[n - 1] % 4 = 0 /\ B!sizes[n] <= B!size
    BY <1>1, <2>1, SizesRise DEF B!size
  <2>3. ASSUME NEW m \in 1 .. n - 1 PROVE B!sizes[m] \in Nat /\ B!sizes[m] <= B!sizes[n - 1]
    <3>1. m \in 0 .. L /\ m \in 0 .. n - 1
      BY <1>8
    <3> QED BY <1>1, <2>1, <3>1, SizesRise
  <2>4. image[n].offset \in Nat /\ image[n].filesz \in Nat /\ image[n].memsz \in Nat
    BY <1>1, <2>1, HeaderFields
  <2>5. PICK z \in Nat : z = B!sizes[n - 1] /\ z % 4 = 0
    BY <2>2
  <2>6. B!sizes[n] = Grown(n, z)
    BY <1>1, <2>1, <2>5, SizesStep
  <2>7. /\ image[n].load => Grown(n, z) = z + B!RoundUp(image[n].memsz)
        /\ ~image[n].load => Grown(n, z) = z
    BY <1>1, <2>1, <2>5, GrownIs, Zenon
  <2>8. image[n].load => image[n].filesz <= image[n].memsz
    BY <1>0, <2>1, Zenon DEF HeadersLinked
  <2>9. image[n].load => image[n].vaddr - image[1].vaddr = B!sizes[n - 1]
    BY <1>0, <2>1, Offsets
  <2> QED BY <2>2, <2>3, <2>4, <2>5, <2>6, <2>7, <2>8, <2>9, Zenon
<1> QED BY <1>0, <1>1, <1>2, <1>5, <1>6, <1>7, <1>8


(* What lies where the segment at work does not is kept. *)
LEMMA OthersKept ==
  ASSUME LoaderInv, Good, pc \in {"load", "segment"}, i \in 1 .. Len(image),
         image' = image, path' = path, efi_map' = efi_map, kernelstart' = kernelstart, pc' \in {"load", "segment"},
         \A x \in 0 .. 79 : (x < kernelstart + B!sizes[i - 1] \/ x >= kernelstart + B!sizes[i]) => ram'[x] = ram[x]
  PROVE  MapWritten' /\ \A n \in 1 .. i - 1 : SegmentRight(n)'
<1>0. RamInv
  BY DEF LoaderInv
<1>1. pc \in {"place"} \cup Loading /\ pc # "kernel" /\ pc' # "kernel" /\ pc \in Loading
  BY DEF Loading
<1>2. /\ B!sizes' = B!sizes /\ B!size' = B!size /\ B!Rest' = B!Rest /\ B!MMP' = B!MMP
      /\ \A k : (B!Parameter(k)' <=> B!Parameter(k)) /\ \A n : Content(n, k)' = Content(n, k)
  BY LayoutStays
<1>3. PICK ks \in Nat, z \in Nat, r \in Nat, w \in Nat :
        ks = kernelstart /\ z = B!size /\ r = B!Rest /\ w = B!MMP /\ ks + z + 4 <= w /\ w + r <= 80
  BY <1>1, Layout
<1>4. PICK a \in Nat, b \in Nat : a = B!sizes[i - 1] /\ b = B!sizes[i] /\ b <= z /\ \A m \in 1 .. i - 1 : B!sizes[m] \in Nat /\ B!sizes[m] <= a
  BY <1>1, <1>3, Layout
<1>5. ASSUME NEW x \in 0 .. 79, x < ks + a \/ x >= ks + b PROVE ram'[x] = ram[x]
  BY <1>3, <1>4, <1>5
<1>6. MapWritten'
  <2> SUFFICES ASSUME NEW k \in 0 .. r - 1, ~(path = "uefi" /\ B!Parameter(k)) PROVE ram'[w + k] = "map"
    BY <1>1, <1>2, <1>3, Zenon DEF MapWritten
  <2>1. ram[w + k] = "map"
    BY <1>0, <1>1, <1>3, Zenon DEF RamInv, MapWritten
  <2>2. b <= z /\ k \in Nat /\ k < r /\ ks + z + 4 <= w /\ w + r <= 80
    BY <1>3, <1>4
  <2>3. w + k \in 0 .. 79 /\ w + k >= ks + b
    BY ONLY <2>2, ks \in Nat, z \in Nat, r \in Nat, w \in Nat, b \in Nat
  <2> QED BY <1>5, <2>1, <2>3
<1>7. ASSUME NEW n \in 1 .. i - 1 PROVE SegmentRight(n)'
  <2> SUFFICES ASSUME image[n].load, NEW k \in 0 .. image[n].memsz - 1
               PROVE  ram'[kernelstart + B!sizes[n - 1] + k] = Content(n, k)
    BY <1>2, Zenon DEF SegmentRight
  <2>1. n \in 1 .. Len(image)
    BY <1>1, Layout
  <2>2. PICK c \in Nat, d \in Nat, q \in Nat : c = B!sizes[n - 1] /\ d = B!sizes[n] /\ q = image[n].memsz /\ d = c + B!RoundUp(q)
    <3>1. /\ B!sizes[n - 1] \in Nat /\ B!sizes[n] \in Nat /\ image[n].memsz \in Nat
          /\ B!sizes[n] = B!sizes[n - 1] + B!RoundUp(image[n].memsz)
      BY <1>1, <2>1, Layout, Zenon
    <3> QED BY <3>1, Zenon
  <2>3. d >= c + q /\ d <= a
    <3>1. B!RoundUp(q) \in Nat /\ B!RoundUp(q) >= q
      BY Rounded
    <3>2. d <= a
      BY <1>4, <2>2
    <3> QED BY <2>2, <3>1, <3>2, SMTT(30)
  <2>4. ram[kernelstart + B!sizes[n - 1] + k] = Content(n, k)
    BY <1>0, <1>1, Zenon DEF RamInv, SegmentRight
  <2>5. PICK x \in Nat : x = ks + c + k /\ x < ks + a /\ k \in 0 .. q - 1
    <3>1. k \in Nat /\ k < q
      BY <2>2
    <3>2. ks + c + k \in Nat /\ ks + c + k < ks + a /\ k \in 0 .. q - 1
      BY ONLY <2>3, <3>1, ks \in Nat, c \in Nat, q \in Nat, d \in Nat, a \in Nat
    <3> QED BY <3>2
  <2>6. x \in 0 .. 79
    <3>1. a <= b
      <4>1. PICK aa \in Nat : aa = image[i].memsz
        BY <1>1, Layout
      <4>2. b = a \/ b = a + B!RoundUp(aa)
        BY <1>1, <1>4, <4>1, Layout
      <4>3. B!RoundUp(aa) \in Nat
        BY Rounded
      <4> QED BY <4>2, <4>3
    <3> QED BY <1>3, <1>4, <2>5, <3>1
  <2>7. ram'[x] = ram[x]
    BY <1>5, <2>5, <2>6
  <2> QED BY <1>3, <2>2, <2>4, <2>5, <2>7
<1> QED BY <1>6, <1>7


(* the conversion *)
LEMMA ConvertKeeps == ASSUME LoaderInv, B!convert_e820_to_efi \/ B!converted PROVE LoaderInv'
<1>1. /\ pc = "convert" /\ pc' \in {"convert", "plan"} /\ (i' = i + 1 \/ i' = i) /\ path' = path /\ image' = image
      /\ cluster_size' = cluster_size /\ region' = region /\ kernelstart' = kernelstart /\ copied' = copied /\ headers' = headers
  BY DEF B!convert_e820_to_efi, B!converted
<1>2. MapInv'
  BY MapSteps DEF LoaderInv, B!Next
<1>3. HeadersLinked' <=> HeadersLinked
  BY <1>1, LinkedStays
<1>4. i' \in Nat /\ pc' \in {"convert", "plan", "place"} \cup Loading
  BY <1>1 DEF LoaderInv, LoadTypes
<1>5. LoadTypes'
  BY <1>1, <1>3, <1>4, Zenon DEF LoaderInv, LoadTypes, Loading
<1>6. pc' \notin {"place"} \cup Loading /\ pc' \notin {"load", "segment", "place", "kernel"}
  BY <1>1 DEF Loading
<1>7. region' = None /\ headers'
  BY <1>1, Zenon DEF LoaderInv, ControlInv
<1>8. ControlInv'
  BY <1>6, <1>7, Zenon DEF ControlInv, Loading
<1>9. RamInv'
  BY <1>6, Zenon DEF RamInv, Loading
<1> QED BY <1>2, <1>5, <1>8, <1>9 DEF LoaderInv

(* the choice of the region *)
LEMMA RegionKeeps == ASSUME LoaderInv, B!find_free_region PROVE LoaderInv'
<1> DEFINE fit == {n \in DOMAIN efi_map : efi_map[n].usable /\ efi_map[n].start * 4 >= 4 /\ efi_map[n].pages >= B!total_pages}
<1>1. /\ pc = "plan" /\ pc' = "place" /\ i' = 1 /\ path' = path /\ image' = image /\ efi_map' = efi_map
      /\ cluster_size' = cluster_size /\ copied' = copied /\ headers' = headers /\ addr' = kernelstart'
      /\ region' = IF fit = {} THEN None ELSE B!Min(fit)
      /\ kernelstart' = IF fit = {} THEN 1 ELSE IF path = "bios" THEN (efi_map[B!Min(fit)].start * 4) % 56
                                                ELSE efi_map[B!Min(fit)].start * 4
  BY DEF B!find_free_region, B!PageSize, B!Low, B!Wide
<1>2. MapInv' /\ MapInv
  BY MapSteps DEF LoaderInv, B!Next
<1>3. HeadersLinked' <=> HeadersLinked
  BY <1>1, LinkedStays
<1>4. efi_map \in Seq(Regions) /\ \A n \in DOMAIN efi_map : efi_map[n].start + efi_map[n].pages <= 20
  BY <1>2, Zenon DEF MapInv
<1>5. ASSUME fit # {} PROVE B!Min(fit) \in fit
  <2>1. fit \in SUBSET Nat
    BY <1>4
  <2> HIDE DEF fit
  <2> QED BY <1>5, <2>1, SmallestIs
<1>6. region' = None \/ (region' \in DOMAIN efi_map /\ efi_map[region'].usable /\ efi_map[region'].pages >= B!total_pages)
  BY <1>1, <1>5
<1>7. kernelstart' \in 0 .. 80
  <2>1. CASE fit = {}
    <3>1. kernelstart' = 1
      BY <1>1, <2>1, Zenon
    <3> QED BY <3>1
  <2>2. CASE fit # {}
    <3>1. PICK n \in DOMAIN efi_map : n = B!Min(fit)
      BY <1>5, <2>2
    <3>2. efi_map[n] \in Regions
      BY <1>4
    <3>3. PICK y \in Nat, g \in Nat : y = efi_map[n].start /\ g = efi_map[n].pages /\ y + g <= 20
      BY <1>4, <3>2 DEF Regions
    <3>4. kernelstart' = (y * 4) % 56 \/ kernelstart' = y * 4
      BY <1>1, <2>2, <3>1, <3>3, Zenon
    <3>5. (y * 4) % 56 \in 0 .. 80 /\ y * 4 \in 0 .. 80
      BY <3>3
    <3> QED BY <3>4, <3>5
  <2> QED BY <2>1, <2>2
<1>8. B!total_pages' = B!total_pages
  BY <1>1, SizesStay
<1>9. LoadTypes'
  <2>1. i' \in Nat /\ pc' \in {"convert", "plan", "place"} \cup Loading
    BY <1>1
  <2> QED BY <1>1, <1>3, <1>7, <2>1, Zenon DEF LoaderInv, LoadTypes, Loading
<1>10. headers'
  BY <1>1 DEF LoaderInv, ControlInv
<1>11. pc' \notin Loading /\ pc' # "convert" /\ pc' # "plan" /\ pc' # "segment" /\ pc' # "kernel" /\ pc' # "load"
  BY <1>1 DEF Loading
<1>12. ControlInv'
  BY <1>1, <1>6, <1>8, <1>10, <1>11, Zenon DEF ControlInv, Loading
<1>13. RamInv'
  BY <1>1, <1>11, Zenon DEF RamInv, Loading
<1> QED BY <1>2, <1>9, <1>12, <1>13 DEF LoaderInv


(* what the steps of loading share *)
LEMMA LoadingKeeps ==
  ASSUME LoaderInv, Later, region' = region, kernelstart' = kernelstart, pc \in {"place"} \cup Loading, pc' \in Loading,
         i' \in 1 .. Len(image) + 1, copied' \in Nat, headers' \in BOOLEAN, (pc' # "segment" \/ path = "bios") => headers',
         pc' = "segment" => i' <= Len(image) /\ image[i'].load /\ copied' * 4 < image[i'].filesz + 4,
         pc' = "kernel" => i' = Len(image) + 1
  PROVE  MapInv' /\ LoadTypes' /\ ControlInv' /\ (Good' <=> Good)
<1>1. pc' # "convert" /\ path' = path /\ e820' = e820 /\ efi_map' = efi_map /\ image' = image /\ cluster_size' = cluster_size
  BY LaterSteps
<1>2. MapInv'
  BY MapSteps DEF LoaderInv, Later, B!Next
<1>3. HeadersLinked' <=> HeadersLinked
  BY <1>1, LinkedStays
<1>4. B!total_pages' = B!total_pages
  BY <1>1, SizesStay
<1>5. i' \in Nat /\ pc' \in {"convert", "plan", "place"} \cup Loading
  BY DEF LoaderInv, LoadTypes, HeadersLinked
<1>6. LoadTypes'
  BY <1>1, <1>3, <1>5, Zenon DEF LoaderInv, LoadTypes, Loading
<1>7. pc' \notin {"convert", "plan"} /\ pc' # "place"
  BY DEF Loading
<1>8. ControlInv'
  BY <1>1, <1>4, <1>7, Zenon DEF LoaderInv, ControlInv, Loading
<1> QED BY <1>1, <1>2, <1>6, <1>8 DEF Good

(* map and device path are written *)
LEMMA PlaceKeeps == ASSUME LoaderInv, B!place_map PROVE LoaderInv'
<1>1. /\ pc = "place" /\ pc' = "load" /\ path' = path /\ efi_map' = efi_map /\ image' = image
      /\ i' = i /\ region' = region /\ kernelstart' = kernelstart /\ addr' = addr /\ copied' = copied /\ headers' = headers
      /\ ram' = [x \in 0 .. 79 |-> IF x \in B!MMP .. B!MMP + B!Rest - 1
                                   THEN IF path = "uefi" /\ B!Parameter(x - B!MMP) THEN ram[B!MMP + (x - B!MMP)] ELSE "map"
                                   ELSE ram[x]]
  BY DEF B!place_map, B!Put, B!Top
<1>2. i = 1 /\ headers /\ headers \in BOOLEAN /\ copied \in Nat /\ image \in Seq(Headers)
  BY <1>1, Zenon DEF LoaderInv, ControlInv, LoadTypes, HeadersLinked
<1>3. i' \in 1 .. Len(image) + 1
  BY <1>1, <1>2
<1>4. pc \in {"place"} \cup Loading /\ pc' \in Loading /\ pc' # "segment" /\ pc' # "kernel" /\ Later /\ pc' # "place"
  BY <1>1 DEF Loading, Later
<1>5. MapInv' /\ LoadTypes' /\ ControlInv' /\ (Good' <=> Good)
  BY <1>1, <1>2, <1>3, <1>4, LoadingKeeps
<1>6. ASSUME Good PROVE RamInv'
  <2>1. /\ B!sizes' = B!sizes /\ B!Rest' = B!Rest /\ B!MMP' = B!MMP
        /\ \A k : (B!Parameter(k)' <=> B!Parameter(k))
    BY <1>1, LayoutStays
  <2>2. PICK r \in Nat, w \in Nat : r = B!Rest /\ w = B!MMP /\ w + r <= 80
    BY <1>4, <1>6, Layout
  <2>3. MapWritten'
    <3> SUFFICES ASSUME NEW k \in 0 .. r - 1, ~(path = "uefi" /\ B!Parameter(k)) PROVE ram'[w + k] = "map"
      BY <1>1, <1>4, <2>1, <2>2, Zenon DEF MapWritten
    <3>1. k \in Nat /\ k < r
      BY <2>2
    <3>2. w + k \in 0 .. 79 /\ w + k \in w .. w + r - 1 /\ (w + k) - w = k
      BY ONLY <2>2, <3>1, w \in Nat, r \in Nat
    <3>3. PICK x \in 0 .. 79 : x = w + k
      BY <3>2
    <3>4. ram'[x] = IF x \in w .. w + r - 1 THEN IF path = "uefi" /\ B!Parameter(x - w) THEN ram[w + (x - w)] ELSE "map" ELSE ram[x]
      BY <1>1, <2>2
    <3> QED BY <3>2, <3>3, <3>4
  <2>4. \A n : n \notin 1 .. i' - 1
    BY <1>1, <1>2
  <2>5. path = "bios" => addr' = kernelstart' + B!sizes'[i' - 1]
    <3>1. addr = kernelstart
      BY <1>1, <1>6, Zenon DEF LoaderInv, RamInv
    <3>2. B!sizes[0] = 0 /\ kernelstart \in Nat
      BY <1>2, SizesStep DEF LoaderInv, LoadTypes
    <3> QED BY <1>1, <1>2, <2>1, <3>1, <3>2
  <2> QED BY <1>1, <1>4, <2>3, <2>4, <2>5, Zenon DEF RamInv
<1> QED BY <1>5, <1>6, Zenon DEF LoaderInv

(* a header that needs nothing *)
LEMMA HeaderKeeps == ASSUME LoaderInv, B!next_header PROVE LoaderInv'
<1>1. /\ pc = "load" /\ pc' = "load" /\ path' = path /\ efi_map' = efi_map /\ image' = image /\ i <= Len(image)
      /\ i' = i + 1 /\ region' = region /\ kernelstart' = kernelstart /\ addr' = addr /\ copied' = copied /\ headers' = headers
      /\ ram' = ram /\ ~(headers /\ image[i].load)
  BY DEF B!next_header, B!h
<1>2. headers /\ headers \in BOOLEAN /\ copied \in Nat /\ image \in Seq(Headers)
  BY <1>1, Zenon DEF LoaderInv, ControlInv, LoadTypes, HeadersLinked
<1>3. i \in 1 .. Len(image) + 1
  BY <1>1, Zenon DEF LoaderInv, ControlInv, Loading
<1>4. i' \in 1 .. Len(image) + 1 /\ i \in 1 .. Len(image) /\ i' - 1 = i
  BY <1>1, <1>2, <1>3
<1>5. pc \in {"place"} \cup Loading /\ pc \in Loading /\ pc' \in Loading /\ pc' # "segment" /\ pc' # "kernel" /\ Later /\ pc' # "place" /\ pc' \in {"load", "segment"} /\ pc \in {"load", "segment"}
  BY <1>1 DEF Loading, Later
<1>6. MapInv' /\ LoadTypes' /\ ControlInv' /\ (Good' <=> Good)
  BY <1>1, <1>2, <1>4, <1>5, LoadingKeeps
<1>7. ASSUME Good PROVE RamInv'
  <2>1. B!sizes' = B!sizes /\ \A k : \A n : Content(n, k)' = Content(n, k)
    BY <1>1, LayoutStays
  <2>2. MapWritten' /\ \A n \in 1 .. i - 1 : SegmentRight(n)'
    BY <1>1, <1>4, <1>5, <1>7, OthersKept
  <2>3. PICK j \in 1 .. Len(image) : j = i
    BY <1>4
  <2>4. SegmentRight(j)'
    BY <1>1, <1>2, <2>3, Zenon DEF SegmentRight
  <2>5. \A n \in 1 .. i' - 1 : SegmentRight(n)'
    <3>0. i \in Nat /\ i' - 1 = i
      BY <1>1, <1>4
    <3>1. \A n \in 1 .. i' - 1 : n \in 1 .. i - 1 \/ n = j
      BY ONLY <2>3, <3>0
    <3> QED BY <2>2, <2>4, <3>1, Zenon
  <2>6. B!sizes[i] = B!sizes[i - 1]
    BY <1>1, <1>2, <1>4, <1>5, <1>7, Layout
  <2>7. path = "bios" => addr' = kernelstart' + B!sizes'[i' - 1]
    <3>1. path = "bios" => addr = kernelstart + B!sizes[i - 1]
      BY <1>1, <1>7, Zenon DEF LoaderInv, RamInv
    <3> QED BY <1>1, <1>4, <2>1, <2>6, <3>1
  <2> QED BY <1>1, <1>5, <2>2, <2>5, <2>7, Zenon DEF RamInv
<1> QED BY <1>6, <1>7, Zenon DEF LoaderInv


(* The segment at work, by its place. *)
WorkAt(ks, a, b, f, q) ==
  /\ ks = kernelstart /\ a = B!sizes[i - 1] /\ b = B!sizes[i] /\ f = image[i].filesz /\ q = image[i].memsz
  /\ ks + b <= 76 /\ f <= q /\ b = a + B!RoundUp(q) /\ b >= a + q /\ (ks + a) % 4 = 0 /\ ks + a \in Nat
  /\ image[i].vaddr - image[1].vaddr = a

(* It has one. *)
LEMMA WorkPlace ==
  ASSUME LoaderInv, Good, pc \in {"load", "segment"}, i \in 1 .. Len(image), image[i].load
  PROVE  \E ks \in Nat, a \in Nat, b \in Nat, f \in Nat, q \in Nat : WorkAt(ks, a, b, f, q)
<1>1. pc \in {"place"} \cup Loading
  BY DEF Loading
<1>2. PICK ks \in Nat, z \in Nat, r \in Nat, w \in Nat :
        ks = kernelstart /\ z = B!size /\ r = B!Rest /\ w = B!MMP /\ ks + z + 4 <= w /\ w + r <= 80 /\ ks % 4 = 0
  BY <1>1, Layout
<1>3. PICK a \in Nat, b \in Nat : a = B!sizes[i - 1] /\ b = B!sizes[i] /\ b <= z /\ a % 4 = 0
  BY <1>1, <1>2, Layout
<1>4. PICK f \in Nat, q \in Nat : f = image[i].filesz /\ q = image[i].memsz
  BY <1>1, Layout
<1>5. f <= q /\ image[i].vaddr - image[1].vaddr = a /\ b = a + B!RoundUp(q)
  BY <1>1, <1>3, <1>4, Layout
<1>6. B!RoundUp(q) \in Nat /\ B!RoundUp(q) >= q
  BY Rounded
<1>7. (ks + a) % 4 = 0 /\ ks + a \in Nat
  BY <1>2, <1>3, FoursAdd
<1>8. ks + b <= 76 /\ b >= a + q
  BY ONLY <1>2, <1>3, <1>5, <1>6, ks \in Nat, z \in Nat, w \in Nat, r \in Nat, a \in Nat, b \in Nat, q \in Nat
<1>9. WorkAt(ks, a, b, f, q)
  BY <1>2, <1>3, <1>4, <1>5, <1>7, <1>8, Zenon DEF WorkAt
<1> QED BY <1>9, Zenon

(* a segment begins *)
LEMMA SegmentKeeps == ASSUME LoaderInv, B!start_segment PROVE LoaderInv'
<1>1. /\ pc = "load" /\ pc' = "segment" /\ path' = path /\ efi_map' = efi_map /\ image' = image /\ i <= Len(image) /\ image[i].load
      /\ i' = i /\ region' = region /\ kernelstart' = kernelstart /\ copied' = 0 /\ headers' = headers /\ headers
  BY DEF B!start_segment, B!h
<1>2. \/ path = "bios" /\ addr' = addr /\ ram' = ram
      \/ /\ path = "uefi" /\ addr' = kernelstart + image[i].vaddr - image[1].vaddr
         /\ ram' = [x \in 0 .. 79 |-> IF x \in addr' + image[i].filesz .. addr' + image[i].filesz + (image[i].memsz - image[i].filesz) - 1
                                      THEN "zero" ELSE ram[x]]
  BY DEF B!start_segment, B!h, B!Put, B!Top
<1>3. headers \in BOOLEAN /\ image \in Seq(Headers)
  BY <1>1, Zenon DEF LoaderInv, ControlInv, LoadTypes, HeadersLinked
<1>4. i \in 1 .. Len(image) + 1
  BY <1>1, Zenon DEF LoaderInv, ControlInv, Loading
<1>5. i' \in 1 .. Len(image) + 1 /\ i \in 1 .. Len(image) /\ copied' \in Nat
  BY <1>1, <1>3, <1>4
<1>6. pc \in {"place"} \cup Loading /\ pc' \in Loading /\ Later /\ pc' \in {"load", "segment"} /\ pc \in {"load", "segment"}
      /\ pc' # "kernel" /\ pc' # "place"
  BY <1>1 DEF Loading, Later
<1>7. copied' * 4 < image[i'].filesz + 4
  <2>1. image[i].filesz \in Nat
    BY <1>3, <1>5, HeaderFields
  <2> QED BY <1>1, <2>1
<1>8. MapInv' /\ LoadTypes' /\ ControlInv' /\ (Good' <=> Good)
  BY <1>1, <1>3, <1>5, <1>6, <1>7, LoadingKeeps
<1>9. ASSUME Good PROVE RamInv'
  <2>1. B!sizes' = B!sizes
    BY <1>1, LayoutStays
  <2>2. PICK ks \in Nat, a \in Nat, b \in Nat, f \in Nat, q \in Nat : WorkAt(ks, a, b, f, q)
    BY <1>1, <1>5, <1>6, <1>9, WorkPlace, Zenon
  <2> USE DEF WorkAt
  <2>3. PICK o \in Nat : o = ks + a
    BY <2>2
  <2>4. addr' = o
    <3>1. CASE path = "bios"
      <4>1. addr' = addr /\ addr = kernelstart + B!sizes[i - 1]
        BY <1>1, <1>2, <1>9, <3>1, Zenon DEF LoaderInv, RamInv
      <4> QED BY <2>2, <2>3, <4>1
    <3>2. CASE path = "uefi"
      <4>1. addr' = kernelstart + image[i].vaddr - image[1].vaddr
        BY <1>2, <3>2
      <4>2. PICK v \in Nat, u \in Nat : v = image[i].vaddr /\ u = image[1].vaddr /\ v - u = a
        <5>1. 1 \in 1 .. Len(image)
          BY <1>3, <1>5
        <5>2. image[1].vaddr \in Nat /\ image[i].vaddr \in Nat
          BY <1>3, <1>5, <5>1, HeaderFields
        <5> QED BY <2>2, <5>2
      <4>3. ks + v - u = o
        BY ONLY <2>3, <4>2, ks \in Nat, v \in Nat, u \in Nat, a \in Nat, o \in Nat
      <4> QED BY <2>2, <4>1, <4>2, <4>3
    <3> QED BY <1>2, <3>1, <3>2
  <2>5. path = "uefi" => ram' = [x \in 0 .. 79 |-> IF x \in o + f .. o + f + (q - f) - 1 THEN "zero" ELSE ram[x]]
    BY <1>2, <2>2, <2>4
  <2>6. ASSUME NEW x \in 0 .. 79, x < o \/ x >= ks + b PROVE ram'[x] = ram[x]
    <3>1. x \notin o + f .. o + f + (q - f) - 1
      BY <2>2, <2>3, <2>6
    <3> QED BY <1>2, <2>5, <3>1
  <2>7. MapWritten' /\ \A n \in 1 .. i - 1 : SegmentRight(n)'
    <3>1. \A x \in 0 .. 79 : (x < kernelstart + B!sizes[i - 1] \/ x >= kernelstart + B!sizes[i]) => ram'[x] = ram[x]
      BY <2>2, <2>3, <2>6
    <3> QED BY <1>1, <1>5, <1>6, <1>9, <3>1, OthersKept
  <2>8. AtWork'
    <3> SUFFICES ASSUME NEW k \in 0 .. q - 1
                 PROVE  /\ ~(k < copied' * 4)
                        /\ path = "uefi" /\ k >= f => ram'[o + k] = "zero"
      BY <1>1, <2>2, <2>4, Zenon DEF AtWork
    <3>1. ~(k < copied' * 4)
      BY <1>1
    <3>2. ASSUME path = "uefi", k >= f PROVE ram'[o + k] = "zero"
      <4>1. k \in Nat /\ k < q /\ ks + b <= 76 /\ f <= q /\ b >= a + q
        BY <2>2
      <4>2. o + k \in 0 .. 79 /\ o + k \in o + f .. o + f + (q - f) - 1
        BY ONLY <2>3, <3>2, <4>1, ks \in Nat, a \in Nat, b \in Nat, f \in Nat, q \in Nat, o \in Nat
      <4>3. PICK x \in 0 .. 79 : x = o + k
        BY <4>2
      <4> QED BY <2>5, <3>2, <4>2, <4>3
    <3> QED BY <3>1, <3>2
  <2>9. addr' = kernelstart' + B!sizes'[i' - 1]
    BY <1>1, <2>1, <2>2, <2>3, <2>4
  <2> QED BY <1>1, <1>6, <2>7, <2>8, <2>9, Zenon DEF RamInv
<1> QED BY <1>8, <1>9, Zenon DEF LoaderInv


(* whole clusters hold what is asked of them *)
LEMMA ClustersHold ==
  ASSUME NEW x \in Nat, NEW c \in Nat \ {0}
  PROVE  ((x + c - 1) \div c) * c >= x
<1>1. PICK y \in Nat : y = x + c - 1
  OBVIOUS
<1>2. y % c \in 0 .. c - 1 /\ y \div c \in Nat /\ y = (y \div c) * c + (y % c)
  BY SMT
<1>3. PICK g \in Nat, r \in 0 .. c - 1 : g = y \div c /\ r = y % c /\ y = g * c + r
  BY <1>2
<1>4. PICK t \in Nat : t = g * c
  BY <1>3
<1>5. t >= x
  BY <1>1, <1>3, <1>4
<1> QED BY <1>1, <1>3, <1>4, <1>5

(* the bytes of a page are those of the file, however the clusters lie *)
LEMMA ClusterBytes ==
  ASSUME cluster_size \in Nat \ {0}, NEW x \in Nat, NEW k \in 0 .. 3
  PROVE  /\ (x % cluster_size) + k < B!cluster_count(x % cluster_size) * cluster_size
         /\ (x \div cluster_size) * cluster_size + (x % cluster_size) + k = x + k
<1>0. PICK c \in Nat \ {0} : c = cluster_size
  OBVIOUS
<1>1. x % c \in 0 .. c - 1 /\ x \div c \in Nat /\ x = (x \div c) * c + (x % c)
  BY SMT
<1>2. PICK g \in Nat, r \in Nat : g = x \div c /\ r = x % c /\ x = g * c + r
  BY <1>1
<1>3. PICK t \in Nat : t = g * c /\ x = t + r
  BY <1>2
<1>4. t + r + k = x + k
  BY <1>3
<1>5. PICK y \in Nat : y = 4 + r
  OBVIOUS
<1>6. ((y + c - 1) \div c) * c >= y
  BY ClustersHold
<1>7. B!cluster_count(r) = (y + c - 1) \div c
  BY <1>0, <1>5 DEF B!cluster_count, B!PageSize
<1>8. B!cluster_count(r) * c >= y
  BY <1>6, <1>7
<1>9. (y + c - 1) \div c \in Nat
  BY SMT
<1>10. PICK v \in Nat : v = B!cluster_count(r) * c /\ v >= y
  BY <1>7, <1>8, <1>9
<1>11. r + k < v
  BY <1>5, <1>10
<1> QED BY <1>0, <1>2, <1>3, <1>4, <1>10, <1>11

(* a byte of a segment in the file *)
LEMMA FileByte ==
  ASSUME image \in Seq(Headers), NEW n \in 1 .. Len(image), NEW k \in Nat, k < image[n].filesz
  PROVE  B!File(image[n].offset + k) = <<"file", image[n].offset + k>>
<1>1. image[n].offset \in Nat /\ image[n].filesz \in Nat /\ n \in DOMAIN image
  BY HeaderFields
<1>2. image[n].offset + k < image[n].offset + image[n].filesz
  BY <1>1
<1> QED BY <1>1, <1>2 DEF B!File

(* the end of a page of a segment *)
LEMMA PageEnd ==
  ASSUME NEW c \in Nat, NEW q \in Nat, c * 4 < q
  PROVE  c * 4 + 4 <= B!RoundUp(q)
<1>1. PICK p \in Nat : p = B!Pages(q) /\ B!RoundUp(q) = p * 4 /\ p * 4 >= q
  BY PagesHold DEF B!RoundUp, B!PageSize
<1> QED BY <1>1

(* a page is copied *)
LEMMA PageKeeps == ASSUME LoaderInv, B!load_page PROVE LoaderInv'
<1>0. /\ pc = "segment" /\ pc' = pc /\ path' = path /\ efi_map' = efi_map /\ image' = image
      /\ i' = i /\ region' = region /\ kernelstart' = kernelstart /\ addr' = addr /\ copied' = copied + 1
      /\ image[i].filesz - copied * 4 > 0
  BY DEF B!load_page, B!h, B!PageSize
<1>h. (path = "bios" /\ headers' = headers) \/ (path = "uefi" /\ headers' = FALSE)
  BY Zenon DEF B!load_page
<1>1. /\ i \in 1 .. Len(image) + 1 /\ i <= Len(image) /\ image[i].load /\ copied * 4 < image[i].filesz + 4
      /\ (path = "bios" => headers)
  BY <1>0, Zenon DEF LoaderInv, ControlInv, Loading
<1>2. image \in Seq(Headers) /\ copied \in Nat /\ headers \in BOOLEAN /\ (path = "bios" => cluster_size \in Nat \ {0})
  BY Zenon DEF LoaderInv, LoadTypes, HeadersLinked
<1>3. i \in 1 .. Len(image) /\ i' \in 1 .. Len(image) + 1 /\ copied' \in Nat
  BY <1>0, <1>1, <1>2
<1>4. PICK c \in Nat, f \in Nat, off \in Nat : c = copied /\ f = image[i].filesz /\ off = image[i].offset
  BY <1>2, <1>3, HeaderFields
<1>5. c * 4 < f /\ (c + 1) * 4 < f + 4
  BY <1>0, <1>4
<1>6. pc \in {"place"} \cup Loading /\ pc' \in Loading /\ Later /\ pc' \in {"load", "segment"} /\ pc \in {"load", "segment"}
      /\ pc' # "kernel" /\ pc' # "place" /\ pc' = "segment" /\ pc' # "load"
  BY <1>0 DEF Loading, Later
<1>7. headers' \in BOOLEAN /\ (path = "bios" => headers')
  BY <1>1, <1>2, <1>h
<1>8. copied' * 4 < image[i'].filesz + 4
  BY <1>0, <1>4, <1>5
<1>9. MapInv' /\ LoadTypes' /\ ControlInv' /\ (Good' <=> Good)
  BY <1>0, <1>1, <1>3, <1>6, <1>7, <1>8, LoadingKeeps
<1>10. ASSUME Good PROVE RamInv'
  <2>1. B!sizes' = B!sizes /\ \A k : \A n : Content(n, k)' = Content(n, k)
    BY <1>0, LayoutStays
  <2>2. PICK ks \in Nat, a \in Nat, b \in Nat, ff \in Nat, q \in Nat : WorkAt(ks, a, b, ff, q)
    BY <1>1, <1>3, <1>6, <1>10, WorkPlace, Zenon
  <2>3. PICK o \in Nat : o = ks + a
    OBVIOUS
  <2>4. ff = f /\ f <= q /\ b = a + B!RoundUp(q) /\ ks + b <= 76 /\ b >= a + q /\ ks = kernelstart /\ q = image[i].memsz
        /\ b = B!sizes[i] /\ a = B!sizes[i - 1]
    BY <1>4, <2>2 DEF WorkAt
  <2>5. addr = o
    <3>1. addr = kernelstart + B!sizes[i - 1]
      BY <1>0, <1>10, Zenon DEF LoaderInv, RamInv
    <3> QED BY <2>3, <2>4, <3>1
  <2>6. c * 4 + 4 <= b - a
    <3>1. c * 4 < q
      BY <1>5, <2>4
    <3>2. c * 4 + 4 <= B!RoundUp(q) /\ B!RoundUp(q) \in Nat
      BY <3>1, PageEnd, Rounded
    <3> QED BY <2>4, <3>2
  <2>7. PICK t \in Nat : t = o + c * 4 /\ t + 4 <= ks + b /\ t >= o
    BY <2>3, <2>6
  <2>8. \E n \in 1 .. 4 :
          /\ \A x \in 0 .. 79 : x \notin t .. t + n - 1 => ram'[x] = ram[x]
          /\ \A k \in 0 .. n - 1 : c * 4 + k < f => ram'[t + k] = <<"file", off + (c * 4 + k)>>
          /\ path = "uefi" => c * 4 + n <= f
          /\ n = 4 \/ c * 4 + n = f
    <3>1. PICK p \in Nat : p = off + c * 4
      OBVIOUS
    <3>2. ASSUME NEW k \in 0 .. 3, c * 4 + k < f PROVE B!File(p + k) = <<"file", off + (c * 4 + k)>>
      <4>1. PICK j \in Nat : j = c * 4 + k
        OBVIOUS
      <4>2. j < image[i].filesz /\ p + k = off + j
        BY <1>4, <3>1, <3>2, <4>1
      <4>3. B!File(image[i].offset + j) = <<"file", image[i].offset + j>>
        BY <1>2, <1>3, <4>2, FileByte
      <4> QED BY <1>4, <4>1, <4>2, <4>3
    <3>3. CASE path = "bios"
      <4>1. ram' = [x \in 0 .. 79 |-> IF x \in t .. t + 4 - 1
                      THEN IF (p % cluster_size) + (x - t) < B!cluster_count(p % cluster_size) * cluster_size
                           THEN B!File((p \div cluster_size) * cluster_size + (p % cluster_size) + (x - t)) ELSE "other"
                      ELSE ram[x]]
        <5>1. path # "uefi"
          BY <3>3
        <5>2. ram' = B!load_4k
          BY <5>1, Zenon DEF B!load_page
        <5>3. addr + copied * 4 = t /\ image[i].offset + copied * 4 = p
          BY <1>4, <2>5, <2>7, <3>1
        <5>4. ram' = [x \in 0 .. 80 - 1 |-> IF x \in t .. t + 4 - 1
                      THEN IF (p % cluster_size) + (x - t) < B!cluster_count(p % cluster_size) * cluster_size
                           THEN B!File((p \div cluster_size) * cluster_size + (p % cluster_size) + (x - t)) ELSE "other"
                      ELSE ram[x]]
          BY <5>2, <5>3, Zenon DEF B!load_4k, B!h, B!PageSize, B!Put, B!Top
        <5>5. 80 - 1 = 79
          OBVIOUS
        <5> QED BY <5>4, <5>5, Zenon
      <4>2. ASSUME NEW k \in 0 .. 3, c * 4 + k < f PROVE ram'[t + k] = <<"file", off + (c * 4 + k)>>
        <5>1. PICK x \in 0 .. 79 : x = t + k /\ x \in t .. t + 4 - 1 /\ x - t = k
          <6>1. ks + b <= 76 /\ t + 4 <= ks + b
            BY <2>4, <2>7
          <6>2. t + k \in 0 .. 79 /\ t + k \in t .. t + 4 - 1 /\ (t + k) - t = k
            BY ONLY <6>1, t \in Nat, ks \in Nat, b \in Nat, k \in 0 .. 3
          <6> QED BY <6>2
        <5>2. /\ (p % cluster_size) + k < B!cluster_count(p % cluster_size) * cluster_size
              /\ (p \div cluster_size) * cluster_size + (p % cluster_size) + k = p + k
          BY <1>2, <3>3, ClusterBytes
        <5>3. ram'[x] = B!File(p + k)
          BY <4>1, <5>1, <5>2
        <5> QED BY <3>2, <4>2, <5>1, <5>3
      <4>3. \A x \in 0 .. 79 : x \notin t .. t + 4 - 1 => ram'[x] = ram[x]
        BY <4>1
      <4>4. 4 \in 1 .. 4 /\ \A k \in 0 .. 4 - 1 : k \in 0 .. 3
        OBVIOUS
      <4>5. path # "uefi"
        BY <3>3
      <4> QED BY <4>2, <4>3, <4>4, <4>5, Zenon
    <3>4. CASE path = "uefi"
      <4>1. PICK n \in 1 .. 4 : n = (IF f - c * 4 > 4 THEN 4 ELSE f - c * 4) /\ c * 4 + n <= f /\ (n = 4 \/ c * 4 + n = f)
        BY <1>5, SMTT(30)
      <4>2. ram' = [x \in 0 .. 79 |-> IF x \in t .. t + n - 1 THEN B!File(p + (x - t)) ELSE ram[x]]
        BY <1>4, <2>5, <2>7, <3>1, <3>4, <4>1 DEF B!load_page, B!h, B!PageSize, B!Put, B!Top
      <4>3. ASSUME NEW k \in 0 .. n - 1, c * 4 + k < f PROVE ram'[t + k] = <<"file", off + (c * 4 + k)>>
        <5>1. PICK x \in 0 .. 79 : x = t + k /\ x \in t .. t + n - 1 /\ x - t = k /\ k \in 0 .. 3
          <6>1. ks + b <= 76 /\ t + 4 <= ks + b
            BY <2>4, <2>7
          <6>2. t + k \in 0 .. 79 /\ t + k \in t .. t + n - 1 /\ (t + k) - t = k /\ k \in 0 .. 3
            BY ONLY <6>1, t \in Nat, ks \in Nat, b \in Nat, n \in 1 .. 4, k \in 0 .. n - 1
          <6> QED BY <6>2
        <5>2. ram'[x] = B!File(p + k)
          BY <4>2, <5>1
        <5> QED BY <3>2, <4>3, <5>1, <5>2
      <4>4. \A x \in 0 .. 79 : x \notin t .. t + n - 1 => ram'[x] = ram[x]
        BY <4>2
      <4> QED BY <4>1, <4>3, <4>4, Zenon
    <3> QED BY <1>h, <3>3, <3>4
  <2>9. PICK n \in 1 .. 4 :
          /\ \A x \in 0 .. 79 : x \notin t .. t + n - 1 => ram'[x] = ram[x]
          /\ \A k \in 0 .. n - 1 : c * 4 + k < f => ram'[t + k] = <<"file", off + (c * 4 + k)>>
          /\ path = "uefi" => c * 4 + n <= f
          /\ n = 4 \/ c * 4 + n = f
    BY <2>8, Zenon
  <2>10. MapWritten' /\ \A m \in 1 .. i - 1 : SegmentRight(m)'
    <3>1. ASSUME NEW x \in 0 .. 79, x < kernelstart + B!sizes[i - 1] \/ x >= kernelstart + B!sizes[i] PROVE ram'[x] = ram[x]
      <4>1. x < o \/ x >= ks + b
        BY <2>3, <2>4, <3>1
      <4>2. x \notin t .. t + n - 1
        BY <2>7, <4>1
      <4> QED BY <2>9, <4>2, Zenon
    <3> QED BY <1>0, <1>3, <1>6, <1>10, <3>1, OthersKept
  <2>11. AtWork'
    <3> SUFFICES ASSUME NEW k \in 0 .. q - 1
                 PROVE  /\ k < f /\ k < copied' * 4 => ram'[o + k] = Content(i, k)
                        /\ path = "uefi" /\ k >= f => ram'[o + k] = "zero"
      <4>1. \A k : Content(i, k)' = Content(i, k)
        BY <1>0 DEF Content
      <4> QED BY <1>0, <1>4, <2>4, <2>5, <4>1, Zenon DEF AtWork
    <3>1. k \in Nat /\ k < q /\ o + k \in 0 .. 79
      BY <2>3, <2>4
    <3>2. /\ k < f /\ k < c * 4 => ram[o + k] = Content(i, k)
          /\ path = "uefi" /\ k >= f => ram[o + k] = "zero"
      BY <1>0, <1>4, <1>10, <2>4, <2>5, Zenon DEF LoaderInv, RamInv, AtWork
    <3>3. ASSUME k < f, k < copied' * 4 PROVE ram'[o + k] = Content(i, k)
      <4>1. CASE k < c * 4
        <5>1. o + k \notin t .. t + n - 1
          BY <2>7, <3>1, <4>1
        <5> QED BY <2>9, <3>1, <3>2, <3>3, <4>1, <5>1
      <4>2. CASE ~(k < c * 4)
        <5>1. PICK j \in Nat : k = c * 4 + j /\ j < 4
          <6>1. k < (c + 1) * 4
            BY <1>0, <1>4, <3>3
          <6>2. k \in Nat
            BY <3>1
          <6>3. k - c * 4 \in Nat /\ k = c * 4 + (k - c * 4) /\ k - c * 4 < 4
            BY ONLY <4>2, <6>1, <6>2, c \in Nat
          <6> QED BY <6>3
        <5>2. j \in 0 .. n - 1
          BY <2>9, <3>3, <5>1
        <5>3. ram'[t + j] = <<"file", off + (c * 4 + j)>>
          BY <2>9, <3>3, <5>1, <5>2
        <5>4. t + j = o + k
          BY <2>7, <5>1
        <5> QED BY <1>4, <3>3, <5>1, <5>3, <5>4 DEF Content
      <4> QED BY <4>1, <4>2
    <3>4. ASSUME path = "uefi", k >= f PROVE ram'[o + k] = "zero"
      <4>1. c * 4 + n <= f
        BY <2>9, <3>4
      <4>2. o + k \notin t .. t + n - 1
        BY <2>7, <3>1, <3>4, <4>1
      <4> QED BY <2>9, <3>1, <3>2, <3>4, <4>2
    <3> QED BY <3>3, <3>4
  <2>12. addr' = kernelstart' + B!sizes'[i' - 1]
    BY <1>0, <2>1, <2>3, <2>4, <2>5
  <2> QED BY <1>0, <1>6, <2>10, <2>11, <2>12, Zenon DEF RamInv
<1> QED BY <1>9, <1>10, Zenon DEF LoaderInv


(* a segment ends *)
LEMMA SegmentEndKeeps == ASSUME LoaderInv, B!end_segment PROVE LoaderInv'
<1>1. /\ pc = "segment" /\ pc' = "load" /\ path' = path /\ efi_map' = efi_map /\ image' = image
      /\ i' = i + 1 /\ region' = region /\ kernelstart' = kernelstart /\ copied' = copied /\ copied * 4 >= image[i].filesz
  BY DEF B!end_segment, B!h, B!PageSize
<1>2. \/ /\ path = "bios" /\ addr' = B!RoundUp(addr + image[i].memsz) /\ headers' = headers
         /\ ram' = [x \in 0 .. 80 - 1 |-> IF x \in addr + image[i].filesz .. addr + image[i].filesz + (image[i].memsz - image[i].filesz) - 1
                                          THEN "zero" ELSE ram[x]]
      \/ path = "uefi" /\ headers' = TRUE /\ addr' = addr /\ ram' = ram
  BY Zenon DEF B!end_segment, B!h, B!Put, B!Top
<1>3. /\ i \in 1 .. Len(image) + 1 /\ i <= Len(image) /\ image[i].load /\ (path = "bios" => headers)
  BY <1>1, Zenon DEF LoaderInv, ControlInv, Loading
<1>4. image \in Seq(Headers) /\ copied \in Nat /\ headers \in BOOLEAN
  BY Zenon DEF LoaderInv, LoadTypes, HeadersLinked
<1>5. i \in 1 .. Len(image) /\ i' \in 1 .. Len(image) + 1 /\ i' - 1 = i
  BY <1>1, <1>3, <1>4
<1>6. headers' /\ headers' \in BOOLEAN /\ copied' \in Nat
  BY <1>1, <1>2, <1>3, <1>4, Zenon
<1>7. pc \in {"place"} \cup Loading /\ pc' \in Loading /\ Later /\ pc' \in {"load", "segment"} /\ pc \in {"load", "segment"}
      /\ pc' # "kernel" /\ pc' # "place" /\ pc' # "segment"
  BY <1>1 DEF Loading, Later
<1>8. MapInv' /\ LoadTypes' /\ ControlInv' /\ (Good' <=> Good)
  BY <1>1, <1>5, <1>6, <1>7, LoadingKeeps
<1>9. ASSUME Good PROVE RamInv'
  <2>1. B!sizes' = B!sizes /\ \A k : \A n : Content(n, k)' = Content(n, k)
    BY <1>1, LayoutStays
  <2>2. PICK ks \in Nat, a \in Nat, b \in Nat, f \in Nat, q \in Nat : WorkAt(ks, a, b, f, q)
    BY <1>3, <1>5, <1>7, <1>9, WorkPlace, Zenon
  <2>3. PICK o \in Nat : o = ks + a
    OBVIOUS
  <2>4. /\ f = image[i].filesz /\ f <= q /\ b = a + B!RoundUp(q) /\ ks + b <= 76 /\ b >= a + q /\ ks = kernelstart
        /\ q = image[i].memsz /\ b = B!sizes[i] /\ a = B!sizes[i - 1] /\ o % 4 = 0
    BY <2>2, <2>3 DEF WorkAt
  <2>5. addr = o
    <3>1. addr = kernelstart + B!sizes[i - 1]
      BY <1>1, <1>9, Zenon DEF LoaderInv, RamInv
    <3> QED BY <2>3, <2>4, <3>1
  <2>6. path = "bios" => ram' = [x \in 0 .. 79 |-> IF x \in o + f .. o + f + (q - f) - 1 THEN "zero" ELSE ram[x]]
    <3>1. path = "bios" => ram' = [x \in 0 .. 80 - 1 |-> IF x \in o + f .. o + f + (q - f) - 1 THEN "zero" ELSE ram[x]]
      <4>1. path = "bios" => path # "uefi"
        OBVIOUS
      <4> QED BY <1>2, <2>4, <2>5, <4>1, Zenon
    <3>2. 80 - 1 = 79
      OBVIOUS
    <3> QED BY <3>1, <3>2, Zenon
  <2>7. path = "uefi" => ram' = ram
    <3>1. path = "uefi" => path # "bios"
      OBVIOUS
    <3> QED BY <1>2, <3>1, Zenon
  <2>8. path = "bios" \/ path = "uefi"
    BY <1>2, Zenon
  <2>9. ASSUME NEW x \in 0 .. 79, x < o \/ x >= ks + b PROVE ram'[x] = ram[x]
    <3>1. x \notin o + f .. o + f + (q - f) - 1
      BY <2>3, <2>4, <2>9
    <3> QED BY <2>6, <2>7, <2>8, <3>1
  <2>10. MapWritten' /\ \A n \in 1 .. i - 1 : SegmentRight(n)'
    <3>1. \A x \in 0 .. 79 : (x < kernelstart + B!sizes[i - 1] \/ x >= kernelstart + B!sizes[i]) => ram'[x] = ram[x]
      BY <2>3, <2>4, <2>9
    <3> QED BY <1>1, <1>5, <1>7, <1>9, <3>1, OthersKept
  <2>11. PICK j \in 1 .. Len(image) : j = i
    BY <1>5
  <2>12. SegmentRight(j)'
    <3> SUFFICES ASSUME NEW k \in 0 .. q - 1 PROVE ram'[o + k] = Content(j, k)
      <4>1. kernelstart' + B!sizes'[j - 1] = o /\ image'[j].memsz = q
        BY <1>1, <2>1, <2>3, <2>4, <2>11
      <4> QED BY <2>1, <4>1, Zenon DEF SegmentRight
    <3>0. k \in Nat /\ k < q /\ ks + b <= 76 /\ b >= a + q /\ f <= q
      BY <2>4
    <3>1. k \in Nat /\ k < q /\ o + k \in 0 .. 79
      BY ONLY <2>3, <3>0, ks \in Nat, a \in Nat, b \in Nat, q \in Nat, o \in Nat
    <3>2. PICK c \in Nat : c = copied /\ c * 4 >= f
      BY <1>1, <1>4, <2>4
    <3>3. /\ k < f /\ k < c * 4 => ram[o + k] = Content(j, k)
          /\ path = "uefi" /\ k >= f => ram[o + k] = "zero"
      BY <1>1, <1>9, <2>4, <2>5, <2>11, <3>2, Zenon DEF LoaderInv, RamInv, AtWork
    <3>4. CASE k < f
      <4>1. ram[o + k] = Content(j, k)
        BY <3>1, <3>2, <3>3, <3>4
      <4>2. o + k \notin o + f .. o + f + (q - f) - 1
        BY <3>1, <3>4
      <4> QED BY <2>6, <2>7, <2>8, <3>1, <4>1, <4>2
    <3>5. CASE ~(k < f)
      <4>1. k >= f /\ o + k \in o + f .. o + f + (q - f) - 1
        BY ONLY <3>0, <3>5, f \in Nat, q \in Nat, o \in Nat
      <4>2. Content(j, k) = "zero"
        BY <2>4, <2>11, <3>5 DEF Content
      <4> QED BY <2>6, <2>7, <2>8, <3>1, <3>3, <4>1, <4>2
    <3> QED BY <3>4, <3>5
  <2>13. \A n \in 1 .. i' - 1 : SegmentRight(n)'
    <3>0. i \in Nat /\ i' - 1 = i
      BY <1>1, <1>5
    <3>1. \A n \in 1 .. i' - 1 : n \in 1 .. i - 1 \/ n = j
      BY ONLY <2>11, <3>0
    <3> QED BY <2>10, <2>12, <3>1, Zenon
  <2>14. path = "bios" => addr' = kernelstart' + B!sizes'[i' - 1]
    <3> SUFFICES ASSUME path = "bios" PROVE addr' = kernelstart' + B!sizes'[i' - 1]
      OBVIOUS
    <3>1. addr' = B!RoundUp(o + q)
      BY <1>2, <2>4, <2>5
    <3>2. B!RoundUp(o + q) = o + B!RoundUp(q) /\ B!RoundUp(q) \in Nat
      BY <2>4, Rounded
    <3>3. kernelstart' + B!sizes'[i' - 1] = ks + b
      BY <1>1, <1>5, <2>1, <2>4
    <3> QED BY <2>3, <2>4, <3>1, <3>2, <3>3
  <2> QED BY <1>1, <1>7, <2>10, <2>13, <2>14, Zenon DEF RamInv
<1> QED BY <1>8, <1>9, Zenon DEF LoaderInv

(* the kernel is entered *)
LEMMA EnterKeeps == ASSUME LoaderInv, B!enter_kernel PROVE LoaderInv'
<1>1. /\ pc = "load" /\ pc' = "kernel" /\ path' = path /\ efi_map' = efi_map /\ image' = image /\ i > Len(image)
      /\ i' = i /\ region' = region /\ kernelstart' = kernelstart /\ copied' = copied /\ headers' = headers
      /\ ram' = [x \in 0 .. 79 |-> IF x \in B!MMP .. B!MMP + B!Rest - 1
                                   THEN IF path = "uefi" /\ B!Parameter(x - B!MMP) THEN "map" ELSE ram[B!MMP + (x - B!MMP)]
                                   ELSE ram[x]]
  BY DEF B!enter_kernel, B!Put, B!Top
<1>2. headers /\ headers \in BOOLEAN /\ copied \in Nat /\ image \in Seq(Headers)
  BY <1>1, Zenon DEF LoaderInv, ControlInv, LoadTypes, HeadersLinked
<1>3. i \in 1 .. Len(image) + 1
  BY <1>1, Zenon DEF LoaderInv, ControlInv, Loading
<1>4. i' = Len(image) + 1 /\ i' \in 1 .. Len(image) + 1
  <2>1. PICK L \in Nat : L = Len(image)
    BY <1>2
  <2>2. i > L /\ i \in 1 .. L + 1 /\ i' = i
    BY <1>1, <1>3, <2>1
  <2>3. i = L + 1
    BY ONLY <2>2, L \in Nat
  <2> QED BY <1>3, <2>1, <2>2, <2>3
<1>5. pc \in {"place"} \cup Loading /\ pc \in Loading /\ pc' \in Loading /\ pc' # "segment" /\ Later /\ pc' # "place" /\ pc' # "load" /\ pc # "kernel"
  BY <1>1 DEF Loading, Later
<1>6. MapInv' /\ LoadTypes' /\ ControlInv' /\ (Good' <=> Good)
  BY <1>1, <1>2, <1>4, <1>5, LoadingKeeps
<1>7. ASSUME Good PROVE RamInv'
  <2>0. RamInv
    BY <1>7 DEF LoaderInv
  <2>1. /\ B!sizes' = B!sizes /\ B!Rest' = B!Rest /\ B!MMP' = B!MMP
        /\ \A k : (B!Parameter(k)' <=> B!Parameter(k)) /\ \A n : Content(n, k)' = Content(n, k)
    BY <1>1, LayoutStays
  <2>2. PICK ks \in Nat, z \in Nat, r \in Nat, w \in Nat :
          ks = kernelstart /\ z = B!size /\ r = B!Rest /\ w = B!MMP /\ ks + z + 4 <= w /\ w + r <= 80
    BY <1>5, <1>7, Layout
  <2>3. ram' = [x \in 0 .. 79 |-> IF x \in w .. w + r - 1
                                  THEN IF path = "uefi" /\ B!Parameter(x - w) THEN "map" ELSE ram[w + (x - w)] ELSE ram[x]]
    BY <1>1, <2>2
  <2>4. MapWritten'
    <3> SUFFICES ASSUME NEW k \in 0 .. r - 1 PROVE ram'[w + k] = "map"
      BY <2>1, <2>2, Zenon DEF MapWritten
    <3>1. k \in Nat /\ k < r
      BY <2>2
    <3>2. w + k \in 0 .. 79 /\ w + k \in w .. w + r - 1 /\ (w + k) - w = k
      BY ONLY <2>2, <3>1, w \in Nat, r \in Nat
    <3>3. PICK x \in 0 .. 79 : x = w + k
      BY <3>2
    <3>4. (path = "uefi" /\ B!Parameter(k)) \/ ram[w + k] = "map"
      BY <1>5, <2>0, <2>2, Zenon DEF RamInv, MapWritten
    <3> QED BY <2>3, <3>2, <3>3, <3>4
  <2>5. ASSUME NEW n \in 1 .. i' - 1 PROVE SegmentRight(n)'
    <3> SUFFICES ASSUME image[n].load, NEW k \in 0 .. image[n].memsz - 1
                 PROVE  ram'[kernelstart + B!sizes[n - 1] + k] = Content(n, k)
      BY <1>1, <2>1, Zenon DEF SegmentRight
    <3>1. n \in 1 .. Len(image) /\ n \in 1 .. i - 1
      BY <1>1, <1>2, <1>4, <2>5
    <3>2. PICK c \in Nat, d \in Nat, q \in Nat : c = B!sizes[n - 1] /\ d = B!sizes[n] /\ q = image[n].memsz
      <4>1. B!sizes[n - 1] \in Nat /\ B!sizes[n] \in Nat /\ image[n].memsz \in Nat
        BY <1>5, <1>7, <3>1, Layout, Zenon
      <4> QED BY <4>1, Zenon
    <3>3. d = c + B!RoundUp(q) /\ d <= z
      <4>1. B!sizes[n] = B!sizes[n - 1] + B!RoundUp(image[n].memsz) /\ B!sizes[n] <= B!size
        BY <1>5, <1>7, <3>1, Layout, Zenon
      <4> QED BY <2>2, <3>2, <4>1, Zenon
    <3>4. B!RoundUp(q) \in Nat /\ B!RoundUp(q) >= q
      BY Rounded
    <3>5. k \in Nat /\ k < q
      BY <3>2
    <3>6. c + q <= z
      BY ONLY <3>3, <3>4, c \in Nat, d \in Nat, q \in Nat, z \in Nat
    <3>7. ks + c + k \in 0 .. 79 /\ ks + c + k \notin w .. w + r - 1
      BY ONLY <2>2, <3>5, <3>6, c \in Nat, q \in Nat, z \in Nat, ks \in Nat, w \in Nat, r \in Nat
    <3>8. PICK x \in 0 .. 79 : x = ks + c + k
      BY <3>7
    <3>9. ram'[x] = ram[x]
      BY <2>3, <3>7, <3>8
    <3>10. ram[kernelstart + B!sizes[n - 1] + k] = Content(n, k)
      BY <1>5, <2>0, <3>1, Zenon DEF RamInv, SegmentRight
    <3> QED BY <2>2, <3>2, <3>8, <3>9, <3>10, Zenon
  <2> QED BY <1>1, <1>5, <2>4, <2>5, Zenon DEF RamInv
<1> QED BY <1>6, <1>7, Zenon DEF LoaderInv

(* all steps *)
LEMMA LoaderSteps == LoaderInv /\ [B!Next]_(B!vars) => LoaderInv'
<1> SUFFICES ASSUME LoaderInv, [B!Next]_(B!vars) PROVE LoaderInv'
  OBVIOUS
<1>1. CASE UNCHANGED B!vars
  <2>1. /\ path' = path /\ e820' = e820 /\ efi_map' = efi_map /\ image' = image /\ cluster_size' = cluster_size /\ pc' = pc /\ i' = i
        /\ region' = region /\ kernelstart' = kernelstart /\ addr' = addr /\ copied' = copied /\ headers' = headers /\ ram' = ram
    BY <1>1, Zenon DEF B!vars
  <2>2. MapInv'
    BY MapSteps DEF LoaderInv
  <2>3. /\ B!sizes' = B!sizes /\ B!size' = B!size /\ B!Rest' = B!Rest /\ B!MMP' = B!MMP
        /\ B!total_pages' = B!total_pages
        /\ \A k : (B!Parameter(k)' <=> B!Parameter(k)) /\ \A n : Content(n, k)' = Content(n, k)
    BY <2>1, LayoutStays
  <2>4. HeadersLinked' <=> HeadersLinked
    BY <2>1, LinkedStays
  <2>5. LoadTypes'
    BY <2>1, <2>4, Zenon DEF LoaderInv, LoadTypes, Loading
  <2>6. ControlInv'
    BY <2>1, <2>3, Zenon DEF LoaderInv, ControlInv, Loading
  <2>7. (MapWritten' <=> MapWritten) /\ \A n : SegmentRight(n)' <=> SegmentRight(n)
    BY <2>1, <2>3, Zenon DEF MapWritten, SegmentRight
  <2>8. AtWork' <=> AtWork
    BY <2>1, Zenon DEF AtWork, Content
  <2>9. RamInv => RamInv'
    BY <2>1, <2>3, <2>7, <2>8, Zenon DEF RamInv, Loading
  <2>10. Good' <=> Good
    BY <2>1, Zenon DEF Good
  <2> QED BY <2>2, <2>5, <2>6, <2>9, <2>10, Zenon DEF LoaderInv
<1>2. CASE B!Next
  BY <1>2, ConvertKeeps, RegionKeeps, PlaceKeeps, HeaderKeeps, SegmentKeeps, PageKeeps, SegmentEndKeeps, EnterKeeps, Zenon DEF B!Next
<1> QED BY <1>1, <1>2

(* what the invariant says of the kernel that is entered *)
LEMMA LoaderComplete == LoaderInv => B!ImageComplete
<1> SUFFICES ASSUME LoaderInv, pc = "kernel", region # None, kernelstart = efi_map[region].start * B!PageSize
             PROVE  /\ \A n \in DOMAIN image : image[n].load =>
                         \A k \in 0 .. image[n].memsz - 1 :
                           ram[kernelstart + image[n].vaddr - image[1].vaddr + k] =
                              IF k < image[n].filesz THEN <<"file", image[n].offset + k>> ELSE "zero"
                    /\ \A x \in B!MMP .. B!kernel_end - 1 : ram[x] = "map"
                    /\ \A x \in kernelstart .. B!kernel_end - 1 : B!Usable(x)
                    /\ B!stack + B!bitmap_size <= B!MMP
                    /\ \A p \in 0 .. B!Pages(B!Top) - 1 : B!InMap(p) => p < B!bitmap_size * 8
  BY Zenon DEF B!ImageComplete
<1>1. Good /\ pc \in {"place"} \cup Loading /\ pc \in Loading
  BY DEF Good, B!PageSize, Loading
<1>2. RamInv /\ MapInv /\ i = Len(image) + 1
  BY <1>1 DEF LoaderInv, ControlInv
<1>3. image \in Seq(Headers) /\ DOMAIN image = 1 .. Len(image) /\ i - 1 = Len(image)
  BY <1>2 DEF LoaderInv, LoadTypes, HeadersLinked
<1>4. ASSUME NEW n \in DOMAIN image, image[n].load, NEW k \in 0 .. image[n].memsz - 1
      PROVE  ram[kernelstart + image[n].vaddr - image[1].vaddr + k] =
               IF k < image[n].filesz THEN <<"file", image[n].offset + k>> ELSE "zero"
  <2>1. n \in 1 .. Len(image) /\ n \in 1 .. i - 1 /\ 1 \in 1 .. Len(image)
    BY <1>3, <1>4
  <2>2. ram[kernelstart + B!sizes[n - 1] + k] = Content(n, k)
    BY <1>1, <1>2, <1>4, <2>1, Zenon DEF RamInv, SegmentRight
  <2>3. image[n].vaddr - image[1].vaddr = B!sizes[n - 1] /\ image[n].memsz \in Nat /\ kernelstart \in Nat
    BY <1>1, <1>4, <2>1, Layout, Zenon
  <2>4. PICK v \in Nat, u \in Nat : v = image[n].vaddr /\ u = image[1].vaddr
    BY <1>3, <2>1, HeaderFields
  <2>5. kernelstart + v - u + k = kernelstart + (v - u) + k
    BY <2>3
  <2> QED BY <2>2, <2>3, <2>4, <2>5 DEF Content
<1>5. ASSUME NEW x \in B!MMP .. B!kernel_end - 1 PROVE ram[x] = "map"
  <2>1. PICK r \in Nat, w \in Nat : r = B!Rest /\ w = B!MMP
    BY <1>1, Layout
  <2>2. B!kernel_end = w + r
    BY <2>1 DEF B!kernel_end
  <2>3. PICK k \in 0 .. r - 1 : x = w + k
    <3>1. x - w \in 0 .. r - 1 /\ x = w + (x - w)
      BY <2>1, <2>2
    <3> QED BY <3>1
  <2> QED BY <1>1, <1>2, <2>1, <2>3, Zenon DEF RamInv, MapWritten
<1>6. (\A x \in kernelstart .. B!kernel_end - 1 : B!Usable(x)) /\ B!stack + B!bitmap_size <= B!MMP
  BY <1>1, Layout
<1>7. ASSUME NEW p \in 0 .. B!Pages(B!Top) - 1, B!InMap(p) PROVE p < B!bitmap_size * 8
  <2>1. p \in Nat
    BY DEF B!Pages, B!Top, B!PageSize
  <2> QED BY <1>2, <1>7, <2>1, BitmapSize
<1> QED BY <1>4, <1>5, <1>6, <1>7
=============================================================================
