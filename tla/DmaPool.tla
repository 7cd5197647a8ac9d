------------------------------ MODULE DmaPool ------------------------------
(***************************************************************************)
(* The DMA pool (x86-64/memory/dma.c, dmahlp.c, dmadef.c): allocate_dma    *)
(* reserves a virtual range from a list of pool entries and backs it with  *)
(* contiguous frames; free_dma finds the descriptor that allocate_dma left *)
(* at the end of the region and gives entries and frames back.  The USB    *)
(* drivers are the only callers, all on the boot flow, so a call is one    *)
(* step.                                                                   *)
(*                                                                         *)
(* `list' is the chain dma_start .. dma_latest; entry [page, idx] is slot  *)
(* idx of metadata page `page'.  hdr[k] is the SizeInPages field of the    *)
(* header of the k-th metadata page, the count of free slots.  What a      *)
(* frame holds is reduced to the dma_descriptor at its end, if any: frames *)
(* are not cleared when they are freed, so a descriptor outlives its       *)
(* region unless the next owner overwrites it.                             *)
(***************************************************************************)
EXTENDS Integers, Sequences, FiniteSets, FiniteSetsExt

CONSTANTS
  Machines,    \* dma_limit, the number of frames, and the request sizes in bytes
  Clears,      \* {TRUE}: callers clear what they get; BOOLEAN: they may not
  MaxEntries,  \* bound: length of the entry list
  Excess       \* bound: how far a header may count more free slots than it has

ASSUME DmaPoolAssumption ==
  /\ Machines \subseteq (Nat \ {0}) \X Nat \X SUBSET (Nat \ {0}) /\ MaxEntries \in Nat /\ Excess \in Nat
  /\ Clears \subseteq BOOLEAN

VARIABLES
  machine,            \* the machine, the same all the time
  list,               \* entries in chain order
  hdr,                \* free-slot counts, in header chain order
  dma_metadata_pages, \* metadata pages besides the first
  used,               \* frames taken from the frame allocator
  former_count,       \* hint of the frame allocator
  desc,               \* desc[f]: descriptor at the end of frame f
  vmap,               \* vmap[v]: frame mapped at DMA_BASE + v pages
  live,               \* regions the drivers hold: [base, pages, phys]
  fault               \* metadata was used outside its pages: the call never ends

pool == <<list, hdr, dma_metadata_pages>>
memory == <<used, former_count, desc, vmap>>
vars == <<machine, list, hdr, dma_metadata_pages, used, former_count, desc, vmap, live, fault>>

Limit == machine[1]    \* dma_limit: entries that fit in one metadata page
NFrames == machine[2]
Sizes == machine[3]
Frames == 0 .. NFrames - 1
NoFrame == -1
NoDesc == [entries |-> 0, pages |-> 0, home |-> <<0, 0>>]

(* pages of 4096 bytes for the request and the 28-byte dma_descriptor *)
PagesFor(size) == (size + 28 + 4095) \div 4096

Slot(e) == <<e.page, e.idx>>
Entry(page, idx, size) == [page |-> page, idx |-> idx, status |-> "Used", size |-> size]
Last(s) == s[Len(s)]

(* the cursor of a walk over the entries s: its place, in pages, after k entries *)
Cursor(s) ==
  LET at[k \in 0 .. Len(s)] == IF k = 0 THEN 0 ELSE at[k - 1] + s[k].size
  IN  at

(* mutant of Base: the cursor does not move past the entry before *)
BaseOfPrevious(i) == IF i = 1 THEN 0 ELSE Cursor(list)[i - 2]

Base(i) == Cursor(list)[i - 1]
Pages(i, j) == Cursor(list)[j] - Cursor(list)[i - 1]
AllFree(i, j) == \A k \in i .. j : list[k].status = "Free"

(* the free run that ends at entry j starts here; j + 1 if j is not free *)
RunStart(j) == Min({i \in 1 .. j + 1 : AllFree(i, j)})

(* entries at which the search of allocate_dma stops with n free pages in a row *)
Fits(n) == {j \in DOMAIN list : list[j].status = "Free" /\ Pages(RunStart(j), j) >= n}

SetStatus(s, I, status) == [i \in DOMAIN s |-> IF i \in I THEN [s[i] EXCEPT !.status = status] ELSE s[i]]

-----------------------------------------------------------------------------
(* alloc_frame(n), external to this module: the first n free frames from the hint on *)
FrameFits(n) == {s \in former_count .. NFrames - n : (s .. s + n - 1) \cap used = {}}

(* map the frames at base, let the caller clear its bytes, write the descriptor *)
Back(n, base, home, entries, clear) ==
  IF FrameFits(n) = {}
  THEN UNCHANGED <<memory, live>>       \* status 1: the claimed entries stay Used
  ELSE LET s == Min(FrameFits(n))
           last == s + n - 1
       IN /\ used' = used \cup (s .. last)
          /\ former_count' = s + n
          /\ vmap' = [v \in DOMAIN vmap \cup (base .. base + n - 1) |->
                        IF v \in base .. base + n - 1 THEN s + (v - base) ELSE vmap[v]]
          /\ desc' = [f \in Frames |->
                        IF f = last THEN [entries |-> entries, pages |-> n, home |-> home]
                        ELSE IF clear /\ f \in s .. last THEN NoDesc ELSE desc[f]]
          /\ live' = live \cup {[base |-> base, pages |-> n, phys |-> s]}

(* the first call: dma_header == NULL, then dma_entries == 0 *)
AllocFirst(n, clear) ==
  /\ hdr = <<>>
  /\ list' = <<Entry(0, 1, n)>>
  /\ hdr' = <<Limit - 1>>
  /\ Back(n, 0, <<0, 1>>, 1, clear)
  /\ UNCHANGED <<dma_metadata_pages, fault>>

(* mutant of AllocReuse: the descriptor counts one entry, whatever was claimed *)
AllocReuseOne(n, clear) ==
  /\ hdr # <<>> /\ Fits(n) # {}
  /\ LET j == Min(Fits(n))
         i == RunStart(j)
     IN /\ list' = SetStatus(list, i .. j, "Used")
        /\ Back(n, Base(i), Slot(list[i]), 1, clear)
  /\ UNCHANGED <<hdr, dma_metadata_pages, fault>>

(* a run of free entries is large enough; its header counts stay as they are *)
AllocReuse(n, clear) ==
  /\ hdr # <<>> /\ Fits(n) # {}
  /\ LET j == Min(Fits(n))
         i == RunStart(j)
     IN /\ list' = SetStatus(list, i .. j, "Used")
        /\ Back(n, Base(i), Slot(list[i]), j - i + 1, clear)
  /\ UNCHANGED <<hdr, dma_metadata_pages, fault>>

(* the pages that the free run at the end of the list lacks go into a new last entry *)
Extend(n, clear, s, page, idx) ==
  LET i == RunStart(Len(list))
      claimed == SetStatus(s, i .. Len(s), "Used")
      new == Entry(page, idx, n - Pages(i, Len(list)))
      home == IF i <= Len(s) THEN Slot(s[i]) ELSE <<page, idx>>
  IN /\ list' = Append(claimed, new)
     /\ Back(n, Base(i), home, Cardinality(i .. Len(s)) + 1, clear)

(* the first header that counts a free slot *)
Roomy == {k \in DOMAIN hdr : hdr[k] # 0}

(* the new entry follows dma_latest, or, when that header counts only free slots and *)
(* the pool has grown, is written over dma_latest                                    *)
AllocExtend(n, clear) ==
  /\ hdr # <<>> /\ Fits(n) = {} /\ Roomy # {} /\ Len(list) < MaxEntries
  /\ LET k == Min(Roomy)
         at == Last(list)
         advance == hdr[k] # Limit \/ dma_metadata_pages = 0
     IN \/ /\ advance /\ at.idx < Limit
           /\ Extend(n, clear, list, at.page, at.idx + 1)
           /\ hdr' = [hdr EXCEPT ![k] = @ - 1]
           /\ UNCHANGED fault
        \/ /\ ~advance
           /\ Extend(n, clear, SubSeq(list, 1, Len(list) - 1), at.page, at.idx)
           /\ hdr' = [hdr EXCEPT ![k] = @ - 1]
           /\ UNCHANGED fault
        \/ /\ advance /\ at.idx = Limit          \* the slot after the last one
           /\ fault' = TRUE
           /\ UNCHANGED <<list, hdr, memory, live>>
  /\ UNCHANGED dma_metadata_pages

(* every header is down to NoEntriesLeft: a new metadata page, if vmalloc has one *)
AllocGrow(n, clear) ==
  /\ hdr # <<>> /\ Fits(n) = {} /\ Roomy = {} /\ Len(list) < MaxEntries
  /\ hdr' = Append(hdr, Limit - 1)
  /\ dma_metadata_pages' = dma_metadata_pages + 1
  /\ Extend(n, clear, list, dma_metadata_pages + 1, 1)
  /\ UNCHANGED fault

allocate_dma(size, clear) ==
  /\ ~fault
  /\ \/ AllocFirst(PagesFor(size), clear) \/ AllocReuse(PagesFor(size), clear)
     \/ AllocExtend(PagesFor(size), clear) \/ AllocGrow(PagesFor(size), clear)

-----------------------------------------------------------------------------
(* pages from base on whose end carries the signature, with no unmapped page before *)
Signed(base) ==
  {v \in DOMAIN vmap : v >= base /\ desc[vmap[v]] # NoDesc /\ base .. v \subseteq DOMAIN vmap}

find_descriptorBase(base) == desc[vmap[Min(Signed(base))]]

(* entries_used entries from home_entry on *)
Chain(d) == {i \in DOMAIN list : \E h \in DOMAIN list : /\ Slot(list[h]) = d.home
                                                        /\ i \in h .. h + d.entries - 1}

(* mutant of Empty: off by one, a page with one entry counts as empty *)
AlmostEmpty(h) == {k \in 2 .. Len(h) : h[k] >= Limit - 1}

(* metadata pages, the first excepted, whose header counts only free slots *)
Empty(h) == {k \in 2 .. Len(h) : h[k] = Limit}

FirstOf(page) == Min({i \in DOMAIN list : Slot(list[i]) = <<page, 1>>})

(* the entries of d become free; a page left with free slots only is given back, and *)
(* both chains end before it                                                         *)
GiveBack(d) ==
  LET freed == [k \in DOMAIN hdr |-> hdr[k] + Cardinality({i \in Chain(d) : list[i].page = k - 1})]
      kept == SetStatus(list, Chain(d), "Free")
  IN /\ \A k \in DOMAIN freed : freed[k] <= Limit + Excess
     /\ dma_metadata_pages' = dma_metadata_pages - Cardinality(Empty(freed))
     /\ \/ Empty(freed) = {} /\ list' = kept /\ hdr' = freed
        \/ \E k \in Empty(freed) :
             /\ k = Min(Empty(freed))
             /\ list' = SubSeq(kept, 1, FirstOf(k - 1) - 1)
             /\ hdr' = SubSeq(freed, 1, k - 1)

(* home_entry was cut off, or a header chain is shorter than dma_metadata_pages says *)
Dangling(d) == Cardinality(Chain(d)) # d.entries \/ Len(hdr) # dma_metadata_pages + 1

(* mutant of Release: the mapping after the region goes too *)
ReleaseOneMore(base, d) ==
  LET phys == vmap[base]
  IN /\ used' = used \ (phys .. phys + d.pages - 1)
     /\ former_count' = IF phys < former_count THEN phys ELSE former_count
     /\ vmap' = [v \in DOMAIN vmap \ (base .. base + d.pages) |-> vmap[v]]
     /\ GiveBack(d)
     /\ UNCHANGED <<desc, fault>>

(* mutant of Release: frees the first frame only *)
ReleaseFirst(base, d) ==
  LET phys == vmap[base]
  IN /\ used' = used \ {phys}
     /\ former_count' = IF phys < former_count THEN phys ELSE former_count
     /\ vmap' = [v \in DOMAIN vmap \ (base .. base + d.pages - 1) |-> vmap[v]]
     /\ GiveBack(d)
     /\ UNCHANGED <<desc, fault>>

(* free_frame, the entries, destroy_mapping *)
Release(base, d) ==
  LET phys == vmap[base]
  IN /\ used' = used \ (phys .. phys + d.pages - 1)
     /\ former_count' = IF phys < former_count THEN phys ELSE former_count
     /\ vmap' = [v \in DOMAIN vmap \ (base .. base + d.pages - 1) |-> vmap[v]]
     /\ GiveBack(d)
     /\ UNCHANGED <<desc, fault>>

(* the scan for the signature, or what it finds, leads out of the pool *)
Stray(base) == Signed(base) # {} => Dangling(find_descriptorBase(base))

free_dma(a) ==
  /\ ~fault
  /\ live' = live \ {a}
  /\ \/ Stray(a.base) /\ fault' = TRUE /\ UNCHANGED <<pool, memory>>
     \/ ~Stray(a.base) /\ Release(a.base, find_descriptorBase(a.base))

-----------------------------------------------------------------------------
Init ==
  /\ machine \in Machines
  /\ list = <<>> /\ hdr = <<>> /\ dma_metadata_pages = 0
  /\ used = {} /\ former_count = 0
  /\ desc = [f \in Frames |-> NoDesc]
  /\ vmap = [v \in {} |-> NoFrame]
  /\ live = {} /\ fault = FALSE

Next ==
  /\ \/ \E size \in Sizes, clear \in Clears : allocate_dma(size, clear)
     \/ \E a \in live : free_dma(a)
  /\ UNCHANGED machine

Spec == Init /\ [][Next]_vars

-----------------------------------------------------------------------------
Virt(a) == a.base .. a.base + a.pages - 1
Phys(a) == a.phys .. a.phys + a.pages - 1

(* the list can outgrow the first metadata page only if this is false *)
OnePage == MaxEntries <= Limit

(* The type of the pool, of the memory it hands out and of the regions held. *)
TypeOK ==
  OnePage =>
    /\ \A i \in DOMAIN list : /\ list[i].page \in 0 .. dma_metadata_pages
                              /\ list[i].idx \in 1 .. Limit
                              /\ list[i].status \in {"Free", "Used"} /\ list[i].size \in Nat \ {0}
    /\ \A k \in DOMAIN hdr : hdr[k] \in 0 .. Limit + Excess
    /\ used \subseteq Frames /\ former_count \in 0 .. NFrames
    /\ \A v \in DOMAIN vmap : vmap[v] \in Frames
    /\ fault \in BOOLEAN

Apart == \A a, b \in live : a # b => Virt(a) \cap Virt(b) = {}

Mapped ==
  \A a \in live :
    /\ Phys(a) \subseteq used
    /\ \A k \in 0 .. a.pages - 1 :
         a.base + k \in DOMAIN vmap /\ vmap[a.base + k] = a.phys + k

OwnDescriptor ==
  \A a \in live :
    LET d == find_descriptorBase(a.base)
    IN /\ d.pages = a.pages
       /\ Cardinality(Chain(d)) = d.entries
       /\ \A i \in Chain(d) : list[i].status = "Used"
       /\ Base(Min(Chain(d))) = a.base /\ Pages(Min(Chain(d)), Max(Chain(d))) >= a.pages

(* Regions that drivers hold never share a virtual page, whatever was split,  *)
(* merged, reused or freed before (test_allocations_are_..._non_overlapping). *)
NonOverlapping == OnePage => Apart

(* A region stays mapped, to the contiguous frames it was given, and those    *)
(* stay allocated until it is freed: no other call touches its pages.         *)
LiveMapped == OnePage => Mapped

(* The descriptor free_dma will find is the region's own, and its entries are *)
(* a stretch of used entries that starts where the region starts.             *)
DescriptorMatches == OnePage => OwnDescriptor

(* header k counts the slots of its page that hold no entry of the list *)
Truthful ==
  /\ Len(hdr) = dma_metadata_pages + 1
  /\ \A k \in DOMAIN hdr :
       hdr[k] + Cardinality({i \in DOMAIN list : list[i].page = k - 1}) = Limit

Sound == ~fault /\ Apart /\ Mapped /\ OwnDescriptor

(* Root cause: a call that starts with headers that count the free slots      *)
(* right leaves every region intact.  All corruption of the pool comes from   *)
(* the counts that free_dma raises and allocate_dma does not lower on reuse.  *)
CountsAreTheCause == [][Truthful /\ Sound => Sound']_vars

(* tests/test_dma_allocator.c:138 test_free_releases_every_backing_page: the  *)
(* step that frees a region clears the bitmap bit of each of its frames.      *)
FreeReleasesEveryPage == [][OnePage => \A a \in live \ live' : Phys(a) \cap used' = {}]_vars
=============================================================================
