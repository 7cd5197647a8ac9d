-------------------------------- MODULE Paging --------------------------------
(***************************************************************************)
(* The page tables of the kernel (x86-64/paging.c): create_mapping maps a  *)
(* range with the largest pages that fit, destroy_mapping removes a range  *)
(* and splits the huge pages that it cuts.                                 *)
(*                                                                         *)
(* A table has F entries (512 in the code).  An entry of level 0, 1 or 2   *)
(* stands for F^level pages: a page, a "2 MB" or a "1 GB" page; level 3 is *)
(* the PML4.  Addresses count pages.  One step is one round of the outer   *)
(* loop of a call, for the processor walks the tables between any two.     *)
(***************************************************************************)
EXTENDS Integers, Sequences, FiniteSets

CONSTANTS
  F,              \* entries of a table
  Processors,     \* the values cpuid may give GbPageSupport: has it level 2 pages?
  Attrs,          \* attributes a caller asks for (write-back, uncached)
  Limit,          \* bound: callers map addresses below this one
  Lens,           \* bound: the lengths they ask for
  Shifts,         \* bound: physical less virtual address of a mapping
  MaxCalls        \* bound: calls in a behaviour

PagingConstants ==
  /\ F \in Nat \ {0, 1} /\ Processors \subseteq BOOLEAN /\ MaxCalls \in Nat
  /\ Limit \in 1 .. F * F * F * F /\ Lens \subseteq Nat \ {0} /\ Shifts \subseteq Nat

VARIABLES
  GbPageSupport,  \* read from cpuid once, by SetupPaging
  mem,    \* the tables in memory: a function on the frames that hold one
  todo,   \* the calls in progress, the innermost first
  call,   \* the call the kernel made last, and the translations before it
  calls   \* number of calls made

vars == <<GbPageSupport, mem, todo, call, calls>>

Levels == 0 .. 3
Size(l) == CASE l = 0 -> 1 [] l = 1 -> F [] l = 2 -> F * F [] l = 3 -> F * F * F
VSize == F * Size(3)                    \* 2^64 in the code
Index(v, l) == (v \div Size(l)) % F
Smaller(a, b) == IF a <= b THEN a ELSE b

None == [kind |-> "none"]
Table(t) == [kind |-> "table", to |-> t]
Page(p, a) == [kind |-> "page", to |-> p, attr |-> a]
Blank == [i \in 0 .. F - 1 |-> None]

KernelPML4 == 0

(* the tables on the way to a page, where they are there *)
PDPT(m, v) == m[KernelPML4][Index(v, 3)].to
PD(m, v) == m[PDPT(m, v)][Index(v, 2)].to
PT(m, v) == m[PD(m, v)][Index(v, 1)].to
TableOf(m, v, l) ==
  CASE l = 3 -> KernelPML4 [] l = 2 -> PDPT(m, v) [] l = 1 -> PD(m, v) [] l = 0 -> PT(m, v)
Entry(m, v, l) == m[TableOf(m, v, l)][Index(v, l)]

(* the walk for v comes to level l: the entries above it point to tables *)
Reached(m, v, l) ==
  /\ l < 3 => Entry(m, v, 3).kind = "table"
  /\ l < 2 => Entry(m, v, 2).kind = "table"
  /\ l < 1 => Entry(m, v, 1).kind = "table"

(* the level at which the translation of v ends *)
EndLevel(m, v) == CHOOSE l \in Levels : Reached(m, v, l) /\ Entry(m, v, l).kind # "table"

(* the page v is mapped to, with the offset into a huge page *)
Translate(m, v) ==
  LET l == EndLevel(m, v)
      e == Entry(m, v, l)
  IN  IF e.kind = "none" THEN None ELSE Page(e.to + (v % Size(l)), e.attr)

-----------------------------------------------------------------------------
(* alloc_frame returns some frame that holds no table; alloc_pages clears it *)
FreshFrame(m) == CHOOSE t \in 0 .. Cardinality(DOMAIN m) : t \notin DOMAIN m

alloc_pages(m) ==
  [t \in DOMAIN m \cup {FreshFrame(m)} |-> IF t \in DOMAIN m THEN m[t] ELSE Blank]
free_pages(m, S) == [t \in DOMAIN m \ S |-> m[t]]

(* an entry without a table gets one, also one that was a huge page *)
WithTable(m, t, i) ==
  IF m[t][i].kind = "table" THEN m
  ELSE [alloc_pages(m) EXCEPT ![t][i] = Table(FreshFrame(m))]

(* the tables on the way to the entry of v at level l *)
WithPath(m, v, l) ==
  LET m2 == WithTable(m, KernelPML4, Index(v, 3))
      m1 == WithTable(m2, PDPT(m2, v), Index(v, 2))
      m0 == WithTable(m1, PD(m1, v), Index(v, 1))
  IN  CASE l = 2 -> m2 [] l = 1 -> m1 [] l = 0 -> m0

(* the tables below an entry: free_pdpt frees a directory and its tables *)
TablesIn(S) == {e.to : e \in {x \in S : x.kind = "table"}}

(* mutant of free_pdpt: the directory alone is freed *)
FreesDirectory(m, S) == TablesIn(S)

free_pdpt(m, S) ==
  LET T == TablesIn(S)
  IN  T \cup UNION {TablesIn({m[t][i] : i \in DOMAIN m[t]}) : t \in T}

(* the entries of level l from v on get the values new[0], new[1], ..; the *)
(* tables they had are freed                                               *)
WriteEntries(m, v, l, new) ==
  LET t == TableOf(m, v, l)
      first == Index(v, l)
      I == {first + j : j \in DOMAIN new}
  IN  free_pages([m EXCEPT ![t] = [i \in 0 .. F - 1 |-> IF i \in I THEN new[i - first] ELSE m[t][i]]],
                 free_pdpt(m, {m[t][i] : i \in I}))

-----------------------------------------------------------------------------
Create(va, pa, n, a) == [op |-> "create", va |-> va, pa |-> pa, n |-> n, attr |-> a]
Destroy(va, n) == [op |-> "destroy", va |-> va, n |-> n]

(* the level whose pages a round uses for n pages at the addresses in S *)
FitLevel(n, S) ==
  LET Fit(l) == n >= Size(l) /\ \A x \in S : x % Size(l) = 0
  IN  IF GbPageSupport /\ Fit(2) THEN 2 ELSE IF Fit(1) THEN 1 ELSE 0

(* entries a round writes: up to the end of the range and of the table *)
Count(c, l) == Smaller(c.n \div Size(l), F - Index(c.va, l))

CreateLevel(c) == FitLevel(c.n, {c.va, c.pa})

(* mutant of Returns: the last page is left out *)
StopsBeforeLast(c) == c.va + 1 >= (c.va + c.n) % VSize

(* virtual_end wraps to 0 at the end of the address space *)
Returns(c) == c.va >= (c.va + c.n) % VSize

CreateRound ==
  LET c == Head(todo)
      l == CreateLevel(c)
      k == Count(c, l)
      s == k * Size(l)
  IN  /\ c.op = "create" /\ ~Returns(c)
      /\ mem' = WriteEntries(WithPath(mem, c.va, l), c.va, l,
                             [j \in 0 .. k - 1 |-> Page(c.pa + j * Size(l), c.attr)])
      /\ todo' = <<Create(c.va + s, c.pa + s, c.n - s, c.attr)>> \o Tail(todo)
      /\ UNCHANGED <<GbPageSupport, call, calls>>

DestroyLevel(c) == FitLevel(c.n, {c.va})

(* the call meets a hole and returns at once *)
Hole(c) == LET l == EndLevel(mem, c.va)
           IN  Entry(mem, c.va, l).kind = "none" /\ (l >= 2 \/ l > DestroyLevel(c))

(* the call meets a huge page larger than what it may remove *)
Cuts(c) == LET l == EndLevel(mem, c.va)
           IN  Entry(mem, c.va, l).kind = "page" /\ l > DestroyLevel(c)

DestroyRound ==
  LET c == Head(todo)
      l == DestroyLevel(c)
      k == Count(c, l)
      s == k * Size(l)
  IN  /\ c.op = "destroy" /\ ~Returns(c) /\ ~Hole(c) /\ ~Cuts(c)
      /\ mem' = WriteEntries(mem, c.va, l, [j \in 0 .. k - 1 |-> None])
      /\ todo' = <<Destroy(c.va + s, c.n - s)>> \o Tail(todo)
      /\ UNCHANGED <<GbPageSupport, call, calls>>

(* mutant of Pieces: what follows the range in the huge page is forgotten *)
PiecesNoSuffix(c, l, e) ==
  LET off == c.va % Size(l)
      here == Smaller(c.n, Size(l) - off)
  IN  <<Create(c.va - off, e.to, off, e.attr), Create(c.va, e.to + off, here, e.attr)>>

(* mutant of Pieces: the huge page is mapped again as a whole *)
PiecesWhole(c, l, e) == <<Create(c.va - (c.va % Size(l)), e.to, Size(l), e.attr)>>

(* a huge page is mapped again in three pieces: before, in and after the range *)
Pieces(c, l, e) ==
  LET off == c.va % Size(l)
      here == Smaller(c.n, Size(l) - off)
  IN  <<Create(c.va - off, e.to, off, e.attr),
        Create(c.va, e.to + off, here, e.attr),
        Create(c.va + here, e.to + off + here, Size(l) - off - here, e.attr)>>

DestroySplit ==
  LET c == Head(todo)
      l == EndLevel(mem, c.va)
  IN  /\ c.op = "destroy" /\ ~Returns(c) /\ Cuts(c)
      /\ todo' = Pieces(c, l, Entry(mem, c.va, l)) \o todo
      /\ UNCHANGED <<GbPageSupport, mem, call, calls>>

Return ==
  LET c == Head(todo)
  IN  /\ Returns(c) \/ (c.op = "destroy" /\ Hole(c))
      /\ todo' = Tail(todo)
      /\ UNCHANGED <<GbPageSupport, mem, call, calls>>

Begin(c) ==
  /\ todo = <<>> /\ calls < MaxCalls
  /\ todo' = <<c>>
  /\ call' = [c |-> c, before |-> mem]
  /\ calls' = calls + 1
  /\ UNCHANGED <<GbPageSupport, mem>>

create_mapping ==
  \E va \in 0 .. Limit - 1, n \in Lens, s \in Shifts, a \in Attrs :
    va + n <= Limit /\ Begin(Create(va, va + s, n, a))
destroy_mapping ==
  \E va \in 0 .. Limit - 1, n \in Lens : va + n <= Limit /\ Begin(Destroy(va, n))

Init == GbPageSupport \in Processors /\ mem = [t \in {KernelPML4} |-> Blank] /\ todo = <<>> /\ calls = 0
          /\ call = [c |-> Destroy(0, 0), before |-> [t \in {KernelPML4} |-> Blank]]

(* a call in progress goes on *)
Continue == todo # <<>> /\ (CreateRound \/ DestroyRound \/ DestroySplit \/ Return)

Next == create_mapping \/ destroy_mapping \/ Continue

Spec == Init /\ [][Next]_vars

(* the processor keeps running the call; nothing makes the kernel call again *)
FairSpec == Spec /\ WF_vars(Continue)

-----------------------------------------------------------------------------
Addresses == 0 .. Limit - 1
Asked(v) == call.c.va <= v /\ v < call.c.va + call.c.n

(* every entry is of a kind its level can have *)
TypeOK ==
  /\ KernelPML4 \in DOMAIN mem
  /\ \A t \in DOMAIN mem : \A i \in 0 .. F - 1 :
       mem[t][i] = None \/ mem[t][i].kind \in {"table", "page"}
  /\ \A i \in 0 .. F - 1 : mem[KernelPML4][i].kind # "page"
  /\ \A v \in Addresses : EndLevel(mem, v) \in Levels
  /\ calls \in 0 .. MaxCalls /\ GbPageSupport \in BOOLEAN

(***************************************************************************)
(* The frames taken for tables are exactly the tables that the entries     *)
(* point to, each from one entry: create_mapping and destroy_mapping       *)
(* neither leak a table, nor free one in use, nor free one twice.  A huge  *)
(* page starts at a physical address the processor accepts.                *)
(***************************************************************************)
TablesExact ==
  LET Refs == {r \in (DOMAIN mem) \X (0 .. F - 1) : mem[r[1]][r[2]].kind = "table"}
      To(r) == mem[r[1]][r[2]].to
  IN  /\ {To(r) : r \in Refs} = DOMAIN mem \ {KernelPML4}
      /\ \A r, q \in Refs : To(r) = To(q) => r = q
      /\ \A v \in Addresses : LET l == EndLevel(mem, v)
                                e == Entry(mem, v, l)
                            IN  e.kind = "page" => e.to % Size(l) = 0

(* after create_mapping, each page of the range has its frame and attributes *)
CreateMaps ==
  todo = <<>> /\ call.c.op = "create" =>
    \A v \in Addresses : Asked(v) =>
      Translate(mem, v) = Page(call.c.pa + (v - call.c.va), call.c.attr)

(* after destroy_mapping of a range that was mapped, no page of it is mapped *)
DestroyUnmaps ==
  todo = <<>> /\ call.c.op = "destroy"
     /\ (\A v \in Addresses : Asked(v) => Translate(call.before, v) # None)
  => \A v \in Addresses : Asked(v) => Translate(mem, v) = None

(***************************************************************************)
(* A page outside the range is never redirected, not even for a moment.    *)
(* When the call has returned it is mapped as before, except that          *)
(* create_mapping drops the rest of a huge page of which it maps a part.   *)
(***************************************************************************)
InCutHuge(v) ==
  LET l == EndLevel(call.before, v)
  IN  l > 0 /\ \E w \in Addresses : Asked(w) /\ w \div Size(l) = v \div Size(l)
OutsideKept ==
  \A v \in Addresses : ~Asked(v) =>
    LET now == Translate(mem, v)
        old == Translate(call.before, v)
    IN  /\ now \in {old, None}
        /\ todo = <<>> /\ ~(call.c.op = "create" /\ InCutHuge(v)) => now = old

(* a call does not loop for ever: create_mapping called from destroy_mapping *)
(* always makes the progress destroy_mapping waits for                       *)
CallsReturn == todo # <<>> ~> todo = <<>>
=============================================================================
