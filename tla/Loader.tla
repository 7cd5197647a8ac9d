-------------------------------- MODULE Loader --------------------------------
(***************************************************************************)
(* The last part of both boot paths: stage 4 of the BIOS loader            *)
(* (boot/bios/stage4/stage4.c) and the UEFI loader (EFI/boot/              *)
(* bootloader.c).  A memory map of whole pages is made or taken over, one  *)
(* free region is chosen for the kernel, its stack, the bitmap of the      *)
(* frame allocator, the map and the parameters, and the segments of        *)
(* kernel.elf are copied, page by page: from clusters of any size in the   *)
(* one case, through the buffer that also holds the headers in the other.  *)
(*                                                                         *)
(* A page has 4 bytes, a page of stack is enough, and a map entry, the     *)
(* parameters and the device path have a byte or two.  Disk and firmware   *)
(* do what they are asked, and kernel.elf is as link.ld makes it: segments *)
(* from a page on, one after another, in the file too.                     *)
(***************************************************************************)
EXTENDS Integers, Sequences, FiniteSetsExt

CONSTANTS
  Maps,      \* memory maps of the firmware: sequences of [base, length, usable]
  Images,    \* program headers: sequences of [load, offset, vaddr, filesz, memsz]
  Clusters,  \* cluster sizes in bytes
  None

VARIABLES
  path,           \* the boot path
  e820, efi_map,  \* the firmware's memory map; the one for the kernel
  image, cluster_size,
  pc, i,          \* the loop over map entries, then over program headers
  region,         \* the map entry that was chosen
  kernelstart, addr, copied,  \* where the kernel goes; the segment at work; its pages that were copied
  headers,        \* whether the headers are in their buffer
  ram             \* what is at each address

vars == <<path, e820, efi_map, image, cluster_size, pc, i, region, kernelstart, addr, copied, headers, ram>>

PageSize == 4
Low == 4          \* 1 MB
Wide == 56        \* 4 GB
Top == 80         \* 2^64
StackSize == 4

Pages(bytes) == (bytes + PageSize - 1) \div PageSize
RoundUp(bytes) == Pages(bytes) * PageSize

(* Firmware and link.ld: entries within the address space; segments from a page on, each on the *)
(* page behind the one before it.                                                               *)
Addresses ==
  \A m \in Maps : /\ m \in Seq([base : Nat, length : Nat, usable : BOOLEAN])
                  /\ \A n \in DOMAIN m : m[n].base + m[n].length <= Top
Linked ==
  \A g \in Images :
    /\ g \in Seq([load : BOOLEAN, offset : Nat, vaddr : Nat, filesz : Nat, memsz : Nat])
    /\ Len(g) >= 1 /\ g[1].load
    /\ \A n \in DOMAIN g : g[n].load => g[n].vaddr % PageSize = 0 /\ g[n].filesz <= g[n].memsz
    /\ \A n \in DOMAIN g : \A m \in 1 .. n - 1 :
         (g[m].load /\ g[n].load /\ \A k \in m + 1 .. n - 1 : ~g[k].load) => g[n].vaddr = RoundUp(g[m].vaddr + g[m].memsz)

(* what the segments need one behind the other, each from a page on *)
sizes[n \in 0 .. Len(image)] ==
  IF n = 0 THEN 0 ELSE IF image[n].load THEN RoundUp(sizes[n - 1] + image[n].memsz) ELSE sizes[n - 1]
size == sizes[Len(image)]

highest_page == Max({efi_map[n].start + efi_map[n].pages : n \in DOMAIN efi_map} \cup {0})
bitmap_size == IF path = "bios" THEN RoundUp((highest_page + 7) \div 8) ELSE (highest_page + 7) \div 8

(* the map and the parameters, for UEFI with the device path behind them *)
Rest == Len(efi_map) + (IF path = "bios" THEN 2 ELSE 3)
Parameter(k) == k \in {Len(efi_map), Len(efi_map) + 1}

total_pages ==
  IF path = "bios" THEN Pages(size + StackSize + bitmap_size + Rest)
  ELSE size \div PageSize + StackSize \div PageSize + Pages(bitmap_size) + Pages(Rest)

stack == kernelstart + size + StackSize
MMP == stack + RoundUp(bitmap_size)
kernel_end == MMP + Rest

Init ==
  /\ e820 \in Maps /\ image \in Images /\ i = 1 /\ region = None /\ kernelstart = 0 /\ addr = 0 /\ copied = 0
  /\ headers = TRUE /\ ram = [a \in 0 .. Top - 1 |-> "other"]
  /\ \/ path = "bios" /\ efi_map = <<>> /\ pc = "convert" /\ cluster_size \in Clusters
     \/ /\ path = "uefi" /\ pc = "plan" /\ cluster_size = None
        /\ \A n \in DOMAIN e820 : e820[n].base % PageSize = 0 /\ e820[n].length % PageSize = 0
        /\ efi_map = [n \in DOMAIN e820 |->
             [start |-> e820[n].base \div PageSize, pages |-> e820[n].length \div PageSize, usable |-> e820[n].usable]]

-----------------------------------------------------------------------------
(* the pages of an entry: only whole ones of usable memory, every page of other memory *)
first_page(e) == IF e.usable THEN Pages(e.base) ELSE e.base \div PageSize
end_page(e) == IF e.usable THEN (e.base + e.length) \div PageSize ELSE Pages(e.base + e.length)
Skipped(e) == e.length = 0 \/ e.length > Top - 1 - e.base \/ end_page(e) <= first_page(e)

convert_e820_to_efi ==
  /\ pc = "convert" /\ i <= Len(e820) /\ i' = i + 1
  /\ LET e == e820[i]
     IN efi_map' = IF Skipped(e) THEN efi_map
                   ELSE Append(efi_map, [start |-> first_page(e), pages |-> end_page(e) - first_page(e), usable |-> e.usable])
  /\ UNCHANGED <<path, e820, image, cluster_size, pc, region, kernelstart, addr, copied, headers, ram>>

converted ==
  /\ pc = "convert" /\ i > Len(e820) /\ pc' = "plan"
  /\ UNCHANGED <<path, e820, efi_map, image, cluster_size, i, region, kernelstart, addr, copied, headers, ram>>

(* The first usable entry that is large enough.  The BIOS path keeps 32 bits of its  *)
(* address; without one both go on with address 1.                                   *)
find_free_region ==
  LET fit == {n \in DOMAIN efi_map : efi_map[n].usable /\ efi_map[n].start * PageSize >= Low /\ efi_map[n].pages >= total_pages}
      start == efi_map[Min(fit)].start * PageSize
  IN
  /\ pc = "plan" /\ pc' = "place" /\ i' = 1
  /\ region' = IF fit = {} THEN None ELSE Min(fit)
  /\ kernelstart' = IF fit = {} THEN 1 ELSE IF path = "bios" THEN start % Wide ELSE start
  /\ addr' = kernelstart'
  /\ UNCHANGED <<path, e820, efi_map, image, cluster_size, copied, headers, ram>>

(* n bytes from a on become f[0], f[1] .. *)
Put(a, n, f(_)) == [x \in 0 .. Top - 1 |-> IF x \in a .. a + n - 1 THEN f(x - a) ELSE ram[x]]

(* map and device path; the BIOS path writes the parameters at once too *)
place_map ==
  /\ pc = "place" /\ pc' = "load"
  /\ ram' = Put(MMP, Rest, LAMBDA k : IF path = "uefi" /\ Parameter(k) THEN ram[MMP + k] ELSE "map")
  /\ UNCHANGED <<path, e820, efi_map, image, cluster_size, i, region, kernelstart, addr, copied, headers>>

-----------------------------------------------------------------------------
h == image[i]

(* a header that is not there any more is something else *)
next_header ==
  /\ pc = "load" /\ i <= Len(image) /\ ~(headers /\ h.load) /\ i' = i + 1
  /\ UNCHANGED <<path, e820, efi_map, image, cluster_size, pc, region, kernelstart, addr, copied, headers, ram>>

(* elf_allocator clears what is not in the file first and goes by p_vaddr *)
start_segment ==
  /\ pc = "load" /\ i <= Len(image) /\ headers /\ h.load /\ pc' = "segment" /\ copied' = 0
  /\ \/ path = "bios" /\ UNCHANGED <<addr, ram>>
     \/ /\ path = "uefi" /\ addr' = kernelstart + h.vaddr - image[1].vaddr
        /\ ram' = Put(addr' + h.filesz, h.memsz - h.filesz, LAMBDA k : "zero")
  /\ UNCHANGED <<path, e820, efi_map, image, cluster_size, i, region, kernelstart, headers>>

(* byte n of the file *)
File(n) == IF \E m \in DOMAIN image : n < image[m].offset + image[m].filesz THEN <<"file", n>> ELSE "other"

(* the clusters load_4k reads for a page at this offset of the first one *)
cluster_count(off) == (PageSize + off + cluster_size - 1) \div cluster_size

(* load_4k: a page from the n-th cluster of the file and those that follow it *)
load_4k ==
  LET offset == h.offset + copied * PageSize
      first == offset \div cluster_size
      off == offset % cluster_size
  IN Put(addr + copied * PageSize, PageSize,
         LAMBDA k : IF off + k < cluster_count(off) * cluster_size THEN File(first * cluster_size + off + k) ELSE "other")

(* a page of the segment; the UEFI loader copies no more than the segment has *)
load_page ==
  LET left == h.filesz - copied * PageSize
      n == IF left > PageSize THEN PageSize ELSE left
  IN
  /\ pc = "segment" /\ left > 0 /\ copied' = copied + 1
  /\ \/ path = "bios" /\ ram' = load_4k /\ UNCHANGED headers
     \/ /\ path = "uefi" /\ headers' = FALSE
        /\ ram' = Put(addr + copied * PageSize, n, LAMBDA k : File(h.offset + copied * PageSize + k))
  /\ UNCHANGED <<path, e820, efi_map, image, cluster_size, pc, i, region, kernelstart, addr>>

(* mutant of end_segment: load_segment does not read the headers again *)
EndSegmentKeepsData ==
  /\ pc = "segment" /\ copied * PageSize >= h.filesz /\ pc' = "load" /\ i' = i + 1
  /\ \/ /\ path = "bios" /\ addr' = RoundUp(addr + h.memsz)
        /\ ram' = Put(addr + h.filesz, h.memsz - h.filesz, LAMBDA k : "zero")
     \/ path = "uefi" /\ UNCHANGED <<addr, ram>>
  /\ UNCHANGED <<path, e820, efi_map, image, cluster_size, region, kernelstart, copied, headers>>

(* load_kernel clears the rest and goes on at the next page; load_segment reads the headers again *)
end_segment ==
  /\ pc = "segment" /\ copied * PageSize >= h.filesz /\ pc' = "load" /\ i' = i + 1
  /\ \/ /\ path = "bios" /\ addr' = RoundUp(addr + h.memsz) /\ UNCHANGED headers
        /\ ram' = Put(addr + h.filesz, h.memsz - h.filesz, LAMBDA k : "zero")
     \/ path = "uefi" /\ headers' = TRUE /\ UNCHANGED <<addr, ram>>
  /\ UNCHANGED <<path, e820, efi_map, image, cluster_size, region, kernelstart, copied>>

enter_kernel ==
  /\ pc = "load" /\ i > Len(image) /\ pc' = "kernel"
  /\ ram' = Put(MMP, Rest, LAMBDA k : IF path = "uefi" /\ Parameter(k) THEN "map" ELSE ram[MMP + k])
  /\ UNCHANGED <<path, e820, efi_map, image, cluster_size, i, region, kernelstart, addr, copied, headers>>

Next ==
  \/ convert_e820_to_efi \/ converted \/ find_free_region \/ place_map
  \/ next_header \/ start_segment \/ load_page \/ end_segment \/ enter_kernel

Spec == Init /\ [][Next]_vars

-----------------------------------------------------------------------------
TypeOK ==
  /\ pc \in {"convert", "plan", "place", "load", "segment", "kernel"} /\ headers \in BOOLEAN
  /\ region \in DOMAIN efi_map \cup {None} /\ kernelstart \in 0 .. Top /\ copied \in Nat

(* what the firmware says of a byte, and the map of a page *)
Usable(a) == \E n \in DOMAIN e820 : e820[n].usable /\ a \in e820[n].base .. e820[n].base + e820[n].length - 1
Page(p) == p * PageSize .. (p + 1) * PageSize - 1
InMap(p) == \E n \in DOMAIN efi_map : efi_map[n].usable /\ p \in efi_map[n].start .. efi_map[n].start + efi_map[n].pages - 1

(* On the BIOS path the kernel gets a page as usable if and only if all of it is, by an *)
(* entry that does not reach the end of the address space (convert_e820_to_efi).        *)
MapRight ==
  (path = "bios" /\ pc # "convert") => \A p \in 0 .. Pages(Top) - 1 :
    InMap(p) <=> \E n \in DOMAIN e820 :
      /\ e820[n].usable /\ e820[n].base + e820[n].length < Top
      /\ Page(p) \subseteq e820[n].base .. e820[n].base + e820[n].length - 1

(* When the kernel is entered its segments are where their addresses say, with the bytes *)
(* of the file and zeros behind them; map and parameters are as they were written;       *)
(* all of it, stack and bitmap too, lies in usable memory; the bitmap has a bit for each *)
(* usable page.  Excepted are machines without a region for the kernel, and for the BIOS *)
(* path those whose first such region is beyond 4 GB (find_free_region).                 *)
ImageComplete ==
  (pc = "kernel" /\ region # None /\ kernelstart = efi_map[region].start * PageSize) =>
    /\ \A n \in DOMAIN image : image[n].load =>
         \A k \in 0 .. image[n].memsz - 1 :
           ram[kernelstart + image[n].vaddr - image[1].vaddr + k] =
              IF k < image[n].filesz THEN <<"file", image[n].offset + k>> ELSE "zero"
    /\ \A a \in MMP .. kernel_end - 1 : ram[a] = "map"
    /\ \A a \in kernelstart .. kernel_end - 1 : Usable(a)
    /\ stack + bitmap_size <= MMP
    /\ \A p \in 0 .. Pages(Top) - 1 : InMap(p) => p < bitmap_size * 8
=============================================================================
