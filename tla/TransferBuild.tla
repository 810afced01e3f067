---------------------------- MODULE TransferBuild ----------------------------
(***************************************************************************)
(* How one read() or write() becomes descriptors: check_transfer_align(),  *)
(* the loop of transfer_data(), the pinned pages of xdma-sgm.c and         *)
(* transfer_create() with transfer_build().  The same functions describe   *)
(* the ring of the C2H stream, with a descriptor for every page.           *)
(*                                                                         *)
(* Addresses are numbers of bytes, of the user's buffer, of the bus and of *)
(* the card.  Bus maps a byte of the buffer to the bus through bus_page,   *)
(* which pci_map_sg() (the IOMMU) chose; entries that are contiguous on    *)
(* the bus may come back merged.                                           *)
(***************************************************************************)
EXTENDS Integers, Sequences, FiniteSetsExt

CONSTANTS
  PageSize,          \* PAGE_SIZE
  MaxTransferBytes,  \* XDMA_TRANSFER_MAX_BYTES
  MaxDescBytes,      \* XDMA_DESC_MAX_BYTES
  MaxExtraAdj,       \* MAX_EXTRA_ADJ
  DescsPerPage,      \* descriptors in 4096 bytes
  AddrAlign,         \* engine->addr_align, a power of two
  LenGranularity,    \* engine->len_granularity
  Merging,           \* pci_map_sg() may merge entries
  BusPages,          \* bound: pages of the bus
  BufPages,          \* bound: pages of the buffer's address space
  MaxCount           \* bound: bytes of a request

ASSUME BuildConstants ==
  /\ {PageSize, MaxDescBytes, MaxTransferBytes, DescsPerPage, AddrAlign, LenGranularity} \subseteq Nat \ {0}
  /\ MaxExtraAdj \in Nat
  /\ MaxExtraAdj < DescsPerPage
  /\ PageSize < MaxDescBytes
  /\ MaxTransferBytes % PageSize = 0
  /\ PageSize % AddrAlign = 0 /\ PageSize % LenGranularity = 0
  /\ Merging \in BOOLEAN
  /\ BusPages \in Nat /\ BufPages \in Nat /\ MaxCount \in Nat

VARIABLES
  \* the request
  buf, count, start_pos,  \* buffer address, bytes, position on the card
  mode,                   \* "stream": engine->streaming, "fixed": ->non_incr_addr,
                          \* "memory": neither
  userspace,              \* FALSE for the buffer of the ring
  bus_page,               \* page of the buffer -> page of the bus
  \* transfer_data()
  pc, transfer_addr, remaining, pos,
  \* transfer_create()
  transfer_len,
  mapped_pages,           \* pages pinned for the transfer
  sgl,                    \* the mapped scatter list: entries [addr, len]
  \* transfer_build()
  i, cont_addr, cont_len, ep_addr,
  desc,                   \* descriptors [addr, len, ep, extra_adj]
  at                      \* history: for each descriptor, and the block being
                          \* collected, the bytes of the transfer in front of it

requestVars == <<buf, count, start_pos, mode, userspace, bus_page>>
loopVars    == <<transfer_addr, remaining, pos>>
mapVars     == <<transfer_len, mapped_pages, sgl>>
buildVars   == <<i, cont_addr, cont_len, ep_addr, desc, at>>
vars        == <<requestVars, pc, loopVars, mapVars, buildVars>>

-----------------------------------------------------------------------------
Page(a) == a \div PageSize
Offset(a) == a % PageSize
Bus(a) == bus_page[Page(a)] * PageSize + Offset(a)

LengthAligned == buf % AddrAlign = 0 /\ count % LenGranularity = 0

(* check_transfer_align(): a stream or a fixed address wants an aligned     *)
(* buffer and length, memory the same misalignment on both sides.           *)
TransferAligned ==
  CASE mode = "stream" -> LengthAligned
    [] mode = "fixed"  -> LengthAligned /\ start_pos % AddrAlign = 0
    [] mode = "memory" -> buf % AddrAlign = start_pos % AddrAlign

(* sgm_get_user_pages() and sgm_kernel_pages(): one entry for each page,    *)
(* the first from the offset of the buffer, the last with what is left.     *)
UserPages(start, len) ==
  LET first == Page(start)
      nr_pages == Page(start + len - 1) - first + 1
      head == PageSize - Offset(start)
  IN [k \in 1..nr_pages |->
        [addr |-> bus_page[first + k - 1] * PageSize + (IF k = 1 THEN Offset(start) ELSE 0),
         len  |-> IF nr_pages = 1 THEN len
                  ELSE IF k = 1 THEN head
                  ELSE IF k < nr_pages THEN PageSize
                  ELSE len - head - (nr_pages - 2) * PageSize]]

Contiguous(e, f) == f.addr = e.addr + e.len

(* The k-th smallest member of a set of positive numbers. *)
Nth(S, k) == CHOOSE n \in S : Cardinality(S \cap 1..n) = k

(* pci_map_sg(): the entries whose heads are given, with the entries behind *)
(* each head merged into it.                                                *)
Merged(entries, heads) ==
  LET to(k) == IF k = Cardinality(heads) THEN Len(entries) ELSE Nth(heads, k + 1) - 1
  IN [k \in 1..Cardinality(heads) |->
        [addr |-> entries[Nth(heads, k)].addr,
         len  |-> entries[to(k)].addr + entries[to(k)].len - entries[Nth(heads, k)].addr]]

MapSg(entries) ==
  LET may == {k \in 2..Len(entries) : Merging /\ Contiguous(entries[k - 1], entries[k])}
  IN {Merged(entries, 1..Len(entries) \ gone) : gone \in SUBSET may}

-----------------------------------------------------------------------------
BufBytes == 0..(BufPages * PageSize - 1)

Init ==
  /\ buf \in BufBytes
  /\ count \in 1..MaxCount
  /\ buf + count <= BufPages * PageSize
  /\ start_pos \in 0..(AddrAlign - 1)
  /\ mode \in {"stream", "fixed", "memory"} /\ userspace \in BOOLEAN
  /\ ~userspace => /\ mode = "stream" /\ buf = 0 /\ start_pos = 0
                   /\ count % PageSize = 0 /\ count <= MaxTransferBytes
  /\ bus_page \in [0..(BufPages - 1) -> 1..BusPages]
  /\ \A p, q \in 0..(BufPages - 1) : bus_page[p] = bus_page[q] => p = q
  /\ pc = "check"
  /\ transfer_addr = buf /\ remaining = count /\ pos = start_pos
  /\ transfer_len = 0 /\ mapped_pages = 0 /\ sgl = << >>
  /\ i = 1 /\ cont_addr = 0 /\ cont_len = 0 /\ ep_addr = 0 /\ desc = << >> /\ at = <<0>>

(* char_sgdma_read_write(); the ring is not checked. *)
CheckAlign ==
  /\ pc = "check"
  /\ pc' = IF userspace => TransferAligned THEN "loop" ELSE "returned"
  /\ UNCHANGED <<requestVars, loopVars, mapVars, buildVars>>

(* An iteration of transfer_data(), up to transfer_build().                 *)
TransferCreate ==
  /\ pc = "loop"
  /\ remaining > 0
  /\ LET len == IF remaining > MaxTransferBytes THEN MaxTransferBytes ELSE remaining
     IN /\ transfer_len' = len
        /\ mapped_pages' = Len(UserPages(transfer_addr, len))
        /\ sgl' \in MapSg(UserPages(transfer_addr, len))
  /\ i' = 1
  /\ cont_addr' = sgl'[1].addr
  /\ cont_len' = 0
  /\ ep_addr' = pos
  /\ desc' = << >>
  /\ at' = <<0>>
  /\ pc' = "build"
  /\ UNCHANGED <<requestVars, loopVars>>

(* Mutants: entries that are not contiguous are not told apart; a block may *)
(* grow by a page too many.                                                 *)
NewDescIgnoresGaps(len, gap) == ~userspace \/ len > MaxDescBytes - PageSize
NewDescOneLate(len, gap)     == gap \/ ~userspace \/ len > MaxDescBytes

(* An entry that is not the last ends a descriptor.                         *)
NewDesc(len, gap) == gap \/ ~userspace \/ len > MaxDescBytes - PageSize

NextEp(len) == IF userspace /\ mode = "fixed" THEN ep_addr ELSE ep_addr + len

Descriptor(len) == [addr |-> cont_addr, len |-> len, ep |-> ep_addr, extra_adj |-> 0]

(* The body of transfer_build()'s loop: entry i, which is not the last.     *)
BuildEntry ==
  /\ pc = "build"
  /\ i < Len(sgl)
  /\ LET len == cont_len + sgl[i].len
         here == at[Len(at)]
     IN IF NewDesc(len, ~Contiguous(sgl[i], sgl[i + 1]))
        THEN /\ desc' = Append(desc, Descriptor(len))
             /\ ep_addr' = NextEp(len)
             /\ cont_addr' = sgl[i + 1].addr
             /\ cont_len' = 0
             /\ at' = Append(at, here + len)
        ELSE /\ cont_len' = len
             /\ UNCHANGED <<desc, ep_addr, cont_addr, at>>
  /\ i' = i + 1
  /\ UNCHANGED <<requestVars, pc, loopVars, mapVars>>

(* The last entry ends the last descriptor.                                 *)
BuildLast ==
  /\ pc = "build"
  /\ i = Len(sgl)
  /\ desc' = Append(desc, Descriptor(cont_len + sgl[i].len))
  /\ pc' = "adjacent"
  /\ UNCHANGED <<requestVars, loopVars, mapVars, i, cont_addr, cont_len, ep_addr, at>>

(* Mutant: the page of the next descriptor is forgotten.                    *)
ExtraAdjacentNoPage(k) == Max({0, Min({Len(desc) - k - 1, MaxExtraAdj})})

(* xdma_desc_adjacent() of descriptor k: how many descriptors follow the    *)
(* next one without a gap, in the 4 KB page of the next one.  (The array    *)
(* starts on a page.)                                                       *)
ExtraAdjacent(k) ==
  LET next_adjacent == Len(desc) - k
      max_adj_4k == DescsPerPage - (k % DescsPerPage) - 1
  IN IF next_adjacent = 0 THEN 0 ELSE Min({next_adjacent - 1, MaxExtraAdj, max_adj_4k})

(* engine_start(): how many follow the first.                               *)
FirstAdjacent == Min({Len(desc) - 1, MaxExtraAdj})

FillAdjacent ==
  /\ pc = "adjacent"
  /\ desc' = [k \in 1..Len(desc) |-> [desc[k] EXCEPT !.extra_adj = ExtraAdjacent(k)]]
  /\ pc' = "queued"
  /\ UNCHANGED <<requestVars, loopVars, mapVars, i, cont_addr, cont_len, ep_addr, at>>

(* The transfer was executed: transfer_destroy() and the rest of the loop.  *)
TransferDone ==
  /\ pc = "queued"
  /\ mapped_pages' = 0
  /\ transfer_addr' = transfer_addr + transfer_len
  /\ remaining' = remaining - transfer_len
  /\ pos' = pos + transfer_len
  /\ pc' = "loop"
  /\ UNCHANGED <<requestVars, transfer_len, sgl, buildVars>>

Return ==
  /\ pc = "loop"
  /\ remaining = 0
  /\ pc' = "returned"
  /\ UNCHANGED <<requestVars, loopVars, mapVars, buildVars>>

Next ==
  \/ CheckAlign
  \/ TransferCreate
  \/ BuildEntry
  \/ BuildLast
  \/ FillAdjacent
  \/ TransferDone
  \/ Return

Spec == Init /\ [][Next]_vars

-----------------------------------------------------------------------------
TypeOK ==
  /\ pc \in {"check", "loop", "build", "adjacent", "queued", "returned"}
  /\ transfer_addr \in Nat /\ remaining \in Nat /\ pos \in Nat
  /\ transfer_len \in 0..MaxTransferBytes /\ mapped_pages \in Nat
  /\ \A k \in DOMAIN sgl : sgl[k].addr \in Nat /\ sgl[k].len \in Nat \ {0}
  /\ i \in 1..(Len(sgl) + 1)
  /\ Len(desc) <= Len(sgl)
  /\ \A k \in DOMAIN desc : desc[k].extra_adj \in 0..MaxExtraAdj

(* The descriptors of the transfers of a request, one transfer after the   *)
(* other, move each byte of the buffer once and in order, each from where   *)
(* the one before ended, between the byte's own place on the bus and the    *)
(* next place on the card, whatever pages the buffer lies in and however    *)
(* the bus mapped and merged them, and they move all of it                  *)
(* (transfer_data(), transfer_build()).  A fixed address is the same for    *)
(* all descriptors of a transfer; transfer_data() advances it for the next  *)
(* transfer all the same.                                                   *)
DescriptorsCoverRequest ==
  LET before == count - remaining
  IN /\ pc = "queued" =>
          /\ \A k \in DOMAIN desc :
               /\ \A b \in 0..(desc[k].len - 1) : desc[k].addr + b = Bus(buf + before + at[k] + b)
               /\ desc[k].ep = start_pos + before + (IF mode = "fixed" THEN 0 ELSE at[k])
               /\ at[k] = IF k = 1 THEN 0 ELSE at[k - 1] + desc[k - 1].len
          /\ at[Len(desc)] + desc[Len(desc)].len = Min({remaining, MaxTransferBytes})
     /\ pc = "returned" /\ transfer_len > 0 => remaining = 0 /\ mapped_pages = 0

(* The channel accepts every descriptor: none is empty or, as long as no    *)
(* entry is longer than a page, longer than XDMA_DESC_MAX_BYTES, and what   *)
(* check_transfer_align() asked of the request, knowing neither pages nor   *)
(* transfers, holds of each.                                                *)
DescriptorsAccepted ==
  /\ (\A k \in DOMAIN sgl : sgl[k].len <= PageSize)
       => \A k \in DOMAIN desc : desc[k].len \in 1..MaxDescBytes
  /\ userspace => \A k \in DOMAIN desc :
       CASE mode = "stream" -> desc[k].addr % AddrAlign = 0
         [] mode = "fixed"  -> desc[k].addr % AddrAlign = 0 /\ desc[k].ep % AddrAlign = 0
         [] mode = "memory" -> desc[k].addr % AddrAlign = desc[k].ep % AddrAlign

(* The channel fetches the descriptors behind the next one in one burst: it *)
(* must not leave the array, cross a 4 KB page or be longer than the field  *)
(* of its length counts (xdma_desc_adjacent(), and engine_start() for the   *)
(* first).  Descriptor k lies at (k - 1) * 32.                              *)
FetchStaysInPage ==
  pc = "queued" =>
    /\ 1 + FirstAdjacent <= Len(desc) /\ FirstAdjacent < DescsPerPage
    /\ \A k \in 1..(Len(desc) - 1) :
         /\ k + 1 + desc[k].extra_adj <= Len(desc)
         /\ desc[k].extra_adj <= MaxExtraAdj
         /\ k \div DescsPerPage = (k + desc[k].extra_adj) \div DescsPerPage
=============================================================================
