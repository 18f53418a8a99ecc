----------------------------- MODULE CallArena ------------------------------
(***************************************************************************)
(* crates/polyplug_abi/src/types/call_arena.rs: the bump allocator that a  *)
(* caller hands to a dispatch so that the guest can return values of any   *)
(* size.  A primary region lent by the caller is used first; after that    *)
(* overflow blocks of the host, which are chained, rewound by reset and    *)
(* freed by drop.                                                          *)
(*                                                                         *)
(* Addresses are numbers up to UsizeMax, 0 is null, and a checked_add that *)
(* exceeds UsizeMax fails.  A block is its header and its payload; the     *)
(* chain is a sequence, first_overflow first.  The host allocator, which   *)
(* is not part of this code, is `heap`, the allocations it has handed out. *)
(***************************************************************************)
EXTENDS Integers, Sequences, FiniteSets

CONSTANTS
  UsizeMax,          \* usize::MAX
  Header,            \* size_of::<ArenaOverflowBlock>()
  BlockMin,          \* OVERFLOW_BLOCK_MIN
  BlockAlign,        \* OVERFLOW_BLOCK_ALIGN
  Sizes, Aligns,     \* the requests guests make
  PowersOfTwo,       \* the alignments that are powers of two
  Buffers,           \* the regions callers lend: records of base and len
  Sites,             \* the addresses the host allocator hands out
  MaxAllocs,         \* bound: requests served between two resets
  NoArena

Arena == [cur : 1 .. UsizeMax, base : 1 .. UsizeMax, end : 1 .. UsizeMax, host : BOOLEAN]

ASSUME ArenaAssumption ==
  /\ UsizeMax \in Nat /\ Header \in Nat \ {0} /\ BlockAlign \in Nat \ {0}
  /\ BlockMin \in Nat /\ Header <= BlockMin
  /\ Sizes \subseteq 0 .. UsizeMax
  /\ Aligns \subseteq 0 .. UsizeMax
  /\ PowersOfTwo \subseteq Nat \ {0}
  /\ Sites \subseteq 1 .. UsizeMax
  /\ Buffers \subseteq [base : 1 .. UsizeMax, len : 0 .. UsizeMax]
  /\ \A b \in Buffers : b.base + b.len <= UsizeMax
  /\ MaxAllocs \in Nat
  /\ NoArena \notin Arena

Region == [ptr : 1 .. UsizeMax, size : 0 .. UsizeMax]
Block == [addr : 1 .. UsizeMax, capacity : 0 .. UsizeMax, used : 0 .. UsizeMax]

VARIABLES
  arena,   \* cur, base, end, and whether host is not null; or NoArena
  chain,   \* the overflow blocks from first_overflow on
  live,    \* the results handed out since the last reset
  heap     \* external: the regions the host allocator has handed out

vars == <<arena, chain, live, heap>>

Bytes(r) == r.ptr .. r.ptr + r.size - 1
Apart(r, q) == r.ptr + r.size <= q.ptr \/ q.ptr + q.size <= r.ptr

-----------------------------------------------------------------------------
\* (addr + align - 1) & !(align - 1) for a power of two.
AlignUp(addr, align) == addr + ((-addr) % align)

\* Faulty variant: the sums wrap around instead of failing.
WrappingBump(from, end, size, align) ==
  LET ptr == AlignUp(from, align)
  IN  IF (ptr + size) % (UsizeMax + 1) <= end THEN ptr ELSE 0
\* bump: the aligned start of size bytes in [from, end), or null.
Bump(from, end, size, align) ==
  LET ptr == AlignUp(from, align)
  IN  IF from + align - 1 <= UsizeMax /\ ptr + size <= UsizeMax /\ ptr + size <= end
      THEN ptr ELSE 0

\* What serve_from_block returns for a block.
ServeFromBlock(b, size, align) == Bump(b.addr + b.used, b.addr + b.capacity, size, align)

\* serve_from_block's new cursor: the offset of the end of the result.
Served(b, ptr, size) == [b EXCEPT !.used = (ptr - b.addr) + size]

\* The result ptr of a request for size bytes is handed out.
HandOut(ptr, size) ==
  /\ Cardinality(live) < MaxAllocs
  /\ live' = live \cup {[ptr |-> ptr, size |-> size]}

-----------------------------------------------------------------------------
\* CallArena::new over a buffer of the caller.
New(buf, host) ==
  /\ arena = NoArena
  /\ arena' = [cur |-> buf.base, base |-> buf.base, end |-> buf.base + buf.len, host |-> host]
  /\ UNCHANGED <<chain, live, heap>>

\* alloc gets past its check of the arguments (size 0 and a bad alignment
\* return null).
ValidRequest(size, align) == arena # NoArena /\ size # 0 /\ align \in PowersOfTwo

PrimaryFit(size, align) == Bump(arena.cur, arena.end, size, align)

\* alloc, served by the primary region.
AllocPrimary(size, align) ==
  /\ ValidRequest(size, align)
  /\ PrimaryFit(size, align) # 0
  /\ arena' = [arena EXCEPT !.cur = PrimaryFit(size, align) + size]
  /\ HandOut(PrimaryFit(size, align), size)
  /\ UNCHANGED <<chain, heap>>

\* alloc has called alloc_overflow, and there is a host.
Overflows(size, align) ==
  /\ ValidRequest(size, align)
  /\ PrimaryFit(size, align) = 0
  /\ arena.host

\* alloc_overflow, the reuse pass: the first block of the chain with room.
AllocReuse(size, align) ==
  /\ Overflows(size, align)
  /\ \E i \in 1 .. Len(chain) :
       LET ptr == ServeFromBlock(chain[i], size, align) IN
       /\ ptr # 0
       /\ \A j \in 1 .. i - 1 : ServeFromBlock(chain[j], size, align) = 0
       /\ chain' = [chain EXCEPT ![i] = Served(@, ptr, size)]
       /\ HandOut(ptr, size)
  /\ UNCHANGED <<arena, heap>>

\* Faulty variant: no room for the padding.
UnpaddedNeeded(size, align) == Header + size
\* header.checked_add(align).checked_add(size)
Needed(size, align) == Header + align + size

Capacity(size, align) ==
  IF Needed(size, align) < BlockMin THEN BlockMin ELSE Needed(size, align)

\* External: the host allocator returns memory nobody has, aligned as asked,
\* or null (then alloc returns null and nothing changes).
HostAllocates(r) ==
  /\ r.ptr % BlockAlign = 0 /\ r.ptr + r.size <= UsizeMax
  /\ \A q \in heap \cup {[ptr |-> arena.base, size |-> arena.end - arena.base]} : Apart(r, q)
  /\ heap' = heap \cup {r}

\* alloc_overflow, no block had room: a fresh block is put in front of the
\* chain and serves the request.
AllocFresh(size, align, site) ==
  LET capacity == Capacity(size, align)
      fresh == [addr |-> site, capacity |-> capacity, used |-> Header]
      ptr == ServeFromBlock(fresh, size, align)
  IN
  /\ Overflows(size, align)
  /\ \A i \in 1 .. Len(chain) : ServeFromBlock(chain[i], size, align) = 0
  /\ Needed(size, align) <= UsizeMax
  /\ HostAllocates([ptr |-> site, size |-> capacity])
  /\ chain' = <<IF ptr = 0 THEN fresh ELSE Served(fresh, ptr, size)>> \o chain
  /\ IF ptr = 0 THEN UNCHANGED live ELSE HandOut(ptr, size)
  /\ UNCHANGED arena

\* Faulty variant: only the primary region is rewound.
ResetPrimary ==
  /\ arena # NoArena
  /\ arena' = [arena EXCEPT !.cur = arena.base]
  /\ live' = {}
  /\ UNCHANGED <<chain, heap>>
\* reset: the region and every block are rewound; what was handed out is no
\* longer valid.
Reset ==
  /\ arena # NoArena
  /\ arena' = [arena EXCEPT !.cur = arena.base]
  /\ chain' = [i \in 1 .. Len(chain) |-> [chain[i] EXCEPT !.used = Header]]
  /\ live' = {}
  /\ UNCHANGED heap

\* Faulty variant: a block is freed with the size of what was used of it.
FreedUsed(b) == [ptr |-> b.addr, size |-> b.used]
\* The region host->free is called with for a block.
Freed(b) == [ptr |-> b.addr, size |-> b.capacity]

\* Drop: every block goes back to the host.
Drop ==
  /\ arena # NoArena
  /\ heap' = IF arena.host THEN heap \ {Freed(chain[i]) : i \in 1 .. Len(chain)} ELSE heap
  /\ arena' = NoArena
  /\ chain' = <<>>
  /\ live' = {}

Init == arena = NoArena /\ chain = <<>> /\ live = {} /\ heap = {}

Alloc(size, align) ==
  \/ AllocPrimary(size, align)
  \/ AllocReuse(size, align)
  \/ \E site \in Sites : AllocFresh(size, align, site)

Next ==
  \/ \E buf \in Buffers, host \in BOOLEAN : New(buf, host)
  \/ \E size \in Sizes, align \in Aligns : Alloc(size, align)
  \/ Reset
  \/ Drop

Spec == Init /\ [][Next]_vars

-----------------------------------------------------------------------------
Payload(b) == [ptr |-> b.addr + Header, size |-> b.used - Header]
Used == [ptr |-> arena.base, size |-> arena.cur - arena.base]
Within(r, q) == q.ptr <= r.ptr /\ r.ptr + r.size <= q.ptr + q.size

\* Cursors stay inside their regions, a block's behind its header.
TypeOK ==
  /\ arena \in Arena \cup {NoArena}
  /\ arena # NoArena => arena.base <= arena.cur /\ arena.cur <= arena.end
  /\ chain \in Seq(Block)
  /\ \A i \in 1 .. Len(chain) : Header <= chain[i].used /\ chain[i].used <= chain[i].capacity
  /\ live \subseteq Region
  /\ heap \subseteq Region

\* The results of the calls since the last reset do not overlap, and each lies
\* in the used part of the caller's buffer or of one block's payload, never on
\* a header, whose overwriting would corrupt the chain (alloc).
ResultsApart ==
  /\ \A r \in live : \/ arena # NoArena /\ Within(r, Used)
                     \/ \E i \in 1 .. Len(chain) : Within(r, Payload(chain[i]))
  /\ \A r, q \in live : r # q => Apart(r, q)

\* The arena owns exactly what the host handed out to it, block by block and
\* with the size it was asked for: drop leaves nothing behind (Drop).
BlocksOwned ==
  /\ heap = {Freed(chain[i]) : i \in 1 .. Len(chain)}
  /\ \A i, j \in 1 .. Len(chain) : i # j => chain[i].addr # chain[j].addr

\* A fresh block serves the request it was made for: alloc does not return
\* null after the host has given memory (alloc_overflow, "guarantees the bump
\* fits").
FreshBlockServes == [][Len(chain') > Len(chain) => live' # live]_vars

\* However often the arena is reset and used again, it never keeps more blocks
\* of one capacity than one call makes requests: retained blocks are reused
\* before the host is asked (reset, alloc_overflow).
RetentionBounded ==
  \A i \in 1 .. Len(chain) :
    Cardinality({j \in 1 .. Len(chain) : chain[j].capacity = chain[i].capacity}) <= MaxAllocs

-----------------------------------------------------------------------------
(***************************************************************************)
(* What the properties rest on.                                            *)
(***************************************************************************)
Buffer == [ptr |-> arena.base, size |-> arena.end - arena.base]

\* The blocks are the host's, inside the address space, and overlap neither the
\* caller's buffer nor each other.
BlocksApart ==
  /\ \A i \in 1 .. Len(chain) :
       /\ arena # NoArena /\ arena.host
       /\ chain[i].addr + chain[i].capacity <= UsizeMax /\ Apart(Freed(chain[i]), Buffer)
  /\ \A i, j \in 1 .. Len(chain) : i # j => Apart(Freed(chain[i]), Freed(chain[j]))

\* A result has at least a byte, and a block whose cursor has moved has one.
ResultsTracked ==
  /\ IsFiniteSet(live) /\ Cardinality(live) <= MaxAllocs
  /\ arena = NoArena => live = {}
  /\ \A r \in live : r.size > 0
  /\ \A i \in 1 .. Len(chain) : chain[i].used > Header =>
       \E r \in live : Within(r, Payload(chain[i]))

ArenaInv ==
  /\ TypeOK /\ BlocksApart /\ ResultsTracked
  /\ ResultsApart /\ BlocksOwned /\ RetentionBounded
=============================================================================
