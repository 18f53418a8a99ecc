-------------------------- MODULE CallArenaProofs ---------------------------
(***************************************************************************)
(* Proofs about CallArena, for any size of the address space, of headers   *)
(* and of blocks, any buffers, any requests and any addresses the host     *)
(* allocator hands out.                                                    *)
(***************************************************************************)
EXTENDS CallArena, FiniteSetTheorems, TLAPS

Bounded(b) == Header <= b.used /\ b.used <= b.capacity

-----------------------------------------------------------------------------
(***************************************************************************)
(* The arithmetic of bump.                                                 *)
(***************************************************************************)

\* The aligned address is the next one at most align - 1 further on.
LEMMA AlignUpFacts ==
  ASSUME NEW addr \in Nat, NEW align \in Nat \ {0}
  PROVE  AlignUp(addr, align) \in addr .. addr + align - 1
  <1>1. (-addr) % align \in 0 .. align - 1 OBVIOUS
  <1> QED BY <1>1 DEF AlignUp

\* A result lies in the region it is taken from.
LEMMA BumpInside ==
  ASSUME NEW from \in Nat, NEW end \in Nat, NEW size \in Nat, NEW align \in Nat \ {0},
         Bump(from, end, size, align) # 0
  PROVE  LET ptr == Bump(from, end, size, align)
         IN  /\ ptr \in Nat /\ from <= ptr /\ ptr + size <= end /\ ptr + size <= UsizeMax
  <1>1. AlignUp(from, align) \in from .. from + align - 1 BY AlignUpFacts
  <1> QED BY <1>1, ArenaAssumption DEF Bump

\* There is a result where there is room for the bytes and the padding.
LEMMA BumpFits ==
  ASSUME NEW from \in Nat \ {0}, NEW end \in Nat, NEW size \in Nat, NEW align \in Nat \ {0},
         from + align + size <= end, end <= UsizeMax
  PROVE  Bump(from, end, size, align) # 0
  <1>1. AlignUp(from, align) \in from .. from + align - 1 BY AlignUpFacts
  <1> QED BY <1>1, ArenaAssumption DEF Bump

\* A block's result and its new cursor.
LEMMA ServeFacts ==
  ASSUME NEW b \in Block, Bounded(b), b.addr + b.capacity <= UsizeMax,
         NEW size \in Nat \ {0}, NEW align \in Nat \ {0}, ServeFromBlock(b, size, align) # 0
  PROVE  LET ptr == ServeFromBlock(b, size, align)
             n == Served(b, ptr, size)
         IN  /\ ptr \in 1 .. UsizeMax /\ size \in 0 .. UsizeMax
             /\ n \in Block /\ Bounded(n) /\ n.addr = b.addr /\ n.capacity = b.capacity
             /\ b.used < n.used /\ n.used > Header
             /\ b.addr + b.used <= ptr /\ ptr + size = b.addr + n.used
  <1> DEFINE ptr == ServeFromBlock(b, size, align)
             n == Served(b, ptr, size)
  <1>1. /\ b.addr \in 1 .. UsizeMax /\ b.capacity \in 0 .. UsizeMax /\ b.used \in 0 .. UsizeMax
        /\ Header \in Nat /\ UsizeMax \in Nat
    BY ArenaAssumption DEF Block
  <1>2. b.addr + b.used \in Nat /\ b.addr + b.capacity \in Nat BY <1>1
  <1>3. /\ ptr \in Nat /\ b.addr + b.used <= ptr /\ ptr + size <= b.addr + b.capacity /\ ptr + size <= UsizeMax
    BY <1>2, BumpInside DEF ServeFromBlock
  <1> HIDE DEF ptr
  <1>4. n = [addr |-> b.addr, capacity |-> b.capacity, used |-> (ptr - b.addr) + size]
    BY DEF Served, Block
  <1> HIDE DEF n
  <1>5. n.addr = b.addr /\ n.capacity = b.capacity /\ n.used = (ptr - b.addr) + size BY <1>4
  <1>6. /\ ptr \in 1 .. UsizeMax /\ size \in 0 .. UsizeMax /\ n.used \in 0 .. UsizeMax
        /\ Header <= n.used /\ n.used <= b.capacity /\ b.used < n.used /\ n.used > Header
        /\ b.addr + b.used <= ptr /\ ptr + size = b.addr + n.used
    BY <1>1, <1>3, <1>5 DEF Bounded
  <1>7. n \in Block BY <1>1, <1>4, <1>5, <1>6 DEF Block
  <1> QED BY <1>5, <1>6, <1>7 DEF Bounded, ptr, n

\* A block that is not in use serves the requests it was made for.
LEMMA UnusedServes ==
  ASSUME NEW b \in Block, b.used = Header, b.addr + b.capacity <= UsizeMax,
         NEW size \in Nat, NEW align \in Nat \ {0}, Capacity(size, align) <= b.capacity
  PROVE  ServeFromBlock(b, size, align) # 0
  <1>1. /\ b.addr \in 1 .. UsizeMax /\ b.capacity \in 0 .. UsizeMax
        /\ Header \in Nat /\ UsizeMax \in Nat /\ BlockMin \in Nat
    BY ArenaAssumption DEF Block
  <1>2. Header + align + size <= b.capacity BY <1>1 DEF Capacity, Needed
  <1>3. /\ b.addr + b.used \in Nat \ {0} /\ b.addr + b.capacity \in Nat
        /\ b.addr + b.used + align + size <= b.addr + b.capacity
    BY <1>1, <1>2
  <1> QED BY <1>3, BumpFits DEF ServeFromBlock

-----------------------------------------------------------------------------
(***************************************************************************)
(* Regions inside and apart from each other.                               *)
(***************************************************************************)
Span == [ptr : Nat, size : Nat]

\* What lies in regions that are apart is apart.
LEMMA ApartInside ==
  ASSUME NEW r \in Span, NEW q \in Span, NEW R \in Span, NEW Q \in Span,
         Within(r, R), Within(q, Q), Apart(R, Q)
  PROVE  Apart(r, q) /\ Apart(q, r)
  BY DEF Span, Within, Apart

\* Inside is transitive.
LEMMA WithinInside ==
  ASSUME NEW r \in Span, NEW R \in Span, NEW Q \in Span, Within(r, R), Within(R, Q)
  PROVE  Within(r, Q)
  BY DEF Span, Within

\* The fields of a block are numbers, its payload is part of it.
LEMMA BlockFacts ==
  ASSUME NEW b \in Block, Bounded(b)
  PROVE  /\ b.addr \in 1 .. UsizeMax /\ b.capacity \in 0 .. UsizeMax /\ b.used \in 0 .. UsizeMax
         /\ Header \in Nat \ {0} /\ Header <= b.used /\ b.used <= b.capacity
         /\ Payload(b) \in Span /\ Payload(b).ptr = b.addr + Header /\ Payload(b).size = b.used - Header
         /\ Freed(b) \in Span /\ Freed(b) \in Region /\ Freed(b).ptr = b.addr /\ Freed(b).size = b.capacity
         /\ Within(Payload(b), Freed(b))
  <1>1. /\ b.addr \in 1 .. UsizeMax /\ b.capacity \in 0 .. UsizeMax /\ b.used \in 0 .. UsizeMax
        /\ Header \in Nat \ {0} /\ UsizeMax \in Nat /\ Header <= b.used /\ b.used <= b.capacity
    BY ArenaAssumption DEF Block, Bounded
  <1>2. Payload(b).ptr = b.addr + Header /\ Payload(b).size = b.used - Header BY DEF Payload
  <1>3. Freed(b).ptr = b.addr /\ Freed(b).size = b.capacity BY DEF Freed
  <1>4. Payload(b) \in Span BY <1>1 DEF Payload, Span
  <1>5. Freed(b) \in Span /\ Freed(b) \in Region BY <1>1 DEF Freed, Span, Region
  <1> QED BY <1>1, <1>2, <1>3, <1>4, <1>5 DEF Within

\* The caller's buffer and its used part.
LEMMA BufferFacts ==
  ASSUME TypeOK, arena # NoArena
  PROVE  /\ arena \in Arena
         /\ arena.cur \in 1 .. UsizeMax /\ arena.base \in 1 .. UsizeMax /\ arena.end \in 1 .. UsizeMax
         /\ arena.base <= arena.cur /\ arena.cur <= arena.end /\ UsizeMax \in Nat
         /\ Used \in Span /\ Used.ptr = arena.base /\ Used.size = arena.cur - arena.base
         /\ Buffer \in Span /\ Buffer.ptr = arena.base /\ Buffer.size = arena.end - arena.base
         /\ Within(Used, Buffer)
  <1>1. /\ arena \in Arena
        /\ arena.cur \in 1 .. UsizeMax /\ arena.base \in 1 .. UsizeMax /\ arena.end \in 1 .. UsizeMax
        /\ arena.base <= arena.cur /\ arena.cur <= arena.end /\ UsizeMax \in Nat
    BY ArenaAssumption DEF TypeOK, Arena
  <1>2. Used.ptr = arena.base /\ Used.size = arena.cur - arena.base BY DEF Used
  <1>3. Buffer.ptr = arena.base /\ Buffer.size = arena.end - arena.base BY DEF Buffer
  <1>4. Used \in Span /\ Buffer \in Span BY <1>1 DEF Used, Buffer, Span
  <1> QED BY <1>1, <1>2, <1>3, <1>4 DEF Within

\* The blocks of the chain have their types and bounds, the results theirs.
LEMMA ChainFacts ==
  ASSUME TypeOK
  PROVE  /\ chain \in Seq(Block) /\ Len(chain) \in Nat
         /\ \A i \in 1 .. Len(chain) : chain[i] \in Block /\ Bounded(chain[i])
         /\ \A r \in live : r \in Region /\ r \in Span
  <1>1. chain \in Seq(Block) /\ Len(chain) \in Nat BY DEF TypeOK
  <1>2. \A i \in 1 .. Len(chain) : chain[i] \in Block BY <1>1
  <1>3. \A i \in 1 .. Len(chain) : Bounded(chain[i]) BY DEF TypeOK, Bounded
  <1>4. Region \subseteq Span BY ArenaAssumption DEF Region, Span
  <1> QED BY <1>1, <1>2, <1>3, <1>4 DEF TypeOK

\* A result lies in the caller's buffer or in a block.
LEMMA ResultPlace ==
  ASSUME ArenaInv, NEW r \in live
  PROVE  /\ arena # NoArena
         /\ \/ Within(r, Used)
            \/ \E i \in 1 .. Len(chain) : Within(r, Payload(chain[i]))
  BY DEF ArenaInv, ResultsApart, ResultsTracked

\* A result is handed out.
LEMMA HandOutFacts ==
  ASSUME ArenaInv, NEW ptr \in 1 .. UsizeMax, NEW size \in 0 .. UsizeMax, size # 0, HandOut(ptr, size)
  PROVE  LET r == [ptr |-> ptr, size |-> size]
         IN  /\ live' = live \cup {r} /\ r \in Span /\ r.ptr = ptr /\ r.size = size
             /\ live' \subseteq Region /\ IsFiniteSet(live') /\ Cardinality(live') <= MaxAllocs
             /\ \A q \in live' : q.size > 0
  <1> DEFINE r == [ptr |-> ptr, size |-> size]
  <1>1. live' = live \cup {r} /\ Cardinality(live) < MaxAllocs BY DEF HandOut
  <1>2. r \in Region /\ r \in Span /\ r.ptr = ptr /\ r.size = size /\ r.size > 0
    BY ArenaAssumption DEF Region, Span
  <1> HIDE DEF r
  <1>3. live \subseteq Region /\ IsFiniteSet(live) /\ \A q \in live : q.size > 0
    BY DEF ArenaInv, TypeOK, ResultsTracked
  <1>4. IsFiniteSet(live') /\ (Cardinality(live') = Cardinality(live) \/ Cardinality(live') = Cardinality(live) + 1)
    BY <1>1, <1>3, FS_AddElement
  <1>5. Cardinality(live) \in Nat /\ MaxAllocs \in Nat BY <1>3, FS_CardinalityType, ArenaAssumption
  <1>6. Cardinality(live') <= MaxAllocs BY <1>1, <1>4, <1>5
  <1> QED BY <1>1, <1>2, <1>3, <1>4, <1>6 DEF r

\* A request that is not refused.
LEMMA RequestFacts ==
  ASSUME NEW size \in Sizes, NEW align \in Aligns, ValidRequest(size, align)
  PROVE  /\ size \in Nat \ {0} /\ size \in 0 .. UsizeMax /\ align \in Nat \ {0} /\ arena # NoArena
  BY ArenaAssumption DEF ValidRequest

\* The chain keeps its blocks, up to their cursors.
LEMMA SameBlocks ==
  ASSUME ArenaInv, UNCHANGED heap, Len(chain') = Len(chain),
         \A i \in 1 .. Len(chain) : chain'[i].addr = chain[i].addr /\ chain'[i].capacity = chain[i].capacity
  PROVE  /\ BlocksOwned' /\ RetentionBounded'
         /\ arena' # NoArena /\ arena # NoArena /\ arena'.base = arena.base /\ arena'.end = arena.end
              /\ arena'.host = arena.host => BlocksApart'
  <1>1. \A i \in 1 .. Len(chain) : Freed(chain'[i]) = Freed(chain[i]) BY DEF Freed
  <1>2. BlocksOwned' BY <1>1 DEF ArenaInv, BlocksOwned
  <1>3. RetentionBounded'
    <2> SUFFICES ASSUME NEW i \in 1 .. Len(chain)
                 PROVE  Cardinality({j \in 1 .. Len(chain') : chain'[j].capacity = chain'[i].capacity}) <= MaxAllocs
      BY DEF RetentionBounded
    <2>1. {j \in 1 .. Len(chain') : chain'[j].capacity = chain'[i].capacity}
            = {j \in 1 .. Len(chain) : chain[j].capacity = chain[i].capacity}
      OBVIOUS
    <2> QED BY <2>1 DEF ArenaInv, RetentionBounded
  <1>4. ASSUME arena' # NoArena, arena'.base = arena.base, arena'.end = arena.end, arena'.host = arena.host
        PROVE  BlocksApart'
    <2>1. Buffer' = Buffer BY <1>4 DEF Buffer
    <2> QED BY <1>1, <1>4, <2>1 DEF ArenaInv, BlocksApart
  <1> QED BY <1>2, <1>3, <1>4

-----------------------------------------------------------------------------
(***************************************************************************)
(* Each step keeps the invariant.                                          *)
(***************************************************************************)

\* CallArena::new.
LEMMA NewKeepsInv ==
  ASSUME ArenaInv, NEW buf \in Buffers, NEW host \in BOOLEAN, New(buf, host)
  PROVE  ArenaInv'
  <1>1. /\ arena = NoArena
        /\ arena' = [cur |-> buf.base, base |-> buf.base, end |-> buf.base + buf.len, host |-> host]
        /\ UNCHANGED <<chain, live, heap>>
    BY DEF New
  <1>2. live = {} /\ Len(chain) = 0 /\ chain \in Seq(Block)
    <2>1. TypeOK BY DEF ArenaInv
    <2>2. ~(1 \in 1 .. Len(chain)) BY <1>1 DEF ArenaInv, BlocksApart
    <2>3. chain \in Seq(Block) /\ Len(chain) \in Nat BY <2>1, ChainFacts
    <2> QED BY <1>1, <2>2, <2>3 DEF ArenaInv, ResultsTracked
  <1>3. buf.base \in 1 .. UsizeMax /\ buf.len \in 0 .. UsizeMax /\ buf.base + buf.len <= UsizeMax /\ UsizeMax \in Nat
    BY ArenaAssumption
  <1>4. /\ arena' \in Arena /\ arena'.base = buf.base /\ arena'.cur = buf.base /\ arena'.end = buf.base + buf.len
    BY <1>1, <1>3 DEF Arena
  <1>5. TypeOK' BY <1>1, <1>2, <1>3, <1>4 DEF ArenaInv, TypeOK
  <1>6. BlocksApart' /\ ResultsTracked' /\ ResultsApart'
    <2>1. arena' # NoArena BY <1>4, ArenaAssumption
    <2> QED BY <1>1, <1>2, <2>1 DEF ArenaInv, BlocksApart, ResultsTracked, ResultsApart
  <1>7. BlocksOwned' /\ RetentionBounded' BY <1>1 DEF ArenaInv, BlocksOwned, RetentionBounded
  <1> QED BY <1>5, <1>6, <1>7 DEF ArenaInv

\* alloc, from the caller's buffer.
LEMMA PrimaryKeepsInv ==
  ASSUME ArenaInv, NEW size \in Sizes, NEW align \in Aligns, AllocPrimary(size, align)
  PROVE  ArenaInv'
  <1> DEFINE ptr == PrimaryFit(size, align)
             new == [ptr |-> ptr, size |-> size]
  <1>0. TypeOK /\ BlocksApart /\ ResultsTracked /\ ResultsApart BY DEF ArenaInv
  <1>1. /\ ValidRequest(size, align) /\ ptr # 0 /\ arena' = [arena EXCEPT !.cur = ptr + size]
        /\ HandOut(ptr, size) /\ UNCHANGED <<chain, heap>>
    BY DEF AllocPrimary
  <1>2. size \in Nat \ {0} /\ size \in 0 .. UsizeMax /\ align \in Nat \ {0} /\ arena # NoArena BY <1>1, RequestFacts
  <1>3. /\ arena \in Arena
        /\ arena.cur \in 1 .. UsizeMax /\ arena.base \in 1 .. UsizeMax /\ arena.end \in 1 .. UsizeMax
        /\ arena.base <= arena.cur /\ arena.cur <= arena.end /\ UsizeMax \in Nat
        /\ Used \in Span /\ Used.ptr = arena.base /\ Used.size = arena.cur - arena.base
        /\ Buffer \in Span /\ Buffer.ptr = arena.base /\ Buffer.size = arena.end - arena.base
    BY <1>0, <1>2, BufferFacts
  <1>4. ptr \in Nat /\ arena.cur <= ptr /\ ptr + size <= arena.end /\ ptr + size <= UsizeMax
    <2>1. arena.cur \in Nat /\ arena.end \in Nat /\ size \in Nat BY <1>2, <1>3
    <2> QED BY <1>1, <1>2, <2>1, BumpInside DEF PrimaryFit
  <1> HIDE DEF ptr
  <1>5. ptr \in 1 .. UsizeMax /\ ptr + size \in 1 .. UsizeMax BY <1>2, <1>3, <1>4
  <1>6. /\ arena' \in Arena /\ arena'.cur = ptr + size /\ arena'.base = arena.base /\ arena'.end = arena.end
        /\ arena'.host = arena.host
    BY <1>1, <1>3, <1>5 DEF Arena
  <1>7. arena' # NoArena BY <1>6, ArenaAssumption
  <1>8. /\ live' = live \cup {new} /\ new \in Span /\ new.ptr = ptr /\ new.size = size
        /\ live' \subseteq Region /\ IsFiniteSet(live') /\ Cardinality(live') <= MaxAllocs
        /\ \A q \in live' : q.size > 0
    BY <1>1, <1>2, <1>5, HandOutFacts
  <1> HIDE DEF new
  <1>9. TypeOK' BY <1>0, <1>1, <1>2, <1>3, <1>4, <1>6, <1>8 DEF TypeOK
  <1>10. BlocksOwned' /\ RetentionBounded' /\ BlocksApart' BY <1>1, <1>2, <1>6, <1>7, SameBlocks
  <1>11. ResultsTracked' BY <1>0, <1>1, <1>7, <1>8 DEF ResultsTracked
  <1>12. Used'.ptr = arena.base /\ Used'.size = (ptr + size) - arena.base
    <2>1. Used'.ptr = arena'.base /\ Used'.size = arena'.cur - arena'.base BY DEF Used
    <2> QED BY <1>6, <2>1
  <1>13. Within(new, Used') BY <1>2, <1>3, <1>4, <1>8, <1>12 DEF Within
  <1>14. ASSUME NEW q \in live PROVE q \in Span /\ (Within(q, Used) => Within(q, Used') /\ Apart(q, new) /\ Apart(new, q))
    <2>1. q \in Span BY <1>0, ChainFacts
    <2> QED BY <1>2, <1>3, <1>4, <1>8, <1>12, <2>1 DEF Within, Apart, Span
  <1>15. ASSUME NEW q \in live, NEW i \in 1 .. Len(chain), Within(q, Payload(chain[i])) PROVE Apart(q, new) /\ Apart(new, q)
    <2>1. chain[i] \in Block /\ Bounded(chain[i]) BY <1>0, ChainFacts
    <2>2. /\ Payload(chain[i]) \in Span /\ Freed(chain[i]) \in Span /\ Within(Payload(chain[i]), Freed(chain[i]))
      BY <2>1, BlockFacts
    <2>3. Within(q, Freed(chain[i])) BY <1>14, <1>15, <2>2, WithinInside
    <2>4. Within(new, Buffer) BY <1>2, <1>3, <1>4, <1>8 DEF Within
    <2>5. Apart(Freed(chain[i]), Buffer) BY <1>0 DEF BlocksApart
    <2> QED BY <1>3, <1>8, <1>14, <2>2, <2>3, <2>4, <2>5, ApartInside
  <1>16. \A q \in live : Apart(q, new) /\ Apart(new, q) BY <1>14, <1>15, ResultPlace
  <1>17. \A q \in live : Within(q, Used') \/ \E i \in 1 .. Len(chain) : Within(q, Payload(chain[i]))
    BY <1>14, ResultPlace
  <1>18. ResultsApart' BY <1>0, <1>1, <1>7, <1>8, <1>13, <1>16, <1>17 DEF ResultsApart
  <1> QED BY <1>9, <1>10, <1>11, <1>18 DEF ArenaInv

\* A result in the unused part of block i is apart from the others.
LEMMA ReuseApart ==
  ASSUME ArenaInv, NEW i \in 1 .. Len(chain), NEW new \in Span,
         chain[i].addr + chain[i].used <= new.ptr,
         new.ptr + new.size <= chain[i].addr + chain[i].capacity,
         NEW q \in live
  PROVE  Apart(q, new) /\ Apart(new, q)
  <1>0. TypeOK /\ BlocksApart BY DEF ArenaInv
  <1>1. q \in Span /\ chain[i] \in Block /\ Bounded(chain[i]) BY <1>0, ChainFacts
  <1>2. /\ chain[i].addr \in 1 .. UsizeMax /\ chain[i].capacity \in 0 .. UsizeMax /\ chain[i].used \in 0 .. UsizeMax
        /\ Header \in Nat \ {0} /\ Header <= chain[i].used
        /\ Payload(chain[i]).ptr = chain[i].addr + Header /\ Payload(chain[i]).size = chain[i].used - Header
        /\ Freed(chain[i]) \in Span /\ Freed(chain[i]).ptr = chain[i].addr /\ Freed(chain[i]).size = chain[i].capacity
    BY <1>1, BlockFacts
  <1>3. Within(new, Freed(chain[i])) BY <1>2 DEF Within, Span
  <1>4. CASE Within(q, Used)
    <2>1. arena # NoArena BY ResultPlace
    <2>2. Used \in Span /\ Buffer \in Span /\ Within(Used, Buffer) BY <1>0, <2>1, BufferFacts
    <2>3. Within(q, Buffer) BY <1>1, <1>4, <2>2, WithinInside
    <2>4. Apart(Freed(chain[i]), Buffer) BY <1>0 DEF BlocksApart
    <2> QED BY <1>1, <1>2, <1>3, <2>2, <2>3, <2>4, ApartInside
  <1>5. ASSUME NEW j \in 1 .. Len(chain), Within(q, Payload(chain[j])) PROVE Apart(q, new) /\ Apart(new, q)
    <2>1. CASE j = i
      <3>1. q.ptr \in Nat /\ q.size \in Nat /\ new.ptr \in Nat BY <1>1 DEF Span
      <3>2. chain[i].addr \in Nat /\ chain[i].used \in Nat BY <1>2
      <3>3. q.ptr + q.size <= Payload(chain[i]).ptr + Payload(chain[i]).size BY <1>5, <2>1 DEF Within
      <3>4. Payload(chain[i]).ptr + Payload(chain[i]).size = chain[i].addr + chain[i].used BY <1>2, <3>2
      <3>5. q.ptr + q.size <= new.ptr BY <3>1, <3>2, <3>3, <3>4
      <3> QED BY <3>5 DEF Apart
    <2>2. CASE j # i
      <3>1. chain[j] \in Block /\ Bounded(chain[j]) BY <1>0, ChainFacts
      <3>2. Payload(chain[j]) \in Span /\ Freed(chain[j]) \in Span /\ Within(Payload(chain[j]), Freed(chain[j]))
        BY <3>1, BlockFacts
      <3>3. Within(q, Freed(chain[j])) BY <1>1, <1>5, <3>2, WithinInside
      <3>4. Apart(Freed(chain[i]), Freed(chain[j])) BY <1>0, <2>2 DEF BlocksApart
      <3> QED BY <1>1, <1>2, <1>3, <3>2, <3>3, <3>4, ApartInside
    <2> QED BY <2>1, <2>2
  <1> QED BY <1>4, <1>5, ResultPlace

\* alloc_overflow, from a block of the chain.
LEMMA ReuseKeepsInv ==
  ASSUME ArenaInv, NEW size \in Sizes, NEW align \in Aligns, AllocReuse(size, align)
  PROVE  ArenaInv'
  <1>0. TypeOK /\ BlocksApart /\ ResultsTracked /\ ResultsApart BY DEF ArenaInv
  <1>1. ValidRequest(size, align) /\ UNCHANGED <<arena, heap>> BY DEF AllocReuse, Overflows
  <1>2. PICK i \in 1 .. Len(chain) :
          /\ ServeFromBlock(chain[i], size, align) # 0
          /\ chain' = [chain EXCEPT ![i] = Served(chain[i], ServeFromBlock(chain[i], size, align), size)]
          /\ HandOut(ServeFromBlock(chain[i], size, align), size)
    BY DEF AllocReuse
  <1>3. PICK ptr : ptr = ServeFromBlock(chain[i], size, align) OBVIOUS
  <1>4. PICK n : n = Served(chain[i], ptr, size) OBVIOUS
  <1>5. PICK new : new = [ptr |-> ptr, size |-> size] OBVIOUS
  <1>6. size \in Nat \ {0} /\ size \in 0 .. UsizeMax /\ align \in Nat \ {0} /\ arena # NoArena BY <1>1, RequestFacts
  <1>7. /\ chain \in Seq(Block) /\ Len(chain) \in Nat
        /\ \A j \in 1 .. Len(chain) : chain[j] \in Block /\ Bounded(chain[j])
        /\ \A r \in live : r \in Span
    BY <1>0, ChainFacts
  <1>8. chain[i].addr + chain[i].capacity <= UsizeMax BY <1>0 DEF BlocksApart
  <1>9. /\ ptr \in 1 .. UsizeMax
        /\ n \in Block /\ Bounded(n) /\ n.addr = chain[i].addr /\ n.capacity = chain[i].capacity
        /\ chain[i].used < n.used /\ n.used > Header
        /\ chain[i].addr + chain[i].used <= ptr /\ ptr + size = chain[i].addr + n.used
    BY <1>2, <1>6, <1>7, <1>8, <1>3, <1>4, ServeFacts
  <1>10. /\ chain' \in Seq(Block) /\ Len(chain') = Len(chain) /\ chain'[i] = n
        /\ \A j \in 1 .. Len(chain) : j # i => chain'[j] = chain[j]
    BY <1>2, <1>7, <1>9, <1>3, <1>4
  <1>11. /\ live' = live \cup {new} /\ new \in Span /\ new.ptr = ptr /\ new.size = size
        /\ live' \subseteq Region /\ IsFiniteSet(live') /\ Cardinality(live') <= MaxAllocs
        /\ \A q \in live' : q.size > 0
    BY <1>2, <1>6, <1>9, <1>3, <1>5, HandOutFacts
  <1>12. /\ chain[i].addr \in 1 .. UsizeMax /\ chain[i].used \in 0 .. UsizeMax /\ chain[i].capacity \in 0 .. UsizeMax
        /\ UsizeMax \in Nat /\ n.used \in 0 .. UsizeMax /\ n.used <= n.capacity /\ Header \in Nat \ {0} /\ Header <= chain[i].used
        /\ Payload(n).ptr = n.addr + Header /\ Payload(n).size = n.used - Header
        /\ Payload(chain[i]).ptr = chain[i].addr + Header /\ Payload(chain[i]).size = chain[i].used - Header
    BY <1>7, <1>9, BlockFacts, ArenaAssumption
  <1>13. TypeOK'
    <2>1. \A j \in 1 .. Len(chain') : Header <= chain'[j].used /\ chain'[j].used <= chain'[j].capacity
      BY <1>7, <1>9, <1>10 DEF Bounded
    <2> QED BY <1>0, <1>1, <1>10, <1>11, <2>1 DEF TypeOK
  <1>14. BlocksOwned' /\ RetentionBounded' /\ BlocksApart' BY <1>1, <1>6, <1>9, <1>10, SameBlocks
  <1>15. /\ Payload(n).ptr = chain[i].addr + Header /\ Payload(n).size = n.used - Header
         /\ Payload(n).ptr + Payload(n).size = chain[i].addr + n.used
    BY <1>9, <1>12
  <1>16. Within(new, Payload(n))
    <2>1. Payload(n).ptr <= new.ptr BY <1>9, <1>11, <1>12, <1>15
    <2>2. new.ptr + new.size = chain[i].addr + n.used BY <1>9, <1>11
    <2>3. chain[i].addr + n.used <= Payload(n).ptr + Payload(n).size BY <1>12, <1>15
    <2> QED BY <2>1, <2>2, <2>3 DEF Within
  <1>17. ASSUME NEW q \in live, Within(q, Payload(chain[i])) PROVE Within(q, Payload(n))
    <2>1. q.ptr \in Nat /\ q.size \in Nat BY <1>7 DEF Span
    <2>2. chain[i].addr + Header <= q.ptr /\ q.ptr + q.size <= chain[i].addr + chain[i].used BY <1>12, <1>17, <2>1 DEF Within
    <2>3. Payload(n).ptr <= q.ptr BY <1>15, <2>2
    <2>4. q.ptr + q.size <= chain[i].addr + n.used
      <3>1. chain[i].addr \in Nat /\ chain[i].used \in Nat /\ n.used \in Nat BY <1>12
      <3>2. chain[i].used < n.used BY <1>9
      <3> QED BY <2>1, <2>2, <3>1, <3>2
    <2>5. q.ptr + q.size <= Payload(n).ptr + Payload(n).size BY <1>15, <2>4
    <2> QED BY <2>3, <2>5 DEF Within
  <1>18. ResultsTracked'
    <2>1. \A j \in 1 .. Len(chain') : chain'[j].used > Header => \E r \in live' : Within(r, Payload(chain'[j]))
      BY <1>0, <1>10, <1>11, <1>16 DEF ResultsTracked
    <2> QED BY <1>1, <1>6, <1>11, <2>1 DEF ResultsTracked
  <1>19. \A q \in live : Apart(q, new) /\ Apart(new, q)
    <2>1. new.ptr + new.size <= chain[i].addr + chain[i].capacity
      <3>1. n.used \in Nat /\ n.capacity \in Nat /\ n.used <= n.capacity /\ chain[i].addr \in Nat
        BY <1>9, <1>12
      <3>2. new.ptr + new.size = chain[i].addr + n.used /\ n.capacity = chain[i].capacity
        BY <1>9, <1>11
      <3> QED BY <3>1, <3>2
    <2>2. chain[i].addr + chain[i].used <= new.ptr BY <1>9, <1>11
    <2> QED BY <1>11, <2>1, <2>2, ReuseApart
  <1>20. ResultsApart'
    <2>1. Used' = Used BY <1>1 DEF Used
    <2>2. \A q \in live : Within(q, Used) \/ \E j \in 1 .. Len(chain') : Within(q, Payload(chain'[j]))
      BY <1>10, <1>17, ResultPlace
    <2>3. \A q \in live' : Within(q, Used) \/ \E j \in 1 .. Len(chain') : Within(q, Payload(chain'[j]))
      BY <1>10, <1>11, <1>16, <2>2
    <2> QED BY <1>0, <1>1, <1>6, <1>11, <1>19, <2>1, <2>3 DEF ResultsApart
  <1> QED BY <1>13, <1>14, <1>18, <1>20 DEF ArenaInv

\* reset.
LEMMA ResetKeepsInv ==
  ASSUME ArenaInv, Reset
  PROVE  ArenaInv'
  <1>0. TypeOK BY DEF ArenaInv
  <1>1. /\ arena # NoArena /\ arena' = [arena EXCEPT !.cur = arena.base]
        /\ chain' = [i \in 1 .. Len(chain) |-> [chain[i] EXCEPT !.used = Header]]
        /\ live' = {} /\ UNCHANGED heap
    BY DEF Reset
  <1>2. /\ chain \in Seq(Block) /\ Len(chain) \in Nat
        /\ \A i \in 1 .. Len(chain) : chain[i] \in Block /\ Bounded(chain[i])
    BY <1>0, ChainFacts
  <1>3. \A b \in Block : Bounded(b) => LET n == [b EXCEPT !.used = Header]
          IN  n \in Block /\ Bounded(n) /\ n.addr = b.addr /\ n.capacity = b.capacity /\ n.used = Header
    BY ArenaAssumption DEF Block, Bounded
  <1>4. /\ chain' \in Seq(Block) /\ Len(chain') = Len(chain)
        /\ \A i \in 1 .. Len(chain) :
             chain'[i].addr = chain[i].addr /\ chain'[i].capacity = chain[i].capacity
               /\ chain'[i].used = Header /\ Bounded(chain'[i])
    <2>1. \A i \in 1 .. Len(chain) : [chain[i] EXCEPT !.used = Header] \in Block BY <1>2, <1>3
    <2>2. chain' \in Seq(Block) /\ Len(chain') = Len(chain) BY <1>1, <1>2, <2>1
    <2>3. \A i \in 1 .. Len(chain) : chain'[i] = [chain[i] EXCEPT !.used = Header] BY <1>1
    <2>4. ASSUME NEW i \in 1 .. Len(chain)
          PROVE  /\ chain'[i].addr = chain[i].addr /\ chain'[i].capacity = chain[i].capacity
                 /\ chain'[i].used = Header /\ Bounded(chain'[i])
      <3>1. chain'[i] = [chain[i] EXCEPT !.used = Header] /\ chain[i] \in Block /\ Bounded(chain[i]) BY <1>2, <2>3
      <3> QED BY <1>3, <3>1, Zenon
    <2> QED BY <2>2, <2>4
  <1>5. /\ arena \in Arena /\ arena.base \in 1 .. UsizeMax /\ arena.end \in 1 .. UsizeMax
        /\ arena.base <= arena.cur /\ arena.cur <= arena.end /\ arena.cur \in 1 .. UsizeMax /\ UsizeMax \in Nat
    BY <1>0, <1>1, BufferFacts
  <1>6. /\ arena' \in Arena /\ arena'.cur = arena.base /\ arena'.base = arena.base /\ arena'.end = arena.end
        /\ arena'.host = arena.host
    BY <1>1, <1>5 DEF Arena
  <1>7. arena' # NoArena BY <1>6, ArenaAssumption
  <1>8. TypeOK' BY <1>0, <1>1, <1>4, <1>5, <1>6 DEF TypeOK, Bounded
  <1>9. BlocksOwned' /\ RetentionBounded' /\ BlocksApart' BY <1>1, <1>4, <1>6, <1>7, SameBlocks
  <1>10. ResultsApart' BY <1>1 DEF ResultsApart
  <1>11. ResultsTracked'
    <2>1. IsFiniteSet({}) /\ Cardinality({}) <= MaxAllocs BY FS_EmptySet, ArenaAssumption
    <2>2. \A i \in 1 .. Len(chain') : ~(chain'[i].used > Header) BY <1>4, ArenaAssumption
    <2> QED BY <1>1, <2>1, <2>2 DEF ResultsTracked
  <1> QED BY <1>8, <1>9, <1>10, <1>11 DEF ArenaInv

\* An arena without blocks and results.
LEMMA EmptyArena ==
  ASSUME arena = NoArena, chain = <<>>, live = {}, heap = {}
  PROVE  ArenaInv
  <1>1. TypeOK BY DEF TypeOK
  <1>2. BlocksApart /\ ResultsApart /\ BlocksOwned /\ RetentionBounded
    BY DEF BlocksApart, ResultsApart, BlocksOwned, RetentionBounded
  <1>3. ResultsTracked BY FS_EmptySet, ArenaAssumption DEF ResultsTracked
  <1> QED BY <1>1, <1>2, <1>3 DEF ArenaInv

\* Drop.
LEMMA DropKeepsInv ==
  ASSUME ArenaInv, Drop
  PROVE  ArenaInv'
  <1>1. /\ heap' = IF arena.host THEN heap \ {Freed(chain[i]) : i \in 1 .. Len(chain)} ELSE heap
        /\ arena' = NoArena /\ chain' = <<>> /\ live' = {}
    BY DEF Drop
  <1>2. heap = {Freed(chain[i]) : i \in 1 .. Len(chain)} BY DEF ArenaInv, BlocksOwned
  <1>3. heap' = {}
    <2>1. CASE arena.host BY <1>1, <1>2, <2>1
    <2>2. CASE ~arena.host
      <3>1. \A i \in 1 .. Len(chain) : FALSE BY <2>2 DEF ArenaInv, BlocksApart
      <3> QED BY <1>1, <1>2, <2>2, <3>1
    <2> QED BY <2>1, <2>2
  <1>4. TypeOK' BY <1>1, <1>3 DEF TypeOK
  <1>5. BlocksApart' /\ ResultsApart' /\ BlocksOwned' /\ RetentionBounded'
    BY <1>1, <1>3 DEF BlocksApart, ResultsApart, BlocksOwned, RetentionBounded
  <1>6. ResultsTracked' BY <1>1, FS_EmptySet, ArenaAssumption DEF ResultsTracked
  <1> QED BY <1>4, <1>5, <1>6 DEF ArenaInv

-----------------------------------------------------------------------------
(***************************************************************************)
(* A fresh block.                                                          *)
(***************************************************************************)

\* A block in front of the chain.
LEMMA PrependFacts ==
  ASSUME NEW c \in Seq(Block), NEW n \in Block
  PROVE  /\ <<n>> \o c \in Seq(Block) /\ Len(<<n>> \o c) = Len(c) + 1
         /\ (<<n>> \o c)[1] = n
         /\ \A i \in 1 .. Len(c) : (<<n>> \o c)[i + 1] = c[i]
  OBVIOUS

\* What alloc_overflow does when no block has room: block n, new, serves the request.
FreshBlock(n, ptr, size, align) ==
  /\ n \in Block /\ Bounded(n) /\ n.used > Header /\ n.capacity = Capacity(size, align)
  /\ n.addr + n.capacity <= UsizeMax
  /\ ptr \in 1 .. UsizeMax /\ n.addr + Header <= ptr /\ ptr + size = n.addr + n.used
  /\ Apart(Freed(n), Buffer) /\ \A q \in heap : Apart(Freed(n), q)
  /\ chain' = <<n>> \o chain /\ heap' = heap \cup {Freed(n)} /\ UNCHANGED arena
  /\ HandOut(ptr, size)

\* It does.
LEMMA FreshFacts ==
  ASSUME ArenaInv, NEW size \in Sizes, NEW align \in Aligns, NEW site \in Sites, AllocFresh(size, align, site)
  PROVE  \E n, ptr : FreshBlock(n, ptr, size, align)
  <1> DEFINE capacity == Capacity(size, align)
             fresh == [addr |-> site, capacity |-> capacity, used |-> Header]
             ptr == ServeFromBlock(fresh, size, align)
             n == Served(fresh, ptr, size)
             r == [ptr |-> site, size |-> capacity]
  <1>1. /\ Overflows(size, align) /\ HostAllocates(r) /\ UNCHANGED arena
        /\ chain' = <<IF ptr = 0 THEN fresh ELSE n>> \o chain
        /\ IF ptr = 0 THEN UNCHANGED live ELSE HandOut(ptr, size)
    BY Zenon DEF AllocFresh
  <1>2. size \in Nat \ {0} /\ align \in Nat \ {0} /\ arena # NoArena BY <1>1, RequestFacts DEF Overflows
  <1>3. capacity \in Nat /\ Header <= capacity /\ Header \in Nat /\ UsizeMax \in Nat /\ site \in 1 .. UsizeMax
    BY <1>2, ArenaAssumption DEF Capacity, Needed
  <1>4. /\ site + capacity <= UsizeMax /\ heap' = heap \cup {r}
        /\ \A q \in heap \cup {Buffer} : Apart(r, q)
    <2>1. r.ptr = site /\ r.size = capacity OBVIOUS
    <2> HIDE DEF r
    <2> QED BY <1>1, <2>1 DEF HostAllocates, Buffer
  <1>5. fresh \in Block /\ fresh.addr = site /\ fresh.capacity = capacity /\ fresh.used = Header
    BY <1>3, <1>4 DEF Block
  <1> HIDE DEF capacity
  <1>6. Bounded(fresh) /\ fresh.addr + fresh.capacity <= UsizeMax BY <1>3, <1>4, <1>5 DEF Bounded
  <1> HIDE DEF fresh
  <1>7. capacity <= fresh.capacity BY <1>3, <1>5
  <1>8. ptr # 0 BY <1>2, <1>5, <1>6, <1>7, UnusedServes DEF capacity
  <1>9. /\ ptr \in 1 .. UsizeMax
        /\ n \in Block /\ Bounded(n) /\ n.addr = fresh.addr /\ n.capacity = fresh.capacity
        /\ n.used > Header
        /\ fresh.addr + fresh.used <= ptr /\ ptr + size = fresh.addr + n.used
    BY <1>2, <1>5, <1>6, <1>8, ServeFacts
  <1> HIDE DEF ptr, n
  <1>10. r = Freed(n) BY <1>5, <1>9 DEF Freed
  <1> HIDE DEF r
  <1>11. /\ Apart(Freed(n), Buffer) /\ \A q \in heap : Apart(Freed(n), q)
         /\ heap' = heap \cup {Freed(n)}
    BY <1>4, <1>10
  <1>12. chain' = <<n>> \o chain /\ HandOut(ptr, size) BY <1>1, <1>8
  <1>13. /\ n.capacity = Capacity(size, align) /\ n.addr + n.capacity <= UsizeMax /\ n.addr + Header <= ptr
         /\ ptr + size = n.addr + n.used
    BY <1>5, <1>6, <1>9 DEF capacity
  <1>14. FreshBlock(n, ptr, size, align) BY <1>1, <1>9, <1>11, <1>12, <1>13 DEF FreshBlock
  <1> QED BY <1>14

\* The result in it is apart from the others.
LEMMA FreshApart ==
  ASSUME ArenaInv, NEW n, NEW ptr, NEW size \in Nat \ {0}, NEW align \in Nat, FreshBlock(n, ptr, size, align),
         NEW new \in Span, new.ptr = ptr, new.size = size, NEW q \in live
  PROVE  Apart(q, new) /\ Apart(new, q)
  <1>0. TypeOK /\ BlocksApart /\ BlocksOwned BY DEF ArenaInv
  <1>1. /\ n \in Block /\ Bounded(n) /\ ptr \in 1 .. UsizeMax /\ n.addr + Header <= ptr /\ ptr + size = n.addr + n.used
        /\ Apart(Freed(n), Buffer) /\ \A h \in heap : Apart(Freed(n), h)
    BY DEF FreshBlock
  <1>2. /\ n.addr \in Nat /\ n.used \in Nat /\ n.capacity \in Nat /\ n.used <= n.capacity /\ Header \in Nat
        /\ Freed(n) \in Span /\ Freed(n).ptr = n.addr /\ Freed(n).size = n.capacity
    BY <1>1, BlockFacts, ArenaAssumption
  <1>3. Within(new, Freed(n))
    <2>1. n.addr <= ptr BY <1>1, <1>2, ArenaAssumption
    <2>2. ptr + size <= n.addr + n.capacity BY <1>1, <1>2
    <2> QED BY <1>2, <2>1, <2>2 DEF Within
  <1>4. q \in Span BY <1>0, ChainFacts
  <1>5. CASE Within(q, Used)
    <2>1. arena # NoArena BY ResultPlace
    <2>2. Used \in Span /\ Buffer \in Span /\ Within(Used, Buffer) BY <1>0, <2>1, BufferFacts
    <2>3. Within(q, Buffer) BY <1>4, <1>5, <2>2, WithinInside
    <2> QED BY <1>1, <1>2, <1>3, <1>4, <2>2, <2>3, ApartInside
  <1>6. ASSUME NEW j \in 1 .. Len(chain), Within(q, Payload(chain[j])) PROVE Apart(q, new) /\ Apart(new, q)
    <2>1. chain[j] \in Block /\ Bounded(chain[j]) BY <1>0, ChainFacts
    <2>2. Payload(chain[j]) \in Span /\ Freed(chain[j]) \in Span /\ Within(Payload(chain[j]), Freed(chain[j]))
      BY <2>1, BlockFacts
    <2>3. Within(q, Freed(chain[j])) BY <1>4, <1>6, <2>2, WithinInside
    <2>4. Freed(chain[j]) \in heap BY <1>0 DEF BlocksOwned
    <2>5. Apart(Freed(n), Freed(chain[j])) BY <1>1, <2>4
    <2> QED BY <1>2, <1>3, <1>4, <2>2, <2>3, <2>5, ApartInside
  <1> QED BY <1>5, <1>6, ResultPlace

\* Blocks in use are no more than the results.
LEMMA UsedBlocksBounded ==
  ASSUME ArenaInv, NEW J \in SUBSET (1 .. Len(chain)), \A j \in J : chain[j].used > Header
  PROVE  IsFiniteSet(J) /\ Cardinality(J) \in Nat /\ Cardinality(J) <= Cardinality(live)
  <1>0. TypeOK /\ BlocksApart /\ ResultsTracked BY DEF ArenaInv
  <1> DEFINE f == [j \in J |-> CHOOSE r \in live : Within(r, Payload(chain[j]))]
  <1>1. \A j \in J : f[j] \in live /\ Within(f[j], Payload(chain[j]))
    <2> SUFFICES ASSUME NEW j \in J PROVE f[j] \in live /\ Within(f[j], Payload(chain[j])) OBVIOUS
    <2>1. \E r \in live : Within(r, Payload(chain[j])) BY <1>0 DEF ResultsTracked
    <2> QED BY <2>1
  <1>2. f \in [J -> live] BY <1>1
  <1> HIDE DEF f
  <1>3. ASSUME NEW i \in J, NEW j \in J, f[i] = f[j] PROVE i = j
    <2> SUFFICES ASSUME i # j PROVE FALSE OBVIOUS
    <2>1. /\ chain[i] \in Block /\ Bounded(chain[i]) /\ chain[j] \in Block /\ Bounded(chain[j])
          /\ f[i] \in Span /\ f[i].size > 0
      BY <1>0, <1>1, ChainFacts DEF ResultsTracked
    <2>2. /\ Payload(chain[i]) \in Span /\ Freed(chain[i]) \in Span /\ Within(Payload(chain[i]), Freed(chain[i]))
          /\ Payload(chain[j]) \in Span /\ Freed(chain[j]) \in Span /\ Within(Payload(chain[j]), Freed(chain[j]))
      BY <2>1, BlockFacts
    <2>3. Within(f[i], Freed(chain[i])) /\ Within(f[i], Freed(chain[j])) BY <1>1, <1>3, <2>1, <2>2, WithinInside
    <2>4. Apart(Freed(chain[i]), Freed(chain[j])) BY <1>0 DEF BlocksApart
    <2>5. Apart(f[i], f[i]) BY <2>1, <2>2, <2>3, <2>4, ApartInside
    <2> QED BY <2>1, <2>5 DEF Apart, Span
  <1>4. f \in Injection(J, live) BY <1>2, <1>3 DEF Injection, IsInjective
  <1>5. IsFiniteSet(live) BY <1>0 DEF ResultsTracked
  <1> QED BY <1>4, <1>5, FS_Injection, FS_CardinalityType

\* One block more in front of the chain, one more of its capacity at most.
LEMMA PrependCount ==
  ASSUME NEW c \in Seq(Block), NEW n \in Block, NEW K,
         IsFiniteSet({j \in 1 .. Len(c) : c[j].capacity = K})
  PROVE  LET J == {j \in 1 .. Len(c) : c[j].capacity = K}
             P == {j \in 1 .. Len(<<n>> \o c) : (<<n>> \o c)[j].capacity = K}
         IN  /\ IsFiniteSet(P) /\ Cardinality(P) \in Nat /\ Cardinality(J) \in Nat
             /\ Cardinality(P) <= Cardinality(J) + 1
             /\ n.capacity # K => Cardinality(P) <= Cardinality(J)
  <1> DEFINE d == <<n>> \o c
             J == {j \in 1 .. Len(c) : c[j].capacity = K}
             P == {j \in 1 .. Len(d) : d[j].capacity = K}
             Q == P \ {1}
             f == [j \in Q |-> j - 1]
  <1>1. Len(c) \in Nat /\ Len(d) = Len(c) + 1 /\ d[1] = n /\ \A i \in 1 .. Len(c) : d[i + 1] = c[i]
    BY PrependFacts
  <1> HIDE DEF d
  <1>2. \A j \in Q : j \in 2 .. Len(c) + 1 /\ j - 1 \in 1 .. Len(c) /\ d[j] = c[j - 1]
    <2> SUFFICES ASSUME NEW j \in Q PROVE j \in 2 .. Len(c) + 1 /\ j - 1 \in 1 .. Len(c) /\ d[j] = c[j - 1] OBVIOUS
    <2>1. j \in 2 .. Len(c) + 1 /\ j - 1 \in 1 .. Len(c) BY <1>1
    <2>2. PICK i \in 1 .. Len(c) : i = j - 1 BY <2>1
    <2>3. d[i + 1] = c[i] /\ i + 1 = j BY <1>1, <2>1, <2>2
    <2> QED BY <2>1, <2>2, <2>3
  <1>3. \A j \in Q : j - 1 \in J /\ j \in Int BY <1>2
  <1>4. f \in Injection(Q, J)
    <2>1. f \in [Q -> J] BY <1>3
    <2>2. \A i, j \in Q : f[i] = f[j] => i = j BY <1>3
    <2> HIDE DEF f
    <2> QED BY <2>1, <2>2 DEF Injection, IsInjective
  <1> HIDE DEF f
  <1>5. IsFiniteSet(J) OBVIOUS
  <1>6. IsFiniteSet(Q) /\ Cardinality(Q) <= Cardinality(J) BY <1>4, <1>5, FS_Injection
  <1>7. Cardinality(Q) \in Nat /\ Cardinality(J) \in Nat BY <1>5, <1>6, FS_CardinalityType
  <1>8. P \subseteq Q \cup {1} OBVIOUS
  <1>9. IsFiniteSet(Q \cup {1}) /\ Cardinality(Q \cup {1}) = Cardinality(Q) + 1 BY <1>6, FS_AddElement
  <1>10. IsFiniteSet(P) /\ Cardinality(P) <= Cardinality(Q) + 1 BY <1>8, <1>9, FS_Subset
  <1>11. n.capacity # K => P = Q BY <1>1
  <1>12. Cardinality(P) \in Nat BY <1>10, FS_CardinalityType
  <1>13. n.capacity # K => Cardinality(P) <= Cardinality(J) BY <1>6, <1>11
  <1>14. Cardinality(P) <= Cardinality(J) + 1 BY <1>6, <1>7, <1>10, <1>12
  <1> QED BY <1>7, <1>10, <1>12, <1>13, <1>14 DEF d

\* When a fresh block is made, the blocks of its capacity are all in use: they
\* are fewer than the requests a call may make.
LEMMA NoSpare ==
  ASSUME ArenaInv, NEW size \in Sizes, NEW align \in Aligns, NEW site \in Sites, AllocFresh(size, align, site),
         NEW J, J = {j \in 1 .. Len(chain) : chain[j].capacity = Capacity(size, align)}
  PROVE  IsFiniteSet(J) /\ Cardinality(J) \in Nat /\ Cardinality(J) <= Cardinality(live)
  <1>0. TypeOK /\ BlocksApart BY DEF ArenaInv
  <1>1. Overflows(size, align) /\ \A i \in 1 .. Len(chain) : ServeFromBlock(chain[i], size, align) = 0
    BY Zenon DEF AllocFresh
  <1>2. size \in Nat /\ align \in Nat \ {0} BY <1>1, RequestFacts DEF Overflows
  <1>3. ASSUME NEW j \in J PROVE chain[j].used > Header
    <2>1. chain[j] \in Block /\ Bounded(chain[j]) /\ chain[j].addr + chain[j].capacity <= UsizeMax
      BY <1>0, ChainFacts DEF BlocksApart
    <2>2. chain[j].capacity \in Nat /\ chain[j].used \in Nat /\ Header \in Nat /\ Header <= chain[j].used
      BY <2>1, BlockFacts, ArenaAssumption
    <2>3. chain[j].capacity = Capacity(size, align) /\ ServeFromBlock(chain[j], size, align) = 0 BY <1>1
    <2>4. Capacity(size, align) <= chain[j].capacity BY <2>2, <2>3
    <2>5. chain[j].used # Header BY <1>2, <2>1, <2>3, <2>4, UnusedServes
    <2> QED BY <2>2, <2>5
  <1>4. J \in SUBSET (1 .. Len(chain)) OBVIOUS
  <1> QED BY <1>3, <1>4, UsedBlocksBounded

\* alloc_overflow with a fresh block.
LEMMA FreshKeepsInv ==
  ASSUME ArenaInv, NEW size \in Sizes, NEW align \in Aligns, NEW site \in Sites, AllocFresh(size, align, site)
  PROVE  ArenaInv' /\ live' # live
  <1>0. TypeOK /\ BlocksApart /\ ResultsTracked /\ ResultsApart /\ BlocksOwned /\ RetentionBounded BY DEF ArenaInv
  <1>1. PICK n, ptr : FreshBlock(n, ptr, size, align) BY FreshFacts
  <1>2. /\ n \in Block /\ Bounded(n) /\ n.used > Header /\ n.capacity = Capacity(size, align)
        /\ n.addr + n.capacity <= UsizeMax
        /\ ptr \in 1 .. UsizeMax /\ n.addr + Header <= ptr /\ ptr + size = n.addr + n.used
        /\ Apart(Freed(n), Buffer) /\ \A q \in heap : Apart(Freed(n), q)
        /\ chain' = <<n>> \o chain /\ heap' = heap \cup {Freed(n)} /\ arena' = arena
        /\ HandOut(ptr, size)
    BY <1>1 DEF FreshBlock
  <1>3. /\ size \in Nat \ {0} /\ size \in 0 .. UsizeMax /\ align \in Nat \ {0} /\ arena # NoArena /\ arena.host
    <2>1. Overflows(size, align) BY Zenon DEF AllocFresh
    <2> QED BY <2>1, RequestFacts DEF Overflows
  <1>4. /\ chain \in Seq(Block) /\ Len(chain) \in Nat
        /\ \A i \in 1 .. Len(chain) : chain[i] \in Block /\ Bounded(chain[i])
    BY <1>0, ChainFacts
  <1>5. /\ chain' \in Seq(Block) /\ Len(chain') = Len(chain) + 1 /\ chain'[1] = n
        /\ \A i \in 1 .. Len(chain) : chain'[i + 1] = chain[i]
    BY <1>2, <1>4, PrependFacts
  <1>6. \A i \in 1 .. Len(chain') : i = 1 \/ \E j \in 1 .. Len(chain) : i = j + 1 /\ chain'[i] = chain[j]
    <2> SUFFICES ASSUME NEW i \in 1 .. Len(chain'), i # 1
                 PROVE  \E j \in 1 .. Len(chain) : i = j + 1 /\ chain'[i] = chain[j]
      OBVIOUS
    <2>1. PICK j \in 1 .. Len(chain) : j = i - 1 BY <1>4, <1>5
    <2>2. i = j + 1 BY <1>4, <2>1
    <2> QED BY <1>5, <2>2
  <1>7. 1 \in 1 .. Len(chain') /\ \A j \in 1 .. Len(chain) : j + 1 \in 1 .. Len(chain') BY <1>4, <1>5
  <1> DEFINE new == [ptr |-> ptr, size |-> size]
  <1>8. /\ live' = live \cup {new} /\ new \in Span /\ new.ptr = ptr /\ new.size = size
        /\ live' \subseteq Region /\ IsFiniteSet(live') /\ Cardinality(live') <= MaxAllocs
        /\ \A q \in live' : q.size > 0
    BY <1>2, <1>3, HandOutFacts
  <1> HIDE DEF new
  <1>9. \A q \in live : Apart(q, new) /\ Apart(new, q) BY <1>1, <1>3, <1>8, FreshApart
  <1>10. new \notin live
    <2>1. ~Apart(new, new) BY <1>3, <1>8 DEF Apart, Span
    <2> QED BY <1>9, <2>1
  <1>11. TypeOK'
    <2>1. \A i \in 1 .. Len(chain') : Bounded(chain'[i]) BY <1>2, <1>4, <1>5, <1>6
    <2>2. Freed(n) \in Region BY <1>2, BlockFacts
    <2> QED BY <1>0, <1>2, <1>5, <1>8, <2>1, <2>2 DEF TypeOK, Bounded
  <1>12. \A j \in 1 .. Len(chain) : Freed(chain[j]) \in heap BY <1>0 DEF BlocksOwned
  <1>13. \A j \in 1 .. Len(chain) : Apart(Freed(n), Freed(chain[j])) /\ Apart(Freed(chain[j]), Freed(n))
    BY <1>2, <1>12 DEF Apart
  <1>14. BlocksApart'
    <2>1. Buffer' = Buffer BY <1>2 DEF Buffer
    <2>2. \A i \in 1 .. Len(chain') :
            chain'[i].addr + chain'[i].capacity <= UsizeMax /\ Apart(Freed(chain'[i]), Buffer)
      BY <1>0, <1>2, <1>5, <1>6 DEF BlocksApart
    <2>3. ASSUME NEW i \in 1 .. Len(chain'), NEW j \in 1 .. Len(chain'), i # j
          PROVE  Apart(Freed(chain'[i]), Freed(chain'[j]))
      <3>1. CASE i = 1
        <4>1. PICK l \in 1 .. Len(chain) : j = l + 1 /\ chain'[j] = chain[l] BY <1>6, <2>3, <3>1
        <4> QED BY <1>5, <1>13, <3>1, <4>1
      <3>2. CASE j = 1
        <4>1. PICK k \in 1 .. Len(chain) : i = k + 1 /\ chain'[i] = chain[k] BY <1>6, <2>3, <3>2
        <4> QED BY <1>5, <1>13, <3>2, <4>1
      <3>3. CASE i # 1 /\ j # 1
        <4>1. PICK k \in 1 .. Len(chain) : i = k + 1 /\ chain'[i] = chain[k] BY <1>6, <3>3
        <4>2. PICK l \in 1 .. Len(chain) : j = l + 1 /\ chain'[j] = chain[l] BY <1>6, <3>3
        <4>3. k # l BY <2>3, <4>1, <4>2
        <4>4. Apart(Freed(chain[k]), Freed(chain[l])) BY <1>0, <4>3 DEF BlocksApart
        <4> QED BY <4>1, <4>2, <4>4
      <3> QED BY <3>1, <3>2, <3>3
    <2> QED BY <1>2, <1>3, <2>1, <2>2, <2>3 DEF BlocksApart
  <1>15. Within(new, Payload(n))
    <2>1. Payload(n).ptr = n.addr + Header /\ Payload(n).size = n.used - Header /\ n.addr \in Nat /\ n.used \in Nat
          /\ Header \in Nat
      BY <1>2, BlockFacts, ArenaAssumption
    <2>2. Payload(n).ptr + Payload(n).size = n.addr + n.used BY <2>1
    <2> QED BY <1>2, <1>8, <2>1, <2>2 DEF Within
  <1>16. ResultsTracked'
    <2>1. \A i \in 1 .. Len(chain') : chain'[i].used > Header => \E r \in live' : Within(r, Payload(chain'[i]))
      BY <1>0, <1>5, <1>6, <1>8, <1>15 DEF ResultsTracked
    <2> QED BY <1>2, <1>3, <1>8, <2>1 DEF ResultsTracked
  <1>17. ResultsApart'
    <2>1. Used' = Used BY <1>2 DEF Used
    <2>2. \A j \in 1 .. Len(chain) : \E i \in 1 .. Len(chain') : chain'[i] = chain[j] BY <1>5, <1>7
    <2>3. \A q \in live : Within(q, Used) \/ \E i \in 1 .. Len(chain') : Within(q, Payload(chain'[i]))
      <3> SUFFICES ASSUME NEW q \in live
                   PROVE  Within(q, Used) \/ \E i \in 1 .. Len(chain') : Within(q, Payload(chain'[i]))
        OBVIOUS
      <3>1. CASE Within(q, Used) BY <3>1
      <3>2. ASSUME NEW j \in 1 .. Len(chain), Within(q, Payload(chain[j]))
            PROVE  \E i \in 1 .. Len(chain') : Within(q, Payload(chain'[i]))
        <4>1. PICK i \in 1 .. Len(chain') : chain'[i] = chain[j] BY <2>2
        <4> QED BY <3>2, <4>1
      <3> QED BY <3>1, <3>2, ResultPlace
    <2>4. \A q \in live' : Within(q, Used) \/ \E i \in 1 .. Len(chain') : Within(q, Payload(chain'[i]))
      BY <1>5, <1>7, <1>8, <1>15, <2>3
    <2>5. \A q, r \in live' : q # r => Apart(q, r) BY <1>0, <1>8, <1>9 DEF ResultsApart
    <2> QED BY <1>2, <1>3, <2>1, <2>4, <2>5 DEF ResultsApart
  <1>18. BlocksOwned'
    <2>1. {Freed(chain'[i]) : i \in 1 .. Len(chain')} = {Freed(chain[j]) : j \in 1 .. Len(chain)} \cup {Freed(n)}
      <3>1. \A i \in 1 .. Len(chain') : Freed(chain'[i]) \in {Freed(chain[j]) : j \in 1 .. Len(chain)} \cup {Freed(n)}
        BY <1>5, <1>6
      <3>2. Freed(n) \in {Freed(chain'[i]) : i \in 1 .. Len(chain')} BY <1>5, <1>7
      <3>3. \A j \in 1 .. Len(chain) : Freed(chain[j]) \in {Freed(chain'[i]) : i \in 1 .. Len(chain')} BY <1>5, <1>7
      <3> QED BY <3>1, <3>2, <3>3
    <2>2. ASSUME NEW i \in 1 .. Len(chain'), NEW j \in 1 .. Len(chain'), i # j
          PROVE  chain'[i].addr # chain'[j].addr
      <3>1. Apart(Freed(chain'[i]), Freed(chain'[j])) BY <1>14, <2>2 DEF BlocksApart
      <3>2. /\ chain'[i] \in Block /\ Bounded(chain'[i]) /\ chain'[j] \in Block /\ Bounded(chain'[j])
        BY <1>2, <1>4, <1>5, <1>6
      <3>3. /\ Freed(chain'[i]).ptr = chain'[i].addr /\ Freed(chain'[i]).size = chain'[i].capacity
            /\ Freed(chain'[j]).ptr = chain'[j].addr /\ Freed(chain'[j]).size = chain'[j].capacity
            /\ chain'[i].addr \in Nat /\ chain'[j].addr \in Nat
            /\ chain'[i].capacity \in Nat \ {0} /\ chain'[j].capacity \in Nat \ {0}
        <4>1. \A b \in Block : Bounded(b) => /\ Freed(b).ptr = b.addr /\ Freed(b).size = b.capacity
                                            /\ b.addr \in Nat /\ b.capacity \in Nat \ {0}
          <5> SUFFICES ASSUME NEW b \in Block, Bounded(b)
                       PROVE  /\ Freed(b).ptr = b.addr /\ Freed(b).size = b.capacity
                              /\ b.addr \in Nat /\ b.capacity \in Nat \ {0}
            OBVIOUS
          <5>1. /\ b.addr \in 1 .. UsizeMax /\ b.capacity \in 0 .. UsizeMax /\ b.used \in 0 .. UsizeMax
                /\ Header \in Nat \ {0} /\ Header <= b.used /\ b.used <= b.capacity
                /\ Freed(b).ptr = b.addr /\ Freed(b).size = b.capacity
            BY BlockFacts
          <5> QED BY <5>1, ArenaAssumption
        <4> QED BY <3>2, <4>1
      <3> QED BY <3>1, <3>3 DEF Apart
    <2> QED BY <1>0, <1>2, <2>1, <2>2 DEF BlocksOwned
  <1>19. RetentionBounded'
    <2> SUFFICES ASSUME NEW i \in 1 .. Len(chain')
                 PROVE  Cardinality({j \in 1 .. Len(chain') : chain'[j].capacity = chain'[i].capacity}) <= MaxAllocs
      BY DEF RetentionBounded
    <2>1. PICK K : K = chain'[i].capacity OBVIOUS
    <2> DEFINE J == {j \in 1 .. Len(chain) : chain[j].capacity = K}
               P == {j \in 1 .. Len(chain') : chain'[j].capacity = K}
    <2>2. IsFiniteSet(J)
      <3>1. IsFiniteSet(1 .. Len(chain)) BY <1>4, FS_Interval
      <3> QED BY <3>1, FS_Subset
    <2>3. /\ Cardinality(P) \in Nat /\ Cardinality(J) \in Nat /\ Cardinality(P) <= Cardinality(J) + 1
          /\ n.capacity # K => Cardinality(P) <= Cardinality(J)
      BY <1>2, <1>4, <2>2, PrependCount
    <2>4. CASE n.capacity = K
      <3>1. Cardinality(J) <= Cardinality(live) BY <1>2, <2>4, NoSpare
      <3>2. Cardinality(live) < MaxAllocs /\ MaxAllocs \in Nat BY <1>2, ArenaAssumption DEF HandOut
      <3>3. Cardinality(live) \in Nat BY <1>0, FS_CardinalityType DEF ResultsTracked
      <3> HIDE DEF J, P
      <3>4. Cardinality(P) <= MaxAllocs BY <2>3, <3>1, <3>2, <3>3
      <3> QED BY <2>1, <3>4 DEF P
    <2>5. CASE n.capacity # K
      <3>1. i # 1 BY <1>5, <2>1, <2>5
      <3>2. PICK k \in 1 .. Len(chain) : chain'[i] = chain[k] BY <1>6, <3>1
      <3>3. Cardinality(J) <= MaxAllocs BY <1>0, <2>1, <3>2 DEF RetentionBounded
      <3>4. MaxAllocs \in Nat BY ArenaAssumption
      <3> HIDE DEF J, P
      <3>5. Cardinality(P) <= MaxAllocs BY <2>3, <2>5, <3>3, <3>4
      <3> QED BY <2>1, <3>5 DEF P
    <2> QED BY <2>4, <2>5
  <1>20. ArenaInv' BY <1>11, <1>14, <1>16, <1>17, <1>18, <1>19 DEF ArenaInv
  <1> QED BY <1>8, <1>10, <1>20

-----------------------------------------------------------------------------
(***************************************************************************)
(* The theorems.                                                           *)
(***************************************************************************)

\* Every step keeps the invariant, and a step that makes the chain longer hands
\* out a result.
LEMMA StepFacts ==
  ASSUME ArenaInv, [Next]_vars
  PROVE  ArenaInv' /\ (Len(chain') > Len(chain) => live' # live)
  <1>0. Len(chain) \in Nat BY ChainFacts DEF ArenaInv
  <1>1. ASSUME NEW buf \in Buffers, NEW host \in BOOLEAN, New(buf, host)
        PROVE  ArenaInv' /\ ~(Len(chain') > Len(chain))
    <2>1. chain' = chain BY <1>1 DEF New
    <2> QED BY <1>0, <1>1, <2>1, NewKeepsInv
  <1>2. ASSUME NEW size \in Sizes, NEW align \in Aligns, AllocPrimary(size, align)
        PROVE  ArenaInv' /\ ~(Len(chain') > Len(chain))
    <2>1. chain' = chain BY <1>2 DEF AllocPrimary
    <2> QED BY <1>0, <1>2, <2>1, PrimaryKeepsInv
  <1>3. ASSUME NEW size \in Sizes, NEW align \in Aligns, AllocReuse(size, align)
        PROVE  ArenaInv' /\ ~(Len(chain') > Len(chain))
    <2>1. \E i \in 1 .. Len(chain) : \E b : chain' = [chain EXCEPT ![i] = b] BY <1>3, Zenon DEF AllocReuse
    <2>2. chain \in Seq(Block) BY ChainFacts DEF ArenaInv
    <2>3. Len(chain') = Len(chain) BY <2>1, <2>2
    <2> QED BY <1>0, <1>3, <2>3, ReuseKeepsInv
  <1>4. ASSUME NEW size \in Sizes, NEW align \in Aligns, NEW site \in Sites, AllocFresh(size, align, site)
        PROVE  ArenaInv' /\ live' # live
    BY <1>4, FreshKeepsInv
  <1>5. ASSUME Reset PROVE ArenaInv' /\ ~(Len(chain') > Len(chain))
    <2>1. Len(chain') = Len(chain) BY <1>0, <1>5 DEF Reset
    <2> QED BY <1>0, <1>5, <2>1, ResetKeepsInv
  <1>6. ASSUME Drop PROVE ArenaInv' /\ ~(Len(chain') > Len(chain))
    <2>1. Len(chain') = 0 BY <1>6 DEF Drop
    <2> QED BY <1>0, <1>6, <2>1, DropKeepsInv
  <1>7. ASSUME UNCHANGED vars PROVE ArenaInv' /\ ~(Len(chain') > Len(chain))
    <2>1. arena' = arena /\ chain' = chain /\ live' = live /\ heap' = heap BY <1>7 DEF vars
    <2>2. ArenaInv'
      BY <2>1 DEF ArenaInv, TypeOK, BlocksApart, ResultsTracked, ResultsApart, BlocksOwned, RetentionBounded,
                  Buffer, Used
    <2> QED BY <1>0, <2>1, <2>2
  <1> QED BY <1>1, <1>2, <1>3, <1>4, <1>5, <1>6, <1>7 DEF Next, Alloc

\* Regions, blocks and results stay apart and accounted for, whatever is
\* requested, reset, dropped and made anew.
THEOREM ArenaInvariant == Spec => []ArenaInv
  <1>1. Init => ArenaInv BY EmptyArena DEF Init
  <1>2. ArenaInv /\ [Next]_vars => ArenaInv' BY StepFacts
  <1> QED BY <1>1, <1>2, PTL DEF Spec

\* Results since the last reset never overlap, and none covers a block's header
\* (alloc, alloc_overflow).
THEOREM ResultsStayApart == Spec => []ResultsApart
  <1>1. ArenaInv => ResultsApart BY DEF ArenaInv
  <1> QED BY <1>1, ArenaInvariant, PTL

\* The host's memory is the chain's, block by block, with the sizes it was asked
\* for: drop returns all of it (alloc_overflow, Drop).
THEOREM BlocksAccounted == Spec => []BlocksOwned
  <1>1. ArenaInv => BlocksOwned BY DEF ArenaInv
  <1> QED BY <1>1, ArenaInvariant, PTL

\* Retained blocks of one capacity are never more than the requests between two
\* resets (reset, alloc_overflow).
THEOREM RetentionStaysBounded == Spec => []RetentionBounded
  <1>1. ArenaInv => RetentionBounded BY DEF ArenaInv
  <1> QED BY <1>1, ArenaInvariant, PTL

\* alloc never returns null once the host has given a block: the block has room
\* for the padding and the bytes (alloc_overflow).
THEOREM FreshBlocksServe == Spec => FreshBlockServes
  <1>1. ArenaInv /\ [Next]_vars => [Len(chain') > Len(chain) => live' # live]_vars BY StepFacts
  <1> QED BY <1>1, ArenaInvariant, PTL DEF Spec, FreshBlockServes
=============================================================================
