---------------------------- MODULE PagingProofs ----------------------------
(***************************************************************************)
(* The bump heap: for every heap of whole pages and every set of request   *)
(* sizes the allocators hand out aligned, disjoint blocks of the heap and  *)
(* never run past it.  The inductive invariant is UsedWithinHeap /\        *)
(* BlocksInHeap: the blocks lie below the bump pointer, so a block that    *)
(* starts at or after it cannot meet them.                                 *)
(*                                                                         *)
(* The page tables above it, for every fan-out, layout, boot info, program *)
(* and sequence of calls, with the memory running out anywhere.  PInv is   *)
(* inductive: the tables are a tree in which every table stands at one     *)
(* place (Tree), the U bits of a walk agree with the last one (UserPath),  *)
(* every table is a page of the heap that was handed out for it, and those *)
(* the processor uses serve the kernel and ring 3 (Serves).  A function of *)
(* paging.c takes Sound tables to Sound tables and changes the map at the  *)
(* pages it was called for only; each loop goes by induction on its turns. *)
(* The safety properties and the refinement of AddressMap follow.          *)
(*                                                                         *)
(* That the processor holds no stale translation needs less: only a        *)
(* running program makes it keep one, nothing edits the tables meanwhile,  *)
(* and the program's end flushes them.                                     *)
(***************************************************************************)
EXTENDS Paging, TLAPS, FiniteSetTheorems, WellFoundedInduction

-----------------------------------------------------------------------------
(* The invariant of the tables (Paging).                                   *)

\* the tables, and where in the tree one may stand
EntryT == [p : BOOLEAN, ps : BOOLEAN, w : BOOLEAN, u : BOOLEAN, nx : BOOLEAN, addr : Nat]
Tables == [0 .. (Fan - 1) -> EntryT]
Nodes  == [l : 1 .. 4, n : Nat]

\* the entries the walk to va reads
E4(m, va) == m.mem[m.pml4][Index(va, 4)]
E3(m, va) == Under(m, E4(m, va), va, 3)
E2(m, va) == Under(m, E3(m, va), va, 2)
E1(m, va) == IF E2(m, va).ps THEN E2(m, va) ELSE Under(m, E2(m, va), va, 1)

\* Entry i of table t fits where t stands: at level pos[t].l, for the piece
\* pos[t].n of the next higher level.  A large page maps itself; what points
\* to a table takes no right away.
EntryOK(m, pos, t, i) ==
    LET e == m.mem[t][i]
        k == Fan * pos[t].n + i
    IN /\ e.ps => e.p /\ pos[t].l = 2 /\ ~e.u /\ e.addr = k * Span(2)
       /\ e.p /\ ~e.ps /\ pos[t].l # 1 =>
             /\ e.addr \in DOMAIN m.mem /\ pos[e.addr].l = pos[t].l - 1 /\ pos[e.addr].n = k
             /\ e.w /\ ~e.nx

\* The tables are a tree, every one at its place.
Tree(m, pos) ==
    /\ m.pml4 \in DOMAIN m.mem
    /\ pos \in [DOMAIN m.mem -> Nodes] /\ pos[m.pml4].l = 4 /\ pos[m.pml4].n = 0
    /\ \A t \in DOMAIN m.mem : m.mem[t] \in Tables
    /\ \A t \in DOMAIN m.mem : \A i \in 0 .. (Fan - 1) : EntryOK(m, pos, t, i)

\* The processor ANDs the U bits of all levels: the last one decides.
UserPath(m) == \A a \in AllPages : E1(m, a).p /\ E1(m, a).u =>
                                      E4(m, a).u /\ E3(m, a).u /\ E2(m, a).u

\* Outside the window a large page that was split is mapped in full.
Full(m) == \A a \in AllPages \ Window : E2(m, a).p => E1(m, a).p

\* the state of the heap and the tables in the middle of a call
BlockT == [lo : Nat, hi : Nat, align : Nat]
Mems   == UNION {[D -> Tables] : D \in SUBSET Nat}
States == [at : Nat, blocks : SUBSET BlockT, mem : Mems, pml4 : Nat, nx : BOOLEAN, ret : Nat]

\* The heap in the middle of a call: what IInv says of it between two.
HeapOK(m) ==
    /\ HeapBase <= m.at /\ m.at <= HeapEnd
    /\ \A b \in m.blocks : /\ HeapBase <= b.lo /\ b.lo < b.hi /\ b.hi <= m.at
                           /\ b.lo % b.align = 0
    /\ \A b, c \in m.blocks : b # c => b.hi <= c.lo \/ c.hi <= b.lo

\* no page is left
Dry(m) == ~ Fits(AlignUp(m.at, Page), Page)

\* a page that was handed out as such
OwnPage(m, f) == Block(f, Page, Page) \in m.blocks

\* What holds of the memory and the tables in the middle of any call.
Sound(m) ==
    /\ m \in States /\ HeapOK(m)
    /\ \E pos : Tree(m, pos)
    /\ UserPath(m) /\ Full(m)
    /\ \A t \in DOMAIN m.mem : OwnPage(m, t)

\* a page of the kernel's: itself, writable and, where possible, no code
Plain(a, nx) == [frame |-> a, w |-> TRUE, u |-> FALSE, x |-> ~nx]

\* Outside the window the pages of the boot info are mapped as it asks for
\* them, and other pages, if any, to themselves.
KernelMap(m, c) ==
    /\ BootPages(c) \subseteq DOMAIN Flatten(m)
    /\ \A a \in DOMAIN Flatten(m) : a \notin Window =>
          Flatten(m)[a] = IF a \in BootPages(c) THEN BootMap(c, m.nx)[a] ELSE Plain(a, m.nx)

\* the window's page a is ring 3's, on a page handed out for it
UserPage(m, a) ==
    /\ Flatten(m)[a].u /\ Flatten(m)[a].frame \in Nat
    /\ OwnPage(m, Flatten(m)[a].frame) /\ Flatten(m)[a].frame \notin DOMAIN m.mem
    /\ m.nx => ~(Flatten(m)[a].w /\ Flatten(m)[a].x)

\* Every page of the window is, and no frame stands for two.
UserMap(m) ==
    /\ \A a \in DOMAIN Flatten(m) : a \in Window => UserPage(m, a)
    /\ \A a, d \in DOMAIN Flatten(m) : a \in Window /\ d \in Window /\ a # d =>
          Flatten(m)[a].frame # Flatten(m)[d].frame

\* the BARs asked for are mapped, while there was memory
BarsMap(m, S) == ~Dry(m) => \A r \in S : PagesIn(r) \subseteq DOMAIN Flatten(m)

\* What holds of the tables the processor uses, between any two calls.
Serves(m, c, S) == Sound(m) /\ KernelMap(m, c) /\ UserMap(m) /\ BarsMap(m, S)

\* The heap, with its tables in it, between two calls.
MemoryInv == Now \in States /\ HeapOK(Now) /\ bi \in BootInfos /\ bars \in SUBSET Bars

\* Tables that are not loaded are still sound, and stay so because not a
\* page is left; those that are serve.
TablesInv ==
    /\ pml4 # 0 => Sound(Now)
    /\ ~live /\ stage # "boot" => Dry(Now)
    /\ live => pml4 # 0 /\ Serves(Now, bi, bars)
    /\ flat = IF live THEN Flatten(Now) ELSE <<>>

\* A program runs on the kernel's own tables, and its span is known.
StageInv ==
    /\ live \in BOOLEAN
    /\ stage = "boot" => ~live /\ bars = {}
    /\ stage = "running" => live /\ \E p \in Programs : span = SpanOf(p)

\* The inductive invariant of PagingSpec.
PInv == MemoryInv /\ TablesInv /\ StageInv

-----------------------------------------------------------------------------
(* The heap (KHeap).                                                       *)

\* Rounding up when the sum does not wrap.
LEMMA AlignUpValue ==
    ASSUME NEW x \in Nat, NEW a \in Nat, a > 0, AddrSpace \in Nat,
           x + a <= AddrSpace
    PROVE  AlignUp(x, a) = ((x + a - 1) \div a) * a
<1>1. (x + a - 1) % AddrSpace = x + a - 1
  OBVIOUS
<1> QED
  BY <1>1 DEF AlignUp

\* What rounding up by the kernel gives: an aligned value at or above x.
LEMMA AlignUpFacts ==
    ASSUME NEW x \in Nat, NEW a \in Nat, a > 0, AddrSpace \in Nat,
           x + a <= AddrSpace
    PROVE  /\ AlignUp(x, a) \in Nat
           /\ x <= AlignUp(x, a) /\ AlignUp(x, a) < x + a
           /\ AlignUp(x, a) % a = 0
<1>1. AlignUp(x, a) = ((x + a - 1) \div a) * a
  BY AlignUpValue
<1>2. ((x + a - 1) \div a) \in Nat
  OBVIOUS
<1> QED
  BY <1>1, <1>2

\* The two roundings of the kernel itself.
LEMMA AlignUpKernel ==
    ASSUME NEW x \in Nat, x <= HeapEnd
    PROVE  /\ AlignUp(x, 4096) = ((x + 4095) \div 4096) * 4096
           /\ AlignUp(x, 16) = ((x + 15) \div 16) * 16
<1>1. /\ HeapEnd \in Nat
      /\ AddrSpace \in Nat /\ HeapEnd + 4096 <= AddrSpace
  BY HeapAssumption DEF HeapEnd
<1>2. /\ (x + 4096 - 1) % AddrSpace = x + 4095
      /\ (x + 16 - 1) % AddrSpace = x + 15
  BY <1>1
<1> QED
  BY <1>2 DEF AlignUp

\* Below heap_end both kernel roundings are exact, stay inside the heap
\* (which ends on a page) and agree on the page they reach.
LEMMA HeapRounding ==
    ASSUME NEW x \in Nat, x <= HeapEnd
    PROVE  /\ AlignUp(x, 16) \in Nat /\ AlignUp(x, 4096) \in Nat
           /\ x <= AlignUp(x, 16) /\ AlignUp(x, 16) <= HeapEnd
           /\ x <= AlignUp(x, 4096) /\ AlignUp(x, 4096) <= HeapEnd
           /\ AlignUp(x, 16) % 16 = 0 /\ AlignUp(x, 4096) % 4096 = 0
           /\ AlignUp(AlignUp(x, 16), 4096) = AlignUp(x, 4096)
           /\ AlignUp(AlignUp(x, 4096), 4096) = AlignUp(x, 4096)
<1>1. /\ HeapEnd \in Nat /\ HeapEnd % 4096 = 0
      /\ AddrSpace \in Nat /\ HeapEnd + 4096 <= AddrSpace
  BY HeapAssumption DEF HeapEnd
<1> DEFINE p == AlignUp(x, 4096)
           q == AlignUp(x, 16)
<1>2. /\ p = ((x + 4095) \div 4096) * 4096
      /\ q = ((x + 15) \div 16) * 16
  BY AlignUpKernel
<1> HIDE DEF p, q
<1>3. /\ p \in Nat /\ x <= p /\ p <= HeapEnd /\ p % 4096 = 0
      /\ q \in Nat /\ x <= q /\ q <= HeapEnd /\ q % 16 = 0
  BY <1>1, <1>2
<1>4. /\ AlignUp(q, 4096) = ((q + 4095) \div 4096) * 4096
      /\ AlignUp(p, 4096) = ((p + 4095) \div 4096) * 4096
  <2>1. \A y \in Nat : y <= HeapEnd =>
            AlignUp(y, 4096) = ((y + 4095) \div 4096) * 4096
    BY AlignUpKernel
  <2> QED
    BY <1>3, <2>1
<1>5. AlignUp(q, 4096) = p
  BY <1>2, <1>4
<1>6. AlignUp(p, 4096) = p
  BY <1>3, <1>4
<1> QED
  BY <1>3, <1>5, <1>6 DEF p, q
-----------------------------------------------------------------------------
IInv == UsedWithinHeap /\ TypeOK /\ BlocksInHeap /\ BlocksDisjoint /\ BlocksAligned

\* A block a request may add: aligned, and inside the n bytes at "at".
GoodBlock(b, at, n) ==
    /\ b \in [lo : Nat, hi : Nat, align : Nat]
    /\ at <= b.lo /\ b.lo < b.hi /\ b.hi <= at + n
    /\ b.lo % b.align = 0

NoPageLost == blocks' = blocks => FreePages' = FreePages

\* One bump keeps the invariant, and loses no page when it is refused.
LEMMA BumpKeepsInv ==
    ASSUME IInv,
           NEW n \in Nat, NEW a \in {16, 4096}, NEW b,
           Fits(AlignUp(heap_at, a), n) => GoodBlock(b, AlignUp(heap_at, a), n),
           Bump(n, a, b)
    PROVE  IInv' /\ NoPageLost
<1> DEFINE at == AlignUp(heap_at, a)
<1>1. /\ HeapEnd \in Nat /\ HeapBase \in Nat /\ AddrSpace \in Nat
      /\ HeapEnd + 4096 <= AddrSpace
  BY HeapAssumption DEF HeapEnd
<1>2. heap_at \in Nat /\ HeapBase <= heap_at /\ heap_at <= HeapEnd
  BY <1>1 DEF IInv, UsedWithinHeap, TypeOK
<1>3. at \in Nat /\ heap_at <= at /\ at <= HeapEnd
  BY <1>2, HeapRounding
<1> HIDE DEF at
<1>4. CASE Fits(at, n)
  <2>1. heap_at' = at + n /\ blocks' = blocks \cup {b} /\ GoodBlock(b, at, n)
    BY <1>4 DEF Bump, at
  <2>2. heap_at' \in Nat /\ at <= heap_at' /\ heap_at <= heap_at' /\ heap_at' <= HeapEnd
    BY <1>1, <1>2, <1>3, <1>4, <2>1 DEF Fits
  <2>3. UsedWithinHeap' /\ TypeOK'
    BY <1>1, <1>2, <2>1, <2>2 DEF UsedWithinHeap, TypeOK, IInv, GoodBlock, HeapEnd
  <2>4. BlocksInHeap'
    <3> SUFFICES ASSUME NEW c \in blocks'
                 PROVE  HeapBase <= c.lo /\ c.lo < c.hi /\ c.hi <= heap_at'
      BY DEF BlocksInHeap
    <3>1. CASE c = b
      BY <1>1, <1>2, <1>3, <2>1, <3>1 DEF GoodBlock
    <3>2. CASE c \in blocks
      BY <1>2, <2>2, <3>2 DEF IInv, BlocksInHeap, TypeOK
    <3> QED
      BY <2>1, <3>1, <3>2
  <2>5. BlocksDisjoint'
    <3>1. \A c \in blocks : c.hi <= b.lo
      BY <1>2, <1>3, <2>1 DEF IInv, BlocksInHeap, TypeOK, GoodBlock
    <3> QED
      BY <2>1, <3>1 DEF BlocksDisjoint, IInv
  <2>6. BlocksAligned'
    BY <2>1 DEF BlocksAligned, IInv, GoodBlock
  <2>7. b \notin blocks
    BY <1>2, <1>3, <2>1 DEF IInv, BlocksInHeap, TypeOK, GoodBlock
  <2> QED
    BY <2>1, <2>3, <2>4, <2>5, <2>6, <2>7 DEF IInv, NoPageLost
<1>5. CASE ~Fits(at, n)
  <2>1. heap_at' = at /\ blocks' = blocks
    BY <1>5 DEF Bump, at
  <2>2. UsedWithinHeap' /\ TypeOK'
    BY <1>1, <1>2, <1>3, <2>1 DEF UsedWithinHeap, TypeOK, IInv, HeapEnd
  <2>3. BlocksInHeap'
    BY <1>2, <1>3, <2>1 DEF BlocksInHeap, IInv, TypeOK
  <2>4. BlocksDisjoint' /\ BlocksAligned'
    BY <2>1 DEF BlocksDisjoint, BlocksAligned, IInv
  <2>5. NoPageLost
    <3>1. AlignUp(at, 4096) = AlignUp(heap_at, 4096)
      BY <1>2, HeapRounding DEF at
    <3> QED
      BY <2>1, <3>1 DEF NoPageLost, FreePages, HeapEnd
  <2> QED
    BY <2>2, <2>3, <2>4, <2>5 DEF IInv
<1> QED
  BY <1>4, <1>5

\* The heap starts out empty, at heap_base (kalloc_init).
LEMMA InitInv == Init => IInv
  BY HeapAssumption
  DEF Init, IInv, UsedWithinHeap, TypeOK, BlocksInHeap, BlocksDisjoint,
      BlocksAligned, HeapEnd

\* Every allocation keeps the invariant; none that fails costs a page.
LEMMA StepInv == IInv /\ [Next]_vars => IInv' /\ NoPageLost
<1> SUFFICES ASSUME IInv, [Next]_vars PROVE IInv' /\ NoPageLost
  OBVIOUS
<1>1. /\ HeapEnd \in Nat /\ AddrSpace \in Nat /\ HeapEnd + 4096 <= AddrSpace
  BY HeapAssumption DEF HeapEnd
<1>2. heap_at \in Nat /\ heap_at <= HeapEnd
  BY <1>1 DEF IInv, UsedWithinHeap, TypeOK
<1> DEFINE at16 == AlignUp(heap_at, 16)
           page == AlignUp(heap_at, 4096)
<1>3. /\ at16 \in Nat /\ at16 % 16 = 0
      /\ page \in Nat /\ page % 4096 = 0
  BY <1>2, HeapRounding
<1> HIDE DEF at16, page
<1>4. CASE \E n \in Sizes : Kalloc(n)
  <2>1. PICK n \in Sizes : Kalloc(n)
    BY <1>4
  <2>2. n \in Nat /\ n > 0
    BY <1>1, RequestAssumption DEF RequestAssumption
  <2>3. GoodBlock(Block(at16, n, 16), at16, n)
    BY <1>3, <2>2 DEF GoodBlock, Block
  <2> QED
    BY <2>1, <2>2, <2>3, BumpKeepsInv DEF Kalloc, at16
<1>5. CASE KallocPage
  <2>1. GoodBlock(Block(page, 4096, 4096), page, 4096)
    BY <1>3 DEF GoodBlock, Block
  <2> QED
    BY <1>5, <2>1, BumpKeepsInv DEF KallocPage, page
<1>6. CASE \E n \in DmaSizes, a \in DmaAligns : DmaAlloc(n, a)
  <2>1. PICK n \in DmaSizes, a \in DmaAligns : DmaAlloc(n, a)
    BY <1>6
  <2>2. /\ n \in Nat /\ n > 0 /\ a \in Nat /\ a > 0
        /\ (n + a) % AddrSpace = n + a
    BY <1>1, RequestAssumption DEF RequestAssumption
  <2>3. ASSUME Fits(at16, n + a)
        PROVE  GoodBlock(Block(AlignUp(at16, a), n, a), at16, n + a)
    <3>1. at16 + a <= AddrSpace
      BY <1>1, <1>3, <2>2, <2>3 DEF Fits
    <3>2. /\ AlignUp(at16, a) \in Nat /\ AlignUp(at16, a) % a = 0
          /\ at16 <= AlignUp(at16, a) /\ AlignUp(at16, a) < at16 + a
      BY <1>1, <1>3, <2>2, <3>1, AlignUpFacts
    <3> QED
      BY <1>3, <2>2, <3>2 DEF GoodBlock, Block
  <2>4. Bump(n + a, 16, Block(AlignUp(at16, a), n, a))
    BY <2>1, <2>2 DEF DmaAlloc, at16
  <2> QED
    BY <2>2, <2>3, <2>4, BumpKeepsInv DEF at16
<1>7. CASE UNCHANGED vars
  BY <1>7 DEF vars, IInv, UsedWithinHeap, TypeOK, BlocksInHeap,
              BlocksDisjoint, BlocksAligned, NoPageLost, FreePages, HeapEnd
<1> QED
  BY <1>4, <1>5, <1>6, <1>7 DEF Next

\* The allocators' contract (kmain.c 35-49, usb.c 46-50): typed state, and
\* aligned, disjoint blocks inside the heap the loader reserved.
THEOREM HeapSafe ==
    Spec => [](TypeOK /\ BlocksSafe)
<1>1. IInv => TypeOK /\ BlocksSafe
  BY DEF IInv, BlocksSafe
<1> QED
  BY InitInv, StepInv, <1>1, PTL DEF Spec

\* "mem" never reports more than the heap: rounding cannot pass its end.
THEOREM HeapUse == Spec => []UsedWithinHeap
<1>1. IInv => UsedWithinHeap
  BY DEF IInv
<1> QED
  BY InitInv, StepInv, <1>1, PTL DEF Spec

\* A refused request takes no page away from the requests after it.
THEOREM RefusalIsFree == Spec => RefusalCostsNoPage
<1>1. IInv /\ [Next]_vars => [blocks' = blocks => FreePages' = FreePages]_vars
  BY StepInv DEF NoPageLost
<1>2. Init => IInv
  BY InitInv
<1>3. IInv /\ [Next]_vars => IInv'
  BY StepInv
<1> QED
  BY <1>1, <1>2, <1>3, PTL DEF Spec, RefusalCostsNoPage

-----------------------------------------------------------------------------
(* The tables (Paging).                                                    *)

\* Outside a program's run the processor holds no translation of its pages.
TlbInv == (stage # "running" => tlb = <<>>) /\ NoStaleTranslation

\* One more translation, the one the tables give, is not stale.
LEMMA TouchStep ==
    ASSUME TlbInv, NEW va, Touch(va)
    PROVE  TlbInv'
<1>1. /\ stage = "running" /\ stage' = stage /\ flat' = flat
      /\ va \in DOMAIN flat
      /\ tlb' = [a \in {va} \cup DOMAIN tlb |-> IF a = va THEN flat[va] ELSE tlb[a]]
  BY DEF Touch, memory, place
<1>2. /\ DOMAIN tlb' = {va} \cup DOMAIN tlb
      /\ \A a \in DOMAIN tlb' : tlb'[a] = IF a = va THEN flat[va] ELSE tlb[a]
  BY <1>1
<1> QED
  BY <1>1, <1>2 DEF TlbInv, NoStaleTranslation

\* The processor never uses a translation the tables no longer have.
THEOREM TlbIsFresh == PagingSpec => []NoStaleTranslation
<1>1. PagingInit => TlbInv
  BY DEF PagingInit, TlbInv, NoStaleTranslation
<1>2. ASSUME TlbInv, [PagingNext]_pagingVars PROVE TlbInv'
  <2>1. ASSUME NEW k \in Sizes, ConsoleAlloc(k) PROVE TlbInv'
    BY <1>2, <2>1 DEF ConsoleAlloc, TlbInv, NoStaleTranslation
  <2>2. CASE paging_init
    BY <2>2 DEF paging_init, TlbInv, NoStaleTranslation
  <2>3. ASSUME NEW r \in Bars, vm_ensure_identity(r) PROVE TlbInv'
    <3>1. stage = "usb" /\ stage' = stage /\ (tlb' = tlb \/ tlb' = <<>>)
      BY <2>3 DEF vm_ensure_identity
    <3> QED
      BY <1>2, <3>1 DEF TlbInv, NoStaleTranslation
  <2>4. ASSUME NEW k \in DmaSizes, NEW a \in DmaAligns, DriverAlloc(k, a) PROVE TlbInv'
    BY <1>2, <2>4 DEF DriverAlloc, TlbInv, NoStaleTranslation
  <2>5. CASE DriversDone
    BY <1>2, <2>5 DEF DriversDone, memory, TlbInv, NoStaleTranslation
  <2>6. ASSUME NEW p \in Programs, elf_run(p) PROVE TlbInv'
    <3>1. stage = "shell" /\ tlb' = tlb
      BY <2>6 DEF elf_run
    <3> QED
      BY <1>2, <3>1 DEF TlbInv, NoStaleTranslation
  <2>7. CASE ProgramEnds
    BY <2>7 DEF ProgramEnds, TlbInv, NoStaleTranslation
  <2>8. CASE UNCHANGED pagingVars
    BY <1>2, <2>8 DEF pagingVars, memory, place, TlbInv, NoStaleTranslation
  <2> QED
    BY <1>2, <2>1, <2>2, <2>3, <2>4, <2>5, <2>6, <2>7, <2>8, TouchStep DEF PagingNext
<1>3. TlbInv => NoStaleTranslation
  BY DEF TlbInv
<1> QED
  BY <1>1, <1>2, <1>3, PTL DEF PagingSpec
-----------------------------------------------------------------------------
(* Arithmetic of addresses.                                                *)

\* Division with remainder.
LEMMA Euclid ==
    ASSUME NEW a \in Nat, NEW d \in Nat \ {0}
    PROVE  /\ a \div d \in Nat /\ a % d \in 0 .. (d - 1)
           /\ a = d * (a \div d) + (a % d)
  BY SMT

\* Quotient and remainder are unique.
LEMMA EuclidUnique ==
    ASSUME NEW d \in Nat \ {0}, NEW q \in Int, NEW r \in 0 .. (d - 1),
           NEW s \in Int, NEW t \in 0 .. (d - 1), d * q + r = d * s + t
    PROVE  q = s /\ r = t
<1>1. d * (q - s) = t - r
  BY SMT
<1>2. CASE q - s >= 1
  <2>1. d * (q - s) >= d
    BY <1>2, SMT
  <2> QED
    BY <1>1, <2>1, SMT
<1>3. CASE q - s <= -1
  <2>1. d * (q - s) <= -d
    BY <1>3, SMT
  <2> QED
    BY <1>1, <2>1, SMT
<1>4. CASE q = s
  BY <1>1, <1>4, SMT
<1> QED
  BY <1>2, <1>3, <1>4, SMT

\* A sum of a multiple and a small remainder, divided.
LEMMA DivOfSum ==
    ASSUME NEW d \in Nat \ {0}, NEW q \in Nat, NEW r \in 0 .. (d - 1)
    PROVE  (d * q + r) \div d = q /\ (d * q + r) % d = r
<1> DEFINE a == d * q + r
<1>1. a \in Nat
  BY SMT
<1> HIDE DEF a
<1> DEFINE s == a \div d
           t == a % d
<1>2. s \in Nat /\ t \in 0 .. (d - 1) /\ a = d * s + t
  BY <1>1, Euclid
<1> HIDE DEF s, t
<1>3. d * q + r = d * s + t
  BY <1>2 DEF a
<1>4. q = s /\ r = t
  BY <1>2, <1>3, EuclidUnique
<1> QED
  BY <1>4 DEF a, s, t

\* Dividing by a product is dividing twice.
LEMMA DivDiv ==
    ASSUME NEW a \in Nat, NEW d \in Nat \ {0}, NEW f \in Nat \ {0}
    PROVE  a \div (d * f) = (a \div d) \div f
<1> DEFINE q == a \div d
           r == a % d
           s == q \div f
           t == q % f
<1>1. q \in Nat /\ r \in 0 .. (d - 1) /\ a = d * q + r
  BY Euclid
<1>2. s \in Nat /\ t \in 0 .. (f - 1) /\ q = f * s + t
  BY <1>1, Euclid
<1> HIDE DEF q, r, s, t
<1>3. d * f \in Nat \ {0}
  BY SMT
<1>4. d * t + r \in 0 .. (d * f - 1)
  <2>1. d * t + d <= d * f
    <3>1. t + 1 <= f
      BY <1>2
    <3>2. d * (t + 1) <= d * f
      BY <1>2, <3>1, SMT
    <3> QED
      BY <1>2, <3>2, SMT
  <2>2. d * t \in Nat /\ d * f \in Nat
    BY <1>2, SMT
  <2> QED
    BY <1>1, <2>1, <2>2, SMT
<1>5. a = (d * f) * s + (d * t + r)
  <2>1. d * q = d * (f * s) + d * t
    BY <1>2, SMT
  <2>2. d * (f * s) = (d * f) * s
    BY <1>2, SMT
  <2>3. /\ d * q \in Nat /\ d * (f * s) \in Nat /\ d * t \in Nat /\ (d * f) * s \in Nat
    BY <1>1, <1>2, SMT
  <2> QED
    BY <1>1, <2>1, <2>2, <2>3, SMT
<1>6. a \div (d * f) = s
  BY <1>2, <1>3, <1>4, <1>5, DivOfSum
<1> QED
  BY <1>6 DEF s, q

\* What an entry of each level covers: Fan times what the next lower does.
LEMMA SpanFacts ==
    /\ Fan \in Nat /\ Fan > 1
    /\ Span(1) = 4096 /\ Span(2) = Span(1) * Fan
    /\ Span(3) = Span(2) * Fan /\ Span(4) = Span(3) * Fan
    /\ \A l \in 1 .. 4 : Span(l) \in Nat /\ Span(l) > 0
<1>1. Fan \in Nat /\ Fan > 1
  BY PagingAssumption
<1>2. /\ Span(1) = 4096 * 1 /\ Span(2) = 4096 * Fan
      /\ Span(3) = 4096 * (Fan * Fan) /\ Span(4) = 4096 * (Fan * Fan * Fan)
  BY DEF Span, Page
<1>3. Fan * Fan \in Nat /\ Fan * Fan > 0 /\ Fan * Fan * Fan \in Nat /\ Fan * Fan * Fan > 0
  BY <1>1, SMT
<1>4. /\ Span(1) = 4096 /\ Span(2) = Span(1) * Fan
      /\ Span(3) = Span(2) * Fan /\ Span(4) = Span(3) * Fan
  BY <1>1, <1>2, <1>3, SMT
<1>5. /\ Span(1) \in Nat /\ Span(1) > 0 /\ Span(2) \in Nat /\ Span(2) > 0
      /\ Span(3) \in Nat /\ Span(3) > 0 /\ Span(4) \in Nat /\ Span(4) > 0
  BY <1>1, <1>2, <1>3, SMT
<1> QED
  BY <1>1, <1>4, <1>5

\* the number of the piece of level l that va lies in
Num(va, l) == va \div Span(l)

\* A piece is the Index-th of the Fan pieces of the next higher one.
LEMMA NumFacts ==
    ASSUME NEW va \in Nat
    PROVE  /\ \A l \in 1 .. 4 : /\ Num(va, l) \in Nat
                                /\ Index(va, l) \in 0 .. (Fan - 1)
                                /\ Index(va, l) = Num(va, l) % Fan
           /\ \A l \in 1 .. 3 : /\ Num(va, l + 1) = Num(va, l) \div Fan
                                /\ Num(va, l) = Fan * Num(va, l + 1) + Index(va, l)
<1>1. \A l \in 1 .. 4 : Num(va, l) \in Nat
  <2> TAKE l \in 1 .. 4
  <2>1. Span(l) \in Nat \ {0}
    BY SpanFacts
  <2>2. va \div Span(l) \in Nat
    BY <2>1, Euclid, Zenon
  <2> QED
    BY <2>2 DEF Num
<1>2. \A l \in 1 .. 4 : Index(va, l) = Num(va, l) % Fan
  BY DEF Index, Num
<1>3. Fan \in Nat \ {0}
  BY SpanFacts
<1>4. ASSUME NEW l \in 1 .. 4
      PROVE  /\ Index(va, l) \in 0 .. (Fan - 1)
             /\ Num(va, l) = Fan * (Num(va, l) \div Fan) + Index(va, l)
  BY <1>1, <1>2, <1>3, Euclid
<1>5. \A l \in 1 .. 3 : Num(va, l + 1) = Num(va, l) \div Fan
  <2>1. \A l \in 1 .. 3 : Span(l + 1) = Span(l) * Fan
    <3>1. 1 + 1 = 2 /\ 2 + 1 = 3 /\ 3 + 1 = 4
      OBVIOUS
    <3>2. Span(1 + 1) = Span(1) * Fan /\ Span(2 + 1) = Span(2) * Fan /\ Span(3 + 1) = Span(3) * Fan
      BY <3>1, SpanFacts
    <3> QED
      BY <3>2
  <2>2. TAKE l \in 1 .. 3
  <2>3. Span(l) \in Nat \ {0}
    BY SpanFacts
  <2>4. va \div (Span(l) * Fan) = (va \div Span(l)) \div Fan
    BY <1>3, <2>3, DivDiv
  <2> QED
    BY <2>1, <2>4 DEF Num
<1> QED
  BY <1>1, <1>2, <1>4, <1>5

\* A page of the address space, as it is numbered.
LEMMA PageFacts ==
    ASSUME NEW va
    PROVE  va \in AllPages <=> va \in Nat /\ va % 4096 = 0 /\ va < Fan * Span(4)
<1> DEFINE n == Fan * Span(4)
<1>1. n \in Nat /\ n > 0 /\ n % 4096 = 0
  <2>1. n = 4096 * (Fan * Fan * Fan * Fan)
    BY SpanFacts, SMT
  <2>2. Fan * Fan * Fan * Fan \in Nat /\ Fan * Fan * Fan * Fan > 0
    BY SpanFacts, SMT
  <2> HIDE DEF n
  <2>3. PICK k \in Nat : n = 4096 * k /\ k > 0
    BY <2>1, <2>2
  <2> QED
    BY <2>3, SMT
<1> HIDE DEF n
<1>2. AllPages = {a * 4096 : a \in 0 .. ((n - 1) \div 4096)}
  BY <1>1 DEF AllPages, PagesIn, Page, n
<1>3. va \in AllPages <=> \E a \in 0 .. ((n - 1) \div 4096) : va = a * 4096
  BY <1>2
<1>4. ASSUME va \in AllPages PROVE va \in Nat /\ va % 4096 = 0 /\ va < n
  BY <1>1, <1>3, <1>4
<1>5. ASSUME va \in Nat, va % 4096 = 0, va < n PROVE va \in AllPages
  <2>1. va \div 4096 \in 0 .. ((n - 1) \div 4096) /\ va = (va \div 4096) * 4096
    BY <1>1, <1>5
  <2> QED
    BY <1>3, <2>1
<1> QED
  BY <1>4, <1>5 DEF n

\* Every page has a number of its own, and the root an entry for each.
LEMMA PageNumbers ==
    /\ AllPages \subseteq Nat
    /\ \A a \in AllPages : Num(a, 4) = Index(a, 4) /\ a = 4096 * Num(a, 1)
<1>1. AllPages \subseteq Nat
  BY PageFacts
<1>2. ASSUME NEW a \in AllPages
      PROVE  Num(a, 4) = Index(a, 4) /\ a = 4096 * Num(a, 1)
  <2>1. a \in Nat /\ a % 4096 = 0 /\ a < Fan * Span(4)
    BY PageFacts
  <2> a \in Nat
    BY <2>1
  <2>2. a = 4096 * Num(a, 1)
    BY <2>1, SpanFacts DEF Num
  <2>3. Num(a, 4) < Fan
    <3> DEFINE s == Span(4)
               q == a \div s
               r == a % s
    <3>1. s \in Nat \ {0} /\ Fan \in Nat
      BY SpanFacts
    <3>2. q \in Nat /\ r \in Nat /\ a = s * q + r
      <4> HIDE DEF s
      <4>1. q \in Nat /\ r \in 0 .. (s - 1) /\ a = s * q + r
        BY <3>1, Euclid, Zenon
      <4> QED
        BY <3>1, <4>1
    <3>3. a < Fan * s /\ Num(a, 4) = q
      BY <2>1 DEF Num
    <3> HIDE DEF s, q, r
    <3>4. CASE q >= Fan
      <4>1. s * q >= s * Fan /\ s * Fan = Fan * s /\ s * q \in Nat /\ s * Fan \in Nat
        BY <3>1, <3>2, <3>4, SMT
      <4> QED
        BY <2>1, <3>2, <3>3, <4>1, SMT
    <3> QED
      BY <3>1, <3>2, <3>3, <3>4
  <2>4. Num(a, 4) \in Nat /\ Index(a, 4) = Num(a, 4) % Fan
    <3>1. 4 \in 1 .. 4
      OBVIOUS
    <3> QED
      BY <3>1, NumFacts, Zenon
  <2>5. Num(a, 4) % Fan = Num(a, 4)
    BY <2>3, <2>4, SpanFacts
  <2> QED
    BY <2>2, <2>4, <2>5
<1> QED
  BY <1>1, <1>2

-----------------------------------------------------------------------------
(* Loops.                                                                  *)

Less == {ss \in Nat \X Nat : ss[1] < ss[2]}

\* A nonempty set of naturals has a least element.
LEMMA LeastNat ==
    ASSUME NEW T \in SUBSET Nat, T # {}
    PROVE  \E n \in T : \A k \in T : n <= k
<1>1. IsWellFoundedOn(Less, Nat)
  BY NatLessThanWellFounded DEF OpToRel, Less
<1>2. \E n \in T : \A k \in T : ~ (<<k, n>> \in Less)
  BY <1>1, WFMin
<1>3. PICK n \in T : \A k \in T : ~ (<<k, n>> \in Less)
  BY <1>2
<1>4. ASSUME NEW k \in T, ~ (n <= k) PROVE FALSE
  <2>1. <<k, n>> \in Nat \X Nat /\ <<k, n>>[1] = k /\ <<k, n>>[2] = n
    OBVIOUS
  <2>2. k < n
    BY <1>4
  <2> QED
    BY <1>3, <2>1, <2>2 DEF Less
<1> QED
  BY <1>4

\* Induction over the turns of a loop.
LEMMA TurnInduction ==
    ASSUME NEW n \in Nat, NEW A, 0 \in A, \A i \in 1 .. n : i - 1 \in A => i \in A
    PROVE  \A i \in 0 .. n : i \in A
<1> SUFFICES ASSUME ~ \A i \in 0 .. n : i \in A PROVE FALSE
  OBVIOUS
<1> DEFINE T == {i \in 0 .. n : i \notin A}
<1>1. T \in SUBSET Nat /\ T # {}
  OBVIOUS
<1>2. PICK k \in T : \A j \in T : k <= j
  BY <1>1, LeastNat
<1>3. k \in 1 .. n
  BY <1>2
<1>4. k - 1 \in 0 .. n /\ k - 1 \notin T
  BY <1>2, <1>3
<1> QED
  BY <1>2, <1>3, <1>4

\* f is the run from b of a loop whose i-th turn is g[<<i, state>>]
RunOf(f, S, n, b, g) ==
    f \in [0 .. n -> S] /\ f[0] = b /\ \A i \in 1 .. n : f[i] = g[<<i, f[i - 1]>>]

\* A loop whose body g stays in S has a run: the state after each turn.
LEMMA LoopRun ==
    ASSUME NEW S, NEW n \in Nat, NEW b \in S, NEW g \in [(1 .. n) \X S -> S]
    PROVE  \E f : RunOf(f, S, n, b, g)
<1> DEFINE Run(k, f) == /\ f \in [0 .. k -> S] /\ f[0] = b
                        /\ \A i \in 1 .. k : f[i] = g[<<i, f[i - 1]>>]
           A == {k \in 0 .. n : \E f : Run(k, f)}
<1>1. 0 \in A
  <2> DEFINE h == [i \in 0 .. 0 |-> b]
  <2>1. Run(0, h)
    OBVIOUS
  <2> HIDE DEF h
  <2> QED
    BY <2>1
<1>2. ASSUME NEW k \in 1 .. n, k - 1 \in A PROVE k \in A
  <2>1. PICK f : Run(k - 1, f)
    BY <1>2
  <2> DEFINE h == [i \in 0 .. k |-> IF i = k THEN g[<<k, f[k - 1]>>] ELSE f[i]]
  <2>2. f[k - 1] \in S /\ \A i \in 0 .. (k - 1) : f[i] \in S
    BY <2>1
  <2>3. g[<<k, f[k - 1]>>] \in S
    BY <2>2
  <2>4. h \in [0 .. k -> S] /\ h[0] = b
    BY <2>1, <2>2, <2>3
  <2>5. ASSUME NEW i \in 1 .. k PROVE h[i] = g[<<i, h[i - 1]>>]
    <3>1. h[i - 1] = f[i - 1]
      OBVIOUS
    <3>2. i = k => h[i] = g[<<k, f[k - 1]>>]
      OBVIOUS
    <3>3. i # k => h[i] = f[i] /\ i \in 1 .. (k - 1)
      OBVIOUS
    <3> HIDE DEF h
    <3> QED
      BY <2>1, <3>1, <3>2, <3>3
  <2> HIDE DEF h
  <2>6. Run(k, h)
    BY <2>4, <2>5
  <2> QED
    BY <2>6
<1> HIDE DEF A
<1>3. n \in A
  BY <1>1, <1>2, TurnInduction
<1> QED
  BY <1>3 DEF A, RunOf

\* The turns of for(a = from; a < to; a += step).
LEMMA StepsFacts ==
    ASSUME NEW from \in Int, NEW to \in Int, NEW step \in Nat \ {0}
    PROVE  /\ Len(Steps(from, to, step)) \in Nat
           /\ \A i \in 1 .. Len(Steps(from, to, step)) :
                 Steps(from, to, step)[i] = from + (i - 1) * step
           /\ from < to => Len(Steps(from, to, step)) = (to - from + step - 1) \div step
           /\ ~ (from < to) => Len(Steps(from, to, step)) = 0
<1> DEFINE n == (to - from + step - 1) \div step
<1>1. n \in Int
  BY SMT
<1> HIDE DEF n
<1> DEFINE s == Steps(from, to, step)
<1>2. s = [i \in 1 .. n |-> from + (i - 1) * step]
  BY DEF Steps, n
<1>3. \A i \in 1 .. n : s[i] = from + (i - 1) * step
  BY <1>2
<1>4. \A i \in 1 .. n : from + (i - 1) * step \in Int
  BY SMT
<1>5. CASE n \in Nat
  <2>1. s \in Seq(Int) /\ Len(s) = n
    BY <1>2, <1>4, <1>5
  <2>2. ~ (from < to) => n = 0
    <3>1. ~ (from < to) => ~ ((to - from + step - 1) \div step > 0)
      BY SMT
    <3> QED
      BY <1>5, <3>1 DEF n
  <2> QED
    BY <1>3, <2>1, <2>2 DEF n
<1>6. CASE n \notin Nat
  <2>1. 1 .. n = 1 .. 0
    BY <1>1, <1>6
  <2>2. s = [i \in 1 .. 0 |-> from + (i - 1) * step]
    BY <1>2, <2>1
  <2>3. s = << >>
    BY <2>2
  <2>4. Len(s) = 0 /\ 1 .. Len(s) = {}
    BY <2>3
  <2>5. ~ (from < to)
    <3>1. from < to => (to - from + step - 1) \div step \in Nat
      BY SMT
    <3> QED
      BY <1>6, <3>1 DEF n
  <2> QED
    BY <2>4, <2>5
<1> QED
  BY <1>5, <1>6

-----------------------------------------------------------------------------
(* The tables as a tree.                                                   *)

\* Pages in the same piece of level l share the entries from l up.
LEMMA SameNum ==
    ASSUME NEW a \in AllPages, NEW b \in AllPages
    PROVE  /\ Num(a, 4) = Num(b, 4) <=> Index(a, 4) = Index(b, 4)
           /\ \A l \in 1 .. 3 : Num(a, l) = Num(b, l) <=>
                 Num(a, l + 1) = Num(b, l + 1) /\ Index(a, l) = Index(b, l)
<1> a \in Nat /\ b \in Nat
  BY PageNumbers
<1>1. Num(a, 4) = Index(a, 4) /\ Num(b, 4) = Index(b, 4)
  BY PageNumbers
<1>2. \A l \in 1 .. 3 : /\ Num(a, l + 1) = Num(a, l) \div Fan
                        /\ Num(a, l) = Fan * Num(a, l + 1) + Index(a, l)
                        /\ Num(b, l + 1) = Num(b, l) \div Fan
                        /\ Num(b, l) = Fan * Num(b, l + 1) + Index(b, l)
  BY NumFacts, Zenon
<1>3. \A l \in 1 .. 3 : Index(a, l) = Num(a, l) % Fan /\ Index(b, l) = Num(b, l) % Fan
  <2>1. \A l \in 1 .. 3 : l \in 1 .. 4
    OBVIOUS
  <2> QED
    BY <2>1, NumFacts, Zenon
<1>4. ASSUME NEW l \in 1 .. 3
      PROVE Num(a, l) = Num(b, l) <=>
                 Num(a, l + 1) = Num(b, l + 1) /\ Index(a, l) = Index(b, l)
  <2>1. Num(a, l) = Num(b, l) => Num(a, l + 1) = Num(b, l + 1) /\ Index(a, l) = Index(b, l)
    BY <1>2, <1>3, Zenon
  <2>2. Num(a, l + 1) = Num(b, l + 1) /\ Index(a, l) = Index(b, l) => Num(a, l) = Num(b, l)
    BY <1>2, Zenon
  <2> QED
    BY <2>1, <2>2
<1> QED
  BY <1>1, <1>4

\* An absent entry has no rights and leads nowhere.
LEMMA NoEntryFacts == NoEntry \in EntryT /\ NoEntry.p = FALSE /\ NoEntry.ps = FALSE
  BY DEF NoEntry, Entry, Flags, EntryT

\* Where the walk to a page goes: down the levels, each table that of the
\* piece the page lies in.
WalkOK(m, pos, a) ==
    /\ E4(m, a) \in EntryT /\ ~E4(m, a).ps
    /\ E4(m, a).p => /\ E4(m, a).w /\ ~E4(m, a).nx /\ E4(m, a).addr \in DOMAIN m.mem
                     /\ pos[E4(m, a).addr].l = 3 /\ pos[E4(m, a).addr].n = Num(a, 4)
    /\ E3(m, a) \in EntryT /\ ~E3(m, a).ps
    /\ E3(m, a).p => /\ E4(m, a).p
                     /\ E3(m, a).w /\ ~E3(m, a).nx /\ E3(m, a).addr \in DOMAIN m.mem
                     /\ pos[E3(m, a).addr].l = 2 /\ pos[E3(m, a).addr].n = Num(a, 3)
    /\ E2(m, a) \in EntryT
    /\ E2(m, a).p => E3(m, a).p
    /\ E2(m, a).ps => /\ E2(m, a).p /\ ~E2(m, a).u
                      /\ E2(m, a).addr = Num(a, 2) * Span(2)
    /\ E2(m, a).p /\ ~E2(m, a).ps =>
                     /\ E2(m, a).w /\ ~E2(m, a).nx /\ E2(m, a).addr \in DOMAIN m.mem
                     /\ pos[E2(m, a).addr].l = 1 /\ pos[E2(m, a).addr].n = Num(a, 2)
    /\ E1(m, a) \in EntryT
    /\ E1(m, a).p => E2(m, a).p
    /\ E1(m, a).ps <=> E2(m, a).ps

\* In a tree every walk goes right.
LEMMA WalkFacts ==
    ASSUME NEW m, NEW pos, Tree(m, pos), NEW a \in AllPages
    PROVE  WalkOK(m, pos, a)
<1> a \in Nat
  BY PageNumbers
<1>1. \A l \in 1 .. 4 : Num(a, l) \in Nat /\ Index(a, l) \in 0 .. (Fan - 1)
  BY NumFacts, Zenon
<1>2. /\ Num(a, 4) = Index(a, 4)
      /\ Num(a, 3) = Fan * Num(a, 4) + Index(a, 3)
      /\ Num(a, 2) = Fan * Num(a, 3) + Index(a, 2)
      /\ Num(a, 1) = Fan * Num(a, 2) + Index(a, 1)
  <2>1. \A l \in 1 .. 3 : Num(a, l) = Fan * Num(a, l + 1) + Index(a, l)
    BY NumFacts, Zenon
  <2>2. /\ Num(a, 3) = Fan * Num(a, 3 + 1) + Index(a, 3)
        /\ Num(a, 2) = Fan * Num(a, 2 + 1) + Index(a, 2)
        /\ Num(a, 1) = Fan * Num(a, 1 + 1) + Index(a, 1)
    BY <2>1
  <2>3. 3 + 1 = 4 /\ 2 + 1 = 3 /\ 1 + 1 = 2
    OBVIOUS
  <2>4. Num(a, 4) = Index(a, 4)
    BY PageNumbers
  <2> QED
    BY <2>2, <2>3, <2>4
<1>3. /\ Index(a, 1) \in 0 .. (Fan - 1) /\ Index(a, 2) \in 0 .. (Fan - 1)
      /\ Index(a, 3) \in 0 .. (Fan - 1) /\ Index(a, 4) \in 0 .. (Fan - 1)
  BY <1>1
<1>4. \A t \in DOMAIN m.mem : \A i \in 0 .. (Fan - 1) :
         m.mem[t][i] \in EntryT /\ EntryOK(m, pos, t, i)
  BY DEF Tree, Tables
<1>5. m.pml4 \in DOMAIN m.mem /\ pos[m.pml4].l = 4 /\ pos[m.pml4].n = 0
  BY DEF Tree
<1>6. /\ E4(m, a) \in EntryT /\ ~E4(m, a).ps
      /\ E4(m, a).p => /\ E4(m, a).w /\ ~E4(m, a).nx /\ E4(m, a).addr \in DOMAIN m.mem
                       /\ pos[E4(m, a).addr].l = 3 /\ pos[E4(m, a).addr].n = Num(a, 4)
  <2>1. E4(m, a) = m.mem[m.pml4][Index(a, 4)]
    BY DEF E4
  <2>2. E4(m, a) \in EntryT /\ EntryOK(m, pos, m.pml4, Index(a, 4))
    BY <1>3, <1>4, <1>5, <2>1
  <2>3. Fan * 0 + Index(a, 4) = Num(a, 4)
    BY <1>2, <1>3, SpanFacts
  <2> QED
    BY <1>5, <2>1, <2>2, <2>3 DEF EntryOK
<1>7. /\ E3(m, a) \in EntryT /\ ~E3(m, a).ps
      /\ E3(m, a).p => /\ E4(m, a).p
                       /\ E3(m, a).w /\ ~E3(m, a).nx /\ E3(m, a).addr \in DOMAIN m.mem
                       /\ pos[E3(m, a).addr].l = 2 /\ pos[E3(m, a).addr].n = Num(a, 3)
  <2>1. CASE ~E4(m, a).p
    BY <2>1, NoEntryFacts DEF E3, Under
  <2>2. CASE E4(m, a).p
    <3> DEFINE t == E4(m, a).addr
    <3>1. E3(m, a) = m.mem[t][Index(a, 3)]
      BY <2>2 DEF E3, Under
    <3>2. t \in DOMAIN m.mem /\ pos[t].l = 3 /\ pos[t].n = Num(a, 4)
      BY <1>6, <2>2
    <3> HIDE DEF t
    <3>3. E3(m, a) \in EntryT /\ EntryOK(m, pos, t, Index(a, 3))
      BY <1>3, <1>4, <3>1, <3>2
    <3>4. Fan * pos[t].n + Index(a, 3) = Num(a, 3)
      BY <1>2, <3>2
    <3> QED
      BY <2>2, <3>1, <3>2, <3>3, <3>4 DEF EntryOK
  <2> QED
    BY <2>1, <2>2
<1>8. /\ E2(m, a) \in EntryT
      /\ E2(m, a).p => E3(m, a).p
      /\ E2(m, a).ps => /\ E2(m, a).p /\ ~E2(m, a).u
                        /\ E2(m, a).addr = Num(a, 2) * Span(2)
      /\ E2(m, a).p /\ ~E2(m, a).ps =>
                       /\ E2(m, a).w /\ ~E2(m, a).nx /\ E2(m, a).addr \in DOMAIN m.mem
                       /\ pos[E2(m, a).addr].l = 1 /\ pos[E2(m, a).addr].n = Num(a, 2)
  <2>1. CASE ~E3(m, a).p
    BY <2>1, NoEntryFacts DEF E2, Under
  <2>2. CASE E3(m, a).p
    <3> DEFINE t == E3(m, a).addr
    <3>1. E2(m, a) = m.mem[t][Index(a, 2)]
      BY <2>2 DEF E2, Under
    <3>2. t \in DOMAIN m.mem /\ pos[t].l = 2 /\ pos[t].n = Num(a, 3)
      BY <1>7, <2>2
    <3> HIDE DEF t
    <3>3. E2(m, a) \in EntryT /\ EntryOK(m, pos, t, Index(a, 2))
      BY <1>3, <1>4, <3>1, <3>2
    <3>4. Fan * pos[t].n + Index(a, 2) = Num(a, 2)
      BY <1>2, <3>2
    <3> QED
      BY <2>2, <3>1, <3>2, <3>3, <3>4 DEF EntryOK
  <2> QED
    BY <2>1, <2>2
<1>9. /\ E1(m, a) \in EntryT
      /\ E1(m, a).p => E2(m, a).p
      /\ E1(m, a).ps <=> E2(m, a).ps
  <2>1. CASE ~E2(m, a).p
    BY <1>8, <2>1, NoEntryFacts DEF E1, Under
  <2>2. CASE E2(m, a).ps
    BY <1>8, <2>2 DEF E1
  <2>3. CASE E2(m, a).p /\ ~E2(m, a).ps
    <3> DEFINE t == E2(m, a).addr
    <3>1. E1(m, a) = m.mem[t][Index(a, 1)]
      BY <2>3 DEF E1, Under
    <3>2. t \in DOMAIN m.mem /\ pos[t].l = 1
      BY <1>8, <2>3
    <3> HIDE DEF t
    <3>3. E1(m, a) \in EntryT /\ EntryOK(m, pos, t, Index(a, 1))
      BY <1>3, <1>4, <3>1, <3>2
    <3> QED
      BY <2>3, <3>1, <3>2, <3>3 DEF EntryOK
  <2> QED
    BY <2>1, <2>2, <2>3
<1> QED
  BY <1>6, <1>7, <1>8, <1>9 DEF WalkOK

\* tab is the table of level l that the walk to va uses
OnWalk(m, va, l, tab) ==
    /\ l = 4 => tab = m.pml4
    /\ l = 3 => E4(m, va).p /\ tab = E4(m, va).addr
    /\ l = 2 => E3(m, va).p /\ tab = E3(m, va).addr
    /\ l = 1 => E2(m, va).p /\ ~E2(m, va).ps /\ tab = E2(m, va).addr

\* r has e in entry i of tab, and the rest of m's tables as they were
Edit(m, r, tab, i, e) ==
    /\ r.pml4 = m.pml4 /\ DOMAIN m.mem \subseteq DOMAIN r.mem
    /\ r.mem[tab][i] = e
    /\ \A t \in DOMAIN m.mem : \A j \in 0 .. (Fan - 1) :
          t # tab \/ j # i => r.mem[t][j] = m.mem[t][j]

\* the piece of level l + 1; the root covers them all
Up(va, l) == IF l = 4 THEN 0 ELSE Num(va, l + 1)

\* The tables on a walk stand where the walk expects them.
LEMMA OnWalkPos ==
    ASSUME NEW m, NEW pos, Tree(m, pos), NEW a \in AllPages, NEW l \in 1 .. 4, NEW tab,
           OnWalk(m, a, l, tab)
    PROVE  tab \in DOMAIN m.mem /\ pos[tab].l = l /\ pos[tab].n = Up(a, l)
<1>0. WalkOK(m, pos, a)
  BY WalkFacts
<1>1. CASE l = 4
  BY <1>1 DEF OnWalk, Tree, Up
<1>2. CASE l = 3
  <2>1. l + 1 = 4
    BY <1>2
  <2>2. E4(m, a).p /\ tab = E4(m, a).addr
    BY <1>2 DEF OnWalk
  <2> QED
    BY <1>2, <2>1, <2>2, <1>0 DEF WalkOK, Up
<1>3. CASE l = 2
  <2>1. l + 1 = 3
    BY <1>3
  <2>2. E3(m, a).p /\ tab = E3(m, a).addr
    BY <1>3 DEF OnWalk
  <2> QED
    BY <1>3, <2>1, <2>2, <1>0 DEF WalkOK, Up
<1>4. CASE l = 1
  <2>1. l + 1 = 2
    BY <1>4
  <2>2. E2(m, a).p /\ ~E2(m, a).ps /\ tab = E2(m, a).addr
    BY <1>4 DEF OnWalk
  <2> QED
    BY <1>4, <2>1, <2>2, <1>0 DEF WalkOK, Up
<1> QED
  BY <1>1, <1>2, <1>3, <1>4

\* Pages in the same piece are walked to through the same entries.
LEMMA SameWalk ==
    ASSUME NEW m, NEW a \in AllPages, NEW b \in AllPages
    PROVE  /\ Num(a, 4) = Num(b, 4) => E4(m, a) = E4(m, b)
           /\ Num(a, 3) = Num(b, 3) => /\ Num(a, 4) = Num(b, 4) /\ E4(m, a) = E4(m, b)
                                       /\ E3(m, a) = E3(m, b)
           /\ Num(a, 2) = Num(b, 2) => /\ Num(a, 4) = Num(b, 4) /\ E4(m, a) = E4(m, b)
                                       /\ Num(a, 3) = Num(b, 3) /\ E3(m, a) = E3(m, b)
                                       /\ E2(m, a) = E2(m, b)
           /\ Num(a, 1) = Num(b, 1) => a = b
<1>1. Num(a, 4) = Num(b, 4) => E4(m, a) = E4(m, b)
  BY SameNum DEF E4
<1>2. /\ Num(a, 3) = Num(b, 3) => Num(a, 3 + 1) = Num(b, 3 + 1) /\ Index(a, 3) = Index(b, 3)
      /\ Num(a, 2) = Num(b, 2) => Num(a, 2 + 1) = Num(b, 2 + 1) /\ Index(a, 2) = Index(b, 2)
  BY SameNum
<1>3. 3 + 1 = 4 /\ 2 + 1 = 3
  OBVIOUS
<1>4. Num(a, 3) = Num(b, 3) => Num(a, 4) = Num(b, 4) /\ E4(m, a) = E4(m, b) /\ E3(m, a) = E3(m, b)
  BY <1>1, <1>2, <1>3 DEF E3, Under
<1>5. Num(a, 2) = Num(b, 2) => Num(a, 3) = Num(b, 3) /\ E2(m, a) = E2(m, b)
  BY <1>2, <1>3, <1>4 DEF E2, Under
<1>6. Num(a, 1) = Num(b, 1) => a = b
  BY PageNumbers
<1> QED
  BY <1>1, <1>4, <1>5, <1>6

\* the walk to a in r reads e at level l, and above it what it reads in m
ReadsAt(m, r, a, l, e) ==
    /\ l = 4 => E4(r, a) = e
    /\ l = 3 => E4(r, a) = E4(m, a) /\ E3(r, a) = e
    /\ l = 2 => E4(r, a) = E4(m, a) /\ E3(r, a) = E3(m, a) /\ E2(r, a) = e
    /\ l = 1 => /\ E4(r, a) = E4(m, a) /\ E3(r, a) = E3(m, a) /\ E2(r, a) = E2(m, a)
                /\ E1(r, a) = e

\* An edit shows in the piece it was made for ...
LEMMA EditHere ==
    ASSUME NEW m, NEW r, NEW pos, Tree(m, pos), NEW a \in AllPages, NEW l \in 1 .. 4, NEW tab,
           OnWalk(m, a, l, tab), NEW e, Edit(m, r, tab, Index(a, l), e)
    PROVE  ReadsAt(m, r, a, l, e)
<1> a \in Nat
  BY PageNumbers
<1>1. tab \in DOMAIN m.mem /\ pos[tab].l = l
  BY OnWalkPos
<1>2. /\ Index(a, 4) \in 0 .. (Fan - 1) /\ Index(a, 3) \in 0 .. (Fan - 1)
      /\ Index(a, 2) \in 0 .. (Fan - 1) /\ Index(a, 1) \in 0 .. (Fan - 1)
  BY NumFacts
<1>3. \A t \in DOMAIN m.mem : \A j \in 0 .. (Fan - 1) :
          t # tab => r.mem[t][j] = m.mem[t][j]
  BY DEF Edit
<1>4. r.pml4 = m.pml4 /\ r.mem[tab][Index(a, l)] = e
  BY DEF Edit
<1>5. m.pml4 \in DOMAIN m.mem /\ pos[m.pml4].l = 4
  BY DEF Tree
<1>6. l # 4 => E4(r, a) = E4(m, a)
  BY <1>1, <1>2, <1>3, <1>4, <1>5 DEF E4
<1>0. WalkOK(m, pos, a)
  BY WalkFacts
<1>7. /\ E4(m, a).p => E4(m, a).addr \in DOMAIN m.mem /\ pos[E4(m, a).addr].l = 3
      /\ E3(m, a).p => E3(m, a).addr \in DOMAIN m.mem /\ pos[E3(m, a).addr].l = 2
  BY <1>0 DEF WalkOK
<1>8. l = 2 \/ l = 1 => E3(r, a) = E3(m, a)
  BY <1>1, <1>2, <1>3, <1>6, <1>7 DEF E3, Under
<1>9. l = 1 => E2(r, a) = E2(m, a)
  BY <1>1, <1>2, <1>3, <1>7, <1>8 DEF E2, Under
<1>10. CASE l = 4
  BY <1>4, <1>10 DEF OnWalk, E4, ReadsAt
<1>11. CASE l = 3
  BY <1>4, <1>6, <1>11 DEF OnWalk, E3, Under, ReadsAt
<1>12. CASE l = 2
  BY <1>4, <1>6, <1>8, <1>12 DEF OnWalk, E2, Under, ReadsAt
<1>13. CASE l = 1
  BY <1>4, <1>6, <1>8, <1>9, <1>13 DEF OnWalk, E1, Under, ReadsAt
<1>14. l = 4 \/ l = 3 \/ l = 2 \/ l = 1
  OBVIOUS
<1> QED
  BY <1>10, <1>11, <1>12, <1>13, <1>14, Zenon

\* the walk to b reads in r what it reads in m
ReadsSame(m, r, b) ==
    /\ E4(r, b) = E4(m, b) /\ E3(r, b) = E3(m, b)
    /\ E2(r, b) = E2(m, b) /\ E1(r, b) = E1(m, b)

\* ... and nowhere else.
LEMMA EditElsewhere ==
    ASSUME NEW m, NEW r, NEW pos, Tree(m, pos), NEW a \in AllPages, NEW l \in 1 .. 4, NEW tab,
           OnWalk(m, a, l, tab), NEW e, Edit(m, r, tab, Index(a, l), e),
           NEW b \in AllPages, Num(b, l) # Num(a, l)
    PROVE  ReadsSame(m, r, b)
<1> a \in Nat /\ b \in Nat
  BY PageNumbers
<1>1. tab \in DOMAIN m.mem /\ pos[tab].l = l /\ pos[tab].n = Up(a, l)
  BY OnWalkPos
<1>2. /\ Index(b, 4) \in 0 .. (Fan - 1) /\ Index(b, 3) \in 0 .. (Fan - 1)
      /\ Index(b, 2) \in 0 .. (Fan - 1) /\ Index(b, 1) \in 0 .. (Fan - 1)
  BY NumFacts
<1>3. \A t \in DOMAIN m.mem : \A j \in 0 .. (Fan - 1) :
          t # tab \/ j # Index(a, l) => r.mem[t][j] = m.mem[t][j]
  BY DEF Edit
<1>4. r.pml4 = m.pml4
  BY DEF Edit
<1>5. m.pml4 \in DOMAIN m.mem /\ pos[m.pml4].l = 4
  BY DEF Tree
<1>6. ASSUME NEW t \in DOMAIN m.mem, NEW k \in 1 .. 4, pos[t].l = k, pos[t].n = Up(b, k)
      PROVE  r.mem[t][Index(b, k)] = m.mem[t][Index(b, k)]
  <2>0. Index(b, k) \in 0 .. (Fan - 1)
    BY <1>2
  <2>1. CASE t # tab
    BY <1>3, <2>0, <2>1
  <2>2. CASE t = tab
    <3>1. k = l /\ Up(a, l) = Up(b, l)
      BY <1>1, <1>6, <2>2
    <3>2. CASE l = 4
      <4>1. Index(b, 4) # Index(a, 4)
        BY <3>2, SameNum
      <4> QED
        BY <1>3, <2>0, <3>1, <3>2, <4>1
    <3>3. CASE l # 4
      <4>1. l \in 1 .. 3 /\ Num(a, l + 1) = Num(b, l + 1)
        BY <3>1, <3>3 DEF Up
      <4>2. Index(b, l) # Index(a, l)
        BY <4>1, SameNum
      <4> QED
        BY <1>3, <2>0, <3>1, <4>2
    <3> QED
      BY <3>2, <3>3
  <2> QED
    BY <2>1, <2>2
<1>7. /\ Up(b, 4) = 0 /\ Up(b, 3) = Num(b, 4) /\ Up(b, 2) = Num(b, 3) /\ Up(b, 1) = Num(b, 2)
  <2>1. 3 + 1 = 4 /\ 2 + 1 = 3 /\ 1 + 1 = 2
    OBVIOUS
  <2> QED
    BY <2>1 DEF Up
<1>0. WalkOK(m, pos, b)
  BY WalkFacts
<1>8. E4(r, b) = E4(m, b)
  <2>1. pos[m.pml4].n = 0
    BY DEF Tree
  <2> QED
    BY <1>4, <1>5, <1>6, <1>7, <2>1 DEF E4
<1>9. E3(r, b) = E3(m, b)
  <2>1. E4(m, b).p => /\ E4(m, b).addr \in DOMAIN m.mem
                      /\ pos[E4(m, b).addr].l = 3 /\ pos[E4(m, b).addr].n = Num(b, 4)
    BY <1>0 DEF WalkOK
  <2> QED
    BY <1>6, <1>7, <1>8, <2>1 DEF E3, Under
<1>10. E2(r, b) = E2(m, b)
  <2>1. E3(m, b).p => /\ E3(m, b).addr \in DOMAIN m.mem
                      /\ pos[E3(m, b).addr].l = 2 /\ pos[E3(m, b).addr].n = Num(b, 3)
    BY <1>0 DEF WalkOK
  <2> QED
    BY <1>6, <1>7, <1>9, <2>1 DEF E2, Under
<1>11. E1(r, b) = E1(m, b)
  <2>1. E2(m, b).p /\ ~E2(m, b).ps =>
                      /\ E2(m, b).addr \in DOMAIN m.mem
                      /\ pos[E2(m, b).addr].l = 1 /\ pos[E2(m, b).addr].n = Num(b, 2)
    BY <1>0 DEF WalkOK
  <2> QED
    BY <1>6, <1>7, <1>10, <2>1 DEF E1, Under
<1> QED
  BY <1>8, <1>9, <1>10, <1>11 DEF ReadsSame

-----------------------------------------------------------------------------
(* What the tables amount to.                                              *)

\* what the last entry of a walk says of page a
Says(e, a) == [frame |-> IF e.ps THEN a ELSE e.addr, w |-> e.w, u |-> e.u, x |-> ~e.nx]

\* The four entries of a walk.
LEMMA PathIs ==
    ASSUME NEW m, NEW a
    PROVE  /\ Path(m, a)[1] = E4(m, a) /\ Path(m, a)[2] = E3(m, a)
           /\ Path(m, a)[3] = E2(m, a) /\ Path(m, a)[4] = E1(m, a)
<1>1. Path(m, a) = <<E4(m, a), E3(m, a), E2(m, a), E1(m, a)>>
  BY DEF Path, E4, E3, E2, E1
<1> QED
  BY <1>1

\* The translation of a page is what the last entry says.
LEMMA TranslationIs ==
    ASSUME NEW m, NEW pos, Tree(m, pos), UserPath(m), NEW a \in AllPages, E1(m, a).p
    PROVE  Translation(Path(m, a), a) = Says(E1(m, a), a)
<1> DEFINE e4 == E4(m, a)
           e3 == E3(m, a)
           e2 == E2(m, a)
           e1 == E1(m, a)
<1>0. WalkOK(m, pos, a)
  BY WalkFacts
<1>1. /\ e2.p /\ e3.p /\ e4.p
      /\ e4 \in EntryT /\ e3 \in EntryT /\ e2 \in EntryT /\ e1 \in EntryT
      /\ e4.w /\ ~e4.nx /\ e3.w /\ ~e3.nx
      /\ e1.ps <=> e2.ps
      /\ e2.ps => e2.addr = Num(a, 2) * Span(2)
      /\ ~e2.ps => e2.w /\ ~e2.nx
  BY <1>0 DEF WalkOK
<1>2. e2.ps => e1 = e2
  BY DEF E1
<1>3. e1.u => e4.u /\ e3.u /\ e2.u
  BY DEF UserPath
<1>4. Path(m, a)[1] = e4 /\ Path(m, a)[2] = e3 /\ Path(m, a)[3] = e2 /\ Path(m, a)[4] = e1
  BY PathIs
<1> HIDE DEF e4, e3, e2, e1
<1> DEFINE path == Path(m, a)
<1>5. (\A i \in 1 .. 4 : path[i].w) <=> e1.w
  <2>1. (\A i \in 1 .. 4 : path[i].w) <=> e4.w /\ e3.w /\ e2.w /\ e1.w
    BY <1>4
  <2> QED
    BY <1>1, <1>2, <2>1
<1>6. (\A i \in 1 .. 4 : path[i].u) <=> e1.u
  <2>1. (\A i \in 1 .. 4 : path[i].u) <=> e4.u /\ e3.u /\ e2.u /\ e1.u
    BY <1>4
  <2> QED
    BY <1>3, <2>1
<1>7. (\A i \in 1 .. 4 : ~path[i].nx) <=> ~e1.nx
  <2>1. (\A i \in 1 .. 4 : ~path[i].nx) <=> ~e4.nx /\ ~e3.nx /\ ~e2.nx /\ ~e1.nx
    BY <1>4
  <2> QED
    BY <1>1, <1>2, <2>1
<1>8. (IF path[3].ps THEN path[3].addr + Floor(a % Span(2), Page) ELSE path[4].addr)
        = IF e1.ps THEN a ELSE e1.addr
  <2>1. CASE ~e2.ps
    BY <1>1, <1>4, <2>1
  <2>2. CASE e2.ps
    <3> DEFINE s == Span(2)
               q == a \div s
               r == a % s
    <3>1. s \in Nat \ {0} /\ s = 4096 * Fan /\ Fan \in Nat
      BY SpanFacts
    <3>2. a \in Nat /\ a % 4096 = 0
      BY PageFacts
    <3>3. q \in Nat /\ r \in 0 .. (s - 1) /\ a = s * q + r
      <4>1. a \in Nat /\ s \in Nat \ {0}
        BY <3>1, <3>2
      <4> HIDE DEF s
      <4> QED
        BY <4>1, Euclid, Zenon
    <3>4. e2.addr = q * s
      BY <1>1, <2>2 DEF Num
    <3> HIDE DEF q, r, s
    <3>5. Floor(r, Page) = r
      <4>1. s * q = 4096 * (Fan * q) /\ Fan * q \in Nat
        BY <3>1, <3>3, SMT
      <4> DEFINE k == Fan * q
      <4> HIDE DEF k
      <4>2. a = 4096 * k + r /\ k \in Nat /\ r \in Nat
        BY <3>1, <3>3, <4>1 DEF k
      <4>3. r % 4096 = 0
        BY <3>2, <4>2
      <4> QED
        BY <4>2, <4>3 DEF Floor, Page
    <3>6. e2.addr + Floor(r, Page) = a
      <4>1. q * s = s * q /\ s * q \in Nat
        BY <3>1, <3>3, SMT
      <4> QED
        BY <3>3, <3>4, <3>5, <4>1
    <3> QED
      BY <1>1, <1>4, <2>2, <3>6 DEF r, s
  <2> QED
    BY <2>1, <2>2
<1> HIDE DEF path
<1>9. Translation(path, a) = [frame |-> IF e1.ps THEN a ELSE e1.addr,
                              w |-> \A i \in 1 .. 4 : path[i].w,
                              u |-> \A i \in 1 .. 4 : path[i].u,
                              x |-> \A i \in 1 .. 4 : ~path[i].nx]
  BY <1>8, Zenon DEF Translation
<1>10. /\ (\A i \in 1 .. 4 : path[i].w) = e1.w
       /\ (\A i \in 1 .. 4 : path[i].u) = e1.u
       /\ (\A i \in 1 .. 4 : ~path[i].nx) = ~e1.nx
  <2>1. e1.w \in BOOLEAN /\ e1.u \in BOOLEAN /\ e1.nx \in BOOLEAN
    BY <1>1 DEF EntryT
  <2> QED
    BY <1>5, <1>6, <1>7, <2>1
<1> QED
  BY <1>9, <1>10 DEF Says, path, e1

\* The map, from the last entries of the walks.
LEMMA FlattenIs ==
    ASSUME NEW m, NEW pos, Tree(m, pos), UserPath(m)
    PROVE  Flatten(m) = [a \in {b \in AllPages : E1(m, b).p} |-> Says(E1(m, a), a)]
<1>1. {b \in AllPages : Path(m, b)[4].p} = {b \in AllPages : E1(m, b).p}
  BY PathIs
<1>2. \A a \in {b \in AllPages : E1(m, b).p} :
         Translation(Path(m, a), a) = Says(E1(m, a), a)
  BY TranslationIs
<1> QED
  BY <1>1, <1>2, Zenon DEF Flatten
-----------------------------------------------------------------------------
(* The memory the tables come from.                                        *)

\* Assigning to the components of a state.
LEMMA SetAtBlocksRet ==
    ASSUME NEW m \in States, NEW a \in Nat, NEW b \in SUBSET BlockT, NEW v \in Nat
    PROVE  [m EXCEPT !.at = a, !.blocks = b, !.ret = v] \in States
  BY DEF States

\* The same, of the pointer alone.
LEMMA SetAtRet ==
    ASSUME NEW m \in States, NEW a \in Nat, NEW v \in Nat
    PROVE  [m EXCEPT !.at = a, !.ret = v] \in States
  BY DEF States

\* The same, of the tables.
LEMMA SetMem ==
    ASSUME NEW m \in States, NEW t \in Mems
    PROVE  [m EXCEPT !.mem = t] \in States
  BY DEF States

\* The same, of the result.
LEMMA SetRet ==
    ASSUME NEW m \in States, NEW v \in Nat
    PROVE  [m EXCEPT !.ret = v] \in States
  BY DEF States

\* What every call does to the memory: it only takes pages, and those it
\* makes tables of were nobody's.
Grows(m, r) ==
    /\ r.pml4 = m.pml4 /\ r.nx = m.nx
    /\ m.at <= r.at /\ m.blocks \subseteq r.blocks
    /\ r.blocks = m.blocks => AlignUp(r.at, Page) = AlignUp(m.at, Page)
    /\ DOMAIN m.mem \subseteq DOMAIN r.mem
    /\ \A t \in DOMAIN r.mem : t \in DOMAIN m.mem \/ ~OwnPage(m, t)

\* Nothing has grown.
LEMMA GrowsRefl == ASSUME NEW m \in States PROVE Grows(m, m)
  BY DEF Grows, States

\* Growing twice.
LEMMA GrowsTrans ==
    ASSUME NEW m \in States, NEW r \in States, NEW s \in States, Grows(m, r), Grows(r, s)
    PROVE  Grows(m, s)
<1>1. m.at \in Nat /\ r.at \in Nat /\ s.at \in Nat
  BY DEF States
<1>2. m.at <= s.at /\ m.blocks \subseteq s.blocks
  BY <1>1 DEF Grows
<1>3. s.blocks = m.blocks => r.blocks = m.blocks /\ s.blocks = r.blocks
  BY DEF Grows
<1>4. s.blocks = m.blocks => AlignUp(s.at, Page) = AlignUp(m.at, Page)
  BY <1>3 DEF Grows
<1>5. \A t \in DOMAIN s.mem : t \in DOMAIN m.mem \/ ~OwnPage(m, t)
  BY <1>2 DEF Grows, OwnPage
<1> QED
  BY <1>2, <1>4, <1>5 DEF Grows

\* kalloc_page: a fresh page, or none because none is left.
LEMMA KallocStep ==
    ASSUME NEW m \in States, HeapOK(m)
    PROVE  LET r == kalloc_page(m) IN
           /\ r \in States /\ HeapOK(r) /\ Grows(m, r) /\ r.mem = m.mem
           /\ r.ret = 0 => r.blocks = m.blocks /\ Dry(r) /\ Dry(m)
           /\ r.ret # 0 => /\ r.ret \in Nat /\ ~OwnPage(m, r.ret) /\ OwnPage(r, r.ret)
                          /\ r.blocks = m.blocks \cup {Block(r.ret, Page, Page)}
<1> DEFINE r  == kalloc_page(m)
           at == AlignUp(m.at, Page)
           b  == Block(at, Page, Page)
<1>1. /\ HeapEnd \in Nat /\ HeapBase \in Nat /\ HeapBase > 0
  BY HeapAssumption DEF HeapEnd
<1>2. m.at \in Nat /\ HeapBase <= m.at /\ m.at <= HeapEnd
  BY <1>1 DEF States, HeapOK
<1>3. at \in Nat /\ m.at <= at /\ at <= HeapEnd /\ at % 4096 = 0 /\ AlignUp(at, Page) = at
  BY <1>2, HeapRounding DEF Page
<1>4. at # 0
  BY <1>1, <1>2, <1>3
<1>5. m.blocks \subseteq BlockT /\ b \in BlockT /\ b.lo = at /\ b.hi = at + 4096 /\ b.align = 4096
  BY <1>3 DEF States, Block, Page, BlockT
<1>6. \A c \in m.blocks : c.lo < c.hi /\ c.hi <= at /\ c.lo \in Nat /\ c.hi \in Nat
  BY <1>2, <1>3, <1>5 DEF HeapOK, BlockT
<1>7. b \notin m.blocks
  BY <1>3, <1>5, <1>6
<1>8. CASE Fits(at, Page)
  <2>1. r = [m EXCEPT !.at = at + Page, !.blocks = m.blocks \cup {b}, !.ret = at]
    BY <1>8 DEF kalloc_page
  <2>2. /\ r.at = at + 4096 /\ r.blocks = m.blocks \cup {b} /\ r.ret = at
        /\ r.mem = m.mem /\ r.pml4 = m.pml4 /\ r.nx = m.nx
    BY <2>1 DEF States, Page
  <2>3. r \in States
    <3>1. at + Page \in Nat /\ m.blocks \cup {b} \in SUBSET BlockT /\ at \in Nat
      BY <1>3, <1>5 DEF Page
    <3> HIDE DEF r, b, at
    <3> QED
      BY <2>1, <3>1, SetAtBlocksRet, Zenon
  <2> HIDE DEF r, b, at
  <2>4. at + 4096 <= HeapEnd
    BY <1>1, <1>3, <1>8 DEF Fits, Page
  <2>5. HeapOK(r)
    <3>1. HeapBase <= r.at /\ r.at <= HeapEnd
      BY <1>1, <1>2, <1>3, <2>2, <2>4
    <3>2. \A c \in r.blocks : /\ HeapBase <= c.lo /\ c.lo < c.hi /\ c.hi <= r.at
                              /\ c.lo % c.align = 0
      <4>1. TAKE c \in r.blocks
      <4>2. CASE c = b
        BY <1>1, <1>2, <1>3, <1>5, <2>2, <4>2
      <4>3. CASE c \in m.blocks
        <5>1. HeapBase <= c.lo /\ c.lo % c.align = 0
          BY <4>3 DEF HeapOK
        <5> QED
          BY <1>3, <1>6, <2>2, <4>3, <5>1
      <4> QED
        BY <2>2, <4>2, <4>3
    <3>3. \A c, d \in r.blocks : c # d => c.hi <= d.lo \/ d.hi <= c.lo
      BY <1>5, <1>6, <2>2 DEF HeapOK
    <3> QED
      BY <3>1, <3>2, <3>3 DEF HeapOK
  <2>6. Grows(m, r)
    BY <1>2, <1>3, <1>7, <2>2 DEF Grows
  <2> QED
    BY <1>3, <1>4, <1>7, <2>2, <2>3, <2>5, <2>6 DEF OwnPage, b, r
<1>9. CASE ~Fits(at, Page)
  <2>1. r = [m EXCEPT !.at = at, !.ret = 0]
    BY <1>9 DEF kalloc_page
  <2>2. /\ r.at = at /\ r.blocks = m.blocks /\ r.ret = 0
        /\ r.mem = m.mem /\ r.pml4 = m.pml4 /\ r.nx = m.nx
    BY <2>1 DEF States
  <2>3. r \in States
    <3>1. at \in Nat /\ 0 \in Nat
      BY <1>3
    <3> HIDE DEF r, at
    <3> QED
      BY <2>1, <3>1, SetAtRet, Zenon
  <2> HIDE DEF r
  <2>4. HeapOK(r)
    BY <1>1, <1>2, <1>3, <1>6, <2>2 DEF HeapOK
  <2>5. Grows(m, r)
    BY <1>3, <2>2 DEF Grows, at
  <2>6. Dry(r) /\ Dry(m)
    BY <1>3, <1>9, <2>2 DEF Dry
  <2> QED
    BY <2>2, <2>3, <2>4, <2>5, <2>6 DEF r
<1> QED
  BY <1>8, <1>9

-----------------------------------------------------------------------------
(* One step down the tables.                                               *)

\* the walk to va is open to ring 3 above level l
UserAbove(m, va, l) ==
    /\ l <= 3 => E4(m, va).u
    /\ l <= 2 => E3(m, va).u
    /\ l <= 1 => E2(m, va).u

\* The tables say the same when the last entries of all walks do.
LEMMA SameFlat ==
    ASSUME NEW m, NEW r, \E pos : Tree(m, pos), \E pos : Tree(r, pos), UserPath(m), UserPath(r),
           \A b \in AllPages : /\ E1(r, b).p <=> E1(m, b).p
                               /\ E1(m, b).p => Says(E1(r, b), b) = Says(E1(m, b), b)
    PROVE  Flatten(r) = Flatten(m)
<1>1. /\ Flatten(m) = [a \in {b \in AllPages : E1(m, b).p} |-> Says(E1(m, a), a)]
      /\ Flatten(r) = [a \in {b \in AllPages : E1(r, b).p} |-> Says(E1(r, a), a)]
  BY FlattenIs
<1>2. {b \in AllPages : E1(m, b).p} = {b \in AllPages : E1(r, b).p}
  OBVIOUS
<1>3. \A a \in {b \in AllPages : E1(m, b).p} : Says(E1(r, a), a) = Says(E1(m, a), a)
  OBVIOUS
<1> QED
  BY <1>1, <1>2, <1>3, Zenon

\* A page of the heap is not the null address, and a multiple of the page size.
LEMMA OwnPageFacts ==
    ASSUME NEW m \in States, HeapOK(m), NEW f \in Nat, OwnPage(m, f)
    PROVE  f # 0 /\ f % 4096 = 0 /\ HeapBase <= f /\ f + 4096 <= HeapEnd
<1> DEFINE b == Block(f, Page, Page)
<1>1. b.lo = f /\ b.hi = f + 4096 /\ b.align = 4096
  BY DEF Block, Page
<1>2. HeapBase <= b.lo /\ b.hi <= m.at /\ b.lo % b.align = 0 /\ m.at <= HeapEnd
  BY DEF OwnPage, HeapOK
<1>3. HeapBase \in Nat /\ HeapBase > 0 /\ HeapEnd \in Nat /\ m.at \in Nat
  BY HeapAssumption DEF HeapEnd, States
<1> HIDE DEF b
<1> QED
  BY <1>1, <1>2, <1>3

\* t is m.mem with e in entry i of tab
Writes(m, t, tab, i, e) ==
    /\ t \in Mems /\ DOMAIN t = DOMAIN m.mem
    /\ t[tab][i] = e
    /\ \A c \in DOMAIN m.mem : t[c] \in Tables
    /\ \A c \in DOMAIN m.mem : \A j \in 0 .. (Fan - 1) :
          c # tab \/ j # i => t[c][j] = m.mem[c][j]

\* Writing one entry of one table.
LEMMA PutMem ==
    ASSUME NEW m \in States, NEW pos, Tree(m, pos), NEW tab \in DOMAIN m.mem,
           NEW i \in 0 .. (Fan - 1), NEW e \in EntryT,
           NEW t, t = [m.mem EXCEPT ![tab][i] = e]
    PROVE  Writes(m, t, tab, i, e)
<1> DEFINE D == DOMAIN m.mem
<1>1. PICK C \in SUBSET Nat : m.mem \in [C -> Tables]
  BY DEF States, Mems
<1>2. D = C /\ m.mem \in [D -> Tables] /\ D \in SUBSET Nat
  BY <1>1
<1>3. [m.mem[tab] EXCEPT ![i] = e] \in Tables
  BY <1>2 DEF Tables
<1>4. t \in [D -> Tables]
  BY <1>2, <1>3
<1>5. t[tab] = [m.mem[tab] EXCEPT ![i] = e] /\ \A c \in D : c # tab => t[c] = m.mem[c]
  BY <1>2
<1>6. m.mem[tab] \in [0 .. (Fan - 1) -> EntryT]
  BY <1>2 DEF Tables
<1>7. t[tab][i] = e /\ \A j \in 0 .. (Fan - 1) : j # i => t[tab][j] = m.mem[tab][j]
  BY <1>5, <1>6
<1>8. t \in Mems
  BY <1>2, <1>4 DEF Mems
<1>9. \A c \in D : t[c] \in Tables
  BY <1>4
<1>10. \A c \in D : \A j \in 0 .. (Fan - 1) : c # tab \/ j # i => t[c][j] = m.mem[c][j]
  BY <1>5, <1>7
<1> QED
  BY <1>4, <1>7, <1>8, <1>9, <1>10 DEF Writes

\* An entry that fits in entry Index(va, l) of the table the walk to va uses.
Suits(m, pos, e, va, l) ==
    /\ e \in EntryT
    /\ e.ps => e.p /\ l = 2 /\ ~e.u /\ e.addr = Num(va, 2) * Span(2)
    /\ e.p /\ ~e.ps /\ l # 1 =>
          /\ e.addr \in DOMAIN m.mem /\ pos[e.addr].l = l - 1 /\ pos[e.addr].n = Num(va, l)
          /\ e.w /\ ~e.nx

\* The number of the piece an entry is for.
LEMMA SlotNum ==
    ASSUME NEW a \in AllPages, NEW l \in 1 .. 4
    PROVE  Fan * Up(a, l) + Index(a, l) = Num(a, l) /\ Index(a, l) \in 0 .. (Fan - 1)
<1> a \in Nat
  BY PageNumbers
<1>1. Index(a, l) \in 0 .. (Fan - 1)
  BY NumFacts
<1>2. CASE l = 4
  BY <1>1, <1>2, PageNumbers, SpanFacts DEF Up
<1>3. CASE l # 4
  <2>1. l \in 1 .. 3 /\ Up(a, l) = Num(a, l + 1)
    BY <1>3 DEF Up
  <2> QED
    BY <1>1, <2>1, NumFacts
<1> QED
  BY <1>2, <1>3

\* Writing an entry that fits leaves a tree.
LEMMA PutStep ==
    ASSUME NEW m, Sound(m), NEW pos, Tree(m, pos), NEW a \in AllPages, NEW l \in 1 .. 4, NEW tab,
           OnWalk(m, a, l, tab), NEW e, Suits(m, pos, e, a, l),
           NEW r \in States, r.at = m.at, r.blocks = m.blocks, r.pml4 = m.pml4, r.nx = m.nx,
           r.mem = [m.mem EXCEPT ![tab][Index(a, l)] = e]
    PROVE  /\ HeapOK(r) /\ Grows(m, r) /\ \A t \in DOMAIN r.mem : OwnPage(r, t)
           /\ DOMAIN r.mem = DOMAIN m.mem
           /\ Tree(r, pos) /\ Edit(m, r, tab, Index(a, l), e)
<1> DEFINE i == Index(a, l)
<1>1. i \in 0 .. (Fan - 1) /\ Fan * Up(a, l) + i = Num(a, l)
  BY SlotNum
<1>2. tab \in DOMAIN m.mem /\ pos[tab].l = l /\ pos[tab].n = Up(a, l)
  BY OnWalkPos
<1>3. m \in States /\ e \in EntryT
  BY DEF Sound, Suits
<1>4. /\ DOMAIN r.mem = DOMAIN m.mem /\ r.mem[tab][i] = e
      /\ \A c \in DOMAIN m.mem : r.mem[c] \in Tables
      /\ \A c \in DOMAIN m.mem : \A j \in 0 .. (Fan - 1) :
            c # tab \/ j # i => r.mem[c][j] = m.mem[c][j]
  <2> DEFINE t == r.mem
  <2>1. t = [m.mem EXCEPT ![tab][i] = e]
    OBVIOUS
  <2> HIDE DEF t, i
  <2>2. Writes(m, t, tab, i, e)
    BY <1>1, <1>2, <1>3, <2>1, PutMem
  <2> QED
    BY <2>2 DEF t, Writes
<1> HIDE DEF i
<1>5. HeapOK(r) /\ Grows(m, r) /\ \A t \in DOMAIN r.mem : OwnPage(r, t)
  <2>1. HeapOK(r)
    BY DEF HeapOK, Sound
  <2>2. m.at <= m.at
    BY <1>3 DEF States
  <2>3. Grows(m, r)
    BY <1>4, <2>2 DEF Grows
  <2>4. \A t \in DOMAIN r.mem : OwnPage(r, t)
    BY <1>4 DEF OwnPage, Sound
  <2> QED
    BY <2>1, <2>3, <2>4
<1>6. Edit(m, r, tab, i, e)
  BY <1>4 DEF Edit
<1>7. Tree(r, pos)
  <2>1. ASSUME NEW t \in DOMAIN r.mem, NEW j \in 0 .. (Fan - 1)
        PROVE  EntryOK(r, pos, t, j)
    <3>1. CASE t = tab /\ j = i
      <4>1. r.mem[t][j] = e /\ pos[t].l = l /\ Fan * pos[t].n + j = Num(a, l)
        BY <1>1, <1>2, <1>4, <3>1
      <4> QED
        BY <1>4, <4>1 DEF EntryOK, Suits
    <3>2. CASE ~ (t = tab /\ j = i)
      <4>1. r.mem[t][j] = m.mem[t][j] /\ EntryOK(m, pos, t, j)
        BY <1>4, <3>2 DEF Tree
      <4> QED
        BY <1>4, <4>1 DEF EntryOK
    <3> QED
      BY <3>1, <3>2
  <2> QED
    BY <1>4, <2>1 DEF Tree
<1> QED
  BY <1>4, <1>5, <1>6, <1>7 DEF i

\* A table already there, opened to ring 3 when asked: the map is the same.
LEMMA OpenStep ==
    ASSUME NEW m, Sound(m), NEW a \in AllPages, NEW l \in 2 .. 4, NEW tab,
           OnWalk(m, a, l, tab), NEW user \in BOOLEAN, user => UserAbove(m, a, l),
           m.mem[tab][Index(a, l)].p, ~m.mem[tab][Index(a, l)].ps
    PROVE  LET r == next_level(m, tab, Index(a, l), user)
           IN /\ Sound(r) /\ Grows(m, r) /\ Flatten(r) = Flatten(m)
              /\ r.ret # 0 /\ OnWalk(r, a, l - 1, r.ret)
              /\ user => UserAbove(r, a, l - 1)
<1> DEFINE i == Index(a, l)
           e == m.mem[tab][i]
           f == [e EXCEPT !.u = e.u \/ user]
           r == next_level(m, tab, i, user)
<1>1. PICK pos : Tree(m, pos)
  BY DEF Sound
<1>2. m \in States /\ l \in 1 .. 4 /\ l - 1 \in 1 .. 4
  BY DEF Sound
<1>3. tab \in DOMAIN m.mem /\ pos[tab].l = l /\ pos[tab].n = Up(a, l)
  BY <1>1, <1>2, OnWalkPos
<1>4. i \in 0 .. (Fan - 1) /\ Fan * Up(a, l) + i = Num(a, l)
  BY <1>2, SlotNum
<1>5. e \in EntryT /\ EntryOK(m, pos, tab, i) /\ e.p /\ ~e.ps
  BY <1>1, <1>3, <1>4 DEF Tree, Tables
<1>6. r = [m EXCEPT !.ret = e.addr, !.mem[tab][i].u = e.u \/ user]
  BY <1>5 DEF next_level
<1>7. r = [m EXCEPT !.ret = e.addr, !.mem[tab][i] = f]
  BY <1>6
<1>8. f \in EntryT /\ f.p /\ ~f.ps /\ f.addr = e.addr /\ f.w = e.w /\ f.nx = e.nx
      /\ (f.u <=> e.u \/ user)
  <2>1. e.u \/ user \in BOOLEAN
    OBVIOUS
  <2> DEFINE b == e.u \/ user
  <2> HIDE DEF e, b
  <2>2. [e EXCEPT !.u = b] \in EntryT /\ [e EXCEPT !.u = b].u = b
    BY <1>5, <2>1 DEF EntryT, b
  <2> QED
    BY <1>5, <2>1, <2>2 DEF EntryT, b
<1> HIDE DEF e, f
<1>9. e.addr \in Nat /\ e.addr \in DOMAIN m.mem
      /\ pos[e.addr].l = l - 1 /\ pos[e.addr].n = Num(a, l) /\ e.w /\ ~e.nx
  BY <1>2, <1>3, <1>4, <1>5 DEF EntryOK, e, EntryT
<1>10. Suits(m, pos, f, a, l)
  BY <1>2, <1>8, <1>9 DEF Suits
<1>11. r \in States /\ r.at = m.at /\ r.blocks = m.blocks /\ r.pml4 = m.pml4 /\ r.nx = m.nx
       /\ r.mem = [m.mem EXCEPT ![tab][i] = f] /\ r.ret = e.addr
  <2> DEFINE t == [m.mem EXCEPT ![tab][i] = f]
  <2>1. t \in Mems
    <3>1. t = [m.mem EXCEPT ![tab][i] = f]
      OBVIOUS
    <3>2. m \in States /\ f \in EntryT /\ tab \in DOMAIN m.mem /\ i \in 0 .. (Fan - 1)
      BY <1>2, <1>3, <1>4, <1>8
    <3> HIDE DEF t, i
    <3>3. Writes(m, t, tab, i, f)
      BY <1>1, <3>1, <3>2, PutMem
    <3> QED
      BY <3>3 DEF Writes
  <2>2. r = [m EXCEPT !.ret = e.addr, !.mem = t]
    BY <1>7
  <2> HIDE DEF t, r, i
  <2>3. r \in States
    BY <1>2, <1>9, <2>1, <2>2 DEF States
  <2>4. r.at = m.at /\ r.blocks = m.blocks /\ r.pml4 = m.pml4 /\ r.nx = m.nx
       /\ r.mem = t /\ r.ret = e.addr
    BY <1>2, <2>2 DEF States
  <2> QED
    BY <2>3, <2>4 DEF t
<1> HIDE DEF r
<1>12. /\ HeapOK(r) /\ Grows(m, r) /\ \A t \in DOMAIN r.mem : OwnPage(r, t)
       /\ DOMAIN r.mem = DOMAIN m.mem
       /\ Tree(r, pos) /\ Edit(m, r, tab, i, f)
  BY <1>1, <1>2, <1>10, <1>11, PutStep DEF i
<1>13. r.ret # 0
  BY <1>2, <1>9, <1>11, OwnPageFacts DEF Sound
\* all walks read what they read before, but for that one bit
<1>14. ASSUME NEW b \in AllPages
       PROVE  /\ E1(r, b) = E1(m, b)
              /\ E2(r, b).p <=> E2(m, b).p
              /\ E4(m, b).u => E4(r, b).u
              /\ E3(m, b).u => E3(r, b).u
              /\ E2(m, b).u => E2(r, b).u
  <2> HIDE DEF i
  <2>1. CASE Num(b, l) # Num(a, l)
    <3>1. ReadsSame(m, r, b)
      BY <1>1, <1>2, <1>12, <2>1, EditElsewhere DEF i
    <3> QED
      BY <3>1 DEF ReadsSame
  <2>2. CASE Num(b, l) = Num(a, l)
    <3>1. Index(b, l) = i
      BY <1>2, <2>2, SameNum DEF i
    <3>2. OnWalk(m, b, l, tab)
      BY <2>2, SameWalk DEF OnWalk
    <3>3. /\ l = 4 => E4(r, b) = f
          /\ l = 3 => E4(r, b) = E4(m, b) /\ E3(r, b) = f
          /\ l = 2 => E4(r, b) = E4(m, b) /\ E3(r, b) = E3(m, b) /\ E2(r, b) = f
      <4>1. ReadsAt(m, r, b, l, f)
        BY <1>1, <1>2, <1>12, <3>1, <3>2, EditHere
      <4> QED
        BY <4>1 DEF ReadsAt
    <3>4. /\ l = 4 => E4(m, b) = e
          /\ l = 3 => E3(m, b) = e
          /\ l = 2 => E2(m, b) = e
      <4>1. e = m.mem[tab][Index(b, l)]
        BY <3>1 DEF e, i
      <4>2. CASE l = 4
        BY <3>2, <4>1, <4>2 DEF OnWalk, E4
      <4>3. CASE l = 3
        BY <3>2, <4>1, <4>3 DEF OnWalk, E3, Under
      <4>4. CASE l = 2
        BY <3>2, <4>1, <4>4 DEF OnWalk, E2, Under
      <4> QED
        BY <4>2, <4>3, <4>4
    <3>5. \A t \in DOMAIN m.mem : \A j \in 0 .. (Fan - 1) :
             pos[t].l # l => r.mem[t][j] = m.mem[t][j]
      BY <1>3, <1>12 DEF Edit
    <3>6. WalkOK(m, pos, b)
      BY <1>1, WalkFacts
    <3>7. /\ Index(b, 3) \in 0 .. (Fan - 1) /\ Index(b, 2) \in 0 .. (Fan - 1)
          /\ Index(b, 1) \in 0 .. (Fan - 1)
      BY NumFacts, PageNumbers
    <3>8. l = 4 => E3(r, b) = E3(m, b)
      <4>1. E4(m, b).p => E4(m, b).addr \in DOMAIN m.mem /\ pos[E4(m, b).addr].l = 3
        BY <3>6 DEF WalkOK
      <4>2. l = 4 => E4(r, b).p /\ E4(m, b).p /\ E4(r, b).addr = E4(m, b).addr
        BY <1>5, <1>8, <3>3, <3>4
      <4> QED
        BY <3>5, <3>7, <4>1, <4>2 DEF E3, Under
    <3>9. l = 4 \/ l = 3 => E2(r, b) = E2(m, b)
      <4>1. l = 4 \/ l = 3 => /\ E3(r, b).p <=> E3(m, b).p
                             /\ E3(r, b).addr = E3(m, b).addr
        BY <1>5, <1>8, <3>3, <3>4, <3>8
      <4>2. E3(m, b).p => E3(m, b).addr \in DOMAIN m.mem /\ pos[E3(m, b).addr].l = 2
        BY <3>6 DEF WalkOK
      <4> QED
        BY <3>5, <3>7, <4>1, <4>2 DEF E2, Under
    <3>10. E1(r, b) = E1(m, b)
      <4>1. E2(r, b).p /\ E2(r, b).ps => E2(r, b) = E2(m, b)
        BY <1>8, <3>3, <3>9
      <4>2. /\ E2(r, b).ps <=> E2(m, b).ps
            /\ E2(r, b).p <=> E2(m, b).p
            /\ E2(r, b).addr = E2(m, b).addr
        BY <1>5, <1>8, <3>3, <3>4, <3>9
      <4>3. E2(m, b).ps => E2(m, b).p
        BY <3>6 DEF WalkOK
      <4>4. CASE E2(m, b).ps
        BY <4>1, <4>2, <4>3, <4>4 DEF E1
      <4>5. CASE ~E2(m, b).ps /\ E2(m, b).p
        <5>1. E2(m, b).addr \in DOMAIN m.mem /\ pos[E2(m, b).addr].l = 1
          BY <3>6, <4>5 DEF WalkOK
        <5> QED
          BY <3>5, <3>7, <4>2, <4>5, <5>1 DEF E1, Under
      <4>6. CASE ~E2(m, b).p
        BY <4>2, <4>3, <4>6 DEF E1, Under
      <4> QED
        BY <4>4, <4>5, <4>6
    <3> QED
      BY <1>5, <1>8, <3>3, <3>4, <3>8, <3>9, <3>10
  <2> QED
    BY <2>1, <2>2
<1>15. UserPath(r) /\ Full(r)
  BY <1>14 DEF UserPath, Full, Sound
<1>16. Sound(r)
  BY <1>11, <1>12, <1>15 DEF Sound
<1>17. Flatten(r) = Flatten(m)
  BY <1>14, <1>15, <1>16, SameFlat DEF Sound
<1>18. OnWalk(r, a, l - 1, r.ret) /\ (user => UserAbove(r, a, l - 1))
  <2>1. /\ l = 4 => E4(r, a) = f
        /\ l = 3 => E4(r, a) = E4(m, a) /\ E3(r, a) = f
        /\ l = 2 => E4(r, a) = E4(m, a) /\ E3(r, a) = E3(m, a) /\ E2(r, a) = f
    <3>1. ReadsAt(m, r, a, l, f)
      BY <1>1, <1>2, <1>12, EditHere DEF i
    <3> QED
      BY <3>1 DEF ReadsAt
  <2>2. CASE l = 4
    BY <1>8, <1>11, <2>1, <2>2 DEF OnWalk, UserAbove
  <2>3. CASE l = 3
    BY <1>8, <1>11, <2>1, <2>3 DEF OnWalk, UserAbove
  <2>4. CASE l = 2
    BY <1>8, <1>11, <2>1, <2>4 DEF OnWalk, UserAbove
  <2> QED
    BY <2>2, <2>3, <2>4
<1> QED
  BY <1>12, <1>13, <1>16, <1>17, <1>18 DEF r, i

\* m.mem with table T at nt and e, that points to it, in entry i of tab
Hung(m, t, tab, i, e, nt, T) ==
    /\ t \in Mems /\ DOMAIN t = {nt} \cup DOMAIN m.mem
    /\ t[tab][i] = e /\ t[nt] = T
    /\ \A c \in DOMAIN t : t[c] \in Tables
    /\ \A c \in DOMAIN m.mem : \A j \in 0 .. (Fan - 1) :
          c # tab \/ j # i => t[c][j] = m.mem[c][j]

\* A table more.
LEMMA HangMem ==
    ASSUME NEW m \in States, NEW pos, Tree(m, pos), NEW tab \in DOMAIN m.mem,
           NEW i \in 0 .. (Fan - 1), NEW e \in EntryT, NEW nt \in Nat, nt \notin DOMAIN m.mem,
           NEW T \in Tables,
           NEW t, t = [c \in {nt} \cup DOMAIN m.mem |->
                          IF c = nt THEN T
                          ELSE IF c = tab THEN [m.mem[c] EXCEPT ![i] = e] ELSE m.mem[c]]
    PROVE  Hung(m, t, tab, i, e, nt, T)
<1> DEFINE D == DOMAIN m.mem
           row == [m.mem[tab] EXCEPT ![i] = e]
<1>1. PICK C \in SUBSET Nat : m.mem \in [C -> Tables]
  BY DEF States, Mems
<1>2. D = C /\ D \in SUBSET Nat /\ \A c \in D : m.mem[c] \in Tables
  BY <1>1
<1>3. m.mem[tab] \in [0 .. (Fan - 1) -> EntryT]
  BY <1>2 DEF Tables
<1>4. row \in Tables /\ row[i] = e /\ \A j \in 0 .. (Fan - 1) : j # i => row[j] = m.mem[tab][j]
  BY <1>3 DEF Tables
<1>5. /\ DOMAIN t = {nt} \cup D
      /\ t[nt] = T
      /\ t[tab] = row
      /\ \A c \in D : c # tab => t[c] = m.mem[c]
  OBVIOUS
<1> HIDE DEF row
<1>6. \A c \in DOMAIN t : t[c] \in Tables
  BY <1>2, <1>4, <1>5
<1>7. t \in [{nt} \cup D -> Tables] /\ {nt} \cup D \in SUBSET Nat
  BY <1>2, <1>5, <1>6
<1>8. t \in Mems
  BY <1>7 DEF Mems
<1>9. \A c \in D : \A j \in 0 .. (Fan - 1) : c # tab \/ j # i => t[c][j] = m.mem[c][j]
  BY <1>4, <1>5
<1> QED
  BY <1>4, <1>5, <1>6, <1>8, <1>9 DEF Hung

\* the walk to b goes through e to the new table T, which maps nothing but
\* when it was made for pages
ReadsHung(m, r, b, l, e, T) ==
    /\ l = 4 => E4(r, b) = e /\ ~E2(r, b).p /\ ~E1(r, b).p
    /\ l = 3 => E4(r, b) = E4(m, b) /\ E3(r, b) = e /\ ~E2(r, b).p /\ ~E1(r, b).p
    /\ l = 2 => /\ E4(r, b) = E4(m, b) /\ E3(r, b) = E3(m, b) /\ E2(r, b) = e
                /\ E1(r, b) = T[Index(b, 1)]

\* What it takes for the walk to be open down to a level.
LEMMA UserAboveAt ==
    ASSUME NEW m, NEW a
    PROVE  /\ UserAbove(m, a, 3) <=> E4(m, a).u
           /\ UserAbove(m, a, 2) <=> E4(m, a).u /\ E3(m, a).u
           /\ UserAbove(m, a, 1) <=> E4(m, a).u /\ E3(m, a).u /\ E2(m, a).u
<1>1. /\ 3 <= 3 /\ ~(3 <= 2) /\ ~(3 <= 1)
      /\ 2 <= 3 /\ 2 <= 2 /\ ~(2 <= 1)
      /\ 1 <= 3 /\ 1 <= 2 /\ 1 <= 1
  OBVIOUS
<1> QED
  BY <1>1, Zenon DEF UserAbove

\* What a new table under entry Index(a, l) of tab means for the walks.
LEMMA HangStep ==
    ASSUME NEW m, Sound(m), NEW a \in AllPages, NEW l \in 2 .. 4, NEW tab,
           OnWalk(m, a, l, tab),
           NEW k \in States, HeapOK(k), Grows(m, k), k.mem = m.mem,
           NEW nt \in Nat, ~OwnPage(m, nt), OwnPage(k, nt),
           NEW T \in Tables,
           \A j \in 0 .. (Fan - 1) : ~T[j].ps /\ (l # 2 => ~T[j].p),
           NEW user \in BOOLEAN,
           NEW e, e = Entry(nt, Flags(TRUE, user, FALSE)),
           NEW r \in States, r.at = k.at, r.blocks = k.blocks, r.pml4 = k.pml4, r.nx = k.nx,
           Hung(m, r.mem, tab, Index(a, l), e, nt, T)
    PROVE  /\ HeapOK(r) /\ Grows(m, r) /\ \A t \in DOMAIN r.mem : OwnPage(r, t)
           /\ \E pos : Tree(r, pos)
           /\ OnWalk(r, a, l - 1, nt)
           /\ user /\ UserAbove(m, a, l) => UserAbove(r, a, l - 1)
           /\ \A b \in AllPages :
                 /\ Num(b, l) # Num(a, l) => ReadsSame(m, r, b)
                 /\ Num(b, l) = Num(a, l) => ReadsHung(m, r, b, l, e, T)
<1> DEFINE i == Index(a, l)
           pos2(pos) == [t \in {nt} \cup DOMAIN m.mem |->
                            IF t = nt THEN [l |-> l - 1, n |-> Num(a, l)] ELSE pos[t]]
<1>1. PICK pos : Tree(m, pos)
  BY DEF Sound
<1>2. m \in States /\ l \in 1 .. 4 /\ l - 1 \in 1 .. 4 /\ l # 1
  BY DEF Sound
<1>3. tab \in DOMAIN m.mem /\ pos[tab].l = l /\ pos[tab].n = Up(a, l)
  BY <1>1, <1>2, OnWalkPos
<1>4. i \in 0 .. (Fan - 1) /\ Fan * Up(a, l) + i = Num(a, l)
  BY <1>2, SlotNum
<1>5. nt \notin DOMAIN m.mem
  BY DEF Sound
<1>6. /\ e \in EntryT /\ e.p /\ ~e.ps /\ e.w /\ ~e.nx /\ e.addr = nt /\ (e.u <=> user)
  BY DEF Entry, Flags, EntryT
<1>7. /\ DOMAIN r.mem = {nt} \cup DOMAIN m.mem
      /\ r.mem[tab][i] = e /\ r.mem[nt] = T
      /\ \A c \in DOMAIN r.mem : r.mem[c] \in Tables
      /\ \A c \in DOMAIN m.mem : \A j \in 0 .. (Fan - 1) :
            c # tab \/ j # i => r.mem[c][j] = m.mem[c][j]
  BY DEF Hung
<1> HIDE DEF i
<1>8. HeapOK(r) /\ Grows(m, r) /\ \A t \in DOMAIN r.mem : OwnPage(r, t)
  <2>1. HeapOK(r)
    BY DEF HeapOK
  <2>2. Grows(m, r)
    BY <1>7 DEF Grows
  <2>3. \A t \in DOMAIN r.mem : OwnPage(r, t)
    BY <1>7 DEF OwnPage, Sound, Grows
  <2> QED
    BY <2>1, <2>2, <2>3
<1>9. Edit(m, r, tab, i, e)
  BY <1>7 DEF Edit, Grows
<1>10. Num(a, l) \in Nat
  <2> a \in Nat
    BY PageNumbers
  <2> QED
    BY <1>2, NumFacts
<1>11. Tree(r, pos2(pos))
  <2> DEFINE q == pos2(pos)
  <2>1. /\ DOMAIN q = {nt} \cup DOMAIN m.mem
        /\ q[nt].l = l - 1 /\ q[nt].n = Num(a, l)
        /\ \A t \in DOMAIN m.mem : q[t] = pos[t]
    BY <1>5
  <2>2. q \in [DOMAIN r.mem -> Nodes]
    <3>1. [l |-> l - 1, n |-> Num(a, l)] \in Nodes
      BY <1>2, <1>10 DEF Nodes
    <3>2. pos \in [DOMAIN m.mem -> Nodes]
      BY <1>1 DEF Tree
    <3> QED
      BY <1>7, <3>1, <3>2
  <2> HIDE DEF q
  <2>3. r.pml4 = m.pml4 /\ m.pml4 \in DOMAIN m.mem /\ q[m.pml4].l = 4 /\ q[m.pml4].n = 0
    BY <1>1, <2>1 DEF Tree, Grows
  <2>4. ASSUME NEW t \in DOMAIN r.mem, NEW j \in 0 .. (Fan - 1)
        PROVE  EntryOK(r, q, t, j)
    <3>1. CASE t = nt
      <4>1. r.mem[t][j] = T[j] /\ q[t].l = l - 1
        BY <1>7, <2>1, <3>1
      <4>2. l = 2 => q[t].l = 1
        BY <4>1
      <4> QED
        BY <4>1, <4>2 DEF EntryOK
    <3>2. CASE t = tab /\ j = i
      <4>1. r.mem[t][j] = e /\ q[t].l = l /\ Fan * q[t].n + j = Num(a, l)
        BY <1>3, <1>4, <1>7, <2>1, <3>2
      <4> QED
        BY <1>6, <1>7, <2>1, <4>1 DEF EntryOK
    <3>3. CASE t # nt /\ ~ (t = tab /\ j = i)
      <4>1. t \in DOMAIN m.mem /\ r.mem[t][j] = m.mem[t][j] /\ q[t] = pos[t]
        BY <1>7, <2>1, <3>3
      <4>2. EntryOK(m, pos, t, j)
        BY <1>1, <4>1 DEF Tree
      <4> QED
        BY <1>7, <2>1, <4>1, <4>2 DEF EntryOK
    <3> QED
      BY <3>1, <3>2, <3>3
  <2> QED
    BY <1>7, <2>2, <2>3, <2>4 DEF Tree, q
<1>12. ASSUME NEW b \in AllPages, Num(b, l) # Num(a, l)
       PROVE  ReadsSame(m, r, b)
  BY <1>1, <1>2, <1>9, <1>12, EditElsewhere DEF i
<1>13. ASSUME NEW b \in AllPages, Num(b, l) = Num(a, l)
       PROVE  OnWalk(r, b, l - 1, nt) /\ ReadsHung(m, r, b, l, e, T)
  <2>1. Index(b, l) = i
    BY <1>2, <1>13, SameNum DEF i
  <2>2. OnWalk(m, b, l, tab)
    BY <1>13, SameWalk DEF OnWalk
  <2>3. ReadsAt(m, r, b, l, e)
    <3>1. Edit(m, r, tab, Index(b, l), e) /\ l \in 1 .. 4
      BY <1>2, <1>9, <2>1
    <3> QED
      BY <1>1, <2>2, <3>1, EditHere
  <2>4. /\ Index(b, 3) \in 0 .. (Fan - 1) /\ Index(b, 2) \in 0 .. (Fan - 1)
        /\ Index(b, 1) \in 0 .. (Fan - 1)
    BY NumFacts, PageNumbers
  <2>5. WalkOK(r, pos2(pos), b)
    BY <1>11, WalkFacts
  <2>6. CASE l = 4
    <3>1. E4(r, b) = e
      BY <2>3, <2>6 DEF ReadsAt
    <3>2. E3(r, b) = T[Index(b, 3)]
      BY <1>6, <1>7, <3>1 DEF E3, Under
    <3>3. ~E2(r, b).p /\ ~E1(r, b).p
      <4>1. ~E3(r, b).p
        BY <2>4, <2>6, <3>2
      <4> QED
        BY <2>5, <4>1 DEF WalkOK
    <3>4. OnWalk(r, b, l - 1, nt)
      <4>1. l - 1 = 3
        BY <2>6
      <4>2. E4(r, b).p /\ ~E4(r, b).ps /\ nt = E4(r, b).addr
        BY <1>6, <3>1, Zenon
      <4> QED
        BY <4>1, <4>2 DEF OnWalk
    <3> QED
      BY <2>6, <3>1, <3>3, <3>4 DEF ReadsHung
  <2>7. CASE l = 3
    <3>1. E4(r, b) = E4(m, b) /\ E3(r, b) = e
      BY <2>3, <2>7 DEF ReadsAt
    <3>2. E2(r, b) = T[Index(b, 2)]
      BY <1>6, <1>7, <3>1 DEF E2, Under
    <3>3. ~E2(r, b).p /\ ~E1(r, b).p
      <4>1. ~E2(r, b).p
        BY <2>4, <2>7, <3>2
      <4> QED
        BY <2>5, <4>1 DEF WalkOK
    <3>4. OnWalk(r, b, l - 1, nt)
      <4>1. l - 1 = 2
        BY <2>7
      <4>2. E3(r, b).p /\ ~E3(r, b).ps /\ nt = E3(r, b).addr
        BY <1>6, <3>1, Zenon
      <4> QED
        BY <4>1, <4>2 DEF OnWalk
    <3> QED
      BY <2>7, <3>1, <3>3, <3>4 DEF ReadsHung
  <2>8. CASE l = 2
    <3>1. E4(r, b) = E4(m, b) /\ E3(r, b) = E3(m, b) /\ E2(r, b) = e
      BY <2>3, <2>8 DEF ReadsAt
    <3>2. E1(r, b) = T[Index(b, 1)]
      BY <1>6, <1>7, <3>1 DEF E1, Under
    <3>3. OnWalk(r, b, l - 1, nt)
      <4>1. l - 1 = 1
        BY <2>8
      <4>2. E2(r, b).p /\ ~E2(r, b).ps /\ nt = E2(r, b).addr
        BY <1>6, <3>1, Zenon
      <4> QED
        BY <4>1, <4>2 DEF OnWalk
    <3> QED
      BY <2>8, <3>1, <3>2, <3>3 DEF ReadsHung
  <2>9. l = 4 \/ l = 3 \/ l = 2
    OBVIOUS
  <2> QED
    BY <2>6, <2>7, <2>8, <2>9, Zenon
<1>14. user /\ UserAbove(m, a, l) => UserAbove(r, a, l - 1)
  <2>1. ReadsHung(m, r, a, l, e, T)
    BY <1>13
  <2> SUFFICES ASSUME user, UserAbove(m, a, l) PROVE UserAbove(r, a, l - 1)
    OBVIOUS
  <2>0. e.u
    BY <1>6
  <2>2. CASE l = 4
    <3>1. l - 1 = 3
      BY <2>2
    <3>2. E4(r, a) = e
      BY <2>1, <2>2 DEF ReadsHung
    <3> QED
      BY <2>0, <3>1, <3>2, UserAboveAt, Zenon
  <2>3. CASE l = 3
    <3>1. l - 1 = 2
      BY <2>3
    <3>2. E4(r, a) = E4(m, a) /\ E3(r, a) = e
      BY <2>1, <2>3 DEF ReadsHung
    <3>3. E4(m, a).u
      BY <2>3, UserAboveAt, Zenon
    <3> QED
      BY <2>0, <3>1, <3>2, <3>3, UserAboveAt, Zenon
  <2>4. CASE l = 2
    <3>1. l - 1 = 1
      BY <2>4
    <3>2. E4(r, a) = E4(m, a) /\ E3(r, a) = E3(m, a) /\ E2(r, a) = e
      BY <2>1, <2>4 DEF ReadsHung
    <3>3. E4(m, a).u /\ E3(m, a).u
      BY <2>4, UserAboveAt, Zenon
    <3> QED
      BY <2>0, <3>1, <3>2, <3>3, UserAboveAt, Zenon
  <2>5. l = 4 \/ l = 3 \/ l = 2
    OBVIOUS
  <2> QED
    BY <2>2, <2>3, <2>4, <2>5, Zenon
<1>15. OnWalk(r, a, l - 1, nt)
  BY <1>13
<1> QED
  BY <1>8, <1>11, <1>12, <1>13, <1>14, <1>15

-----------------------------------------------------------------------------
(* The calls that look for a table and make it when there is none.         *)

\* The pages of a range that is not empty.
LEMMA PagesInIs ==
    ASSUME NEW r, r.base \in Nat, r.len \in Nat \ {0}, NEW a
    PROVE  a \in PagesIn(r) <=>
              a \in Nat /\ a % 4096 = 0 /\ r.base < a + 4096 /\ a < r.base + r.len
<1> DEFINE b == r.base
           n == r.len
<1>1. a \in PagesIn(r) <=> \E k \in (b \div 4096) .. ((b + n - 1) \div 4096) : a = k * 4096
  BY DEF PagesIn, Page
<1>2. b \in Nat /\ n \in Nat /\ n > 0
  OBVIOUS
<1> HIDE DEF b, n
<1>3. ASSUME NEW k \in (b \div 4096) .. ((b + n - 1) \div 4096), a = k * 4096
      PROVE  a \in Nat /\ a % 4096 = 0 /\ b < a + 4096 /\ a < b + n
  BY <1>2, <1>3
<1>4. ASSUME a \in Nat, a % 4096 = 0, b < a + 4096, a < b + n
      PROVE  \E k \in (b \div 4096) .. ((b + n - 1) \div 4096) : a = k * 4096
  <2>1. /\ a \div 4096 \in (b \div 4096) .. ((b + n - 1) \div 4096)
        /\ a = (a \div 4096) * 4096
    BY <1>2, <1>4
  <2> QED
    BY <2>1
<1> QED
  BY <1>1, <1>3, <1>4 DEF b, n

\* The user window, as pages and as large pages.
LEMMA WindowFacts ==
    /\ UserBase \in Nat /\ UserTop \in Nat /\ UserBase < UserTop
    /\ UserBase % 4096 = 0 /\ UserTop % 4096 = 0
    /\ \A a : a \in Window <=> a \in AllPages /\ UserBase <= a /\ a < UserTop
    /\ \A a \in Nat : /\ UserBase <= a <=> UserBase \div Span(2) <= Num(a, 2)
                      /\ a < UserTop <=> Num(a, 2) < UserTop \div Span(2)
<1>1. /\ UserBase \in Nat /\ UserTop \in Nat /\ UserBase < UserTop
      /\ UserBase % Span(4) = 0 /\ UserTop % Span(2) = 0
      /\ UserTop <= Fan * Span(4)
  BY PagingAssumption
<1> DEFINE s == Span(2)
<1>2. s \in Nat \ {0} /\ s = 4096 * Fan /\ Fan \in Nat /\ Fan > 0
  BY SpanFacts
<1>3. \E k \in Nat : UserBase = s * k
  <2> DEFINE t == Span(4)
             q == UserBase \div t
  <2>1. t \in Nat \ {0} /\ t = (s * Fan) * Fan
    BY SpanFacts
  <2>2. UserBase \in Nat /\ UserBase % t = 0
    BY <1>1
  <2>3. q \in Nat /\ UserBase = t * q
    <3> HIDE DEF t
    <3>1. /\ UserBase \div t \in Nat /\ UserBase % t \in 0 .. (t - 1)
          /\ UserBase = t * (UserBase \div t) + (UserBase % t)
      BY <2>1, <2>2, Euclid, Zenon
    <3>2. t * q \in Nat
      BY <2>1, <3>1, SMT
    <3> QED
      BY <2>2, <3>1, <3>2
  <2> HIDE DEF t, q
  <2>4. UserBase = s * (Fan * (Fan * q)) /\ Fan * (Fan * q) \in Nat
    <3> HIDE DEF s
    <3>1. t * q = s * (Fan * (Fan * q))
      BY <1>2, <2>1, <2>3, SMT
    <3>2. Fan * (Fan * q) \in Nat
      BY <1>2, <2>3, SMT
    <3> QED
      BY <2>3, <3>1, <3>2
  <2> QED
    BY <2>4
<1>4. \E k \in Nat : UserTop = s * k
  <2> HIDE DEF s
  <2>1. UserTop % s = 0 /\ UserTop \in Nat
    BY <1>1 DEF s
  <2>2. /\ UserTop \div s \in Nat /\ UserTop % s \in 0 .. (s - 1)
        /\ UserTop = s * (UserTop \div s) + (UserTop % s)
    <3>1. UserTop \in Nat
      BY <2>1
    <3>2. s \in Nat \ {0}
      BY <1>2
    <3> QED
      BY <3>1, <3>2, Euclid, Zenon
  <2>3. s * (UserTop \div s) \in Nat
    BY <1>2, <2>2, SMT
  <2> QED
    BY <2>1, <2>2, <2>3
<1> HIDE DEF s
<1>5. PICK k \in Nat, t \in Nat : UserBase = s * k /\ UserTop = s * t
  BY <1>3, <1>4
<1>6. \A j \in Nat : s * j = 4096 * (Fan * j) /\ Fan * j \in Nat
  BY <1>2, SMT
<1>7. UserBase % 4096 = 0 /\ UserTop % 4096 = 0
  <2>1. PICK x \in Nat, y \in Nat : UserBase = 4096 * x /\ UserTop = 4096 * y
    BY <1>5, <1>6
  <2> QED
    BY <2>1
<1>8. ASSUME NEW a
      PROVE  a \in Window <=> a \in AllPages /\ UserBase <= a /\ a < UserTop
  <2> DEFINE r == [base |-> UserBase, len |-> UserTop - UserBase]
  <2>1. r.base = UserBase /\ r.len = UserTop - UserBase
        /\ r.base \in Nat /\ r.len \in Nat \ {0}
    BY <1>1
  <2>2. Window = PagesIn(r)
    BY DEF Window
  <2> HIDE DEF r
  <2>3. a \in PagesIn(r) <=>
              a \in Nat /\ a % 4096 = 0 /\ r.base < a + 4096 /\ a < r.base + r.len
    BY <2>1, PagesInIs
  <2>4. a \in Window <=> a \in Nat /\ a % 4096 = 0 /\ UserBase <= a /\ a < UserTop
    BY <1>1, <1>7, <2>1, <2>2, <2>3
  <2>5. a \in AllPages <=> a \in Nat /\ a % 4096 = 0 /\ a < Fan * Span(4)
    BY PageFacts
  <2>6. Fan * Span(4) \in Nat
    BY SpanFacts, SMT
  <2> QED
    BY <1>1, <2>4, <2>5, <2>6
<1>9. ASSUME NEW a \in Nat, NEW j \in Nat
      PROVE  s * j <= a <=> j <= a \div s
  <2> DEFINE q == a \div s
             x == a % s
  <2>1. q \in Nat /\ x \in 0 .. (s - 1) /\ a = s * q + x
    <3>1. s \in Nat \ {0}
      BY <1>2
    <3> QED
      BY <3>1, Euclid, Zenon
  <2> HIDE DEF q, x
  <2>2. CASE j <= q
    <3>1. s * j <= s * q /\ s * j \in Nat /\ s * q \in Nat
      BY <1>2, <2>1, <2>2, SMT
    <3> QED
      BY <2>1, <2>2, <3>1, SMT DEF q
  <2>3. CASE j > q
    <3>1. s * (q + 1) <= s * j /\ s * (q + 1) = s * q + s /\ s * j \in Nat /\ s * q \in Nat
      BY <1>2, <2>1, <2>3, SMT
    <3> QED
      BY <1>2, <2>1, <2>3, <3>1, SMT DEF q
  <2> QED
    BY <2>1, <2>2, <2>3
<1>10. UserBase \div s = k /\ UserTop \div s = t
  <2>1. 0 \in 0 .. (s - 1)
    BY <1>2
  <2>2. (s * k + 0) \div s = k /\ (s * t + 0) \div s = t
    BY <1>2, <1>5, <2>1, DivOfSum
  <2>3. s * k + 0 = UserBase /\ s * t + 0 = UserTop
    BY <1>1, <1>5
  <2> QED
    BY <2>2, <2>3
<1>11. ASSUME NEW a \in Nat
       PROVE  /\ UserBase <= a <=> UserBase \div s <= Num(a, 2)
              /\ a < UserTop <=> Num(a, 2) < UserTop \div s
  <2>1. Num(a, 2) = a \div s /\ Num(a, 2) \in Nat
    <3>1. 2 \in 1 .. 4
      OBVIOUS
    <3> QED
      BY <3>1, NumFacts DEF Num, s
  <2>2. UserBase <= a <=> k <= a \div s
    BY <1>5, <1>9
  <2>3. UserTop <= a <=> t <= a \div s
    BY <1>5, <1>9
  <2> QED
    BY <1>1, <1>5, <1>10, <2>1, <2>2, <2>3
<1> QED
  BY <1>1, <1>7, <1>8, <1>11 DEF s

\* A large page lies in the window or outside it.
LEMMA WindowPieces ==
    ASSUME NEW a \in AllPages, NEW b \in AllPages, Num(a, 2) = Num(b, 2)
    PROVE  a \in Window <=> b \in Window
  BY WindowFacts, PageNumbers

\* The walks see the tables and the root only.
LEMMA SameTables ==
    ASSUME NEW m, NEW r, r.mem = m.mem, r.pml4 = m.pml4
    PROVE  /\ Flatten(r) = Flatten(m)
           /\ \A a : E4(r, a) = E4(m, a) /\ E3(r, a) = E3(m, a)
                     /\ E2(r, a) = E2(m, a) /\ E1(r, a) = E1(m, a)
           /\ \A pos : Tree(m, pos) => Tree(r, pos)
           /\ UserPath(m) => UserPath(r)
           /\ Full(m) => Full(r)
           /\ \A a, l, tab : OnWalk(m, a, l, tab) => OnWalk(r, a, l, tab)
           /\ \A a, l : UserAbove(m, a, l) => UserAbove(r, a, l)
<1>1. \A a : E4(r, a) = E4(m, a) /\ E3(r, a) = E3(m, a)
             /\ E2(r, a) = E2(m, a) /\ E1(r, a) = E1(m, a)
  BY DEF E4, E3, E2, E1, Under
<1>2. \A a : Path(r, a) = Path(m, a)
  BY DEF Path, Under
<1>3. Flatten(r) = Flatten(m)
  <2>1. {b \in AllPages : Path(r, b)[4].p} = {b \in AllPages : Path(m, b)[4].p}
    BY <1>2
  <2>2. \A a : Translation(Path(r, a), a) = Translation(Path(m, a), a)
    BY <1>2
  <2> QED
    BY <2>1, <2>2, Zenon DEF Flatten
<1>4. \A pos : Tree(m, pos) => Tree(r, pos)
  BY DEF Tree, EntryOK
<1>5. (UserPath(m) => UserPath(r)) /\ (Full(m) => Full(r))
  BY <1>1, Zenon DEF UserPath, Full
<1>6. \A a, l, tab : OnWalk(m, a, l, tab) => OnWalk(r, a, l, tab)
  BY <1>1, Zenon DEF OnWalk
<1>7. \A a, l : UserAbove(m, a, l) => UserAbove(r, a, l)
  BY <1>1, Zenon DEF UserAbove
<1> QED
  BY <1>1, <1>3, <1>4, <1>5, <1>6, <1>7

\* r is m with memory taken, and the walks read in r what they read in m
LEMMA SoundSame ==
    ASSUME NEW m, Sound(m), NEW r \in States, HeapOK(r), Grows(m, r), r.mem = m.mem
    PROVE  Sound(r) /\ Flatten(r) = Flatten(m)
<1>1. r.pml4 = m.pml4
  BY DEF Grows
<1>2. /\ Flatten(r) = Flatten(m)
      /\ \A pos : Tree(m, pos) => Tree(r, pos)
      /\ UserPath(m) => UserPath(r)
      /\ Full(m) => Full(r)
  BY <1>1, SameTables
<1>3. \A t \in DOMAIN r.mem : OwnPage(r, t)
  BY DEF Sound, Grows, OwnPage
<1> QED
  BY <1>2, <1>3 DEF Sound

\* The entry of a table on the walk is the one the walk reads there.
LEMMA WalkEntry ==
    ASSUME NEW m, NEW a, NEW l, NEW tab, OnWalk(m, a, l, tab)
    PROVE  /\ l = 4 => E4(m, a) = m.mem[tab][Index(a, 4)]
           /\ l = 3 => E3(m, a) = m.mem[tab][Index(a, 3)]
           /\ l = 2 => E2(m, a) = m.mem[tab][Index(a, 2)]
           /\ l = 1 => E1(m, a) = m.mem[tab][Index(a, 1)]
<1>1. CASE l = 4
  BY <1>1 DEF OnWalk, E4
<1>2. CASE l = 3
  BY <1>2 DEF OnWalk, E3, Under
<1>3. CASE l = 2
  BY <1>3 DEF OnWalk, E2, Under
<1>4. CASE l = 1
  BY <1>4 DEF OnWalk, E1, Under
<1> QED
  BY <1>1, <1>2, <1>3, <1>4

\* Pages in one piece of level l use the same table there.
LEMMA SameTable ==
    ASSUME NEW m, NEW a \in AllPages, NEW b \in AllPages, NEW l \in 1 .. 4, NEW tab,
           OnWalk(m, a, l, tab), Num(a, l) = Num(b, l)
    PROVE  OnWalk(m, b, l, tab) /\ Index(b, l) = Index(a, l)
<1>1. Index(b, l) = Index(a, l)
  BY SameNum
<1>2. CASE l = 1
  BY <1>2, SameWalk
<1>3. CASE l = 2
  BY <1>1, <1>3, SameWalk DEF OnWalk
<1>4. CASE l = 3
  BY <1>1, <1>4, SameWalk DEF OnWalk
<1>5. CASE l = 4
  BY <1>1, <1>5, SameWalk DEF OnWalk
<1>6. l = 1 \/ l = 2 \/ l = 3 \/ l = 4
  OBVIOUS
<1> QED
  BY <1>2, <1>3, <1>4, <1>5, <1>6, Zenon

\* What a call that goes down the tables leaves: it may take pages for more
\* of them, but the map says what it said; it fails when no page is left.
Kept(m, r) ==
    /\ Sound(r) /\ Grows(m, r) /\ Flatten(r) = Flatten(m)
    /\ r.ret = 0 => Dry(r)

\* ... and how far down the walk to a it got
KeptTo(m, r, a, l, user) ==
    /\ Kept(m, r)
    /\ r.ret # 0 => OnWalk(r, a, l, r.ret) /\ (user => UserAbove(r, a, l))

\* A failed kalloc_page.
LEMMA NoPageStep ==
    ASSUME NEW m, Sound(m), kalloc_page(m).ret = 0
    PROVE  Kept(m, kalloc_page(m))
<1> DEFINE k == kalloc_page(m)
<1>1. m \in States /\ HeapOK(m)
  BY DEF Sound
<1>2. /\ k \in States /\ HeapOK(k) /\ Grows(m, k) /\ k.mem = m.mem
      /\ k.ret = 0 => k.blocks = m.blocks /\ Dry(k) /\ Dry(m)
  BY <1>1, KallocStep
<1> HIDE DEF k
<1>3. Sound(k) /\ Flatten(k) = Flatten(m)
  BY <1>2, SoundSame
<1> QED
  BY <1>2, <1>3 DEF Kept, k

\* r is k, the state after a page was had, with the page as an empty table
Freshly(m, k, r, tab, i, user) ==
    /\ r = [k EXCEPT !.mem = r.mem]
    /\ r \in States /\ r.at = k.at /\ r.blocks = k.blocks
    /\ r.pml4 = k.pml4 /\ r.nx = k.nx /\ r.ret = k.ret
    /\ Hung(m, r.mem, tab, i, Entry(k.ret, Flags(TRUE, user, FALSE)), k.ret, ZeroTable)

\* What FreshTable does when there is a page.
LEMMA FreshIs ==
    ASSUME NEW m, Sound(m), NEW tab \in DOMAIN m.mem, NEW i \in 0 .. (Fan - 1), NEW user \in BOOLEAN,
           NEW k, k = kalloc_page(m), k.ret # 0,
           NEW r, r = FreshTable(m, tab, i, Flags(TRUE, user, FALSE))
    PROVE  Freshly(m, k, r, tab, i, user)
<1> DEFINE e == Entry(k.ret, Flags(TRUE, user, FALSE))
           t == [c \in {k.ret} \cup DOMAIN m.mem |->
                    IF c = k.ret THEN ZeroTable
                    ELSE IF c = tab THEN [m.mem[c] EXCEPT ![i] = e] ELSE m.mem[c]]
<1>1. PICK pos : Tree(m, pos)
  BY DEF Sound
<1>2. m \in States /\ HeapOK(m)
  BY DEF Sound
<1>3. /\ k \in States /\ k.mem = m.mem /\ k.ret \in Nat /\ ~OwnPage(m, k.ret)
  BY <1>2, KallocStep
<1>4. k.ret \notin DOMAIN m.mem
  BY <1>3 DEF Sound
<1>5. e \in EntryT
  BY <1>3 DEF Entry, Flags, EntryT
<1>6. ZeroTable \in Tables
  BY NoEntryFacts DEF ZeroTable, Tables
<1>7. t = [c \in {k.ret} \cup DOMAIN m.mem |->
                    IF c = k.ret THEN ZeroTable
                    ELSE IF c = tab THEN [m.mem[c] EXCEPT ![i] = e] ELSE m.mem[c]]
  OBVIOUS
<1>8. r = [k EXCEPT !.mem = t]
  BY <1>3 DEF FreshTable, Then
<1> HIDE DEF e, t
<1>9. Hung(m, t, tab, i, e, k.ret, ZeroTable)
  BY <1>1, <1>2, <1>3, <1>4, <1>5, <1>6, <1>7, HangMem
<1>10. t \in Mems
  BY <1>9 DEF Hung
<1>11. r \in States
  BY <1>3, <1>8, <1>10, SetMem
<1>12. r.mem = t /\ r.at = k.at /\ r.blocks = k.blocks
       /\ r.pml4 = k.pml4 /\ r.nx = k.nx /\ r.ret = k.ret
  BY <1>3, <1>8 DEF States
<1> QED
  BY <1>8, <1>9, <1>11, <1>12 DEF e, Freshly

\* A new empty table where nothing was mapped.
LEMMA FreshStep ==
    ASSUME NEW m, Sound(m), NEW a \in AllPages, NEW l \in 2 .. 4, NEW tab,
           OnWalk(m, a, l, tab), NEW user \in BOOLEAN, user => UserAbove(m, a, l),
           ~m.mem[tab][Index(a, l)].p, l = 2 => a \in Window
    PROVE  KeptTo(m, FreshTable(m, tab, Index(a, l), Flags(TRUE, user, FALSE)), a, l - 1, user)
<1> DEFINE i == Index(a, l)
           k == kalloc_page(m)
           e == Entry(k.ret, Flags(TRUE, user, FALSE))
           r == FreshTable(m, tab, i, Flags(TRUE, user, FALSE))
<1>1. PICK pos : Tree(m, pos)
  BY DEF Sound
<1>2. m \in States /\ HeapOK(m) /\ l \in 1 .. 4
  BY DEF Sound
<1>3. /\ k \in States /\ HeapOK(k) /\ Grows(m, k) /\ k.mem = m.mem
      /\ k.ret # 0 => k.ret \in Nat /\ ~OwnPage(m, k.ret) /\ OwnPage(k, k.ret)
  BY <1>2, KallocStep
<1>4. CASE k.ret = 0
  <2>1. r = k
    BY <1>4 DEF FreshTable, Then
  <2> QED
    BY <1>4, <2>1, NoPageStep DEF KeptTo
<1>5. CASE k.ret # 0
  <2>1. tab \in DOMAIN m.mem /\ i \in 0 .. (Fan - 1)
    BY <1>1, <1>2, OnWalkPos, SlotNum
  <2> HIDE DEF i
  <2>2. /\ r \in States /\ r.at = k.at /\ r.blocks = k.blocks
        /\ r.pml4 = k.pml4 /\ r.nx = k.nx /\ r.ret = k.ret
        /\ Hung(m, r.mem, tab, i, e, k.ret, ZeroTable)
    <3> HIDE DEF r, k
    <3>1. k = kalloc_page(m)
      BY DEF k
    <3>2. r = FreshTable(m, tab, i, Flags(TRUE, user, FALSE))
      BY DEF r
    <3>3. tab \in DOMAIN m.mem
      BY <2>1
    <3>4. i \in 0 .. (Fan - 1)
      BY <2>1
    <3>5. Freshly(m, k, r, tab, i, user)
      BY <1>5, <3>1, <3>2, <3>3, <3>4, FreshIs
    <3> QED
      BY <3>5 DEF Freshly, e
  <2>3. /\ ZeroTable \in Tables
        /\ \A j \in 0 .. (Fan - 1) : ~ZeroTable[j].ps /\ ~ZeroTable[j].p
    BY NoEntryFacts DEF ZeroTable, Tables
  <2> DEFINE nt == k.ret
  <2>4. nt \in Nat /\ ~OwnPage(m, nt) /\ OwnPage(k, nt)
    BY <1>3, <1>5
  <2>5. e = Entry(nt, Flags(TRUE, user, FALSE))
    OBVIOUS
  <2> HIDE DEF r, k, e, nt
  <2>6. Hung(m, r.mem, tab, Index(a, l), e, nt, ZeroTable)
    BY <2>2 DEF i, nt
  <2>7. /\ HeapOK(r) /\ Grows(m, r) /\ \A t \in DOMAIN r.mem : OwnPage(r, t)
        /\ \E q : Tree(r, q)
        /\ OnWalk(r, a, l - 1, nt)
        /\ user /\ UserAbove(m, a, l) => UserAbove(r, a, l - 1)
        /\ \A b \in AllPages :
              /\ Num(b, l) # Num(a, l) => ReadsSame(m, r, b)
              /\ Num(b, l) = Num(a, l) => ReadsHung(m, r, b, l, e, ZeroTable)
    BY <1>3, <2>2, <2>3, <2>4, <2>5, <2>6, HangStep
  <2>8. ASSUME NEW b \in AllPages, Num(b, l) = Num(a, l)
        PROVE  /\ ~E1(m, b).p /\ ~E1(r, b).p
               /\ b \notin Window => ~E2(r, b).p
    <3>1. OnWalk(m, b, l, tab) /\ Index(b, l) = Index(a, l)
      BY <1>2, <2>8, SameTable
    <3>2. /\ l = 4 => ~E4(m, b).p
          /\ l = 3 => ~E3(m, b).p
          /\ l = 2 => ~E2(m, b).p
      BY <3>1, WalkEntry
    <3>3. WalkOK(m, pos, b)
      BY <1>1, WalkFacts
    <3>4. l = 4 \/ l = 3 \/ l = 2
      OBVIOUS
    <3>5. ~E1(m, b).p
      <4>1. /\ E3(m, b).p => E4(m, b).p
            /\ E2(m, b).p => E3(m, b).p
            /\ E1(m, b).p => E2(m, b).p
        BY <3>3 DEF WalkOK
      <4> QED
        BY <3>2, <3>4, <4>1, Zenon
    <3>6. ReadsHung(m, r, b, l, e, ZeroTable)
      BY <2>7, <2>8
    <3>7. ~E1(r, b).p
      <4>1. ~ZeroTable[Index(b, 1)].p
        <5>1. b \in Nat
          BY PageNumbers
        <5>2. Index(b, 1) \in 0 .. (Fan - 1)
          BY <5>1, NumFacts
        <5> QED
          BY <2>3, <5>2
      <4> QED
        BY <3>4, <3>6, <4>1, Zenon DEF ReadsHung
    <3>8. b \notin Window => ~E2(r, b).p
      <4>1. l = 2 => b \in Window
        BY <2>8, WindowPieces
      <4> QED
        BY <3>4, <3>6, <4>1, Zenon DEF ReadsHung
    <3> QED
      BY <3>5, <3>7, <3>8
  <2>9. ASSUME NEW b \in AllPages
        PROVE  /\ E1(r, b).p <=> E1(m, b).p
               /\ E1(m, b).p => E1(r, b) = E1(m, b)
               /\ E1(r, b).p => ReadsSame(m, r, b)
               /\ b \notin Window /\ E2(r, b).p => ReadsSame(m, r, b)
    <3>1. Num(b, l) # Num(a, l) => ReadsSame(m, r, b)
      BY <2>7
    <3>2. ReadsSame(m, r, b) => E1(r, b) = E1(m, b)
      BY DEF ReadsSame
    <3> QED
      BY <2>8, <3>1, <3>2, Zenon
  <2>10. UserPath(r)
    <3> SUFFICES ASSUME NEW b \in AllPages, E1(r, b).p, E1(r, b).u
                 PROVE  E4(r, b).u /\ E3(r, b).u /\ E2(r, b).u
      BY DEF UserPath
    <3>1. ReadsSame(m, r, b)
      BY <2>9
    <3>2. UserPath(m)
      BY DEF Sound
    <3> QED
      BY <3>1, <3>2, Zenon DEF ReadsSame, UserPath
  <2>11. Full(r)
    <3> SUFFICES ASSUME NEW b \in AllPages \ Window, E2(r, b).p
                 PROVE  E1(r, b).p
      BY DEF Full
    <3>1. ReadsSame(m, r, b)
      BY <2>9
    <3>2. Full(m)
      BY DEF Sound
    <3> QED
      BY <3>1, <3>2, Zenon DEF ReadsSame, Full
  <2>12. Sound(r)
    BY <2>2, <2>7, <2>10, <2>11 DEF Sound
  <2>13. Flatten(r) = Flatten(m)
    <3>1. UserPath(m) /\ \E q : Tree(m, q)
      BY DEF Sound
    <3>2. \A b \in AllPages : /\ E1(r, b).p <=> E1(m, b).p
                              /\ E1(m, b).p => Says(E1(r, b), b) = Says(E1(m, b), b)
      BY <2>9
    <3> QED
      BY <2>7, <2>10, <3>1, <3>2, SameFlat
  <2>14. r.ret = nt /\ r.ret # 0
    BY <1>5, <2>2 DEF nt
  <2> QED
    BY <2>7, <2>12, <2>13, <2>14 DEF Kept, KeptTo, r, i
<1> QED
  BY <1>4, <1>5

\* Filling the new table of Hung.
LEMMA FillMem ==
    ASSUME NEW m \in States, NEW tab \in DOMAIN m.mem, NEW i \in 0 .. (Fan - 1), NEW e,
           NEW nt, nt \notin DOMAIN m.mem, NEW t, Hung(m, t, tab, i, e, nt, ZeroTable),
           NEW T \in Tables, NEW v, v = [t EXCEPT ![nt] = T]
    PROVE  Hung(m, v, tab, i, e, nt, T)
<1>1. /\ t \in Mems /\ DOMAIN t = {nt} \cup DOMAIN m.mem
      /\ t[tab][i] = e
      /\ \A c \in DOMAIN t : t[c] \in Tables
      /\ \A c \in DOMAIN m.mem : \A j \in 0 .. (Fan - 1) :
            c # tab \/ j # i => t[c][j] = m.mem[c][j]
  BY DEF Hung
<1>2. PICK D \in SUBSET Nat : t \in [D -> Tables]
  BY <1>1 DEF Mems
<1>3. D = {nt} \cup DOMAIN m.mem
  BY <1>1, <1>2
<1>4. v \in [D -> Tables]
  BY <1>2
<1>5. v \in Mems /\ DOMAIN v = D
  BY <1>2, <1>4 DEF Mems
<1>6. v[nt] = T /\ \A c \in DOMAIN m.mem : v[c] = t[c]
  BY <1>2, <1>3
<1>7. \A c \in D : v[c] \in Tables
  BY <1>4
<1> QED
  BY <1>1, <1>3, <1>5, <1>6, <1>7 DEF Hung

\* The small pages of a large one map what it mapped.
LEMMA SmallPages ==
    ASSUME NEW m, NEW pos, Tree(m, pos), NEW b \in AllPages, NEW e, e = E2(m, b), e.ps,
           NEW T, T = [j \in 0 .. (Fan - 1) |-> Entry(e.addr + j * Page, e)]
    PROVE  /\ T \in Tables
           /\ \A j \in 0 .. (Fan - 1) : T[j].p /\ ~T[j].ps /\ ~T[j].u
           /\ Says(T[Index(b, 1)], b) = Says(e, b)
<1>1. e \in EntryT /\ e.p /\ ~e.u /\ e.addr = Num(b, 2) * Span(2)
  <2>1. WalkOK(m, pos, b)
    BY WalkFacts
  <2> QED
    BY <2>1 DEF WalkOK
<1>2. b \in Nat /\ b = 4096 * Num(b, 1)
  BY PageNumbers
<1>3. /\ Num(b, 2) \in Nat /\ Index(b, 1) \in 0 .. (Fan - 1)
      /\ Num(b, 1) = Fan * Num(b, 2) + Index(b, 1)
  <2>1. b \in Nat
    BY <1>2
  <2>2. 1 \in 1 .. 3 /\ 1 \in 1 .. 4 /\ 2 \in 1 .. 4 /\ 1 + 1 = 2
    OBVIOUS
  <2>3. /\ Num(b, 2) \in Nat /\ Index(b, 1) \in 0 .. (Fan - 1)
        /\ Num(b, 1) = Fan * Num(b, 1 + 1) + Index(b, 1)
    BY <2>1, <2>2, NumFacts
  <2> QED
    BY <2>2, <2>3
<1>4. e.addr + Index(b, 1) * Page = b
  <2>1. Span(2) = 4096 * Fan /\ Fan \in Nat
    BY SpanFacts
  <2>2. Num(b, 2) * (4096 * Fan) = 4096 * (Fan * Num(b, 2)) /\ Fan * Num(b, 2) \in Nat
    BY <1>3, <2>1, SMT
  <2> QED
    BY <1>1, <1>2, <1>3, <2>1, <2>2 DEF Page
<1>5. e.addr \in Nat /\ e.w \in BOOLEAN /\ e.u \in BOOLEAN /\ e.nx \in BOOLEAN
  BY <1>1 DEF EntryT
<1>6. ASSUME NEW j \in 0 .. (Fan - 1)
      PROVE  /\ Entry(e.addr + j * Page, e) \in EntryT
             /\ Entry(e.addr + j * Page, e).p /\ ~Entry(e.addr + j * Page, e).ps
             /\ ~Entry(e.addr + j * Page, e).u
  <2>1. e.addr + j * Page \in Nat
    <3>1. j \in Nat /\ e.addr \in Nat
      BY <1>5, SpanFacts
    <3> DEFINE d == e.addr
    <3> HIDE DEF d
    <3>2. d + j * 4096 \in Nat
      BY <3>1 DEF d
    <3> QED
      BY <3>2 DEF d, Page
  <2> QED
    BY <1>1, <1>5, <2>1 DEF Entry, EntryT
<1>7. T \in Tables /\ \A j \in 0 .. (Fan - 1) : T[j] = Entry(e.addr + j * Page, e)
  BY <1>6 DEF Tables
<1>8. T[Index(b, 1)] = Entry(b, e)
  BY <1>3, <1>4, <1>7
<1>9. Says(Entry(b, e), b) = Says(e, b)
  BY <1>1 DEF Says, Entry
<1> QED
  BY <1>6, <1>7, <1>8, <1>9

\* A large page split into small ones: the map is the same.
LEMMA SplitStep ==
    ASSUME NEW m, Sound(m), NEW a \in AllPages, NEW tab,
           OnWalk(m, a, 2, tab), NEW user \in BOOLEAN, user => UserAbove(m, a, 2),
           m.mem[tab][Index(a, 2)].ps
    PROVE  KeptTo(m, Split(m, tab, Index(a, 2), user), a, 1, user)
           /\ LET r == Split(m, tab, Index(a, 2), user)
              IN r.ret # 0 => /\ OnWalk(r, a, 2, tab) /\ (user => UserAbove(r, a, 2))
                              /\ r.mem[tab][Index(a, 2)].p /\ ~r.mem[tab][Index(a, 2)].ps
<1> DEFINE i == Index(a, 2)
           k == kalloc_page(m)
           s == FreshTable(m, tab, i, Flags(TRUE, user, FALSE))
           e == Entry(k.ret, Flags(TRUE, user, FALSE))
           o == m.mem[tab][i]
           T == [j \in 0 .. (Fan - 1) |-> Entry(o.addr + j * Page, o)]
           r == Split(m, tab, i, user)
<1>1. PICK pos : Tree(m, pos)
  BY DEF Sound
<1>2. m \in States /\ HeapOK(m) /\ 2 \in 1 .. 4 /\ 2 \in 2 .. 4 /\ 2 - 1 = 1
  BY DEF Sound
<1>3. /\ k \in States /\ HeapOK(k) /\ Grows(m, k) /\ k.mem = m.mem
      /\ k.ret # 0 => k.ret \in Nat /\ ~OwnPage(m, k.ret) /\ OwnPage(k, k.ret)
  BY <1>2, KallocStep
<1>4. CASE k.ret = 0
  <2>1. s = k
    BY <1>4 DEF FreshTable, Then
  <2>2. r = k
    BY <1>4, <2>1 DEF Split, Then
  <2> QED
    BY <1>4, <2>2, NoPageStep DEF KeptTo
<1>5. CASE k.ret # 0
  <2>1. tab \in DOMAIN m.mem /\ i \in 0 .. (Fan - 1)
    BY <1>1, <1>2, OnWalkPos, SlotNum
  <2>0. o = E2(m, a) /\ o.ps
    BY WalkEntry
  <2>t. T = [j \in 0 .. (Fan - 1) |-> Entry(o.addr + j * Page, o)]
    OBVIOUS
  <2>r. r = Then(s, LAMBDA n : [n EXCEPT !.mem[n.ret] = T])
    BY DEF Split
  <2> HIDE DEF i, s, T, r, o
  <2>2. Freshly(m, k, s, tab, i, user)
    <3> HIDE DEF k
    <3>1. k = kalloc_page(m)
      BY DEF k
    <3>2. s = FreshTable(m, tab, i, Flags(TRUE, user, FALSE))
      BY DEF s
    <3>3. tab \in DOMAIN m.mem
      BY <2>1
    <3>4. i \in 0 .. (Fan - 1)
      BY <2>1
    <3> QED
      BY <1>5, <3>1, <3>2, <3>3, <3>4, FreshIs
  <2> DEFINE nt == k.ret
  <2>3. nt \in Nat /\ ~OwnPage(m, nt) /\ OwnPage(k, nt)
    BY <1>3, <1>5
  <2>4. nt \notin DOMAIN m.mem
    BY <2>3 DEF Sound
  <2>5. /\ s \in States /\ s.at = k.at /\ s.blocks = k.blocks
        /\ s.pml4 = k.pml4 /\ s.nx = k.nx /\ s.ret = nt
        /\ Hung(m, s.mem, tab, i, e, nt, ZeroTable)
    BY <2>2 DEF Freshly
  <2>6. e = Entry(nt, Flags(TRUE, user, FALSE))
    OBVIOUS
  <2> HIDE DEF k, e, nt
  <2>7. /\ T \in Tables
        /\ \A j \in 0 .. (Fan - 1) : T[j].p /\ ~T[j].ps /\ ~T[j].u
    BY <1>1, <2>0, <2>t, SmallPages
  <2> DEFINE v == [s.mem EXCEPT ![nt] = T]
  <2>8. r = [s EXCEPT !.mem = v]
    <3>1. s.ret = nt /\ nt # 0
      BY <1>5, <2>5 DEF nt
    <3>2. r = [s EXCEPT !.mem[nt] = T]
      BY <2>r, <3>1 DEF Then
    <3> QED
      BY <3>2
  <2>9. Hung(m, v, tab, i, e, nt, T)
    <3> DEFINE u == s.mem
    <3>1. v = [u EXCEPT ![nt] = T]
      OBVIOUS
    <3>2. Hung(m, u, tab, i, e, nt, ZeroTable)
      BY <2>5
    <3>3. tab \in DOMAIN m.mem
      BY <2>1
    <3>4. i \in 0 .. (Fan - 1)
      BY <2>1
    <3>5. m \in States
      BY <1>2
    <3>6. T \in Tables
      BY <2>7
    <3> HIDE DEF u, v
    <3> QED
      BY <2>4, <3>1, <3>2, <3>3, <3>4, <3>5, <3>6, FillMem
  <2> HIDE DEF v
  <2>10. /\ r \in States /\ r.at = k.at /\ r.blocks = k.blocks
         /\ r.pml4 = k.pml4 /\ r.nx = k.nx /\ r.ret = nt /\ r.mem = v
    <3>1. v \in Mems
      BY <2>9 DEF Hung
    <3>2. r \in States
      BY <2>5, <2>8, <3>1, SetMem
    <3> QED
      BY <2>5, <2>8, <3>2 DEF States
  <2>11. Hung(m, r.mem, tab, Index(a, 2), e, nt, T)
    BY <2>9, <2>10 DEF i
  <2>12. /\ HeapOK(r) /\ Grows(m, r) /\ \A t \in DOMAIN r.mem : OwnPage(r, t)
         /\ \E q : Tree(r, q)
         /\ OnWalk(r, a, 2 - 1, nt)
         /\ user /\ UserAbove(m, a, 2) => UserAbove(r, a, 2 - 1)
         /\ \A b \in AllPages :
               /\ Num(b, 2) # Num(a, 2) => ReadsSame(m, r, b)
               /\ Num(b, 2) = Num(a, 2) => ReadsHung(m, r, b, 2, e, T)
    <3>1. \A j \in 0 .. (Fan - 1) : ~T[j].ps /\ (2 # 2 => ~T[j].p)
      BY <2>7
    <3>2. T \in Tables
      BY <2>7
    <3>3. k \in States /\ HeapOK(k) /\ Grows(m, k) /\ k.mem = m.mem
      BY <1>3
    <3>4. r \in States /\ r.at = k.at /\ r.blocks = k.blocks /\ r.pml4 = k.pml4 /\ r.nx = k.nx
      BY <2>10
    <3>5. 2 \in 2 .. 4
      OBVIOUS
    <3> QED
      BY <2>3, <2>6, <2>11, <3>1, <3>2, <3>3, <3>4, <3>5, HangStep
  <2>13. ASSUME NEW b \in AllPages, Num(b, 2) = Num(a, 2)
         PROVE  /\ E1(m, b).p /\ E1(r, b).p
                /\ ~E1(r, b).u
                /\ Says(E1(r, b), b) = Says(E1(m, b), b)
    <3>1. E2(m, b) = o /\ E2(m, b).ps
      BY <2>0, <2>13, SameWalk
    <3>2. WalkOK(m, pos, b)
      BY <1>1, WalkFacts
    <3>3. E1(m, b) = o /\ o.p
      BY <3>1, <3>2 DEF WalkOK, E1
    <3>4. ReadsHung(m, r, b, 2, e, T)
      BY <2>12, <2>13
    <3>5. E1(r, b) = T[Index(b, 1)]
      BY <3>4 DEF ReadsHung
    <3>6. Index(b, 1) \in 0 .. (Fan - 1)
      BY NumFacts, PageNumbers
    <3>7. Says(T[Index(b, 1)], b) = Says(o, b)
      BY <1>1, <2>t, <3>1, SmallPages
    <3> QED
      BY <2>7, <3>3, <3>5, <3>6, <3>7, Zenon
  <2>14. ASSUME NEW b \in AllPages
         PROVE  /\ E1(r, b).p <=> E1(m, b).p
                /\ E1(m, b).p => Says(E1(r, b), b) = Says(E1(m, b), b)
                /\ ~E1(r, b).p \/ E1(r, b).u => ReadsSame(m, r, b)
    <3>1. Num(b, 2) # Num(a, 2) => ReadsSame(m, r, b)
      BY <2>12
    <3>2. ReadsSame(m, r, b) => E1(r, b) = E1(m, b)
      BY DEF ReadsSame
    <3> QED
      BY <2>13, <3>1, <3>2, Zenon
  <2>15. UserPath(r)
    <3> SUFFICES ASSUME NEW b \in AllPages, E1(r, b).p, E1(r, b).u
                 PROVE  E4(r, b).u /\ E3(r, b).u /\ E2(r, b).u
      BY DEF UserPath
    <3>1. ReadsSame(m, r, b)
      BY <2>14
    <3>2. UserPath(m)
      BY DEF Sound
    <3> QED
      BY <3>1, <3>2, Zenon DEF ReadsSame, UserPath
  <2>16. Full(r)
    <3> SUFFICES ASSUME NEW b \in AllPages \ Window, E2(r, b).p, ~E1(r, b).p
                 PROVE  FALSE
      BY DEF Full
    <3>1. ReadsSame(m, r, b)
      BY <2>14
    <3>2. Full(m)
      BY DEF Sound
    <3> QED
      BY <3>1, <3>2, Zenon DEF ReadsSame, Full
  <2>17. Sound(r)
    BY <2>10, <2>12, <2>15, <2>16 DEF Sound
  <2>18. Flatten(r) = Flatten(m)
    <3>1. UserPath(m) /\ \E q : Tree(m, q)
      BY DEF Sound
    <3>2. \A b \in AllPages : /\ E1(r, b).p <=> E1(m, b).p
                              /\ E1(m, b).p => Says(E1(r, b), b) = Says(E1(m, b), b)
      BY <2>14
    <3> QED
      BY <2>12, <2>15, <3>1, <3>2, SameFlat
  <2>19. r.ret = nt /\ r.ret # 0
    BY <1>5, <2>10 DEF nt
  <2>20. KeptTo(m, r, a, 1, user)
    BY <1>2, <2>12, <2>17, <2>18, <2>19 DEF Kept, KeptTo
  <2>21. E4(r, a) = E4(m, a) /\ E3(r, a) = E3(m, a) /\ E2(r, a) = e
    <3>1. ReadsHung(m, r, a, 2, e, T)
      BY <2>12
    <3> QED
      BY <3>1 DEF ReadsHung
  <2>22. OnWalk(r, a, 2, tab)
    BY <2>21 DEF OnWalk
  <2>23. UserAbove(m, a, 2) => UserAbove(r, a, 2)
    BY <2>21, UserAboveAt, Zenon
  <2>24. r.mem[tab][Index(a, 2)].p /\ ~r.mem[tab][Index(a, 2)].ps
    <3>1. r.mem[tab][Index(a, 2)] = e
      BY <2>11 DEF Hung
    <3>2. e.p /\ ~e.ps
      BY <2>6 DEF Entry
    <3> QED
      BY <3>1, <3>2
  <2> QED
    BY <2>20, <2>22, <2>23, <2>24 DEF r, i
<1> QED
  BY <1>4, <1>5

\* The map of sound tables, page by page.
LEMMA FlattenFacts ==
    ASSUME NEW m, Sound(m)
    PROVE  /\ \A a : a \in DOMAIN Flatten(m) <=> a \in AllPages /\ E1(m, a).p
           /\ \A a \in DOMAIN Flatten(m) : Flatten(m)[a] = Says(E1(m, a), a)
<1>1. PICK pos : Tree(m, pos)
  BY DEF Sound
<1>2. UserPath(m)
  BY DEF Sound
<1>3. Flatten(m) = [a \in {b \in AllPages : E1(m, b).p} |-> Says(E1(m, a), a)]
  BY <1>1, <1>2, FlattenIs
<1> QED
  BY <1>3

\* One after the other.
LEMMA KeptTrans ==
    ASSUME NEW m, NEW r, NEW s, Sound(m), Kept(m, r), Kept(r, s)
    PROVE  Kept(m, s)
<1>1. m \in States /\ r \in States /\ s \in States
  BY DEF Kept, Sound
<1>2. Grows(m, s)
  BY <1>1, GrowsTrans DEF Kept
<1> QED
  BY <1>2 DEF Kept

\* next_level, whatever it finds; a page table is made in the window only.
LEMMA NextLevelStep ==
    ASSUME NEW m, Sound(m), NEW a \in AllPages, NEW l \in 2 .. 4, NEW tab,
           OnWalk(m, a, l, tab), NEW user \in BOOLEAN, user => UserAbove(m, a, l),
           l = 2 => /\ ~m.mem[tab][Index(a, l)].ps
                    /\ m.mem[tab][Index(a, l)].p \/ a \in Window
    PROVE  KeptTo(m, next_level(m, tab, Index(a, l), user), a, l - 1, user)
<1> DEFINE e == m.mem[tab][Index(a, l)]
           r == next_level(m, tab, Index(a, l), user)
<1>1. PICK pos : Tree(m, pos)
  BY DEF Sound
<1>2. ~e.ps
  <2>1. /\ l = 4 => e = E4(m, a)
        /\ l = 3 => e = E3(m, a)
    BY WalkEntry
  <2>2. WalkOK(m, pos, a)
    BY <1>1, WalkFacts
  <2>3. l = 4 \/ l = 3 \/ l = 2
    OBVIOUS
  <2> HIDE DEF e
  <2>4. l = 2 => ~e.ps
    BY DEF e
  <2> QED
    BY <2>1, <2>2, <2>3, <2>4, Zenon DEF WalkOK
<1>3. CASE ~e.p
  <2>1. r = FreshTable(m, tab, Index(a, l), Flags(TRUE, user, FALSE))
    BY <1>3 DEF next_level
  <2>2. ~m.mem[tab][Index(a, l)].p /\ (l = 2 => a \in Window)
    BY <1>3
  <2>3. KeptTo(m, FreshTable(m, tab, Index(a, l), Flags(TRUE, user, FALSE)), a, l - 1, user)
    BY <2>2, FreshStep
  <2> QED
    BY <2>1, <2>3
<1>4. CASE e.p
  <2>1. m.mem[tab][Index(a, l)].p /\ ~m.mem[tab][Index(a, l)].ps
    BY <1>2, <1>4
  <2> HIDE DEF e
  <2>2. /\ Sound(r) /\ Grows(m, r) /\ Flatten(r) = Flatten(m)
        /\ r.ret # 0 /\ OnWalk(r, a, l - 1, r.ret)
        /\ user => UserAbove(r, a, l - 1)
    BY <2>1, OpenStep
  <2> QED
    BY <2>2 DEF KeptTo, Kept
<1> QED
  BY <1>3, <1>4

\* The page directory of a page.
LEMMA PageDirStep ==
    ASSUME NEW m, Sound(m), NEW a \in AllPages, NEW user \in BOOLEAN
    PROVE  KeptTo(m, page_dir(m, a, user), a, 2, user)
<1> DEFINE n == next_level(m, m.pml4, Index(a, 4), user)
           r == next_level(n, n.ret, Index(a, 3), user)
<1>1. OnWalk(m, a, 4, m.pml4) /\ UserAbove(m, a, 4)
  BY DEF OnWalk, UserAbove
<1>2. KeptTo(m, n, a, 3, user)
  <2>1. /\ 4 \in 2 .. 4 /\ 4 - 1 = 3 /\ ~(4 = 2)
    OBVIOUS
  <2>2. KeptTo(m, n, a, 4 - 1, user)
    BY <1>1, <2>1, NextLevelStep
  <2> QED
    BY <2>1, <2>2
<1>3. page_dir(m, a, user) = IF n.ret = 0 THEN n ELSE r
  BY DEF page_dir, Then
<1>4. CASE n.ret = 0
  BY <1>2, <1>3, <1>4 DEF KeptTo
<1>5. CASE n.ret # 0
  <2> HIDE DEF n
  <2>1. Kept(m, n) /\ OnWalk(n, a, 3, n.ret) /\ (user => UserAbove(n, a, 3))
    BY <1>2, <1>5 DEF KeptTo
  <2>2. Sound(n)
    BY <2>1 DEF Kept
  <2>3. KeptTo(n, r, a, 2, user)
    <3>1. /\ 3 \in 2 .. 4 /\ 3 - 1 = 2 /\ ~(3 = 2)
      OBVIOUS
    <3>2. KeptTo(n, r, a, 3 - 1, user)
      BY <2>1, <2>2, <3>1, NextLevelStep
    <3> QED
      BY <3>1, <3>2
  <2> HIDE DEF r
  <2>4. Kept(m, r)
    BY <2>1, <2>3, KeptTrans DEF KeptTo
  <2> QED
    BY <1>3, <1>5, <2>3, <2>4 DEF KeptTo
<1> QED
  BY <1>4, <1>5

\* The page table of a page, where a large page was, too.
LEMMA PtForStep ==
    ASSUME NEW m, Sound(m), NEW a \in AllPages, NEW user \in BOOLEAN,
           a \in Window \/ a \in DOMAIN Flatten(m)
    PROVE  KeptTo(m, pt_for(m, a, user), a, 1, user)
<1> DEFINE n == page_dir(m, a, user)
           i == Index(a, 2)
           e == n.mem[n.ret][i]
           s == IF e.p /\ e.ps THEN Split(n, n.ret, i, user) ELSE n
           r == IF s.ret = 0 THEN s ELSE next_level(s, n.ret, i, user)
<1>1. KeptTo(m, n, a, 2, user)
  BY PageDirStep
<1>2. pt_for(m, a, user) = IF n.ret = 0 THEN n ELSE r
  BY Zenon DEF pt_for, Then
<1>3. CASE n.ret = 0
  BY <1>1, <1>2, <1>3 DEF KeptTo
<1>4. CASE n.ret # 0
  <2>1. Kept(m, n) /\ OnWalk(n, a, 2, n.ret) /\ (user => UserAbove(n, a, 2))
    BY <1>1, <1>4 DEF KeptTo
  <2>2. Sound(n) /\ Flatten(n) = Flatten(m)
    BY <2>1 DEF Kept
  <2>3. PICK pos : Tree(n, pos)
    BY <2>2 DEF Sound
  <2>4. e = E2(n, a) /\ WalkOK(n, pos, a)
    BY <2>1, <2>3, WalkEntry, WalkFacts
  <2>5. a \in Window \/ e.p
    <3>1. a \in DOMAIN Flatten(n) => E1(n, a).p
      BY <2>2, FlattenFacts
    <3> QED
      BY <2>2, <2>4, <3>1 DEF WalkOK
  <2>6. e.ps => e.p
    BY <2>4 DEF WalkOK
  <2>7. CASE ~e.ps
    <3>1. s = n
      BY <2>7
    <3>2. r = next_level(n, n.ret, Index(a, 2), user)
      BY <1>4, <3>1
    <3>3. KeptTo(n, next_level(n, n.ret, Index(a, 2), user), a, 1, user)
      <4>1. /\ 2 \in 2 .. 4 /\ 2 - 1 = 1
        OBVIOUS
      <4>2. /\ ~n.mem[n.ret][Index(a, 2)].ps
            /\ n.mem[n.ret][Index(a, 2)].p \/ a \in Window
        BY <2>5, <2>7
      <4> HIDE DEF n
      <4>3. KeptTo(n, next_level(n, n.ret, Index(a, 2), user), a, 2 - 1, user)
        BY <2>1, <2>2, <4>1, <4>2, NextLevelStep
      <4> QED
        BY <4>1, <4>3
    <3> HIDE DEF n, r
    <3>4. Kept(m, r)
      BY <2>1, <3>2, <3>3, KeptTrans DEF KeptTo
    <3> QED
      BY <1>2, <1>4, <3>2, <3>3, <3>4 DEF KeptTo
  <2>8. CASE e.ps
    <3>1. s = Split(n, n.ret, Index(a, 2), user)
      BY <2>6, <2>8
    <3>2. n.mem[n.ret][Index(a, 2)].ps
      BY <2>8
    <3> HIDE DEF n, e
    <3> DEFINE z == Split(n, n.ret, Index(a, 2), user)
    <3>3. /\ KeptTo(n, z, a, 1, user)
          /\ z.ret # 0 => /\ OnWalk(z, a, 2, n.ret) /\ (user => UserAbove(z, a, 2))
                          /\ z.mem[n.ret][Index(a, 2)].p /\ ~z.mem[n.ret][Index(a, 2)].ps
      BY <2>1, <2>2, <3>2, SplitStep
    <3> DEFINE y == next_level(z, n.ret, Index(a, 2), user)
    <3>4. r = IF z.ret = 0 THEN z ELSE y
      BY <3>1
    <3>5. Kept(m, z) /\ Sound(z)
      BY <2>1, <3>3, KeptTrans DEF KeptTo, Kept
    <3> HIDE DEF z, r
    <3>6. CASE z.ret = 0
      <4>1. KeptTo(m, z, a, 1, user)
        BY <3>5, <3>6 DEF KeptTo
      <4> QED
        BY <1>2, <1>4, <3>4, <3>6, <4>1
    <3>7. CASE z.ret # 0
      <4>1. /\ 2 \in 2 .. 4 /\ 2 - 1 = 1
        OBVIOUS
      <4>2. OnWalk(z, a, 2, n.ret) /\ (user => UserAbove(z, a, 2))
            /\ z.mem[n.ret][Index(a, 2)].p /\ ~z.mem[n.ret][Index(a, 2)].ps
        BY <3>3, <3>7
      <4> DEFINE t == n.ret
      <4>3. OnWalk(z, a, 2, t) /\ (user => UserAbove(z, a, 2))
            /\ ~z.mem[t][Index(a, 2)].ps
            /\ (z.mem[t][Index(a, 2)].p \/ a \in Window)
        BY <4>2
      <4>4. y = next_level(z, t, Index(a, 2), user)
        OBVIOUS
      <4> HIDE DEF t, y
      <4>5. KeptTo(z, next_level(z, t, Index(a, 2), user), a, 2 - 1, user)
        BY <3>5, <4>1, <4>3, NextLevelStep
      <4>6. KeptTo(z, y, a, 1, user)
        BY <4>1, <4>4, <4>5
      <4>7. Kept(m, y)
        BY <3>5, <4>6, KeptTrans DEF KeptTo
      <4>8. KeptTo(m, y, a, 1, user)
        BY <4>6, <4>7 DEF KeptTo
      <4> QED
        BY <1>2, <1>4, <3>4, <3>7, <4>8
    <3> QED
      BY <3>6, <3>7
  <2> QED
    BY <2>7, <2>8
<1> QED
  BY <1>3, <1>4

-----------------------------------------------------------------------------
(* Writing a mapping.                                                      *)

\* r is m with e as the last entry of the walks to a's piece of level l
Written(m, r, a, l, e) ==
    /\ Sound(r) /\ Grows(m, r) /\ r.ret = 1
    /\ r.at = m.at /\ r.blocks = m.blocks /\ DOMAIN r.mem = DOMAIN m.mem
    /\ \A b \in AllPages : E1(r, b) = IF Num(b, l) = Num(a, l) THEN e ELSE E1(m, b)

\* What Put does to the state.
LEMMA PutIs ==
    ASSUME NEW m \in States, NEW pos, Tree(m, pos), NEW tab \in DOMAIN m.mem,
           NEW i \in 0 .. (Fan - 1), NEW e \in EntryT, NEW r, r = Put(m, tab, i, e)
    PROVE  /\ r \in States /\ r.at = m.at /\ r.blocks = m.blocks /\ r.pml4 = m.pml4
           /\ r.nx = m.nx /\ r.ret = 1 /\ r.mem = [m.mem EXCEPT ![tab][i] = e]
<1> DEFINE t == [m.mem EXCEPT ![tab][i] = e]
           s == [m EXCEPT !.mem = t, !.ret = 1]
<1>1. t = [m.mem EXCEPT ![tab][i] = e]
  OBVIOUS
<1>2. s = [m EXCEPT !.mem = t, !.ret = 1]
  OBVIOUS
<1>3. r = s
  BY DEF Put
<1> HIDE DEF t, s
<1>4. Writes(m, t, tab, i, e)
  BY <1>1, PutMem
<1>5. t \in Mems
  BY <1>4 DEF Writes
<1>6. s \in States
  BY <1>2, <1>5 DEF States
<1>7. s.at = m.at /\ s.blocks = m.blocks /\ s.pml4 = m.pml4
      /\ s.nx = m.nx /\ s.ret = 1 /\ s.mem = t
  BY <1>2 DEF States
<1> QED
  BY <1>1, <1>3, <1>6, <1>7

\* A last entry written: a page's, or a large page's.
LEMMA PutEntry ==
    ASSUME NEW m, Sound(m), NEW pos, Tree(m, pos), NEW a \in AllPages, NEW l \in {1, 2}, NEW tab,
           OnWalk(m, a, l, tab), NEW e, Suits(m, pos, e, a, l),
           l = 2 => e.ps, l = 1 => e.p \/ a \in Window,
           e.p /\ e.u => UserAbove(m, a, l)
    PROVE  Written(m, Put(m, tab, Index(a, l), e), a, l, e)
<1> DEFINE i == Index(a, l)
           r == Put(m, tab, i, e)
<1>1. m \in States /\ l \in 1 .. 4 /\ e \in EntryT
  BY DEF Sound, Suits
<1>2. tab \in DOMAIN m.mem /\ i \in 0 .. (Fan - 1)
  BY <1>1, OnWalkPos, SlotNum
<1>3. r = Put(m, tab, i, e)
  OBVIOUS
<1> HIDE DEF i, r
<1>4. /\ r \in States /\ r.at = m.at /\ r.blocks = m.blocks /\ r.pml4 = m.pml4
      /\ r.nx = m.nx /\ r.ret = 1 /\ r.mem = [m.mem EXCEPT ![tab][i] = e]
  BY <1>1, <1>2, <1>3, PutIs
<1>5. /\ HeapOK(r) /\ Grows(m, r) /\ \A t \in DOMAIN r.mem : OwnPage(r, t)
      /\ DOMAIN r.mem = DOMAIN m.mem
      /\ Tree(r, pos) /\ Edit(m, r, tab, Index(a, l), e)
  BY <1>1, <1>4, PutStep DEF i
<1>6. ASSUME NEW b \in AllPages, Num(b, l) # Num(a, l)
      PROVE  ReadsSame(m, r, b)
  BY <1>1, <1>5, <1>6, EditElsewhere
<1>7. ASSUME NEW b \in AllPages, Num(b, l) = Num(a, l)
      PROVE  ReadsAt(m, r, b, l, e) /\ E1(r, b) = e
  <2>1. OnWalk(m, b, l, tab) /\ Index(b, l) = Index(a, l)
    BY <1>1, <1>7, SameTable
  <2>2. Edit(m, r, tab, Index(b, l), e)
    BY <1>5, <2>1
  <2>3. ReadsAt(m, r, b, l, e)
    BY <1>1, <2>1, <2>2, EditHere
  <2>4. CASE l = 1
    BY <2>3, <2>4 DEF ReadsAt
  <2>5. CASE l = 2
    BY <2>3, <2>5 DEF ReadsAt, E1
  <2> QED
    BY <2>3, <2>4, <2>5
<1>8. \A b \in AllPages : E1(r, b) = IF Num(b, l) = Num(a, l) THEN e ELSE E1(m, b)
  BY <1>6, <1>7 DEF ReadsSame
<1>9. UserPath(r)
  <2> SUFFICES ASSUME NEW b \in AllPages, E1(r, b).p, E1(r, b).u
               PROVE  E4(r, b).u /\ E3(r, b).u /\ E2(r, b).u
    BY DEF UserPath
  <2>1. CASE Num(b, l) # Num(a, l)
    <3>1. ReadsSame(m, r, b) /\ UserPath(m)
      BY <1>6, <2>1 DEF Sound
    <3> QED
      BY <3>1, Zenon DEF ReadsSame, UserPath
  <2>2. CASE Num(b, l) = Num(a, l)
    <3>1. ReadsAt(m, r, b, l, e) /\ e.p /\ e.u
      BY <1>7, <2>2
    <3>2. l = 1
      <4>1. CASE l = 2
        <5>1. e.ps
          BY <4>1
        <5>2. ~e.u
          BY <5>1 DEF Suits
        <5> QED
          BY <3>1, <5>2
      <4> QED
        BY <4>1
    <3>3. a = b
      BY <2>2, <3>2, SameWalk
    <3>4. UserAbove(m, a, 1)
      BY <3>1, <3>2
    <3>5. E4(m, a).u /\ E3(m, a).u /\ E2(m, a).u
      BY <3>4, UserAboveAt, Zenon
    <3>6. E4(r, b) = E4(m, b) /\ E3(r, b) = E3(m, b) /\ E2(r, b) = E2(m, b)
      BY <3>1, <3>2 DEF ReadsAt
    <3> QED
      BY <3>3, <3>5, <3>6
  <2> QED
    BY <2>1, <2>2
<1>10. Full(r)
  <2> SUFFICES ASSUME NEW b \in AllPages \ Window, E2(r, b).p
               PROVE  E1(r, b).p
    BY DEF Full
  <2>1. CASE Num(b, l) # Num(a, l)
    <3>1. ReadsSame(m, r, b) /\ Full(m)
      BY <1>6, <2>1 DEF Sound
    <3> QED
      BY <3>1, Zenon DEF ReadsSame, Full
  <2>2. CASE Num(b, l) = Num(a, l)
    <3>1. E1(r, b) = e
      BY <1>7, <2>2
    <3>2. CASE l = 1
      <4>1. a = b
        BY <2>2, <3>2, SameWalk
      <4> QED
        BY <3>1, <3>2, <4>1
    <3>3. CASE l = 2
      <4>1. e.ps
        BY <3>3
      <4>2. e.p
        BY <4>1 DEF Suits
      <4> QED
        BY <3>1, <4>2
    <3> QED
      BY <3>2, <3>3
  <2> QED
    BY <2>1, <2>2
<1>11. Sound(r)
  BY <1>4, <1>5, <1>9, <1>10 DEF Sound
<1> QED
  BY <1>4, <1>5, <1>8, <1>11 DEF Written, r, i

\* The maps agree outside S.
Changes(F, G, S) ==
    /\ \A b : b \notin S => (b \in DOMAIN G <=> b \in DOMAIN F)
    /\ \A b \in DOMAIN F : b \notin S => G[b] = F[b]

\* the pages of a's piece of level l
Piece(a, l) == {b \in AllPages : Num(b, l) = Num(a, l)}

\* What a written entry does to the map.
LEMMA WrittenFlat ==
    ASSUME NEW m, Sound(m), NEW r, NEW a \in AllPages, NEW l, NEW e, Written(m, r, a, l, e)
    PROVE  /\ Changes(Flatten(m), Flatten(r), Piece(a, l))
           /\ \A b \in Piece(a, l) :
                 /\ b \in DOMAIN Flatten(r) <=> e.p
                 /\ e.p => Flatten(r)[b] = Says(e, b)
<1>1. Sound(r)
  BY DEF Written
<1>2. \A b \in AllPages : E1(r, b) = IF Num(b, l) = Num(a, l) THEN e ELSE E1(m, b)
  BY DEF Written
<1> DEFINE F == Flatten(m)
           G == Flatten(r)
<1>3. /\ \A b : b \in DOMAIN F <=> b \in AllPages /\ E1(m, b).p
      /\ \A b \in DOMAIN F : F[b] = Says(E1(m, b), b)
  BY FlattenFacts
<1>4. /\ \A b : b \in DOMAIN G <=> b \in AllPages /\ E1(r, b).p
      /\ \A b \in DOMAIN G : G[b] = Says(E1(r, b), b)
  BY <1>1, FlattenFacts
<1> HIDE DEF F, G
<1>5. \A b : b \in Piece(a, l) <=> b \in AllPages /\ Num(b, l) = Num(a, l)
  BY DEF Piece
<1>6. ASSUME NEW b, b \notin Piece(a, l)
      PROVE  b \in DOMAIN G <=> b \in DOMAIN F
  BY <1>2, <1>3, <1>4, <1>5, <1>6
<1>7. ASSUME NEW b \in DOMAIN F, b \notin Piece(a, l)
      PROVE  G[b] = F[b]
  <2>1. b \in DOMAIN G /\ b \in AllPages
    BY <1>3, <1>6, <1>7
  <2>2. E1(r, b) = E1(m, b)
    BY <1>2, <1>5, <1>7, <2>1
  <2> QED
    BY <1>3, <1>4, <2>1, <2>2
<1>8. ASSUME NEW b \in Piece(a, l)
      PROVE  /\ b \in DOMAIN G <=> e.p
             /\ e.p => G[b] = Says(e, b)
  <2>1. b \in AllPages /\ E1(r, b) = e
    BY <1>2, <1>5, <1>8
  <2> QED
    BY <1>4, <2>1
<1> QED
  BY <1>6, <1>7, <1>8 DEF Changes, F, G

\* what an entry for the frame pa says of it
Small(pa, f) == [frame |-> pa, w |-> f.w, u |-> f.u, x |-> ~f.nx]

\* r is m with a mapped to pa, or as much of the way there as there was memory for
MapsPage(m, r, a, pa, f) ==
    /\ Sound(r) /\ Grows(m, r)
    /\ r.ret = 0 => Flatten(r) = Flatten(m) /\ Dry(r)
    /\ r.ret # 0 => /\ Changes(Flatten(m), Flatten(r), {a})
                    /\ a \in DOMAIN Flatten(r) /\ Flatten(r)[a] = Small(pa, f)

\* map_4k: in the window, or where a page was mapped before.
LEMMA Map4kStep ==
    ASSUME NEW m, Sound(m), NEW a \in AllPages, NEW pa \in Nat,
           NEW f \in [w : BOOLEAN, u : BOOLEAN, nx : BOOLEAN],
           NEW user \in BOOLEAN, f.u => user, a \in Window \/ a \in DOMAIN Flatten(m)
    PROVE  MapsPage(m, map_4k(m, a, pa, f, user), a, pa, f)
<1> DEFINE n == pt_for(m, a, user)
           e == Entry(pa, f)
           r == Put(n, n.ret, Index(a, 1), e)
<1>1. KeptTo(m, n, a, 1, user)
  BY PtForStep
<1>2. map_4k(m, a, pa, f, user) = IF n.ret = 0 THEN n ELSE r
  BY Zenon DEF map_4k, Then
<1>3. CASE n.ret = 0
  BY <1>1, <1>2, <1>3 DEF KeptTo, Kept, MapsPage
<1>4. CASE n.ret # 0
  <2>1. Kept(m, n) /\ OnWalk(n, a, 1, n.ret) /\ (user => UserAbove(n, a, 1))
    BY <1>1, <1>4 DEF KeptTo
  <2>2. Sound(n) /\ Flatten(n) = Flatten(m) /\ Grows(m, n)
    BY <2>1 DEF Kept
  <2>3. PICK pos : Tree(n, pos)
    BY <2>2 DEF Sound
  <2>4. e \in EntryT /\ e.p /\ ~e.ps /\ (e.u <=> f.u)
    BY DEF Entry, EntryT
  <2>5. Small(pa, f) = Says(e, a)
    BY DEF Small, Says, Entry
  <2> HIDE DEF n, e, r
  <2>6. Suits(n, pos, e, a, 1)
    BY <2>4 DEF Suits
  <2>7. Written(n, r, a, 1, e)
    <3> DEFINE t == n.ret
    <3>1. OnWalk(n, a, 1, t)
      BY <2>1
    <3>2. r = Put(n, t, Index(a, 1), e)
      BY DEF r
    <3>3. e.p /\ e.u => UserAbove(n, a, 1)
      BY <2>1, <2>4
    <3>4. 1 = 2 => e.ps
      OBVIOUS
    <3>5. 1 = 1 => e.p \/ a \in Window
      BY <2>4
    <3>6. 1 \in {1, 2}
      OBVIOUS
    <3> HIDE DEF t
    <3>7. Written(n, Put(n, t, Index(a, 1), e), a, 1, e)
      BY <2>2, <2>3, <2>6, <3>1, <3>3, <3>4, <3>5, <3>6, PutEntry
    <3> QED
      BY <3>2, <3>7
  <2>8. /\ Changes(Flatten(n), Flatten(r), Piece(a, 1))
        /\ \A b \in Piece(a, 1) :
              /\ b \in DOMAIN Flatten(r) <=> e.p
              /\ e.p => Flatten(r)[b] = Says(e, b)
    BY <2>2, <2>7, WrittenFlat
  <2>9. Piece(a, 1) = {a}
    <3>1. \A b \in AllPages : Num(b, 1) = Num(a, 1) => b = a
      BY SameWalk
    <3> QED
      BY <3>1 DEF Piece
  <2>10. Sound(r) /\ Grows(n, r) /\ r.ret = 1
    BY <2>7 DEF Written
  <2>11. Grows(m, r)
    BY <2>2, <2>10, GrowsTrans DEF Sound
  <2>12. r.ret # 0
    BY <2>10
  <2>13. a \in DOMAIN Flatten(r) /\ Flatten(r)[a] = Small(pa, f)
    BY <2>4, <2>5, <2>8, <2>9
  <2> QED
    BY <1>2, <1>4, <2>2, <2>8, <2>9, <2>10, <2>11, <2>12, <2>13 DEF MapsPage
<1> QED
  BY <1>3, <1>4

\* r is m with the pages of S mapped to themselves, or no page more
MapsPlain(m, r, S) ==
    /\ Sound(r) /\ Grows(m, r)
    /\ r.ret = 0 => Flatten(r) = Flatten(m) /\ Dry(r)
    /\ r.ret # 0 => /\ Changes(Flatten(m), Flatten(r), S)
                    /\ \A b \in S : b \in DOMAIN Flatten(r) /\ Flatten(r)[b] = Plain(b, m.nx)

\* A large page put into the page directory of a, that the walk has reached.
LEMMA PutHugeStep ==
    ASSUME NEW m, Sound(m), NEW a \in AllPages, a = Num(a, 2) * Span(2),
           NEW tab, OnWalk(m, a, 2, tab)
    PROVE  MapsPlain(m, Put(m, tab, Index(a, 2), Huge(a, Data(m))), Piece(a, 2))
           /\ Put(m, tab, Index(a, 2), Huge(a, Data(m))).ret = 1
<1> DEFINE e == Huge(a, Data(m))
           r == Put(m, tab, Index(a, 2), e)
<1>1. PICK pos : Tree(m, pos)
  BY DEF Sound
<1>2. a \in Nat /\ m.nx \in BOOLEAN
  BY PageNumbers DEF Sound, States
<1>3. /\ e \in EntryT /\ e.p /\ e.ps /\ ~e.u /\ e.addr = a
      /\ e.w = TRUE /\ e.u = FALSE /\ e.nx = m.nx
  BY <1>2 DEF Huge, Entry, Data, Flags, EntryT
<1>4. \A b : Says(e, b) = Plain(b, m.nx)
  BY <1>3 DEF Says, Plain
<1> HIDE DEF e
<1>5. Suits(m, pos, e, a, 2)
  BY <1>3 DEF Suits
<1>6. Written(m, r, a, 2, e)
  <2>1. e.p /\ e.u => UserAbove(m, a, 2)
    BY <1>3
  <2>2. 2 = 2 => e.ps
    BY <1>3
  <2>3. 2 = 1 => e.p \/ a \in Window
    OBVIOUS
  <2>4. 2 \in {1, 2}
    OBVIOUS
  <2> QED
    BY <1>1, <1>5, <2>1, <2>2, <2>3, <2>4, PutEntry
<1> HIDE DEF r
<1>7. /\ Changes(Flatten(m), Flatten(r), Piece(a, 2))
      /\ \A b \in Piece(a, 2) :
            /\ b \in DOMAIN Flatten(r) <=> e.p
            /\ e.p => Flatten(r)[b] = Says(e, b)
  BY <1>6, WrittenFlat
<1>8. \A b \in Piece(a, 2) : b \in DOMAIN Flatten(r) /\ Flatten(r)[b] = Plain(b, m.nx)
  BY <1>3, <1>4, <1>7
<1>9. Sound(r) /\ Grows(m, r) /\ r.ret = 1 /\ r.ret # 0
  BY <1>6 DEF Written
<1> QED
  BY <1>7, <1>8, <1>9 DEF MapsPlain, r, e

\* After a walk that keeps the map.
LEMMA KeptThenPlain ==
    ASSUME NEW m, NEW n, NEW r, NEW S, Sound(m), Kept(m, n), MapsPlain(n, r, S)
    PROVE  MapsPlain(m, r, S)
<1>1. m \in States /\ n \in States /\ r \in States /\ Grows(m, n) /\ Grows(n, r)
  BY DEF Kept, MapsPlain, Sound
<1>2. Grows(m, r)
  BY <1>1, GrowsTrans
<1>3. n.nx = m.nx /\ Flatten(n) = Flatten(m)
  BY DEF Kept, Grows
<1> QED
  BY <1>2, <1>3 DEF MapsPlain

\* map_2m, as paging_init calls it.
LEMMA Map2mStep ==
    ASSUME NEW m, Sound(m), NEW a \in AllPages, a = Num(a, 2) * Span(2)
    PROVE  MapsPlain(m, map_2m(m, a, Data(m)), Piece(a, 2))
<1> DEFINE n == page_dir(m, a, FALSE)
           r == Put(n, n.ret, Index(a, 2), Huge(a, Data(m)))
<1>1. KeptTo(m, n, a, 2, FALSE)
  BY PageDirStep
<1>2. map_2m(m, a, Data(m)) = IF n.ret = 0 THEN n ELSE r
  BY Zenon DEF map_2m, Then
<1>3. CASE n.ret = 0
  BY <1>1, <1>2, <1>3 DEF KeptTo, Kept, MapsPlain
<1>4. CASE n.ret # 0
  <2>1. Kept(m, n) /\ OnWalk(n, a, 2, n.ret)
    BY <1>1, <1>4 DEF KeptTo
  <2>2. Sound(n) /\ n.nx = m.nx
    BY <2>1 DEF Kept, Grows
  <2>3. Data(n) = Data(m)
    BY <2>2 DEF Data
  <2> DEFINE t == n.ret
  <2>4. r = Put(n, t, Index(a, 2), Huge(a, Data(n))) /\ OnWalk(n, a, 2, t)
    BY <2>1, <2>3
  <2> HIDE DEF n, r, t
  <2>5. MapsPlain(n, Put(n, t, Index(a, 2), Huge(a, Data(n))), Piece(a, 2))
    BY <2>2, <2>4, PutHugeStep
  <2>6. MapsPlain(n, r, Piece(a, 2))
    BY <2>4, <2>5
  <2>7. MapsPlain(m, r, Piece(a, 2))
    BY <2>1, <2>6, KeptThenPlain
  <2> QED
    BY <1>2, <1>4, <2>7
<1> QED
  BY <1>3, <1>4

\* one turn of vm_ensure_identity
EnsureTurn(n, a) ==
    Then(page_dir(n, a, FALSE), LAMBDA o :
         IF o.mem[o.ret][Index(a, 2)].p THEN o
         ELSE Put(o, o.ret, Index(a, 2), Huge(a, Data(o))))

\* What is mapped is left alone: a large page, or a split one, mapped in full.
LEMMA EnsureTurnStep ==
    ASSUME NEW m, Sound(m), NEW a \in AllPages \ Window, a = Num(a, 2) * Span(2)
    PROVE  MapsPlain(m, EnsureTurn(m, a), Piece(a, 2) \ DOMAIN Flatten(m))
<1> DEFINE n == page_dir(m, a, FALSE)
           p == n.mem[n.ret][Index(a, 2)].p
           r == Put(n, n.ret, Index(a, 2), Huge(a, Data(n)))
           S == Piece(a, 2) \ DOMAIN Flatten(m)
<1>1. KeptTo(m, n, a, 2, FALSE)
  BY PageDirStep
<1>2. EnsureTurn(m, a) = IF n.ret = 0 THEN n ELSE IF p THEN n ELSE r
  BY Zenon DEF EnsureTurn, Then
<1>3. CASE n.ret = 0
  BY <1>1, <1>2, <1>3 DEF KeptTo, Kept, MapsPlain
<1>4. CASE n.ret # 0
  <2>1. Kept(m, n) /\ OnWalk(n, a, 2, n.ret)
    BY <1>1, <1>4 DEF KeptTo
  <2>2. Sound(n) /\ Flatten(n) = Flatten(m) /\ Grows(m, n)
    BY <2>1 DEF Kept
  <2>3. PICK pos : Tree(n, pos)
    BY <2>2 DEF Sound
  <2>4. p <=> E2(n, a).p
    <3> DEFINE t == n.ret
    <3>1. OnWalk(n, a, 2, t) /\ (p <=> n.mem[t][Index(a, 2)].p)
      BY <2>1
    <3> HIDE DEF n, t, p
    <3>2. E2(n, a) = n.mem[t][Index(a, 2)]
      BY <3>1, WalkEntry
    <3> QED
      BY <3>1, <3>2
  <2>5. \A b : b \in DOMAIN Flatten(m) <=> b \in AllPages /\ E1(n, b).p
    BY <2>2, FlattenFacts
  <2>6. \A b \in Piece(a, 2) : b \in AllPages /\ b \notin Window /\ E2(n, b) = E2(n, a)
    <3> HIDE DEF n
    <3>1. a \in AllPages /\ a \notin Window
      OBVIOUS
    <3>2. ASSUME NEW b \in AllPages, Num(b, 2) = Num(a, 2)
          PROVE  b \notin Window /\ E2(n, b) = E2(n, a)
      BY <3>1, <3>2, WindowPieces, SameWalk
    <3> QED
      BY <3>2 DEF Piece
  <2>7. CASE p
    <3>1. \A b \in Piece(a, 2) : E1(n, b).p
      BY <2>2, <2>4, <2>6, <2>7 DEF Sound, Full
    <3>2. S = {}
      BY <2>5, <2>6, <3>1
    <3>3. Changes(Flatten(m), Flatten(n), S)
      BY <2>2 DEF Changes
    <3> HIDE DEF n
    <3>4. MapsPlain(m, n, S)
      BY <1>4, <2>2, <3>2, <3>3 DEF MapsPlain
    <3> QED
      BY <1>2, <1>4, <2>7, <3>4
  <2>8. CASE ~p
    <3>1. \A b \in Piece(a, 2) : ~E1(n, b).p
      <4>1. TAKE b \in Piece(a, 2)
      <4>2. WalkOK(n, pos, b)
        BY <2>3, <2>6, WalkFacts
      <4> QED
        BY <2>4, <2>6, <2>8, <4>2 DEF WalkOK
    <3>2. S = Piece(a, 2)
      BY <2>5, <3>1
    <3> DEFINE t == n.ret
    <3>3. r = Put(n, t, Index(a, 2), Huge(a, Data(n))) /\ OnWalk(n, a, 2, t)
      BY <2>1
    <3> HIDE DEF n, r, t
    <3>4. MapsPlain(n, Put(n, t, Index(a, 2), Huge(a, Data(n))), Piece(a, 2))
      BY <2>2, <3>3, PutHugeStep
    <3>5. MapsPlain(n, r, S)
      BY <3>2, <3>3, <3>4
    <3>6. MapsPlain(m, r, S)
      BY <2>1, <3>5, KeptThenPlain
    <3> QED
      BY <1>2, <1>4, <2>8, <3>6
  <2> QED
    BY <2>7, <2>8
<1> QED
  BY <1>3, <1>4

-----------------------------------------------------------------------------
(* The pages of a program.                                                 *)

\* one turn of load_segment
LoadTurn(n, s, va) == Then(kalloc_page(n), LAMBDA o : vm_user_map(o, va, o.ret, s.w, s.x))

\* r is m with a fresh page for the user at a, or as much as there was memory for
GivesPage(m, r, a, w, x) ==
    /\ Sound(r) /\ Grows(m, r)
    /\ r.ret = 0 => Flatten(r) = Flatten(m) /\ Dry(r)
    /\ r.ret # 0 =>
          /\ Changes(Flatten(m), Flatten(r), {a}) /\ a \in DOMAIN Flatten(r)
          /\ \E f \in Nat : /\ OwnPage(r, f) /\ ~OwnPage(m, f) /\ f \notin DOMAIN r.mem
                            /\ Flatten(r)[a] = [frame |-> f, w |-> w, u |-> TRUE, x |-> x \/ ~m.nx]

\* A page of the heap mapped into the window: nobody else's, and no table.
LEMMA LoadTurnStep ==
    ASSUME NEW m, Sound(m), NEW a \in Window, NEW s, s.w \in BOOLEAN, s.x \in BOOLEAN
    PROVE  GivesPage(m, LoadTurn(m, s, a), a, s.w, s.x)
<1> DEFINE o == kalloc_page(m)
           f == Flags(s.w, TRUE, ~s.x /\ o.nx)
           r == map_4k(o, a, o.ret, f, TRUE)
<1>1. m \in States /\ HeapOK(m)
  BY DEF Sound
<1>2. /\ o \in States /\ HeapOK(o) /\ Grows(m, o) /\ o.mem = m.mem
      /\ o.ret # 0 => o.ret \in Nat /\ ~OwnPage(m, o.ret) /\ OwnPage(o, o.ret)
  BY <1>1, KallocStep
<1>3. a \in AllPages /\ ~(a < UserBase \/ a >= UserTop)
  <2>1. a \in AllPages /\ UserBase <= a /\ a < UserTop
    BY WindowFacts
  <2>2. a \in Nat /\ UserBase \in Nat /\ UserTop \in Nat
    BY <2>1, PageNumbers, WindowFacts
  <2> QED
    BY <2>1, <2>2
<1>4. LoadTurn(m, s, a) = IF o.ret = 0 THEN o ELSE r
  BY <1>3, Zenon DEF LoadTurn, Then, vm_user_map
<1>5. CASE o.ret = 0
  BY <1>4, <1>5, NoPageStep DEF Kept, GivesPage
<1>6. CASE o.ret # 0
  <2>1. Sound(o) /\ Flatten(o) = Flatten(m)
    BY <1>2, SoundSame
  <2>2. o.nx = m.nx /\ m.nx \in BOOLEAN
    BY <1>1, <1>2 DEF Grows, States
  <2>3. f \in [w : BOOLEAN, u : BOOLEAN, nx : BOOLEAN]
    BY <2>2 DEF Flags
  <2>4. f.w = s.w /\ f.u = TRUE /\ f.nx = (~s.x /\ m.nx)
    BY <2>2 DEF Flags
  <2> DEFINE pa == o.ret
  <2>5. pa \in Nat /\ ~OwnPage(m, pa) /\ OwnPage(o, pa) /\ r = map_4k(o, a, pa, f, TRUE)
    BY <1>2, <1>6
  <2> HIDE DEF o, f, r, pa
  <2>6. MapsPage(o, r, a, pa, f)
    <3>1. a \in Window \/ a \in DOMAIN Flatten(o)
      OBVIOUS
    <3>2. pa \in Nat
      BY <2>5
    <3>3. f.u => TRUE
      OBVIOUS
    <3>4. MapsPage(o, map_4k(o, a, pa, f, TRUE), a, pa, f)
      BY <1>3, <2>1, <2>3, <3>1, <3>2, <3>3, Map4kStep
    <3> QED
      BY <2>5, <3>4
  <2>7. Sound(r) /\ Grows(o, r)
    BY <2>6 DEF MapsPage
  <2>8. Grows(m, r)
    BY <1>1, <1>2, <2>7, GrowsTrans DEF Sound
  <2>9. OwnPage(r, pa)
    BY <2>5, <2>7 DEF Grows, OwnPage
  <2>10. pa \notin DOMAIN r.mem
    <3>1. pa \notin DOMAIN m.mem
      BY <2>5 DEF Sound
    <3>2. pa \notin DOMAIN o.mem
      BY <1>2, <3>1
    <3> QED
      BY <2>5, <2>7, <3>2 DEF Grows
  <2>11. Small(pa, f) = [frame |-> pa, w |-> s.w, u |-> TRUE, x |-> s.x \/ ~m.nx]
    <3>1. ~(~s.x /\ m.nx) = (s.x \/ ~m.nx)
      BY <2>2
    <3> QED
      BY <2>4, <3>1, Zenon DEF Small
  <2> QED
    BY <1>4, <1>6, <2>1, <2>5, <2>6, <2>7, <2>8, <2>9, <2>10, <2>11 DEF MapsPage, GivesPage
<1> QED
  BY <1>5, <1>6

\* one turn of vm_user_unmap_range
UnmapTurn(n, va) ==
    LET e2 == Under(n, Under(n, n.mem[n.pml4][Index(va, 4)], va, 3), va, 2)
    IN IF ~e2.p \/ e2.ps THEN n ELSE Put(n, e2.addr, Index(va, 1), NoEntry)

\* r is m without the pages of S, and with no other page gone
Unmaps(m, r, S) ==
    /\ Sound(r) /\ Grows(m, r) /\ r.at = m.at /\ r.blocks = m.blocks /\ DOMAIN r.mem = DOMAIN m.mem
    /\ Changes(Flatten(m), Flatten(r), S)
    /\ \A b \in S : b \notin DOMAIN Flatten(r)

\* The entry is cleared, where there is one: the window has no large page.
LEMMA UnmapTurnStep ==
    ASSUME NEW m, Sound(m), NEW a \in Window, a \in DOMAIN Flatten(m) => Flatten(m)[a].u
    PROVE  Unmaps(m, UnmapTurn(m, a), {a}) /\ (m.ret # 0 => UnmapTurn(m, a).ret # 0)
<1> DEFINE e == E2(m, a)
           t == e.addr
           r == Put(m, t, Index(a, 1), NoEntry)
<1>1. PICK pos : Tree(m, pos)
  BY DEF Sound
<1>2. a \in AllPages /\ m \in States
  BY WindowFacts DEF Sound
<1>3. WalkOK(m, pos, a)
  BY <1>1, <1>2, WalkFacts
<1>4. UnmapTurn(m, a) = IF ~e.p \/ e.ps THEN m ELSE r
  BY Zenon DEF UnmapTurn, E2, E3, E4
<1>5. /\ \A b : b \in DOMAIN Flatten(m) <=> b \in AllPages /\ E1(m, b).p
      /\ \A b \in DOMAIN Flatten(m) : Flatten(m)[b] = Says(E1(m, b), b)
  BY FlattenFacts
<1>6. CASE ~e.p \/ e.ps
  <2>1. a \notin DOMAIN Flatten(m)
    <3>1. CASE ~e.p
      BY <1>3, <1>5, <3>1 DEF WalkOK
    <3>2. CASE e.ps
      <4>1. E1(m, a) = e /\ ~e.u
        BY <1>3, <3>2 DEF WalkOK, E1
      <4>2. Says(E1(m, a), a).u = e.u
        BY <4>1 DEF Says
      <4> QED
        BY <1>5, <4>1, <4>2
    <3> QED
      BY <1>6, <3>1, <3>2
  <2>2. Changes(Flatten(m), Flatten(m), {a})
    BY DEF Changes
  <2> QED
    BY <1>2, <1>4, <1>6, <2>1, <2>2, GrowsRefl DEF Unmaps
<1>7. CASE e.p /\ ~e.ps
  <2>1. OnWalk(m, a, 1, t)
    BY <1>7 DEF OnWalk
  <2>2. Suits(m, pos, NoEntry, a, 1)
    BY NoEntryFacts DEF Suits
  <2> HIDE DEF t, e
  <2>3. Written(m, r, a, 1, NoEntry)
    <3>1. NoEntry.p /\ NoEntry.u => UserAbove(m, a, 1)
      BY NoEntryFacts
    <3>2. 1 = 2 => NoEntry.ps
      OBVIOUS
    <3>3. 1 = 1 => NoEntry.p \/ a \in Window
      OBVIOUS
    <3>4. 1 \in {1, 2}
      OBVIOUS
    <3> QED
      BY <1>1, <1>2, <2>1, <2>2, <3>1, <3>2, <3>3, <3>4, PutEntry
  <2> HIDE DEF r
  <2>4. /\ Changes(Flatten(m), Flatten(r), Piece(a, 1))
        /\ \A b \in Piece(a, 1) :
              /\ b \in DOMAIN Flatten(r) <=> NoEntry.p
              /\ NoEntry.p => Flatten(r)[b] = Says(NoEntry, b)
    BY <1>2, <2>3, WrittenFlat
  <2>5. Piece(a, 1) = {a}
    <3>1. \A b \in AllPages : Num(b, 1) = Num(a, 1) => b = a
      BY <1>2, SameWalk
    <3> QED
      BY <1>2, <3>1 DEF Piece
  <2>6. Changes(Flatten(m), Flatten(r), {a}) /\ a \notin DOMAIN Flatten(r)
    BY <2>4, <2>5, NoEntryFacts
  <2> QED
    BY <1>4, <1>7, <2>3, <2>6 DEF Written, Unmaps
<1> QED
  BY <1>6, <1>7

-----------------------------------------------------------------------------
(* Loops over pages.                                                       *)

\* The states in which an operation may begin or end.
Sounds == {m \in States : Sound(m)}

\* r is m with the pages of S mapped as T says, or as far as the memory lasted
Lays(m, r, S, T) ==
    /\ Sound(r) /\ Grows(m, r)
    /\ r.ret = 0 => Dry(r)
    /\ r.ret # 0 => /\ Changes(Flatten(m), Flatten(r), S)
                    /\ \A b \in S : b \in DOMAIN Flatten(r) /\ Flatten(r)[b] = T[b]

\* One after the other.
LEMMA LaysTrans ==
    ASSUME NEW m, Sound(m), NEW n, NEW r, NEW S, NEW Q, NEW T,
           Lays(m, n, S, T), n.ret # 0, Lays(n, r, Q, T)
    PROVE  Lays(m, r, S \cup Q, T)
<1>1. Sound(n) /\ Sound(r)
  BY DEF Lays
<1>2. m \in States /\ n \in States /\ r \in States
  BY <1>1 DEF Sound
<1>3. Grows(m, r)
  BY <1>2, GrowsTrans DEF Lays
<1>4. CASE r.ret = 0
  BY <1>1, <1>3, <1>4 DEF Lays
<1>5. CASE r.ret # 0
  <2> DEFINE F == Flatten(m)
             G == Flatten(n)
             H == Flatten(r)
  <2>1. /\ Changes(F, G, S) /\ Changes(G, H, Q)
        /\ \A b \in S : b \in DOMAIN G /\ G[b] = T[b]
        /\ \A b \in Q : b \in DOMAIN H /\ H[b] = T[b]
    BY <1>5 DEF Lays
  <2> HIDE DEF F, G, H
  <2>2. Changes(F, H, S \cup Q)
    BY <2>1, Zenon DEF Changes
  <2>3. \A b \in S \cup Q : b \in DOMAIN H /\ H[b] = T[b]
    BY <2>1, Zenon DEF Changes
  <2> QED
    BY <1>1, <1>3, <1>5, <2>2, <2>3 DEF Lays, F, H
<1> QED
  BY <1>4, <1>5

\* Nothing done.
LEMMA LaysNothing ==
    ASSUME NEW m, Sound(m), m.ret # 0, NEW T
    PROVE  Lays(m, m, {}, T)
  BY GrowsRefl DEF Lays, Changes, Sound

\* f is the run of a loop: the first turn that fails is the last.
Turns(f, n, P, T) ==
    /\ n \in Nat /\ Sound(f[0]) /\ f[0].ret # 0
    /\ \A i \in 1 .. n : IF f[i - 1].ret = 0 THEN f[i] = f[i - 1]
                         ELSE Lays(f[i - 1], f[i], P[i], T)

\* What a loop has laid at its end.
LEMMA LaysLoop ==
    ASSUME NEW f, NEW n, NEW P, NEW T, Turns(f, n, P, T)
    PROVE  Lays(f[0], f[n], UNION {P[i] : i \in 1 .. n}, T)
<1> DEFINE U(k) == UNION {P[i] : i \in 1 .. k}
           A == {k \in 0 .. n : Lays(f[0], f[k], U(k), T)}
<1>0. n \in Nat
  BY DEF Turns
<1>1. 0 \in A
  <2>1. U(0) = {}
    OBVIOUS
  <2>2. Lays(f[0], f[0], {}, T)
    BY LaysNothing DEF Turns
  <2> HIDE DEF U
  <2> QED
    BY <1>0, <2>1, <2>2
<1>2. ASSUME NEW k \in 1 .. n, k - 1 \in A PROVE k \in A
  <2>1. Lays(f[0], f[k - 1], U(k - 1), T)
    BY <1>2
  <2>2. U(k) = U(k - 1) \cup P[k]
    <3>1. \A i : i \in 1 .. k <=> i \in 1 .. (k - 1) \/ i = k
      BY <1>0
    <3> QED
      BY <3>1
  <2>3. CASE f[k - 1].ret = 0
    <3>1. f[k] = f[k - 1]
      BY <2>3 DEF Turns
    <3> HIDE DEF U
    <3>2. Lays(f[0], f[k], U(k), T)
      BY <2>1, <2>3, <3>1 DEF Lays
    <3> QED
      BY <3>2
  <2>4. CASE f[k - 1].ret # 0
    <3>1. Lays(f[k - 1], f[k], P[k], T)
      BY <2>4 DEF Turns
    <3> DEFINE a == f[0]
               b == f[k - 1]
               c == f[k]
               V == U(k - 1)
               W == P[k]
    <3>2. Sound(a) /\ Lays(a, b, V, T) /\ b.ret # 0 /\ Lays(b, c, W, T)
      BY <2>1, <2>4, <3>1 DEF Turns
    <3> HIDE DEF a, b, c, V, W, U
    <3>3. Lays(a, c, V \cup W, T)
      BY <3>2, LaysTrans
    <3>4. V \cup W = U(k)
      BY <2>2 DEF V, W
    <3>5. Lays(f[0], f[k], U(k), T)
      BY <3>3, <3>4 DEF a, c
    <3> QED
      BY <3>5
  <2> QED
    BY <2>3, <2>4
<1> HIDE DEF A
<1>3. n \in A
  BY <1>0, <1>1, <1>2, TurnInduction
<1> QED
  BY <1>3 DEF A

\* s are the addresses of a loop, turn by turn
StepsOK(s, from, to, step) ==
    /\ Len(s) \in Nat
    /\ \A i \in 1 .. Len(s) : s[i] = from + (i - 1) * step /\ s[i] \in Nat
    /\ \A i \in Nat \ {0} : i <= Len(s) <=> from + (i - 1) * step < to

\* How many turns, and where they are.
LEMMA TurnsOf ==
    ASSUME NEW from \in Nat, NEW to \in Nat, NEW step \in Nat \ {0}
    PROVE  StepsOK(Steps(from, to, step), from, to, step)
<1> DEFINE s == Steps(from, to, step)
           n == Len(s)
           q == (to - from + step - 1) \div step
<1>1. /\ n \in Nat
      /\ \A i \in 1 .. n : s[i] = from + (i - 1) * step
      /\ from < to => n = q
      /\ ~ (from < to) => n = 0
  <2> from \in Int /\ to \in Int
    OBVIOUS
  <2> HIDE DEF s, n, q
  <2> QED
    BY StepsFacts, Zenon DEF s, n, q
<1>2. \A i \in 1 .. n : from + (i - 1) * step \in Nat
  <2>1. \A k \in Nat : k * step \in Nat
    BY SMT
  <2>2. \A i \in 1 .. n : i - 1 \in Nat
    BY <1>1
  <2> QED
    BY <2>1, <2>2
<1>3. CASE from < to
  <2> DEFINE d == to - from
  <2>1. d \in Nat \ {0} /\ n = (d + step - 1) \div step
    BY <1>1, <1>3
  <2> HIDE DEF d, n
  <2> DEFINE c == d + step - 1
  <2>2. c \in Nat /\ step \in Nat \ {0}
    BY <2>1
  <2>3. c \div step \in Nat /\ c % step \in 0 .. (step - 1) /\ c = step * (c \div step) + (c % step)
    <3> HIDE DEF c
    <3> QED
      BY <2>2, Euclid, Zenon
  <2> DEFINE t == c % step
  <2>4. n \in Nat /\ t \in 0 .. (step - 1) /\ d + step - 1 = step * n + t
    BY <2>1, <2>3
  <2> HIDE DEF c, t
  <2>5. ASSUME NEW i \in Nat \ {0} PROVE i <= n <=> (i - 1) * step < d
    <3>1. CASE i <= n
      <4> DEFINE k == n - i
      <4>1. k \in Nat /\ n = i + k
        BY <2>4, <3>1
      <4>2. step * n = (i - 1) * step + step + k * step /\ k * step \in Nat /\ (i - 1) * step \in Nat
        <5> HIDE DEF k
        <5>1. step * (i + k) = (i - 1) * step + step + k * step
          BY <4>1, SMT
        <5>2. k * step \in Nat /\ (i - 1) * step \in Nat
          BY <4>1, SMT
        <5> QED
          BY <4>1, <5>1, <5>2
      <4> DEFINE u == (i - 1) * step
                 v == k * step
                 w == step * n
      <4>3. w = u + step + v /\ v \in Nat /\ u \in Nat /\ d + step - 1 = w + t
        BY <2>4, <4>2
      <4> HIDE DEF u, v, w, k
      <4>4. u < d
        BY <2>1, <2>4, <4>3
      <4> QED
        BY <3>1, <4>4 DEF u
    <3>2. CASE ~ (i <= n)
      <4> DEFINE k == i - n - 1
      <4>1. k \in Nat /\ i - 1 = n + k
        BY <2>4, <3>2
      <4>2. (i - 1) * step = step * n + k * step /\ k * step \in Nat
        <5> HIDE DEF k
        <5>1. (n + k) * step = step * n + k * step /\ k * step \in Nat
          BY <2>4, <4>1, SMT
        <5> QED
          BY <4>1, <5>1
      <4> DEFINE u == (i - 1) * step
                 v == k * step
                 w == step * n
      <4>3. u = w + v /\ v \in Nat /\ w \in Nat /\ d + step - 1 = w + t
        BY <2>4, <4>2, SMT
      <4> HIDE DEF u, v, w, k
      <4>4. ~ (u < d)
        BY <2>1, <2>4, <4>3
      <4> QED
        BY <3>2, <4>4 DEF u
    <3> QED
      BY <3>1, <3>2
  <2>6. \A i \in Nat \ {0} : (i - 1) * step \in Nat
    BY SMT
  <2>7. \A i \in Nat \ {0} : i <= n <=> from + (i - 1) * step < to
    BY <2>5, <2>6 DEF d
  <2> QED
    BY <1>1, <1>2, <2>7 DEF n, StepsOK
<1>4. CASE ~ (from < to)
  <2>1. n = 0
    BY <1>1, <1>4
  <2>2. \A i \in Nat \ {0} : (i - 1) * step \in Nat
    BY SMT
  <2> HIDE DEF n
  <2>3. \A i \in Nat \ {0} : i <= n <=> from + (i - 1) * step < to
    BY <1>4, <2>1, <2>2
  <2> QED
    BY <1>1, <1>2, <2>3 DEF n, StepsOK
<1> QED
  BY <1>3, <1>4

\* the pages of the large pages from that of base up to the last below to
Larges(base, to) ==
    {b \in AllPages : Num(base, 2) <= Num(b, 2) /\ Num(b, 2) * Span(2) < to}

\* a loop over large pages
LargeLoop(s, n, base, to) ==
    /\ n = Len(s) /\ n \in Nat
    /\ \A i \in 1 .. n : /\ s[i] \in AllPages /\ s[i] = Num(s[i], 2) * Span(2)
                         /\ Num(s[i], 2) = Num(base, 2) + (i - 1)
    /\ \A i \in Nat \ {0} : i <= n <=> (Num(base, 2) + (i - 1)) * Span(2) < to
    /\ \A b \in AllPages : Num(base, 2) <= Num(b, 2) =>
          (Num(b, 2) - Num(base, 2) + 1 \in 1 .. n <=> Num(b, 2) * Span(2) < to)

\* The turns of a loop over large pages.
LEMMA LargeTurns ==
    ASSUME NEW base \in Nat, NEW to \in Nat, to <= Fan * Span(4)
    PROVE  LargeLoop(Steps(Floor(base, Span(2)), to, Span(2)),
                     Len(Steps(Floor(base, Span(2)), to, Span(2))), base, to)
<1> DEFINE z == Span(2)
           k == Num(base, 2)
           from == Floor(base, z)
           s == Steps(from, to, z)
           n == Len(s)
<1>1. z \in Nat \ {0} /\ z = 4096 * Fan /\ Fan \in Nat
  BY SpanFacts, SMT
<1>2. k \in Nat /\ from = k * z
  <2>1. k \in Nat
    BY NumFacts, 2 \in 1 .. 4, Zenon
  <2> QED
    BY <2>1 DEF Floor, Num
<1>3. from \in Nat
  <2> HIDE DEF k, z
  <2> QED
    BY <1>1, <1>2, SMT
<1> HIDE DEF from, s, k, z
<1>4. /\ n \in Nat
      /\ \A i \in 1 .. n : s[i] = from + (i - 1) * z /\ s[i] \in Nat
      /\ \A i \in Nat \ {0} : i <= n <=> from + (i - 1) * z < to
  <2>1. z \in Nat \ {0}
    BY <1>1
  <2>2. StepsOK(s, from, to, z)
    BY <1>3, <2>1, TurnsOf, Zenon DEF s
  <2> QED
    BY <2>2 DEF StepsOK
<1> HIDE DEF n
<1>5. \A i \in Nat \ {0} : from + (i - 1) * z = (k + (i - 1)) * z
  BY <1>1, <1>2, SMT
<1>6. ASSUME NEW i \in 1 .. n
      PROVE  s[i] \in AllPages /\ s[i] = Num(s[i], 2) * z /\ Num(s[i], 2) = k + (i - 1)
  <2> DEFINE a == s[i]
             q == k + (i - 1)
  <2>1. i \in Nat \ {0} /\ i <= n
    BY <1>4
  <2>2. a = q * z /\ a \in Nat /\ a < to /\ q \in Nat
    BY <1>2, <1>4, <1>5, <2>1
  <2> HIDE DEF a, q
  <2>3. a \div z = q
    <3>1. z * q + 0 = a
      BY <1>1, <2>2, SMT
    <3>2. 0 \in 0 .. (z - 1)
      BY <1>1
    <3>3. z \in Nat \ {0}
      BY <1>1
    <3>4. q \in Nat
      BY <2>2
    <3>5. (z * q + 0) \div z = q
      BY <3>2, <3>3, <3>4, DivOfSum, Zenon
    <3> QED
      BY <3>1, <3>5
  <2>4. a % 4096 = 0
    <3>1. a = 4096 * (Fan * q) + 0 /\ Fan * q \in Nat
      BY <1>1, <2>2, SMT
    <3> DEFINE p == Fan * q
    <3> HIDE DEF p
    <3>3. p \in Nat /\ a = 4096 * p
      BY <3>1 DEF p
    <3> QED
      BY <3>3, SMT
  <2>5. a < Fan * Span(4)
    <3> DEFINE top == Fan * Span(4)
    <3>1. top \in Nat
      BY SpanFacts, SMT
    <3> HIDE DEF top
    <3>2. to <= top
      BY DEF top
    <3>3. a < top
      BY <2>2, <3>1, <3>2
    <3> QED
      BY <3>3 DEF top
  <2>6. a \in AllPages
    BY <2>2, <2>4, <2>5, PageFacts
  <2>7. Num(a, 2) = q
    BY <2>3 DEF Num, z
  <2> QED
    BY <2>2, <2>6, <2>7 DEF a, q
<1>7. \A i \in Nat \ {0} : i <= n <=> (k + (i - 1)) * z < to
  BY <1>4, <1>5
<1>8. ASSUME NEW b \in AllPages, k <= Num(b, 2)
      PROVE  Num(b, 2) - k + 1 \in 1 .. n <=> Num(b, 2) * z < to
  <2> DEFINE q == Num(b, 2)
             i == q - k + 1
  <2>1. b \in Nat
    BY PageNumbers
  <2>2. q \in Nat
    BY <2>1, NumFacts, 2 \in 1 .. 4, Zenon
  <2> HIDE DEF q
  <2>3. i \in Nat \ {0} /\ k + (i - 1) = q
    BY <1>2, <1>8, <2>2 DEF q
  <2>4. i \in 1 .. n <=> i <= n
    BY <1>4, <2>3
  <2>5. i <= n <=> q * z < to
    <3> HIDE DEF i
    <3> QED
      BY <1>7, <2>3
  <2> QED
    BY <2>4, <2>5 DEF q
<1> QED
  BY <1>4, <1>6, <1>7, <1>8 DEF LargeLoop, z, n, s, k, from

\* the map of the kernel's pages
PlainMap(nx) == [b \in AllPages |-> Plain(b, nx)]

\* m before the first turn of a loop
Fresh(m) == [m EXCEPT !.ret = 1]

\* Only the return value differs.
LEMMA FreshStep0 ==
    ASSUME NEW m \in States
    PROVE  /\ Fresh(m) \in States /\ Fresh(m).ret = 1
           /\ Fresh(m).at = m.at /\ Fresh(m).blocks = m.blocks /\ Fresh(m).mem = m.mem
           /\ Fresh(m).pml4 = m.pml4 /\ Fresh(m).nx = m.nx
<1>1. Fresh(m) \in States
  BY SetRet, 1 \in Nat DEF Fresh
<1> QED
  BY <1>1 DEF Fresh, States

\* Sound tables are sound before a loop.
LEMMA FreshSound ==
    ASSUME NEW m, Sound(m)
    PROVE  /\ Sound(Fresh(m)) /\ Fresh(m).ret = 1 /\ Grows(m, Fresh(m))
           /\ Flatten(Fresh(m)) = Flatten(m) /\ Fresh(m).nx = m.nx
<1> DEFINE n == Fresh(m)
<1>1. m \in States /\ HeapOK(m)
  BY DEF Sound
<1>2. /\ n \in States /\ n.ret = 1 /\ n.at = m.at /\ n.blocks = m.blocks /\ n.mem = m.mem
      /\ n.pml4 = m.pml4 /\ n.nx = m.nx
  BY <1>1, FreshStep0
<1> HIDE DEF n
<1>3. HeapOK(n)
  BY <1>1, <1>2 DEF HeapOK
<1>4. Grows(m, n)
  BY <1>1, <1>2 DEF Grows, States
<1>5. Sound(n) /\ Flatten(n) = Flatten(m)
  BY <1>2, <1>3, <1>4, SoundSame
<1> QED
  BY <1>2, <1>4, <1>5 DEF n

\* What was laid from there on.
LEMMA FreshLays ==
    ASSUME NEW m, Sound(m), NEW r, NEW S, NEW T, Lays(Fresh(m), r, S, T)
    PROVE  Lays(m, r, S, T)
<1>1. /\ Sound(Fresh(m)) /\ Grows(m, Fresh(m)) /\ Flatten(Fresh(m)) = Flatten(m)
  BY FreshSound
<1>2. Grows(m, r)
  BY <1>1, GrowsTrans DEF Lays, Sound
<1> QED
  BY <1>1, <1>2 DEF Lays

\* What one large page lays.
LEMMA Map2mLays ==
    ASSUME NEW m, Sound(m), NEW a \in AllPages, a = Num(a, 2) * Span(2)
    PROVE  Lays(m, map_2m(m, a, Data(m)), Piece(a, 2), PlainMap(m.nx))
<1> DEFINE r == map_2m(m, a, Data(m))
<1>1. MapsPlain(m, r, Piece(a, 2))
  BY Map2mStep
<1>2. \A b \in Piece(a, 2) : PlainMap(m.nx)[b] = Plain(b, m.nx)
  BY DEF Piece, PlainMap
<1> QED
  BY <1>1, <1>2 DEF MapsPlain, Lays

\* The address space is larger than what is always mapped.
LEMMA LowFacts == Low \in Nat /\ Low <= Fan * Span(4) /\ UserBase <= Fan * Span(4)
<1> DEFINE top == Fan * Span(4)
<1>1. top \in Nat
  BY SpanFacts, SMT
<1> HIDE DEF top
<1>2. UserTop <= top
  BY PagingAssumption DEF top
<1>3. Low \in Nat /\ Low <= top /\ UserBase <= top
  BY <1>1, <1>2, PagingAssumption
<1> QED
  BY <1>3 DEF top

\* The loop over what is always mapped: its states, turn by turn.
LEMMA IdentityRun ==
    ASSUME NEW m, Sound(m)
    PROVE  LET s == Steps(0, Low, Span(2))
               n == Len(s)
           IN \E f : /\ f[0] = Fresh(m) /\ f[n] = IdentityMap(m)
                     /\ \A i \in 0 .. n : Sound(f[i]) /\ f[i].nx = m.nx
                     /\ \A i \in 1 .. n :
                           f[i] = IF f[i - 1].ret = 0 THEN f[i - 1]
                                  ELSE map_2m(f[i - 1], s[i], Data(f[i - 1]))
<1> DEFINE s == Steps(0, Low, Span(2))
           n == Len(s)
           b == Fresh(m)
           Body(k, i) == IF k.ret = 0 THEN k ELSE map_2m(k, s[i], Data(k))
           Run(f) == f = [i \in 0 .. n |-> IF i = 0 THEN b ELSE Body(f[i - 1], i)]
           f == CHOOSE after : Run(after)
           S == {k \in Sounds : k.nx = m.nx}
           g == [p \in (1 .. n) \X S |-> Body(p[2], p[1])]
<1>1. IdentityMap(m) = f[n]
  BY Zenon DEF IdentityMap, Each, Over, Then, Fresh
<1>2. n \in Nat /\ \A i \in 1 .. n : s[i] \in AllPages /\ s[i] = Num(s[i], 2) * Span(2)
  <2>1. Floor(0, Span(2)) = 0
    BY SpanFacts DEF Floor
  <2>2. LargeLoop(s, n, 0, Low)
    BY <2>1, LowFacts, LargeTurns
  <2> QED
    BY <2>2 DEF LargeLoop
<1> HIDE DEF s, n
<1>3. ASSUME NEW i \in 1 .. n, NEW k \in S PROVE Body(k, i) \in S
  <2>1. Sound(k) /\ k \in States /\ k.nx = m.nx
    BY DEF Sounds
  <2> DEFINE r2 == map_2m(k, s[i], Data(k))
  <2>2. Sound(r2) /\ Grows(k, r2)
    BY <1>2, <2>1, Map2mLays DEF Lays
  <2> HIDE DEF r2
  <2>3. r2 \in S
    BY <2>1, <2>2 DEF Sounds, Sound, Grows
  <2> QED
    BY <2>1, <2>3 DEF r2, Sounds
<1>4. g \in [(1 .. n) \X S -> S]
  <2>1. \A p \in (1 .. n) \X S : Body(p[2], p[1]) \in S
    BY <1>3
  <2> HIDE DEF Body, S
  <2> QED
    BY <2>1
<1>5. b \in S
  BY FreshSound DEF Sounds, Sound
<1>6. \E h : Run(h)
  <2>1. \E h : RunOf(h, S, n, b, g)
    <3> HIDE DEF g, b, S
    <3>1. n \in Nat
      BY <1>2
    <3> QED
      BY <1>4, <1>5, <3>1, LoopRun
  <2> PICK h : RunOf(h, S, n, b, g)
    BY <2>1
  <2>2. h \in [0 .. n -> S] /\ h[0] = b /\ \A i \in 1 .. n : h[i] = g[<<i, h[i - 1]>>]
    BY DEF RunOf
  <2>3. \A i \in 1 .. n : i - 1 \in 0 .. n /\ h[i - 1] \in S
    BY <1>2, <2>2
  <2> HIDE DEF Body, S, b
  <2>4. \A i \in 1 .. n : h[i] = Body(h[i - 1], i)
    BY <2>2, <2>3
  <2>5. \A i \in 0 .. n : i = 0 \/ i \in 1 .. n
    BY <1>2
  <2>6. \A i \in 0 .. n : h[i] = IF i = 0 THEN b ELSE Body(h[i - 1], i)
    BY <2>2, <2>4, <2>5, Zenon
  <2>7. h \in [0 .. n -> S]
    BY <2>2
  <2> HIDE DEF g
  <2>8. h = [i \in 0 .. n |-> IF i = 0 THEN b ELSE Body(h[i - 1], i)]
    BY <2>6, <2>7, Zenon
  <2> QED
    BY <2>8
<1>7. Run(f)
  <2> HIDE DEF Run
  <2> QED
    BY <1>6, Zenon DEF f
<1> HIDE DEF f
<1>8. f[0] = b /\ \A i \in 1 .. n : f[i] = Body(f[i - 1], i)
  <2>1. 0 \in 0 .. n /\ \A i \in 1 .. n : i \in 0 .. n /\ i # 0
    BY <1>2
  <2> HIDE DEF Body, b
  <2>2. \A i \in 0 .. n : f[i] = IF i = 0 THEN b ELSE Body(f[i - 1], i)
    BY <1>7, Zenon
  <2> QED
    BY <2>1, <2>2
<1> HIDE DEF Run
<1>9. \A i \in 0 .. n : f[i] \in S
  <2> DEFINE A == {i \in 0 .. n : f[i] \in S}
  <2>1. 0 \in A
    BY <1>2, <1>5, <1>8
  <2>2. ASSUME NEW i \in 1 .. n, i - 1 \in A PROVE i \in A
    <3> DEFINE k == f[i - 1]
    <3>1. k \in S
      BY <2>2
    <3>2. i \in 0 .. n
      BY <1>2
    <3> HIDE DEF Body, S
    <3>3. f[i] = Body(k, i)
      BY <1>8
    <3> HIDE DEF k
    <3>4. Body(k, i) \in S
      BY <1>3, <3>1
    <3> QED
      BY <3>2, <3>3, <3>4
  <2> HIDE DEF A
  <2>3. n \in Nat
    BY <1>2
  <2>4. \A i \in 0 .. n : i \in A
    BY <2>1, <2>2, <2>3, TurnInduction
  <2> QED
    BY <2>4 DEF A
<1>10. \A i \in 0 .. n : Sound(f[i]) /\ f[i].nx = m.nx
  BY <1>9 DEF Sounds
<1>11. f[0] = b /\ f[n] = IdentityMap(m)
  BY <1>1, <1>8
<1> HIDE DEF b
<1>12. \E h : /\ h[0] = b /\ h[n] = IdentityMap(m)
              /\ \A i \in 0 .. n : Sound(h[i]) /\ h[i].nx = m.nx
              /\ \A i \in 1 .. n :
                    h[i] = IF h[i - 1].ret = 0 THEN h[i - 1]
                           ELSE map_2m(h[i - 1], s[i], Data(h[i - 1]))
  BY <1>8, <1>10, <1>11, Zenon
<1> QED
  BY <1>12, Zenon DEF s, n, b

\* A range of physical memory in large pages.
LEMMA RamTurns ==
    ASSUME NEW r, InRam(r)
    PROVE  LargeLoop(Steps(Floor(r.base, Span(2)), r.base + r.len, Span(2)),
                     Len(Steps(Floor(r.base, Span(2)), r.base + r.len, Span(2))),
                     r.base, r.base + r.len)
<1> DEFINE top == Fan * Span(4)
           to == r.base + r.len
<1>1. r.base \in Nat /\ to \in Nat /\ to <= UserBase
  BY DEF InRam, Ranges
<1>2. UserBase <= top /\ UserBase \in Nat /\ top \in Nat
  BY LowFacts, SpanFacts, PagingAssumption, SMT
<1> HIDE DEF top, to
<1>3. to <= top
  BY <1>1, <1>2
<1>4. r.base \in Nat /\ to \in Nat /\ to <= Fan * Span(4)
  BY <1>1, <1>3 DEF top
<1> DEFINE b == r.base
<1> HIDE DEF b
<1>5. LargeLoop(Steps(Floor(b, Span(2)), to, Span(2)),
                Len(Steps(Floor(b, Span(2)), to, Span(2))), b, to)
  BY <1>4, LargeTurns DEF b
<1> QED
  BY <1>5 DEF b, to

\* The same, of one range of the boot info.
LEMMA ExtraRun ==
    ASSUME NEW m, Sound(m), NEW r, InRam(r), r.base # 0, r.len # 0
    PROVE  LET s == Steps(Floor(r.base, Span(2)), r.base + r.len, Span(2))
               n == Len(s)
           IN \E f : /\ f[0] = Fresh(m) /\ f[n] = MapExtra(m, r)
                     /\ \A i \in 0 .. n : Sound(f[i]) /\ f[i].nx = m.nx
                     /\ \A i \in 1 .. n :
                           f[i] = IF f[i - 1].ret = 0 THEN f[i - 1]
                                  ELSE IF s[i] < Low THEN f[i - 1] ELSE map_2m(f[i - 1], s[i], Data(f[i - 1]))
<1> DEFINE s == Steps(Floor(r.base, Span(2)), r.base + r.len, Span(2))
           n == Len(s)
           b == Fresh(m)
           Body(k, i) == IF k.ret = 0 THEN k ELSE IF s[i] < Low THEN k ELSE map_2m(k, s[i], Data(k))
           Run(f) == f = [i \in 0 .. n |-> IF i = 0 THEN b ELSE Body(f[i - 1], i)]
           f == CHOOSE after : Run(after)
           S == {k \in Sounds : k.nx = m.nx}
           g == [p \in (1 .. n) \X S |-> Body(p[2], p[1])]
<1>1. MapExtra(m, r) = f[n]
  BY Zenon DEF MapExtra, Each, Over, Then, Fresh
<1>2. n \in Nat /\ \A i \in 1 .. n : s[i] \in AllPages /\ s[i] = Num(s[i], 2) * Span(2)
  <2>1. LargeLoop(s, n, r.base, r.base + r.len)
    BY RamTurns
  <2> QED
    BY <2>1 DEF LargeLoop
<1> HIDE DEF s, n
<1>3. ASSUME NEW i \in 1 .. n, NEW k \in S PROVE Body(k, i) \in S
  <2>1. Sound(k) /\ k \in States /\ k.nx = m.nx
    BY DEF Sounds
  <2> DEFINE r2 == map_2m(k, s[i], Data(k))
  <2>2. Sound(r2) /\ Grows(k, r2)
    BY <1>2, <2>1, Map2mLays DEF Lays
  <2> HIDE DEF r2
  <2>3. r2 \in S
    BY <2>1, <2>2 DEF Sounds, Sound, Grows
  <2> QED
    BY <2>1, <2>3 DEF r2, Sounds
<1>4. g \in [(1 .. n) \X S -> S]
  <2>1. \A p \in (1 .. n) \X S : Body(p[2], p[1]) \in S
    BY <1>3
  <2> HIDE DEF Body, S
  <2> QED
    BY <2>1
<1>5. b \in S
  BY FreshSound DEF Sounds, Sound
<1>6. \E h : Run(h)
  <2>1. \E h : RunOf(h, S, n, b, g)
    <3> HIDE DEF g, b, S
    <3>1. n \in Nat
      BY <1>2
    <3> QED
      BY <1>4, <1>5, <3>1, LoopRun
  <2> PICK h : RunOf(h, S, n, b, g)
    BY <2>1
  <2>2. h \in [0 .. n -> S] /\ h[0] = b /\ \A i \in 1 .. n : h[i] = g[<<i, h[i - 1]>>]
    BY DEF RunOf
  <2>3. \A i \in 1 .. n : i - 1 \in 0 .. n /\ h[i - 1] \in S
    BY <1>2, <2>2
  <2> HIDE DEF Body, S, b
  <2>4. \A i \in 1 .. n : h[i] = Body(h[i - 1], i)
    BY <2>2, <2>3
  <2>5. \A i \in 0 .. n : i = 0 \/ i \in 1 .. n
    BY <1>2
  <2>6. \A i \in 0 .. n : h[i] = IF i = 0 THEN b ELSE Body(h[i - 1], i)
    BY <2>2, <2>4, <2>5, Zenon
  <2>7. h \in [0 .. n -> S]
    BY <2>2
  <2> HIDE DEF g
  <2>8. h = [i \in 0 .. n |-> IF i = 0 THEN b ELSE Body(h[i - 1], i)]
    BY <2>6, <2>7, Zenon
  <2> QED
    BY <2>8
<1>7. Run(f)
  <2> HIDE DEF Run
  <2> QED
    BY <1>6, Zenon DEF f
<1> HIDE DEF f
<1>8. f[0] = b /\ \A i \in 1 .. n : f[i] = Body(f[i - 1], i)
  <2>1. 0 \in 0 .. n /\ \A i \in 1 .. n : i \in 0 .. n /\ i # 0
    BY <1>2
  <2> HIDE DEF Body, b
  <2>2. \A i \in 0 .. n : f[i] = IF i = 0 THEN b ELSE Body(f[i - 1], i)
    BY <1>7, Zenon
  <2> QED
    BY <2>1, <2>2
<1> HIDE DEF Run
<1>9. \A i \in 0 .. n : f[i] \in S
  <2> DEFINE A == {i \in 0 .. n : f[i] \in S}
  <2>1. 0 \in A
    BY <1>2, <1>5, <1>8
  <2>2. ASSUME NEW i \in 1 .. n, i - 1 \in A PROVE i \in A
    <3> DEFINE k == f[i - 1]
    <3>1. k \in S
      BY <2>2
    <3>2. i \in 0 .. n
      BY <1>2
    <3> HIDE DEF Body, S
    <3>3. f[i] = Body(k, i)
      BY <1>8
    <3> HIDE DEF k
    <3>4. Body(k, i) \in S
      BY <1>3, <3>1
    <3> QED
      BY <3>2, <3>3, <3>4
  <2> HIDE DEF A
  <2>3. n \in Nat
    BY <1>2
  <2>4. \A i \in 0 .. n : i \in A
    BY <2>1, <2>2, <2>3, TurnInduction
  <2> QED
    BY <2>4 DEF A
<1>10. \A i \in 0 .. n : Sound(f[i]) /\ f[i].nx = m.nx
  BY <1>9 DEF Sounds
<1>11. f[0] = b /\ f[n] = MapExtra(m, r)
  BY <1>1, <1>8
<1> HIDE DEF b
<1>12. \E h : /\ h[0] = b /\ h[n] = MapExtra(m, r)
              /\ \A i \in 0 .. n : Sound(h[i]) /\ h[i].nx = m.nx
              /\ \A i \in 1 .. n :
                    h[i] = IF h[i - 1].ret = 0 THEN h[i - 1]
                           ELSE IF s[i] < Low THEN h[i - 1] ELSE map_2m(h[i - 1], s[i], Data(h[i - 1]))
  BY <1>8, <1>10, <1>11, Zenon
<1> QED
  BY <1>12, Zenon DEF s, n, b

\* The pages of a loop over large pages.
LEMMA LargePages ==
    ASSUME NEW s, NEW n, NEW base \in Nat, NEW to \in Nat, LargeLoop(s, n, base, to)
    PROVE  /\ \A b : b \in Larges(base, to) <=> \E i \in 1 .. n : b \in Piece(s[i], 2)
           /\ \A i \in 1 .. n : \A b \in Piece(s[i], 2) : s[i] = Num(b, 2) * Span(2)
<1> DEFINE k == Num(base, 2)
<1>1. /\ n \in Nat
      /\ \A i \in 1 .. n : /\ s[i] \in AllPages /\ s[i] = Num(s[i], 2) * Span(2)
                           /\ Num(s[i], 2) = k + (i - 1)
      /\ \A i \in Nat \ {0} : i <= n <=> (k + (i - 1)) * Span(2) < to
      /\ \A b \in AllPages : k <= Num(b, 2) =>
          (Num(b, 2) - k + 1 \in 1 .. n <=> Num(b, 2) * Span(2) < to)
  BY DEF LargeLoop
<1>2. k \in Nat /\ \A b \in AllPages : Num(b, 2) \in Nat
  <2>1. \A b \in Nat : Num(b, 2) \in Nat
    BY NumFacts, 2 \in 1 .. 4, Zenon
  <2> QED
    BY <2>1, PageNumbers
<1> HIDE DEF k
<1>3. ASSUME NEW b, b \in Larges(base, to)
      PROVE  \E i \in 1 .. n : b \in Piece(s[i], 2)
  <2>1. b \in AllPages /\ k <= Num(b, 2) /\ Num(b, 2) * Span(2) < to
    BY <1>3 DEF Larges, k
  <2> DEFINE i == Num(b, 2) - k + 1
  <2>2. i \in 1 .. n
    BY <1>1, <2>1
  <2>3. k + (i - 1) = Num(b, 2)
    BY <1>2, <2>1
  <2>4. Num(s[i], 2) = Num(b, 2)
    <3> HIDE DEF i
    <3> QED
      BY <1>1, <2>2, <2>3
  <2>5. b \in Piece(s[i], 2)
    BY <2>1, <2>4 DEF Piece
  <2> QED
    BY <2>2, <2>5
<1>4. ASSUME NEW i \in 1 .. n, NEW b \in Piece(s[i], 2)
      PROVE  b \in Larges(base, to) /\ s[i] = Num(b, 2) * Span(2)
  <2>1. b \in AllPages /\ Num(b, 2) = Num(s[i], 2)
    BY DEF Piece
  <2>2. Num(b, 2) = k + (i - 1) /\ s[i] = Num(b, 2) * Span(2)
    BY <1>1, <2>1
  <2>3. k <= Num(b, 2) /\ i \in Nat \ {0} /\ i <= n
    BY <1>1, <1>2, <2>2
  <2>4. Num(b, 2) * Span(2) < to
    BY <1>1, <2>2, <2>3
  <2> QED
    BY <2>1, <2>2, <2>3, <2>4 DEF Larges, k
<1> QED
  BY <1>3, <1>4

\* A page lies below a multiple of what a large page covers when its large page does.
LEMMA LargeBelow ==
    ASSUME NEW a \in Nat, NEW q \in Nat
    PROVE  a < q * Span(2) <=> Num(a, 2) * Span(2) < q * Span(2)
<1> DEFINE z == Span(2)
           n == Num(a, 2)
           t == a % z
<1>1. z \in Nat \ {0}
  BY SpanFacts
<1>2. n \in Nat /\ t \in 0 .. (z - 1) /\ a = z * n + t
  <2> HIDE DEF z
  <2>1. a \div z \in Nat /\ t \in 0 .. (z - 1) /\ a = z * (a \div z) + t
    BY <1>1, Euclid, Zenon
  <2> QED
    BY <2>1 DEF Num, z
<1> HIDE DEF z, n, t
<1>3. CASE n < q
  <2>1. PICK d \in Nat : q = n + 1 + d
    <3>1. q - n - 1 \in Nat /\ q = n + 1 + (q - n - 1)
      BY <1>2, <1>3
    <3> QED
      BY <3>1
  <2>2. q * z = z * n + z + d * z /\ d * z \in Nat /\ z * n \in Nat /\ n * z = z * n
    BY <1>1, <1>2, <2>1, SMT
  <2> DEFINE u == z * n
             v == d * z
             w == q * z
             x == n * z
  <2>3. w = u + z + v /\ v \in Nat /\ u \in Nat /\ x = u /\ a = u + t
    BY <1>2, <2>2
  <2> HIDE DEF u, v, w, x
  <2>4. a < w /\ x < w
    BY <1>1, <1>2, <2>3
  <2> QED
    BY <2>4 DEF w, x, z, n
<1>4. CASE ~ (n < q)
  <2>1. PICK d \in Nat : n = q + d
    <3>1. n - q \in Nat /\ n = q + (n - q)
      BY <1>2, <1>4
    <3> QED
      BY <3>1
  <2>2. z * n = q * z + d * z /\ d * z \in Nat /\ q * z \in Nat /\ n * z = z * n
    BY <1>1, <1>2, <2>1, SMT
  <2> DEFINE u == z * n
             v == d * z
             w == q * z
             x == n * z
  <2>3. u = w + v /\ v \in Nat /\ w \in Nat /\ x = u /\ a = u + t
    BY <1>2, <2>2
  <2> HIDE DEF u, v, w, x
  <2>4. ~ (a < w) /\ ~ (x < w)
    BY <1>1, <1>2, <2>3
  <2> QED
    BY <2>4 DEF w, x, z, n
<1> QED
  BY <1>3, <1>4

\* The same, of what is always mapped.
LEMMA BelowLow ==
    ASSUME NEW a \in Nat
    PROVE  a < Low <=> Num(a, 2) * Span(2) < Low
<1> DEFINE q == Fan * (Low \div Span(3))
<1>1. q \in Nat /\ Low = q * Span(2)
  <2> DEFINE s == Span(3)
             p == Low \div s
  <2>1. s \in Nat \ {0} /\ Low \in Nat /\ Low % s = 0
    BY SpanFacts, PagingAssumption
  <2>2. p \in Nat /\ Low = s * p
    <3> HIDE DEF s
    <3>1. Low \div s \in Nat /\ Low % s \in 0 .. (s - 1) /\ Low = s * (Low \div s) + (Low % s)
      BY <2>1, Euclid, Zenon
    <3>2. s * (Low \div s) \in Nat
      BY <2>1, <3>1, SMT
    <3> QED
      BY <2>1, <3>1, <3>2
  <2>3. s = Span(2) * Fan /\ Span(2) \in Nat /\ Fan \in Nat
    BY SpanFacts
  <2> HIDE DEF s, p
  <2>4. Low = (Fan * p) * Span(2) /\ Fan * p \in Nat
    BY <2>2, <2>3, SMT
  <2> QED
    BY <2>4 DEF p, s
<1> HIDE DEF q
<1>2. a < q * Span(2) <=> Num(a, 2) * Span(2) < q * Span(2)
  BY <1>1, LargeBelow
<1> QED
  BY <1>1, <1>2

\* Rounded down to a large page, by its number.
LEMMA FloorNum ==
    ASSUME NEW a \in Nat, NEW b \in Nat
    PROVE  Floor(a, Span(2)) <= b <=> Num(a, 2) <= Num(b, 2)
<1> DEFINE z == Span(2)
           n == Num(b, 2)
           k == Num(a, 2)
<1>1. k \in Nat /\ n \in Nat /\ z \in Nat
  <2>1. \A c \in Nat : Num(c, 2) \in Nat
    BY NumFacts, 2 \in 1 .. 4, Zenon
  <2> QED
    BY <2>1, SpanFacts
<1>2. b < k * z <=> n * z < k * z
  BY <1>1, LargeBelow
<1>3. Floor(a, z) = k * z
  BY DEF Floor, Num
<1>4. z > 0
  BY SpanFacts
<1> HIDE DEF z, n, k
<1>5. k * z \in Nat /\ n * z \in Nat
  BY <1>1, SMT
<1>6. n * z < k * z <=> n < k
  <2>1. CASE n < k
    <3>1. (k - n) * z > 0 /\ (k - n) * z = k * z - n * z
      <4> DEFINE d == k - n
      <4>1. d \in Nat /\ d > 0 /\ k = n + d
        BY <1>1, <2>1
      <4> HIDE DEF d
      <4>2. d * z > 0 /\ k * z = n * z + d * z /\ d * z \in Nat
        BY <1>1, <1>4, <4>1, SMT
      <4> QED
        BY <1>5, <4>2 DEF d
    <3> QED
      BY <1>5, <2>1, <3>1
  <2>2. CASE ~ (n < k)
    <3> DEFINE d == n - k
    <3>1. d \in Nat /\ n = k + d
      BY <1>1, <2>2
    <3> HIDE DEF d
    <3>2. n * z = k * z + d * z /\ d * z \in Nat
      BY <1>1, <3>1, SMT
    <3> QED
      BY <1>5, <2>2, <3>2
  <2> QED
    BY <2>1, <2>2
<1>7. Floor(a, z) <= b <=> k <= n
  BY <1>1, <1>2, <1>3, <1>5, <1>6
<1> QED
  BY <1>7 DEF z, k, n

\* paging_init's first loop.
LEMMA IdentityStep ==
    ASSUME NEW m, Sound(m)
    PROVE  Lays(m, IdentityMap(m), {a \in AllPages : a < Low}, PlainMap(m.nx))
<1> DEFINE s == Steps(0, Low, Span(2))
           n == Len(s)
           T == PlainMap(m.nx)
           P == [i \in 1 .. n |-> Piece(s[i], 2)]
<1>1. PICK f : /\ f[0] = Fresh(m) /\ f[n] = IdentityMap(m)
               /\ \A i \in 0 .. n : Sound(f[i]) /\ f[i].nx = m.nx
               /\ \A i \in 1 .. n : f[i] = IF f[i - 1].ret = 0 THEN f[i - 1]
                                           ELSE map_2m(f[i - 1], s[i], Data(f[i - 1]))
  BY IdentityRun
<1>2. LargeLoop(s, n, 0, Low)
  <2>1. Floor(0, Span(2)) = 0
    BY SpanFacts DEF Floor
  <2> QED
    BY <2>1, LowFacts, LargeTurns
<1> HIDE DEF s, n
<1>3. n \in Nat /\ \A i \in 1 .. n : s[i] \in AllPages /\ s[i] = Num(s[i], 2) * Span(2)
  BY <1>2 DEF LargeLoop
<1>4. ASSUME NEW i \in 1 .. n, f[i - 1].ret # 0
      PROVE  Lays(f[i - 1], f[i], P[i], T)
  <2>1. i - 1 \in 0 .. n
    BY <1>3
  <2>2. Sound(f[i - 1]) /\ f[i - 1].nx = m.nx
    BY <1>1, <2>1
  <2> DEFINE k == f[i - 1]
  <2>3. f[i] = map_2m(k, s[i], Data(k))
    BY <1>1, <1>4
  <2> HIDE DEF k
  <2>4. Lays(k, map_2m(k, s[i], Data(k)), Piece(s[i], 2), PlainMap(k.nx))
    BY <1>3, <2>2, Map2mLays DEF k
  <2> QED
    BY <2>2, <2>3, <2>4 DEF k
<1>5. Turns(f, n, P, T)
  <2>1. Sound(f[0]) /\ f[0].ret # 0
    BY <1>1, FreshSound
  <2> QED
    BY <1>1, <1>3, <1>4, <2>1 DEF Turns
<1>6. Lays(f[0], f[n], UNION {P[i] : i \in 1 .. n}, T)
  BY <1>5, LaysLoop
<1>7. UNION {P[i] : i \in 1 .. n} = {a \in AllPages : a < Low}
  <2>1. \A b : b \in Larges(0, Low) <=> \E i \in 1 .. n : b \in Piece(s[i], 2)
    BY <1>2, LowFacts, LargePages
  <2>2. Num(0, 2) = 0
    BY SpanFacts DEF Num
  <2>3. \A b \in AllPages : b \in Nat /\ Num(b, 2) \in Nat
    <3>1. \A c \in Nat : Num(c, 2) \in Nat
      BY NumFacts, 2 \in 1 .. 4, Zenon
    <3> QED
      BY <3>1, PageNumbers
  <2>4. \A b : b \in Larges(0, Low) <=> b \in AllPages /\ b < Low
    BY <2>2, <2>3, BelowLow DEF Larges
  <2> QED
    BY <2>1, <2>4
<1>8. Lays(Fresh(m), IdentityMap(m), {a \in AllPages : a < Low}, T)
  BY <1>1, <1>6, <1>7
<1> QED
  BY <1>8, FreshLays

\* what a range of the boot info adds to what is always mapped
High(r) == {a \in Wide(r) : ~ (a < Low)}

\* One range of the boot info.
LEMMA ExtraStep ==
    ASSUME NEW m, Sound(m), m.ret # 0, NEW r, InRam(r)
    PROVE  Lays(m, MapExtra(m, r), High(r), PlainMap(m.nx))
<1>1. CASE r.base = 0 \/ r.len = 0
  <2>1. MapExtra(m, r) = m
    BY <1>1, Zenon DEF MapExtra
  <2>2. High(r) = {}
    BY <1>1 DEF High, Wide
  <2> QED
    BY <2>1, <2>2, LaysNothing
<1>2. CASE r.base # 0 /\ r.len # 0
  <2> DEFINE s == Steps(Floor(r.base, Span(2)), r.base + r.len, Span(2))
             n == Len(s)
             T == PlainMap(m.nx)
             P == [i \in 1 .. n |-> IF s[i] < Low THEN {} ELSE Piece(s[i], 2)]
  <2>1. PICK f : /\ f[0] = Fresh(m) /\ f[n] = MapExtra(m, r)
                 /\ \A i \in 0 .. n : Sound(f[i]) /\ f[i].nx = m.nx
                 /\ \A i \in 1 .. n :
                       f[i] = IF f[i - 1].ret = 0 THEN f[i - 1]
                              ELSE IF s[i] < Low THEN f[i - 1]
                              ELSE map_2m(f[i - 1], s[i], Data(f[i - 1]))
    BY <1>2, ExtraRun
  <2>2. LargeLoop(s, n, r.base, r.base + r.len)
    BY RamTurns
  <2> HIDE DEF s, n
  <2>3. n \in Nat /\ \A i \in 1 .. n : s[i] \in AllPages /\ s[i] = Num(s[i], 2) * Span(2)
    BY <2>2 DEF LargeLoop
  <2>4. ASSUME NEW i \in 1 .. n, f[i - 1].ret # 0
        PROVE  Lays(f[i - 1], f[i], P[i], T)
    <3>1. i - 1 \in 0 .. n
      BY <2>3
    <3>2. Sound(f[i - 1]) /\ f[i - 1].nx = m.nx
      BY <2>1, <3>1
    <3> DEFINE k == f[i - 1]
    <3>3. f[i] = IF s[i] < Low THEN k ELSE map_2m(k, s[i], Data(k))
      BY <2>1, <2>4
    <3> HIDE DEF k
    <3>4. Lays(k, map_2m(k, s[i], Data(k)), Piece(s[i], 2), PlainMap(k.nx))
      BY <2>3, <3>2, Map2mLays DEF k
    <3>5. Lays(k, k, {}, T)
      BY <2>4, <3>2, LaysNothing DEF k
    <3> QED
      BY <3>2, <3>3, <3>4, <3>5 DEF k
  <2>5. Turns(f, n, P, T)
    <3>1. Sound(f[0]) /\ f[0].ret # 0
      BY <2>1, FreshSound
    <3>2. \A i \in 1 .. n : f[i - 1].ret = 0 => f[i] = f[i - 1]
      BY <2>1
    <3> QED
      BY <2>3, <2>4, <3>1, <3>2 DEF Turns
  <2>6. Lays(f[0], f[n], UNION {P[i] : i \in 1 .. n}, T)
    BY <2>5, LaysLoop
  <2>7. UNION {P[i] : i \in 1 .. n} = High(r)
    <3> DEFINE to == r.base + r.len
    <3>0. r.base \in Nat /\ to \in Nat
      BY DEF InRam, Ranges
    <3> HIDE DEF to
    <3>1. /\ \A b : b \in Larges(r.base, to) <=> \E i \in 1 .. n : b \in Piece(s[i], 2)
          /\ \A i \in 1 .. n : \A b \in Piece(s[i], 2) : s[i] = Num(b, 2) * Span(2)
      <4> DEFINE base == r.base
      <4>1. base \in Nat /\ LargeLoop(s, n, base, to)
        BY <2>2, <3>0 DEF to
      <4> HIDE DEF base
      <4>2. /\ \A b : b \in Larges(base, to) <=> \E i \in 1 .. n : b \in Piece(s[i], 2)
            /\ \A i \in 1 .. n : \A b \in Piece(s[i], 2) : s[i] = Num(b, 2) * Span(2)
        BY <3>0, <4>1, LargePages
      <4> QED
        BY <4>2 DEF base
    <3>2. \A b \in AllPages : b \in Nat
      BY PageNumbers
    <3>3. \A b : b \in Larges(r.base, to) <=> b \in Wide(r)
      <4>1. ASSUME NEW b \in AllPages
            PROVE Floor(r.base, Span(2)) <= b <=> Num(r.base, 2) <= Num(b, 2)
        BY <3>0, <3>2, FloorNum
      <4>2. \A b \in AllPages : Floor(b, Span(2)) = Num(b, 2) * Span(2)
        BY DEF Floor, Num
      <4> QED
        BY <1>2, <4>1, <4>2 DEF Larges, Wide, to
    <3>4. \A i \in 1 .. n : \A b \in Piece(s[i], 2) : s[i] < Low <=> b < Low
      BY <3>1, <3>2, BelowLow DEF Piece
    <3>5. ASSUME NEW b
          PROVE (\E i \in 1 .. n : b \in P[i]) <=> b \in High(r)
      <4>1. \A i \in 1 .. n : b \in P[i] <=> ~ (s[i] < Low) /\ b \in Piece(s[i], 2)
        OBVIOUS
      <4> HIDE DEF P
      <4> QED
        BY <3>1, <3>3, <3>4, <4>1 DEF High
    <3> HIDE DEF P
    <3> QED
      BY <3>5
  <2>8. Lays(Fresh(m), MapExtra(m, r), High(r), T)
    BY <2>1, <2>6, <2>7
  <2> QED
    BY <2>8, FreshLays
<1> QED
  BY <1>1, <1>2

\* The ranges of the boot info, one by one.
LEMMA ExtraFacts ==
    ASSUME NEW c \in BootInfos
    PROVE  /\ Len(extra(c)) \in Nat
           /\ \A i \in 1 .. Len(extra(c)) : InRam(extra(c)[i])
           /\ \A r : r \in Range(extra(c)) <=> \E i \in 1 .. Len(extra(c)) : r = extra(c)[i]
           /\ Kernel(c) \in Range(extra(c)) /\ Kernel(c).base # 0 /\ Kernel(c).len # 0
           /\ Kernel(c).base = c.text.base
           /\ Kernel(c).base + Kernel(c).len = c.data.base + c.data.len
           /\ Kernel(c).base \in Nat /\ Kernel(c).len \in Nat
<1> DEFINE e == extra(c)
           k == Kernel(c)
           h == [base |-> HeapBase, len |-> HeapSize]
<1>1. e = <<h, c.fb, c.splash, c.initrc, k, c.lapic>>
  BY DEF extra
<1>2. InRam(h)
  <2>1. HeapBase \in Nat /\ HeapSize \in Nat /\ HeapBase + HeapSize <= UserBase
    BY HeapAssumption, PlacesAssumption DEF HeapEnd
  <2> QED
    BY <2>1 DEF InRam, Ranges
<1>3. InRam(c.fb) /\ InRam(c.splash) /\ InRam(c.initrc) /\ InRam(c.lapic)
  BY PlacesAssumption
<1>4. /\ InRam(c.text) /\ InRam(c.rodata) /\ InRam(c.data)
      /\ 0 < c.text.base /\ 0 < c.text.len
      /\ c.text.base + c.text.len <= c.rodata.base
      /\ c.rodata.base + c.rodata.len <= c.data.base
  BY PlacesAssumption
<1>5. /\ c.text.base \in Nat /\ c.text.len \in Nat /\ c.rodata.base \in Nat /\ c.rodata.len \in Nat
      /\ c.data.base \in Nat /\ c.data.len \in Nat /\ c.data.base + c.data.len <= UserBase
  BY <1>4 DEF InRam, Ranges
<1>6. /\ k.base = c.text.base /\ k.len = c.data.base + c.data.len - c.text.base
      /\ k = [base |-> c.text.base, len |-> c.data.base + c.data.len - c.text.base]
  BY DEF Kernel
<1>7. c.data.base + c.data.len - c.text.base \in Nat \ {0}
  BY <1>4, <1>5
<1>8. InRam(k) /\ k.base # 0 /\ k.len # 0 /\ k.base \in Nat /\ k.len \in Nat
  <2>1. k \in Ranges
    BY <1>5, <1>6, <1>7 DEF Ranges
  <2>2. k.base + k.len = c.data.base + c.data.len /\ k.base # 0 /\ k.len # 0
    BY <1>4, <1>5, <1>6, <1>7
  <2> QED
    BY <1>5, <2>1, <2>2 DEF InRam, Ranges
<1>9. k.base + k.len = c.data.base + c.data.len
  BY <1>5, <1>6
<1> HIDE DEF k, h, e
<1>10. Len(e) = 6 /\ DOMAIN e = 1 .. 6
  BY <1>1
<1>11. /\ e[1] = h /\ e[2] = c.fb /\ e[3] = c.splash /\ e[4] = c.initrc
       /\ e[5] = k /\ e[6] = c.lapic
  BY <1>1
<1>12. \A i \in 1 .. 6 : i = 1 \/ i = 2 \/ i = 3 \/ i = 4 \/ i = 5 \/ i = 6
  OBVIOUS
<1>13. \A i \in 1 .. Len(e) : InRam(e[i])
  BY <1>2, <1>3, <1>8, <1>10, <1>11, <1>12, Zenon
<1>14. \A r : r \in Range(e) <=> \E i \in 1 .. Len(e) : r = e[i]
  BY <1>10, Zenon DEF Range
<1>15. k \in Range(e)
  BY <1>10, <1>11, <1>14
<1>16. Len(e) \in Nat
  BY <1>10
<1> QED
  BY <1>6, <1>8, <1>9, <1>13, <1>14, <1>15, <1>16 DEF e, k

\* The loop over the ranges of the boot info.
LEMMA ExtrasRun ==
    ASSUME NEW m, Sound(m), m.ret # 0, NEW c \in BootInfos
    PROVE  LET s == extra(c)
               n == Len(s)
           IN \E f : /\ f[0] = m /\ f[n] = Extras(m, c)
                     /\ \A i \in 0 .. n : Sound(f[i]) /\ f[i].nx = m.nx
                     /\ \A i \in 1 .. n :
                           f[i] = IF f[i - 1].ret = 0 THEN f[i - 1]
                                  ELSE MapExtra(f[i - 1], s[i])
<1> DEFINE s == extra(c)
           n == Len(s)
           b == m
           Body(k, i) == IF k.ret = 0 THEN k ELSE MapExtra(k, s[i])
           Run(f) == f = [i \in 0 .. n |-> IF i = 0 THEN b ELSE Body(f[i - 1], i)]
           f == CHOOSE after : Run(after)
           S == {k \in Sounds : k.nx = m.nx}
           g == [p \in (1 .. n) \X S |-> Body(p[2], p[1])]
<1>1. Extras(m, c) = f[n]
  BY Zenon DEF Extras, Over, Then
<1>2. n \in Nat /\ \A i \in 1 .. n : InRam(s[i])
  BY ExtraFacts
<1> HIDE DEF s, n
<1>3. ASSUME NEW i \in 1 .. n, NEW k \in S PROVE Body(k, i) \in S
  <2>1. Sound(k) /\ k \in States /\ k.nx = m.nx
    BY DEF Sounds
  <2>2. CASE k.ret = 0
    BY <2>2
  <2>3. CASE k.ret # 0
    <3> DEFINE q == MapExtra(k, s[i])
    <3>1. Sound(q) /\ Grows(k, q)
      BY <1>2, <2>1, <2>3, ExtraStep DEF Lays
    <3> HIDE DEF q
    <3>2. q \in S
      BY <2>1, <3>1 DEF Sounds, Sound, Grows
    <3> QED
      BY <2>3, <3>2 DEF q
  <2> QED
    BY <2>2, <2>3
<1>4. g \in [(1 .. n) \X S -> S]
  <2>1. \A p \in (1 .. n) \X S : Body(p[2], p[1]) \in S
    BY <1>3
  <2> HIDE DEF Body, S
  <2> QED
    BY <2>1
<1>5. b \in S
  BY DEF Sounds, Sound
<1>6. \E h : Run(h)
  <2>1. \E h : RunOf(h, S, n, b, g)
    <3> HIDE DEF g, b, S
    <3>1. n \in Nat
      BY <1>2
    <3> QED
      BY <1>4, <1>5, <3>1, LoopRun
  <2> PICK h : RunOf(h, S, n, b, g)
    BY <2>1
  <2>2. h \in [0 .. n -> S] /\ h[0] = b /\ \A i \in 1 .. n : h[i] = g[<<i, h[i - 1]>>]
    BY DEF RunOf
  <2>3. \A i \in 1 .. n : i - 1 \in 0 .. n /\ h[i - 1] \in S
    BY <1>2, <2>2
  <2> HIDE DEF Body, S, b
  <2>4. \A i \in 1 .. n : h[i] = Body(h[i - 1], i)
    BY <2>2, <2>3
  <2>5. \A i \in 0 .. n : i = 0 \/ i \in 1 .. n
    BY <1>2
  <2>6. \A i \in 0 .. n : h[i] = IF i = 0 THEN b ELSE Body(h[i - 1], i)
    BY <2>2, <2>4, <2>5, Zenon
  <2>7. h \in [0 .. n -> S]
    BY <2>2
  <2> HIDE DEF g
  <2>8. h = [i \in 0 .. n |-> IF i = 0 THEN b ELSE Body(h[i - 1], i)]
    BY <2>6, <2>7, Zenon
  <2> QED
    BY <2>8
<1>7. Run(f)
  <2> HIDE DEF Run
  <2> QED
    BY <1>6, Zenon DEF f
<1> HIDE DEF f
<1>8. f[0] = b /\ \A i \in 1 .. n : f[i] = Body(f[i - 1], i)
  <2>1. 0 \in 0 .. n /\ \A i \in 1 .. n : i \in 0 .. n /\ i # 0
    BY <1>2
  <2> HIDE DEF Body, b
  <2>2. \A i \in 0 .. n : f[i] = IF i = 0 THEN b ELSE Body(f[i - 1], i)
    BY <1>7, Zenon
  <2> QED
    BY <2>1, <2>2
<1> HIDE DEF Run
<1>9. \A i \in 0 .. n : f[i] \in S
  <2> DEFINE A == {i \in 0 .. n : f[i] \in S}
  <2>1. 0 \in A
    BY <1>2, <1>5, <1>8
  <2>2. ASSUME NEW i \in 1 .. n, i - 1 \in A PROVE i \in A
    <3> DEFINE k == f[i - 1]
    <3>1. k \in S
      BY <2>2
    <3>2. i \in 0 .. n
      BY <1>2
    <3> HIDE DEF Body, S
    <3>3. f[i] = Body(k, i)
      BY <1>8
    <3> HIDE DEF k
    <3>4. Body(k, i) \in S
      BY <1>3, <3>1
    <3> QED
      BY <3>2, <3>3, <3>4
  <2> HIDE DEF A
  <2>3. n \in Nat
    BY <1>2
  <2>4. \A i \in 0 .. n : i \in A
    BY <2>1, <2>2, <2>3, TurnInduction
  <2> QED
    BY <2>4 DEF A
<1>10. \A i \in 0 .. n : Sound(f[i]) /\ f[i].nx = m.nx
  BY <1>9 DEF Sounds
<1>11. f[0] = b /\ f[n] = Extras(m, c)
  BY <1>1, <1>8
<1> HIDE DEF b
<1>12. \E h : /\ h[0] = b /\ h[n] = Extras(m, c)
              /\ \A i \in 0 .. n : Sound(h[i]) /\ h[i].nx = m.nx
              /\ \A i \in 1 .. n :
                    h[i] = IF h[i - 1].ret = 0 THEN h[i - 1]
                           ELSE MapExtra(h[i - 1], s[i])
  BY <1>8, <1>10, <1>11, Zenon
<1> QED
  BY <1>12, Zenon DEF s, n, b

\* All ranges of the boot info.
LEMMA ExtrasStep ==
    ASSUME NEW m, Sound(m), m.ret # 0, NEW c \in BootInfos
    PROVE  Lays(m, Extras(m, c), UNION {High(r) : r \in Range(extra(c))}, PlainMap(m.nx))
<1> DEFINE s == extra(c)
           n == Len(s)
           T == PlainMap(m.nx)
           P == [i \in 1 .. n |-> High(s[i])]
<1>1. PICK f : /\ f[0] = m /\ f[n] = Extras(m, c)
               /\ \A i \in 0 .. n : Sound(f[i]) /\ f[i].nx = m.nx
               /\ \A i \in 1 .. n : f[i] = IF f[i - 1].ret = 0 THEN f[i - 1]
                                           ELSE MapExtra(f[i - 1], s[i])
  BY ExtrasRun
<1>2. n \in Nat /\ \A i \in 1 .. n : InRam(s[i])
  BY ExtraFacts
<1>3. \A r : r \in Range(s) <=> \E i \in 1 .. n : r = s[i]
  BY ExtraFacts
<1> HIDE DEF s, n
<1>4. ASSUME NEW i \in 1 .. n, f[i - 1].ret # 0
      PROVE  Lays(f[i - 1], f[i], P[i], T)
  <2>1. i - 1 \in 0 .. n
    BY <1>2
  <2>2. Sound(f[i - 1]) /\ f[i - 1].nx = m.nx
    BY <1>1, <2>1
  <2>3. f[i] = MapExtra(f[i - 1], s[i])
    BY <1>1, <1>4
  <2>4. Lays(f[i - 1], MapExtra(f[i - 1], s[i]), High(s[i]), PlainMap(f[i - 1].nx))
    BY <1>2, <1>4, <2>2, ExtraStep
  <2> QED
    BY <2>2, <2>3, <2>4
<1>5. Turns(f, n, P, T)
  <2>1. \A i \in 1 .. n : f[i - 1].ret = 0 => f[i] = f[i - 1]
    BY <1>1
  <2> QED
    BY <1>1, <1>2, <1>4, <2>1 DEF Turns
<1>6. Lays(f[0], f[n], UNION {P[i] : i \in 1 .. n}, T)
  BY <1>5, LaysLoop
<1>7. UNION {P[i] : i \in 1 .. n} = UNION {High(r) : r \in Range(s)}
  <2>1. ASSUME NEW b
        PROVE  b \in UNION {P[i] : i \in 1 .. n} <=> b \in UNION {High(r) : r \in Range(s)}
    BY <1>3
  <2> QED
    BY <2>1
<1> QED
  BY <1>1, <1>6, <1>7 DEF s

\* every page from from up to to is among them
Hits(s, n, from, to) ==
    \A a \in Nat : a % 4096 = 0 /\ from <= a /\ a < to => \E i \in 1 .. n : s[i] = a

\* a loop over pages
PageLoop(s, n, from, to) ==
    /\ n = Len(s) /\ n \in Nat
    /\ \A i \in 1 .. n : /\ s[i] = from + (i - 1) * 4096 /\ s[i] \in Nat /\ s[i] % 4096 = 0
                         /\ from <= s[i] /\ s[i] < to
    /\ Hits(s, n, from, to)

\* The turns of a loop over pages.
LEMMA PageTurns ==
    ASSUME NEW from \in Nat, NEW to \in Nat, from % Page = 0
    PROVE  PageLoop(Steps(from, to, Page), Len(Steps(from, to, Page)), from, to)
<1> DEFINE s == Steps(from, to, Page)
           n == Len(s)
<1>1. /\ n \in Nat
      /\ \A i \in 1 .. n : s[i] = from + (i - 1) * 4096 /\ s[i] \in Nat
      /\ \A i \in Nat \ {0} : i <= n <=> from + (i - 1) * 4096 < to
  <2> DEFINE z == Page
  <2>1. z = 4096
    BY DEF Page
  <2> HIDE DEF z
  <2>2. z \in Nat \ {0}
    BY <2>1
  <2> DEFINE t == Steps(from, to, z)
  <2>3. StepsOK(t, from, to, z)
    BY <2>2, TurnsOf, Zenon
  <2>4. s = t
    BY DEF z
  <2> HIDE DEF s, t
  <2> QED
    BY <2>1, <2>3, <2>4 DEF StepsOK
<1> HIDE DEF s, n
<1>0. from % 4096 = 0
  BY DEF Page
<1>2. ASSUME NEW i \in 1 .. n
      PROVE  /\ s[i] = from + (i - 1) * 4096 /\ s[i] \in Nat /\ s[i] % 4096 = 0
             /\ from <= s[i] /\ s[i] < to
  <2>1. i \in Nat \ {0} /\ i <= n /\ s[i] = from + (i - 1) * 4096
    BY <1>1
  <2>2. s[i] < to
    BY <1>1, <2>1
  <2> QED
    BY <1>0, <1>1, <2>1, <2>2
<1>3. ASSUME NEW a \in Nat, a % 4096 = 0, from <= a, a < to
      PROVE  \E i \in 1 .. n : s[i] = a
  <2> DEFINE i == ((a - from) \div 4096) + 1
  <2>1. i \in Nat \ {0} /\ from + (i - 1) * 4096 = a
    BY <1>0, <1>3
  <2> HIDE DEF i
  <2>2. i \in 1 .. n
    BY <1>1, <1>3, <2>1
  <2>3. s[i] = a
    BY <1>1, <2>1, <2>2
  <2> QED
    BY <2>2, <2>3
<1> QED
  BY <1>1, <1>2, <1>3 DEF PageLoop, Hits, n, s

\* what protect makes of the pages of the image
SmallMap(f) == [b \in AllPages |-> Small(b, f)]

\* a part of the image: whole pages, mapped so far
Mapped(m, r) == PagesIn(r) \subseteq DOMAIN Flatten(m)

\* protect's loop
ProtectLoop(m, from, to, f) ==
    Each(m, from, to, Page, LAMBDA n, a : map_4k(n, a, a, f, FALSE))

\* its turns: the pages of the part
PartLoop(s, n, r) ==
    /\ n \in Nat
    /\ \A i \in 1 .. n : s[i] \in PagesIn(r) /\ s[i] \in AllPages
    /\ \A a \in PagesIn(r) : \E i \in 1 .. n : s[i] = a
    /\ PagesIn(r) \subseteq AllPages
    /\ \A a \in PagesIn(r) : a \in Nat /\ a % 4096 = 0 /\ r.base <= a /\ a < r.base + r.len

\* The turns of protect.
LEMMA ProtectTurns ==
    ASSUME NEW r, InRam(r), r.base % Page = 0
    PROVE  PartLoop(Steps(Floor(r.base, Page), Floor(r.base + r.len + Page - 1, Page), Page),
                    Len(Steps(Floor(r.base, Page), Floor(r.base + r.len + Page - 1, Page), Page)),
                    r)
<1> DEFINE base == r.base
           len == r.len
           from == Floor(base, Page)
           to == Floor(base + len + Page - 1, Page)
           s == Steps(from, to, Page)
           n == Len(s)
<1>1. base \in Nat /\ len \in Nat /\ base + len <= UserBase /\ base % 4096 = 0
  BY DEF InRam, Ranges, Page
<1>2. from = (base \div 4096) * 4096 /\ to = ((base + len + 4096 - 1) \div 4096) * 4096
  BY DEF Floor, Page
<1>3. PageLoop(s, n, from, to)
  <2> HIDE DEF base, len
  <2>1. from \in Nat /\ to \in Nat /\ from % 4096 = 0
    <3> HIDE DEF from, to
    <3> QED
      BY <1>1, <1>2
  <2> HIDE DEF from, to
  <2> QED
    <3>1. from \in Nat
      BY <2>1
    <3>2. to \in Nat
      BY <2>1
    <3>3. from % Page = 0
      BY <2>1 DEF Page
    <3> QED
      BY <3>1, <3>2, <3>3, PageTurns, Zenon DEF s, n
<1> HIDE DEF from, to, s, n
<1>4. \A a \in PagesIn(r) : a \in Nat /\ a % 4096 = 0 /\ base <= a /\ a < base + len
  <2> SUFFICES ASSUME NEW a \in PagesIn(r)
               PROVE  a \in Nat /\ a % 4096 = 0 /\ base <= a /\ a < base + len
    OBVIOUS
  <2>1. CASE len = 0
    <3>1. PICK k \in (base \div 4096) .. ((base + len - 1) \div 4096) : a = k * 4096
      BY DEF PagesIn, Page
    <3>2. base \div 4096 <= (base - 1) \div 4096
      BY <1>1, <2>1, <3>1
    <3> HIDE DEF base
    <3> QED
      BY <1>1, <3>2
  <2>2. CASE len # 0
    <3>1. a \in Nat /\ a % 4096 = 0 /\ base < a + 4096 /\ a < base + len
      BY <1>1, <2>2, PagesInIs
    <3> HIDE DEF base, len
    <3> QED
      BY <1>1, <3>1
  <2> QED
    BY <2>1, <2>2
<1>5. \A a \in Nat : a % 4096 = 0 /\ base <= a /\ a < base + len => a \in PagesIn(r)
  <2> SUFFICES ASSUME NEW a \in Nat, a % 4096 = 0, base <= a, a < base + len
               PROVE  a \in PagesIn(r)
    OBVIOUS
  <2> HIDE DEF base, len
  <2>1. len # 0
    BY <1>1
  <2>2. base < a + 4096
    BY <1>1
  <2> USE DEF base, len
  <2> QED
    BY <1>1, <2>1, <2>2, PagesInIs
<1>6. \A a \in Nat : a % 4096 = 0 => /\ from <= a <=> base <= a
                                     /\ a < to <=> a < base + len
  <2> HIDE DEF base, len
  <2> QED
    BY <1>1, <1>2
<1>7. n \in Nat /\ \A i \in 1 .. n : s[i] \in PagesIn(r)
  <2>1. \A i \in 1 .. n : s[i] \in Nat /\ s[i] % 4096 = 0 /\ base <= s[i] /\ s[i] < base + len
    BY <1>3, <1>6 DEF PageLoop
  <2> QED
    BY <1>3, <1>5, <2>1 DEF PageLoop
<1>8. \A a \in PagesIn(r) : \E i \in 1 .. n : s[i] = a
  BY <1>3, <1>4, <1>6 DEF PageLoop, Hits
<1>9. PagesIn(r) \subseteq AllPages
  <2> DEFINE top == Fan * Span(4)
  <2>1. UserBase <= top /\ top \in Nat /\ UserBase \in Nat
    BY LowFacts, SpanFacts, PagingAssumption, SMT
  <2> HIDE DEF top
  <2>2. \A a \in PagesIn(r) : a \in Nat /\ a % 4096 = 0 /\ a < top
    BY <1>1, <1>4, <2>1
  <2> QED
    BY <2>2, PageFacts DEF top
<1> HIDE DEF base, len
<1>10. \A i \in 1 .. n : s[i] \in AllPages
  BY <1>7, <1>9
<1>11. PartLoop(s, n, r)
  BY <1>4, <1>7, <1>8, <1>9, <1>10 DEF PartLoop, base, len
<1> QED
  BY <1>11, Zenon DEF n, s, from, to, base, len

\* One page of the image.
LEMMA Map4kLays ==
    ASSUME NEW m, Sound(m), NEW a \in AllPages, NEW f \in [w : BOOLEAN, u : BOOLEAN, nx : BOOLEAN],
           ~f.u, a \in DOMAIN Flatten(m)
    PROVE  /\ Lays(m, map_4k(m, a, a, f, FALSE), {a}, SmallMap(f))
           /\ DOMAIN Flatten(m) \subseteq DOMAIN Flatten(map_4k(m, a, a, f, FALSE))
<1> DEFINE r == map_4k(m, a, a, f, FALSE)
<1>1. MapsPage(m, r, a, a, f)
  <2>1. a \in Nat
    BY PageNumbers
  <2>2. FALSE \in BOOLEAN /\ (f.u => FALSE) /\ (a \in Window \/ a \in DOMAIN Flatten(m))
    OBVIOUS
  <2> QED
    BY <2>1, <2>2, Map4kStep
<1>2. SmallMap(f)[a] = Small(a, f)
  BY DEF SmallMap
<1> HIDE DEF r
<1>3. Lays(m, r, {a}, SmallMap(f))
  BY <1>1, <1>2 DEF MapsPage, Lays
<1>4. DOMAIN Flatten(m) \subseteq DOMAIN Flatten(r)
  BY <1>1 DEF MapsPage, Changes
<1> QED
  BY <1>3, <1>4 DEF r

\* f[i] is the state after turn i of that loop
ProtectRunOf(f, m, r, c, s, n) ==
    /\ f[0] = Fresh(m)
    /\ \A i \in 0 .. n : Sound(f[i]) /\ f[i].nx = m.nx /\ Mapped(f[i], r)
    /\ \A i \in 1 .. n :
          f[i] = IF f[i - 1].ret = 0 THEN f[i - 1] ELSE map_4k(f[i - 1], s[i], s[i], c, FALSE)

\* The loop of protect.
LEMMA ProtectRun ==
    ASSUME NEW m, Sound(m), NEW r, Mapped(m, r), NEW from, NEW to,
           PartLoop(Steps(from, to, Page), Len(Steps(from, to, Page)), r),
           NEW c \in [w : BOOLEAN, u : BOOLEAN, nx : BOOLEAN], ~c.u
    PROVE  \E f : ProtectRunOf(f, m, r, c, Steps(from, to, Page),
                  Len(Steps(from, to, Page))) /\ f[Len(Steps(from, to, Page))] = ProtectLoop(m, from, to, c)
<1> DEFINE s == Steps(from, to, Page)
           n == Len(s)
           b == Fresh(m)
           Body(k, i) == IF k.ret = 0 THEN k ELSE map_4k(k, s[i], s[i], c, FALSE)
           Run(f) == f = [i \in 0 .. n |-> IF i = 0 THEN b ELSE Body(f[i - 1], i)]
           f == CHOOSE after : Run(after)
           S == {k \in Sounds : k.nx = m.nx /\ Mapped(k, r)}
           g == [p \in (1 .. n) \X S |-> Body(p[2], p[1])]
<1>1. ProtectLoop(m, from, to, c) = f[n]
  BY Zenon DEF ProtectLoop, Each, Over, Then, Fresh
<1>2. n \in Nat /\ \A i \in 1 .. n : s[i] \in PagesIn(r) /\ s[i] \in AllPages
  BY DEF PartLoop
<1> HIDE DEF s, n
<1>3. ASSUME NEW i \in 1 .. n, NEW k \in S PROVE Body(k, i) \in S
  <2>1. Sound(k) /\ k \in States /\ k.nx = m.nx /\ Mapped(k, r)
    BY DEF Sounds
  <2> DEFINE q == map_4k(k, s[i], s[i], c, FALSE)
  <2>2. s[i] \in AllPages /\ s[i] \in DOMAIN Flatten(k)
    BY <1>2, <2>1 DEF Mapped
  <2>3. Lays(k, q, {s[i]}, SmallMap(c)) /\ DOMAIN Flatten(k) \subseteq DOMAIN Flatten(q)
    BY <2>1, <2>2, Map4kLays
  <2> HIDE DEF q
  <2>4. q \in S
    BY <2>1, <2>3 DEF Sounds, Sound, Grows, Lays, Mapped
  <2>5. k \in S
    OBVIOUS
  <2> HIDE DEF S
  <2> QED
    BY <2>4, <2>5 DEF q
<1>4. g \in [(1 .. n) \X S -> S]
  <2>1. \A p \in (1 .. n) \X S : Body(p[2], p[1]) \in S
    BY <1>3
  <2> HIDE DEF Body, S
  <2> QED
    BY <2>1
<1>5. b \in S
  BY FreshSound DEF Sounds, Sound, Mapped
<1>6. \E h : Run(h)
  <2>1. \E h : RunOf(h, S, n, b, g)
    <3> HIDE DEF g, b, S
    <3>1. n \in Nat
      BY <1>2
    <3> QED
      BY <1>4, <1>5, <3>1, LoopRun
  <2> PICK h : RunOf(h, S, n, b, g)
    BY <2>1
  <2>2. h \in [0 .. n -> S] /\ h[0] = b /\ \A i \in 1 .. n : h[i] = g[<<i, h[i - 1]>>]
    BY DEF RunOf
  <2>3. \A i \in 1 .. n : i - 1 \in 0 .. n /\ h[i - 1] \in S
    BY <1>2, <2>2
  <2> HIDE DEF Body, S, b
  <2>4. \A i \in 1 .. n : h[i] = Body(h[i - 1], i)
    BY <2>2, <2>3
  <2>5. \A i \in 0 .. n : i = 0 \/ i \in 1 .. n
    BY <1>2
  <2>6. \A i \in 0 .. n : h[i] = IF i = 0 THEN b ELSE Body(h[i - 1], i)
    BY <2>2, <2>4, <2>5, Zenon
  <2>7. h \in [0 .. n -> S]
    BY <2>2
  <2> HIDE DEF g
  <2>8. h = [i \in 0 .. n |-> IF i = 0 THEN b ELSE Body(h[i - 1], i)]
    BY <2>6, <2>7, Zenon
  <2> QED
    BY <2>8
<1>7. Run(f)
  <2> HIDE DEF Run
  <2> QED
    BY <1>6, Zenon DEF f
<1> HIDE DEF f
<1>8. f[0] = b /\ \A i \in 1 .. n : f[i] = Body(f[i - 1], i)
  <2>1. 0 \in 0 .. n /\ \A i \in 1 .. n : i \in 0 .. n /\ i # 0
    BY <1>2
  <2> HIDE DEF Body, b
  <2>2. \A i \in 0 .. n : f[i] = IF i = 0 THEN b ELSE Body(f[i - 1], i)
    BY <1>7, Zenon
  <2> QED
    BY <2>1, <2>2
<1> HIDE DEF Run
<1>9. \A i \in 0 .. n : f[i] \in S
  <2> DEFINE A == {i \in 0 .. n : f[i] \in S}
  <2>1. 0 \in A
    BY <1>2, <1>5, <1>8
  <2>2. ASSUME NEW i \in 1 .. n, i - 1 \in A PROVE i \in A
    <3> DEFINE k == f[i - 1]
    <3>1. k \in S
      BY <2>2
    <3>2. i \in 0 .. n
      BY <1>2
    <3> HIDE DEF Body, S
    <3>3. f[i] = Body(k, i)
      BY <1>8
    <3> HIDE DEF k
    <3>4. Body(k, i) \in S
      BY <1>3, <3>1
    <3> QED
      BY <3>2, <3>3, <3>4
  <2> HIDE DEF A
  <2>3. n \in Nat
    BY <1>2
  <2>4. \A i \in 0 .. n : i \in A
    BY <2>1, <2>2, <2>3, TurnInduction
  <2> QED
    BY <2>4 DEF A
<1>10. \A i \in 0 .. n : Sound(f[i]) /\ f[i].nx = m.nx /\ Mapped(f[i], r)
  BY <1>9 DEF Sounds
<1>11. f[0] = b /\ f[n] = ProtectLoop(m, from, to, c)
  BY <1>1, <1>8
<1>12. \E h : ProtectRunOf(h, m, r, c, s, n) /\ h[n] = ProtectLoop(m, from, to, c)
  <2>1. ProtectRunOf(f, m, r, c, s, n)
    BY <1>8, <1>10, <1>11 DEF ProtectRunOf, b
  <2> QED
    BY <1>11, <2>1, Zenon
<1> QED
  BY <1>12, Zenon DEF s, n

\* A part of the image.
LEMMA ProtectStep ==
    ASSUME NEW m, Sound(m), NEW r, InRam(r), r.base % Page = 0, Mapped(m, r),
           NEW c \in [w : BOOLEAN, u : BOOLEAN, nx : BOOLEAN], ~c.u
    PROVE  Lays(m, protect(m, r, c), PagesIn(r), SmallMap(c))
<1> DEFINE from == Floor(r.base, Page)
           to == Floor(r.base + r.len + Page - 1, Page)
           s == Steps(from, to, Page)
           n == Len(s)
           T == SmallMap(c)
           P == [i \in 1 .. n |-> {s[i]}]
<1>2. PartLoop(s, n, r)
  BY ProtectTurns
<1>3. protect(m, r, c) = ProtectLoop(m, from, to, c)
  BY Zenon DEF protect, ProtectLoop
<1> HIDE DEF from, to
<1>0. PICK f : ProtectRunOf(f, m, r, c, s, n) /\ f[n] = ProtectLoop(m, from, to, c)
  BY <1>2, ProtectRun
<1> HIDE DEF s, n
<1>1. /\ f[0] = Fresh(m) /\ f[n] = ProtectLoop(m, from, to, c)
      /\ \A i \in 0 .. n : Sound(f[i]) /\ f[i].nx = m.nx /\ Mapped(f[i], r)
      /\ \A i \in 1 .. n : f[i] = IF f[i - 1].ret = 0 THEN f[i - 1]
                                  ELSE map_4k(f[i - 1], s[i], s[i], c, FALSE)
  BY <1>0 DEF ProtectRunOf
<1>4. ASSUME NEW i \in 1 .. n, f[i - 1].ret # 0
      PROVE  Lays(f[i - 1], f[i], P[i], T)
  <2>1. i - 1 \in 0 .. n
    BY <1>2 DEF PartLoop
  <2> DEFINE k == f[i - 1]
  <2>2. Sound(k) /\ Mapped(k, r)
    BY <1>1, <2>1
  <2>3. f[i] = map_4k(k, s[i], s[i], c, FALSE)
    BY <1>1, <1>4
  <2> HIDE DEF k
  <2>4. s[i] \in AllPages /\ s[i] \in DOMAIN Flatten(k)
    BY <1>2, <2>2 DEF Mapped, PartLoop
  <2>5. Lays(k, map_4k(k, s[i], s[i], c, FALSE), {s[i]}, T)
    BY <2>2, <2>4, Map4kLays
  <2> QED
    BY <2>3, <2>5 DEF k
<1>5. Turns(f, n, P, T)
  <2>1. \A i \in 1 .. n : f[i - 1].ret = 0 => f[i] = f[i - 1]
    BY <1>1
  <2>2. Sound(f[0]) /\ f[0].ret # 0
    BY <1>1, FreshSound
  <2>3. n \in Nat
    BY <1>2 DEF PartLoop
  <2> HIDE DEF P, T
  <2> QED
    BY <1>4, <2>1, <2>2, <2>3 DEF Turns
<1>6. Lays(f[0], f[n], UNION {P[i] : i \in 1 .. n}, T)
  BY <1>5, LaysLoop
<1>7. UNION {P[i] : i \in 1 .. n} = PagesIn(r)
  <2>1. ASSUME NEW b
        PROVE  b \in UNION {P[i] : i \in 1 .. n} <=> b \in PagesIn(r)
    BY <1>2 DEF PartLoop
  <2> QED
    BY <2>1
<1>8. Lays(Fresh(m), protect(m, r, c), PagesIn(r), T)
  BY <1>1, <1>3, <1>6, <1>7
<1> QED
  BY <1>8, FreshLays

\* The parts of the image: whole pages, apart from each other, of the image.
LEMMA ImageFacts ==
    ASSUME NEW c \in BootInfos
    PROVE  /\ InRam(c.text) /\ InRam(c.rodata) /\ InRam(c.data)
           /\ c.text.base % Page = 0 /\ c.rodata.base % Page = 0 /\ c.data.base % Page = 0
           /\ PagesIn(c.text) \subseteq BootPages(c) /\ PagesIn(c.rodata) \subseteq BootPages(c)
           /\ PagesIn(c.data) \subseteq BootPages(c)
           /\ PagesIn(c.text) \cap PagesIn(c.rodata) = {}
           /\ PagesIn(c.text) \cap PagesIn(c.data) = {}
           /\ PagesIn(c.rodata) \cap PagesIn(c.data) = {}
<1>1. /\ InRam(c.text) /\ InRam(c.rodata) /\ InRam(c.data)
      /\ c.text.base % Page = 0 /\ c.rodata.base % Page = 0 /\ c.data.base % Page = 0
      /\ c.text.base + c.text.len <= c.rodata.base
      /\ c.rodata.base + c.rodata.len <= c.data.base
  BY PlacesAssumption
<1> DEFINE tb == c.text.base
           tl == c.text.len
           rb == c.rodata.base
           rl == c.rodata.len
           db == c.data.base
           dl == c.data.len
           k == Kernel(c)
<1>2. /\ tb \in Nat /\ tl \in Nat /\ rb \in Nat /\ rl \in Nat /\ db \in Nat /\ dl \in Nat
      /\ tb + tl <= rb /\ rb + rl <= db
      /\ rb % 4096 = 0 /\ db % 4096 = 0
  BY <1>1 DEF InRam, Ranges, Page
<1>3. ASSUME NEW r \in {c.text, c.rodata, c.data}
      PROVE  /\ PagesIn(r) \subseteq AllPages
             /\ \A a \in PagesIn(r) : a \in Nat /\ a % 4096 = 0 /\ r.base <= a /\ a < r.base + r.len
  <2>1. InRam(r) /\ r.base % Page = 0
    BY <1>1
  <2> DEFINE s == Steps(Floor(r.base, Page), Floor(r.base + r.len + Page - 1, Page), Page)
  <2>2. PartLoop(s, Len(s), r)
    BY <2>1, ProtectTurns
  <2> HIDE DEF s
  <2> QED
    BY <2>2 DEF PartLoop
<1>4. /\ \A a \in PagesIn(c.text) : a \in Nat /\ tb <= a /\ a < tb + tl
      /\ \A a \in PagesIn(c.rodata) : a \in Nat /\ rb <= a /\ a < rb + rl
      /\ \A a \in PagesIn(c.data) : a \in Nat /\ db <= a /\ a < db + dl
  BY <1>3
<1>5. k \in Range(extra(c)) /\ k.base # 0 /\ k.len # 0 /\ k.base = tb /\ k.base + k.len = db + dl
      /\ k.base \in Nat
  BY ExtraFacts
<1> HIDE DEF tb, tl, rb, rl, db, dl, k
<1>6. \A a \in PagesIn(c.text) \cup PagesIn(c.rodata) \cup PagesIn(c.data) :
          a \in AllPages /\ a \in Nat /\ tb <= a /\ a < db + dl
  BY <1>2, <1>3, <1>4
<1>7. \A a \in PagesIn(c.text) \cup PagesIn(c.rodata) \cup PagesIn(c.data) : a \in BootPages(c)
  <2> SUFFICES ASSUME NEW a \in PagesIn(c.text) \cup PagesIn(c.rodata) \cup PagesIn(c.data)
               PROVE  a \in BootPages(c)
    OBVIOUS
  <2> DEFINE z == Span(2)
             x == Floor(k.base, z)
             y == Floor(a, z)
  <2>1. z \in Nat \ {0}
    BY SpanFacts
  <2>2. \A b \in Nat : Floor(b, z) <= b
    <3> HIDE DEF z
    <3> SUFFICES ASSUME NEW b \in Nat PROVE Floor(b, z) <= b
      OBVIOUS
    <3>1. b \div z \in Nat /\ b % z \in 0 .. (z - 1) /\ b = z * (b \div z) + (b % z)
      BY <2>1, Euclid, Zenon
    <3> DEFINE q == b \div z
               t == b % z
    <3> HIDE DEF q, t
    <3>2. q * z = z * q /\ z * q \in Nat
      BY <2>1, <3>1, SMT DEF q
    <3>3. t \in Nat /\ b = z * q + t
      BY <2>1, <3>1 DEF q, t
    <3>4. q * z <= b
      BY <3>2, <3>3
    <3> QED
      BY <3>4 DEF Floor, q
  <2>3. x \in Nat /\ y \in Nat
    <3>1. \A b \in Nat : Floor(b, z) \in Nat
      <4> HIDE DEF z
      <4> SUFFICES ASSUME NEW b \in Nat PROVE Floor(b, z) \in Nat
        OBVIOUS
      <4>1. b \div z \in Nat
        BY <2>1, Euclid, Zenon
      <4> DEFINE q == b \div z
      <4> HIDE DEF q
      <4>2. q * z \in Nat
        BY <2>1, <4>1, SMT DEF q
      <4> QED
        BY <4>2 DEF Floor, q
    <3> HIDE DEF z
    <3> QED
      BY <1>5, <1>6, <3>1
  <2>4. x <= k.base /\ y <= a
    BY <1>5, <1>6, <2>2
  <2> HIDE DEF x, y, z
  <2>5. x <= a /\ y < k.base + k.len
    BY <1>2, <1>5, <1>6, <2>3, <2>4
  <2>6. a \in Wide(k)
    BY <1>5, <1>6, <2>5 DEF Wide, x, y, z
  <2> QED
    BY <1>5, <2>6 DEF BootPages
<1>8. /\ PagesIn(c.text) \cap PagesIn(c.rodata) = {}
      /\ PagesIn(c.text) \cap PagesIn(c.data) = {}
      /\ PagesIn(c.rodata) \cap PagesIn(c.data) = {}
  BY <1>2, <1>4
<1> QED
  BY <1>1, <1>7, <1>8

\* G is F with the pages of S as T says
Amends(F, G, S, T, P) ==
    DOMAIN G = P /\ \A b \in P : /\ b \in S => G[b] = T[b]
                                 /\ b \notin S => G[b] = F[b]

\* What is laid over mapped pages.
LEMMA LaysOver ==
    ASSUME NEW m, NEW r, NEW S, NEW T, Lays(m, r, S, T), r.ret # 0,
           NEW P, DOMAIN Flatten(m) = P, S \subseteq P
    PROVE  Amends(Flatten(m), Flatten(r), S, T, P)
<1> DEFINE F == Flatten(m)
           G == Flatten(r)
<1>1. Changes(F, G, S) /\ \A b \in S : b \in DOMAIN G /\ G[b] = T[b]
  BY DEF Lays
<1>2. DOMAIN F = P
  OBVIOUS
<1> HIDE DEF F, G
<1>3. DOMAIN G = P
  BY <1>1, <1>2 DEF Changes
<1>4. \A b \in P : b \notin S => G[b] = F[b]
  BY <1>1, <1>2 DEF Changes
<1> QED
  BY <1>1, <1>3, <1>4 DEF Amends, F, G

\* r is m, grown, with the kernel's map, or as far as there was memory for it
Maps(m, r, M) ==
    /\ Sound(r) /\ Grows(m, r)
    /\ r.ret = 0 => Dry(r)
    /\ r.ret # 0 => Flatten(r) = M

\* The permissions of the image.
LEMMA KernelWXStep ==
    ASSUME NEW m, Sound(m), NEW c \in BootInfos, DOMAIN Flatten(m) = BootPages(c),
           \A b \in BootPages(c) : Flatten(m)[b] = Plain(b, m.nx)
    PROVE  Maps(m, KernelWX(m, c), BootMap(c, m.nx))
<1> DEFINE A == PagesIn(c.text)
           B == PagesIn(c.rodata)
           D == PagesIn(c.data)
           f == Flags(FALSE, FALSE, FALSE)
           n == protect(m, c.text, f)
           g == Flags(FALSE, FALSE, n.nx)
           o == protect(n, c.rodata, g)
           h == Data(o)
           r == protect(o, c.data, h)
           P == BootPages(c)
           M == BootMap(c, m.nx)
<1>1. /\ InRam(c.text) /\ InRam(c.rodata) /\ InRam(c.data)
      /\ c.text.base % Page = 0 /\ c.rodata.base % Page = 0 /\ c.data.base % Page = 0
      /\ A \subseteq P /\ B \subseteq P /\ D \subseteq P
      /\ A \cap B = {} /\ A \cap D = {} /\ B \cap D = {}
  BY ImageFacts
<1>2. KernelWX(m, c) = IF n.ret = 0 THEN n ELSE IF o.ret = 0 THEN o ELSE r
  BY Zenon DEF KernelWX, Then
<1>3. f \in [w : BOOLEAN, u : BOOLEAN, nx : BOOLEAN] /\ f.w = FALSE /\ f.u = FALSE /\ f.nx = FALSE
  BY DEF Flags
<1>4. m \in States /\ m.nx \in BOOLEAN
  BY DEF Sound, States
<1>5. Mapped(m, c.text)
  BY <1>1 DEF Mapped
<1>6. Lays(m, n, A, SmallMap(f))
  <2> HIDE DEF f
  <2> QED
    BY <1>1, <1>3, <1>5, ProtectStep
<1>7. CASE n.ret = 0
  BY <1>2, <1>6, <1>7 DEF Lays, Maps
<1>8. CASE n.ret # 0
  <2> HIDE DEF n, f
  <2>1. Sound(n) /\ Grows(m, n) /\ n \in States /\ n.nx = m.nx
    BY <1>6 DEF Lays, Grows, Sound
  <2>2. /\ DOMAIN Flatten(n) = P
        /\ \A b \in P : Flatten(n)[b] = IF b \in A THEN SmallMap(f)[b] ELSE Plain(b, m.nx)
    <3>1. Amends(Flatten(m), Flatten(n), A, SmallMap(f), P)
      BY <1>1, <1>6, <1>8, LaysOver
    <3> HIDE DEF A, P
    <3> QED
      BY <3>1 DEF Amends, P
  <2>3. g \in [w : BOOLEAN, u : BOOLEAN, nx : BOOLEAN] /\ g.w = FALSE /\ g.u = FALSE /\ g.nx = m.nx
    BY <1>4, <2>1 DEF Flags
  <2>4. Mapped(n, c.rodata)
    BY <1>1, <2>2 DEF Mapped
  <2>5. Lays(n, o, B, SmallMap(g))
    <3> HIDE DEF g
    <3> QED
      BY <1>1, <2>1, <2>3, <2>4, ProtectStep
  <2>6. CASE o.ret = 0
    <3>1. Grows(m, o)
      BY <1>4, <2>1, <2>5, GrowsTrans DEF Lays, Sound
    <3> QED
      BY <1>2, <1>8, <2>5, <2>6, <3>1 DEF Lays, Maps
  <2>7. CASE o.ret # 0
    <3> HIDE DEF o, g
    <3>1. Sound(o) /\ Grows(n, o) /\ o \in States /\ o.nx = m.nx
      BY <2>1, <2>5 DEF Lays, Grows, Sound
    <3>2. /\ DOMAIN Flatten(o) = P
          /\ \A b \in P : Flatten(o)[b] = IF b \in B THEN SmallMap(g)[b]
                                          ELSE IF b \in A THEN SmallMap(f)[b] ELSE Plain(b, m.nx)
      <4>1. Amends(Flatten(n), Flatten(o), B, SmallMap(g), P)
        BY <1>1, <2>2, <2>5, <2>7, LaysOver
      <4> HIDE DEF A, B, P
      <4> QED
        BY <2>2, <4>1 DEF Amends
    <3>3. h \in [w : BOOLEAN, u : BOOLEAN, nx : BOOLEAN] /\ h.w = TRUE /\ h.u = FALSE /\ h.nx = m.nx
      BY <1>4, <3>1 DEF Flags, Data
    <3>4. Mapped(o, c.data)
      BY <1>1, <3>2 DEF Mapped
    <3>5. Lays(o, r, D, SmallMap(h))
      <4> HIDE DEF h
      <4> QED
        BY <1>1, <3>1, <3>3, <3>4, ProtectStep
    <3>6. Grows(m, r)
      <4>1. Grows(n, r)
        BY <2>1, <3>1, <3>5, GrowsTrans DEF Lays, Sound
      <4> QED
        BY <1>4, <2>1, <3>5, <4>1, GrowsTrans DEF Lays, Sound
    <3>7. KernelWX(m, c) = r
      BY <1>2, <1>8, <2>7
    <3>8. CASE r.ret = 0
      BY <3>5, <3>6, <3>7, <3>8 DEF Lays, Maps
    <3>9. CASE r.ret # 0
      <4> HIDE DEF r, h
      <4>1. /\ DOMAIN Flatten(r) = P
            /\ \A b \in P : Flatten(r)[b] = IF b \in D THEN SmallMap(h)[b]
                                            ELSE IF b \in B THEN SmallMap(g)[b]
                                            ELSE IF b \in A THEN SmallMap(f)[b] ELSE Plain(b, m.nx)
        <5>1. Amends(Flatten(o), Flatten(r), D, SmallMap(h), P)
          BY <1>1, <3>2, <3>5, <3>9, LaysOver
        <5> HIDE DEF A, B, D, P
        <5> QED
          BY <3>2, <5>1 DEF Amends
      <4>2. P \subseteq AllPages
        BY DEF BootPages, Wide
      <4>3. /\ DOMAIN M = P
            /\ \A b \in P : M[b] = [frame |-> b, w |-> b \notin A \cup B,
                                    u |-> FALSE, x |-> b \in A \/ ~m.nx]
        BY DEF BootMap
      <4> HIDE DEF A, B, D, P, M
      <4>4. ASSUME NEW b \in P PROVE Flatten(r)[b] = M[b]
        <5>1. /\ SmallMap(h)[b] = [frame |-> b, w |-> TRUE, u |-> FALSE, x |-> ~m.nx]
              /\ SmallMap(g)[b] = [frame |-> b, w |-> FALSE, u |-> FALSE, x |-> ~m.nx]
              /\ SmallMap(f)[b] = [frame |-> b, w |-> FALSE, u |-> FALSE, x |-> TRUE]
          BY <1>3, <2>3, <3>3, <4>2 DEF SmallMap, Small
        <5>2. Plain(b, m.nx) = [frame |-> b, w |-> TRUE, u |-> FALSE, x |-> ~m.nx]
          BY DEF Plain
        <5>3. CASE b \in A
          <6>1. b \notin B /\ b \notin D
            BY <1>1, <5>3
          <6>2. Flatten(r)[b] = [frame |-> b, w |-> FALSE, u |-> FALSE, x |-> TRUE]
            BY <4>1, <5>1, <5>3, <6>1
          <6>3. M[b] = [frame |-> b, w |-> FALSE, u |-> FALSE, x |-> TRUE]
            BY <4>3, <5>3
          <6> QED
            BY <6>2, <6>3
        <5>4. CASE b \in B
          <6>1. b \notin A /\ b \notin D
            BY <1>1, <5>4
          <6>2. Flatten(r)[b] = [frame |-> b, w |-> FALSE, u |-> FALSE, x |-> ~m.nx]
            BY <4>1, <5>1, <5>4, <6>1
          <6>3. M[b] = [frame |-> b, w |-> FALSE, u |-> FALSE, x |-> ~m.nx]
            BY <4>3, <5>4, <6>1
          <6> QED
            BY <6>2, <6>3
        <5>5. CASE b \notin A /\ b \notin B
          <6>1. Flatten(r)[b] = [frame |-> b, w |-> TRUE, u |-> FALSE, x |-> ~m.nx]
            BY <4>1, <5>1, <5>2, <5>5
          <6>2. M[b] = [frame |-> b, w |-> TRUE, u |-> FALSE, x |-> ~m.nx]
            BY <4>3, <5>5
          <6> QED
            BY <6>1, <6>2
        <5> QED
          BY <5>3, <5>4, <5>5
      <4>5. Flatten(r) = M
        <5>1. Flatten(r) = [b \in P |-> Flatten(r)[b]]
          <6>1. Flatten(r) = [b \in DOMAIN Flatten(r) |-> Flatten(r)[b]]
            BY DEF Flatten
          <6> QED
            BY <4>1, <6>1
        <5>2. M = [b \in P |-> M[b]]
          BY <4>3 DEF M, BootMap
        <5> QED
          BY <4>4, <5>1, <5>2
      <4> QED
        BY <3>5, <3>6, <3>7, <3>9, <4>5 DEF Lays, Maps, M
    <3> QED
      BY <3>8, <3>9
  <2> QED
    BY <2>6, <2>7
<1> QED
  BY <1>7, <1>8

-----------------------------------------------------------------------------
(* paging_init.                                                            *)

\* r is m with memory taken; its tables may be others
Takes(m, r) ==
    /\ r \in States /\ HeapOK(r) /\ r.nx = m.nx
    /\ m.at <= r.at /\ m.blocks \subseteq r.blocks
    /\ r.blocks = m.blocks => AlignUp(r.at, Page) = AlignUp(m.at, Page)

\* ... as much as there was, or it now has a root that maps nothing
Rooted(m, r) ==
    /\ Takes(m, r)
    /\ r.ret = 0 => Dry(r) /\ r.mem = m.mem /\ r.pml4 = m.pml4
    /\ r.ret # 0 => Sound(r) /\ r.pml4 # 0 /\ DOMAIN Flatten(r) = {}

\* paging_init's first page
Root(m) ==
    Then(kalloc_page(m), LAMBDA n :
         [n EXCEPT !.pml4 = n.ret, !.mem = [t \in {n.ret} |-> ZeroTable]])

\* A zeroed root.
LEMMA RootStep ==
    ASSUME NEW m \in States, HeapOK(m)
    PROVE  Rooted(m, Root(m))
<1> DEFINE k == kalloc_page(m)
           pg == k.ret
           t == [c \in {pg} |-> ZeroTable]
           r == [k EXCEPT !.pml4 = pg, !.mem = t]
<1>1. Root(m) = IF k.ret = 0 THEN k ELSE r
  BY Zenon DEF Root, Then
<1>2. /\ k \in States /\ HeapOK(k) /\ Grows(m, k) /\ k.mem = m.mem
      /\ k.ret = 0 => Dry(k)
      /\ k.ret # 0 => k.ret \in Nat /\ OwnPage(k, k.ret)
  BY KallocStep
<1>3. Takes(m, k)
  BY <1>2 DEF Takes, Grows
<1>4. CASE k.ret = 0
  BY <1>1, <1>2, <1>3, <1>4 DEF Rooted, Grows
<1>5. CASE k.ret # 0
  <2>1. k.ret \in Nat /\ OwnPage(k, pg)
    BY <1>2, <1>5
  <2>2. ZeroTable \in Tables /\ \A j \in 0 .. (Fan - 1) : ZeroTable[j] = NoEntry
    BY NoEntryFacts DEF ZeroTable, Tables
  <2>3. DOMAIN t = {pg} /\ t[pg] = ZeroTable
    OBVIOUS
  <2>4. t \in Mems
    <3>1. t \in [{pg} -> Tables] /\ {pg} \in SUBSET Nat
      BY <2>1, <2>2
    <3> HIDE DEF t
    <3> QED
      BY <3>1 DEF Mems
  <2>5. pg \in Nat /\ pg # 0
    BY <1>5, <2>1
  <2> DEFINE v == k.ret
  <2> HIDE DEF t, pg
  <2>6. /\ r \in States /\ r.at = k.at /\ r.blocks = k.blocks /\ r.pml4 = pg /\ r.mem = t
        /\ r.nx = k.nx /\ r.ret = k.ret
    <3> HIDE DEF k, v
    <3> QED
      BY <1>2, <2>4, <2>5 DEF States
  <2> HIDE DEF k, v, r
  <2>7. HeapOK(r) /\ Takes(m, r)
    BY <1>2, <1>3, <2>6 DEF HeapOK, Takes
  <2>8. \A c \in DOMAIN r.mem : OwnPage(r, c)
    BY <2>1, <2>3, <2>6 DEF OwnPage
  <2>9. \E pos : Tree(r, pos)
    <3> DEFINE pos == [c \in {pg} |-> [l |-> 4, n |-> 0]]
    <3>1. pos \in [DOMAIN r.mem -> Nodes] /\ pos[pg].l = 4 /\ pos[pg].n = 0
      BY <2>3, <2>6 DEF Nodes
    <3> HIDE DEF pos
    <3>2. r.pml4 \in DOMAIN r.mem /\ \A c \in DOMAIN r.mem : r.mem[c] \in Tables
      BY <2>2, <2>3, <2>6
    <3>3. ASSUME NEW c \in DOMAIN r.mem, NEW j \in 0 .. (Fan - 1) PROVE EntryOK(r, pos, c, j)
      <4>1. r.mem[c][j] = NoEntry
        BY <2>2, <2>3, <2>6
      <4> QED
        BY <4>1, NoEntryFacts DEF EntryOK
    <3> QED
      BY <2>6, <3>1, <3>2, <3>3 DEF Tree
  <2>10. \A a \in AllPages : ~E1(r, a).p /\ ~E2(r, a).p
    <3> SUFFICES ASSUME NEW a \in AllPages PROVE ~E1(r, a).p /\ ~E2(r, a).p
      OBVIOUS
    <3>1. Index(a, 4) \in 0 .. (Fan - 1)
      <4>1. a \in Nat
        BY PageNumbers
      <4>2. \A l \in 1 .. 4 : Index(a, l) \in 0 .. (Fan - 1)
        BY <4>1, NumFacts, Zenon
      <4> QED
        BY <4>2
    <3>2. E4(r, a) = NoEntry
      BY <2>2, <2>3, <2>6, <3>1 DEF E4
    <3>3. E3(r, a) = NoEntry
      BY <3>2, NoEntryFacts DEF E3, Under
    <3>4. E2(r, a) = NoEntry
      BY <3>3, NoEntryFacts DEF E2, Under
    <3>5. E1(r, a) = NoEntry
      BY <3>4, NoEntryFacts DEF E1, Under
    <3> QED
      BY <3>4, <3>5, NoEntryFacts
  <2>11. Sound(r)
    BY <2>6, <2>7, <2>8, <2>9, <2>10 DEF Sound, UserPath, Full
  <2>12. DOMAIN Flatten(r) = {}
    BY <2>10, <2>11, FlattenFacts
  <2> QED
    BY <1>1, <1>5, <2>5, <2>6, <2>7, <2>11, <2>12 DEF Rooted, k, r
<1> QED
  BY <1>4, <1>5

\* What paging_init makes of m: the map of the boot info in new tables, or as
\* much of them as there was memory for.
Builds(m, r, M) ==
    /\ Takes(m, r)
    /\ r.ret = 0 => Dry(r)
    /\ r.pml4 = m.pml4 => r.mem = m.mem /\ r.ret = 0
    /\ r.pml4 # m.pml4 => Sound(r)
    /\ r.ret # 0 => Flatten(r) = M

\* A call on the new tables.
LEMMA TakesGrows ==
    ASSUME NEW m \in States, NEW n, NEW r, Takes(m, n), Sound(r), Grows(n, r)
    PROVE  Takes(m, r)
  BY DEF Takes, Grows, Sound, States

\* The ranges of the boot info, and what lies below Low, are all it asks for.
LEMMA BootPagesAre ==
    ASSUME NEW c
    PROVE  {a \in AllPages : a < Low} \cup UNION {High(r) : r \in Range(extra(c))} = BootPages(c)
<1> DEFINE R == Range(extra(c))
           L == {a \in AllPages : a < Low}
<1>1. BootPages(c) = L \cup UNION {Wide(r) : r \in R}
  BY Zenon DEF BootPages
<1> HIDE DEF R
<1>2. \A r : /\ Wide(r) \subseteq AllPages
             /\ \A a : a \in High(r) <=> a \in Wide(r) /\ ~ (a < Low)
  BY DEF Wide, High
<1>3. \A a : a \in L \cup UNION {High(r) : r \in R} <=> a \in L \cup UNION {Wide(r) : r \in R}
  <2> HIDE DEF L
  <2>1. \A a \in AllPages : a \in L <=> a < Low
    BY DEF L
  <2> QED
    BY <1>2, <2>1, Zenon
<1>4. L \cup UNION {High(r) : r \in R} = BootPages(c)
  <2> HIDE DEF L
  <2> QED
    BY <1>1, <1>3
<1> QED
  BY <1>4 DEF L, R

\* paging_init.
LEMMA BuiltStep ==
    ASSUME NEW m \in States, HeapOK(m), m.pml4 = 0, NEW c \in BootInfos
    PROVE  Builds(m, Built(m, c), BootMap(c, m.nx))
<1> DEFINE k == Root(m)
           L == {a \in AllPages : a < Low}
           U == UNION {High(r) : r \in Range(extra(c))}
           T == PlainMap(m.nx)
           low == IdentityMap(k)
           all == Extras(low, c)
           wx == KernelWX(all, c)
           r == Built(m, c)
<1>1. r = IF k.ret = 0 THEN k ELSE IF low.ret = 0 THEN low ELSE IF all.ret = 0 THEN all ELSE wx
  BY Zenon DEF Built, Then, Root
<1>2. Rooted(m, k)
  BY RootStep
<1>3. k.nx = m.nx /\ Takes(m, k)
  BY <1>2 DEF Rooted, Takes
<1>4. CASE k.ret = 0
  BY <1>1, <1>2, <1>4 DEF Rooted, Builds
<1>5. CASE k.ret # 0
  <2>1. Sound(k) /\ k.pml4 # 0 /\ DOMAIN Flatten(k) = {}
    BY <1>2, <1>5 DEF Rooted
  <2> HIDE DEF k, r
  <2>2. Lays(k, low, L, T)
    BY <1>3, <2>1, IdentityStep
  <2>3. Sound(low) /\ Grows(k, low) /\ low.nx = m.nx
    BY <1>3, <2>2 DEF Lays, Grows
  <2>4. CASE low.ret = 0
    <3> HIDE DEF low
    <3>1. r = low /\ Takes(m, low) /\ low.pml4 # 0
      BY <1>1, <1>3, <1>5, <2>1, <2>3, <2>4, TakesGrows DEF Grows
    <3> QED
      BY <2>2, <2>3, <2>4, <3>1 DEF Builds, Lays, r
  <2>5. CASE low.ret # 0
    <3> HIDE DEF low
    <3>1. Lays(low, all, U, T)
      BY <2>3, <2>5, ExtrasStep
    <3> HIDE DEF all
    <3> HIDE DEF L, U, T
    <3>2. Lays(k, all, L \cup U, T)
      BY <2>1, <2>2, <2>5, <3>1, LaysTrans
    <3>3. Sound(all) /\ Grows(k, all) /\ all.nx = m.nx
      BY <1>3, <3>2 DEF Lays, Grows
    <3>4. Takes(m, all) /\ all.pml4 # 0
      BY <1>3, <2>1, <3>3, TakesGrows DEF Grows
    <3>5. CASE all.ret = 0
      BY <1>1, <1>5, <2>5, <3>2, <3>3, <3>4, <3>5 DEF Builds, Lays, r
    <3>6. CASE all.ret # 0
      <4>1. r = wx
        BY <1>1, <1>5, <2>5, <3>6
      <4>2. L \cup U = BootPages(c)
        BY BootPagesAre DEF L, U
      <4>3. /\ DOMAIN Flatten(all) = BootPages(c)
            /\ \A b \in BootPages(c) : Flatten(all)[b] = Plain(b, all.nx)
        <5> DEFINE F == Flatten(k)
                   G == Flatten(all)
                   P == BootPages(c)
        <5>1. Changes(F, G, P) /\ \A b \in P : b \in DOMAIN G /\ G[b] = T[b]
          BY <3>2, <3>6, <4>2 DEF Lays
        <5>2. DOMAIN F = {}
          BY <2>1
        <5>3. \A b \in P : T[b] = Plain(b, all.nx)
          <6>1. P \subseteq AllPages
            <7>1. \A q : Wide(q) \subseteq AllPages
              BY DEF Wide
            <7> QED
              BY <7>1 DEF BootPages
          <6> QED
            BY <3>3, <6>1 DEF T, PlainMap
        <5> HIDE DEF F, G, P
        <5>4. DOMAIN G = P
          BY <5>1, <5>2 DEF Changes
        <5>5. \A b \in P : G[b] = Plain(b, all.nx)
          BY <5>1, <5>3
        <5> QED
          BY <5>4, <5>5 DEF G, P
      <4>4. Maps(all, wx, BootMap(c, m.nx))
        BY <3>3, <4>3, KernelWXStep
      <4>5. Sound(wx) /\ Takes(m, wx) /\ wx.pml4 # 0
        BY <3>4, <4>4, TakesGrows DEF Maps, Grows
      <4> HIDE DEF wx
      <4> QED
        BY <4>1, <4>4, <4>5 DEF Builds, Maps, r
    <3> QED
      BY <3>5, <3>6
  <2> QED
    BY <2>4, <2>5
<1> QED
  BY <1>4, <1>5

-----------------------------------------------------------------------------
(* vm_ensure_identity.                                                     *)

\* its loop
EnsureLoop(m, from, to) == Each(m, from, to, Span(2), LAMBDA n, a : EnsureTurn(n, a))

\* f[i] is the state after turn i of that loop
EnsureRunOf(f, m, s, n) ==
    /\ f[0] = Fresh(m)
    /\ \A i \in 0 .. n : Sound(f[i]) /\ f[i].nx = m.nx
    /\ \A i \in 1 .. n :
          f[i] = IF f[i - 1].ret = 0 THEN f[i - 1] ELSE EnsureTurn(f[i - 1], s[i])

\* The loop of vm_ensure_identity.
LEMMA EnsureRun ==
    ASSUME NEW m, Sound(m), NEW from, NEW to, NEW base,
           LargeLoop(Steps(from, to, Span(2)), Len(Steps(from, to, Span(2))), base, to),
           \A i \in 1 .. Len(Steps(from, to, Span(2))) : Steps(from, to, Span(2))[i] \notin Window
    PROVE  \E f : EnsureRunOf(f, m, Steps(from, to, Span(2)),
                  Len(Steps(from, to, Span(2)))) /\ f[Len(Steps(from, to, Span(2)))] = EnsureLoop(m, from, to)
<1> DEFINE s == Steps(from, to, Span(2))
           n == Len(s)
           b == Fresh(m)
           Body(k, i) == IF k.ret = 0 THEN k ELSE EnsureTurn(k, s[i])
           Run(f) == f = [i \in 0 .. n |-> IF i = 0 THEN b ELSE Body(f[i - 1], i)]
           f == CHOOSE after : Run(after)
           S == {k \in Sounds : k.nx = m.nx}
           g == [p \in (1 .. n) \X S |-> Body(p[2], p[1])]
<1>1. EnsureLoop(m, from, to) = f[n]
  BY Zenon DEF EnsureLoop, Each, Over, Then, Fresh
<1>2. n \in Nat /\ \A i \in 1 .. n : s[i] \in AllPages \ Window /\ s[i] = Num(s[i], 2) * Span(2)
  BY DEF LargeLoop
<1> HIDE DEF s, n
<1>3. ASSUME NEW i \in 1 .. n, NEW k \in S PROVE Body(k, i) \in S
  <2>1. Sound(k) /\ k \in States /\ k.nx = m.nx
    BY DEF Sounds
  <2> DEFINE a == s[i]
             q == EnsureTurn(k, a)
  <2>2. a \in AllPages \ Window /\ a = Num(a, 2) * Span(2)
    BY <1>2
  <2> HIDE DEF a
  <2>3. MapsPlain(k, EnsureTurn(k, a), Piece(a, 2) \ DOMAIN Flatten(k))
    BY <2>1, <2>2, EnsureTurnStep
  <2> HIDE DEF q
  <2>4. q \in S
    BY <2>1, <2>3 DEF Sounds, Sound, Grows, MapsPlain, q
  <2>5. k \in S
    OBVIOUS
  <2> HIDE DEF S
  <2> QED
    BY <2>4, <2>5 DEF q, a
<1>4. g \in [(1 .. n) \X S -> S]
  <2>1. \A p \in (1 .. n) \X S : Body(p[2], p[1]) \in S
    BY <1>3
  <2> HIDE DEF Body, S
  <2> QED
    BY <2>1
<1>5. b \in S
  BY FreshSound DEF Sounds, Sound
<1>6. \E h : Run(h)
  <2>1. \E h : RunOf(h, S, n, b, g)
    <3> HIDE DEF g, b, S
    <3>1. n \in Nat
      BY <1>2
    <3> QED
      BY <1>4, <1>5, <3>1, LoopRun
  <2> PICK h : RunOf(h, S, n, b, g)
    BY <2>1
  <2>2. h \in [0 .. n -> S] /\ h[0] = b /\ \A i \in 1 .. n : h[i] = g[<<i, h[i - 1]>>]
    BY DEF RunOf
  <2>3. \A i \in 1 .. n : i - 1 \in 0 .. n /\ h[i - 1] \in S
    BY <1>2, <2>2
  <2> HIDE DEF Body, S, b
  <2>4. \A i \in 1 .. n : h[i] = Body(h[i - 1], i)
    BY <2>2, <2>3
  <2>5. \A i \in 0 .. n : i = 0 \/ i \in 1 .. n
    BY <1>2
  <2>6. \A i \in 0 .. n : h[i] = IF i = 0 THEN b ELSE Body(h[i - 1], i)
    BY <2>2, <2>4, <2>5, Zenon
  <2>7. h \in [0 .. n -> S]
    BY <2>2
  <2> HIDE DEF g
  <2>8. h = [i \in 0 .. n |-> IF i = 0 THEN b ELSE Body(h[i - 1], i)]
    BY <2>6, <2>7, Zenon
  <2> QED
    BY <2>8
<1>7. Run(f)
  <2> HIDE DEF Run
  <2> QED
    BY <1>6, Zenon DEF f
<1> HIDE DEF f
<1>8. f[0] = b /\ \A i \in 1 .. n : f[i] = Body(f[i - 1], i)
  <2>1. 0 \in 0 .. n /\ \A i \in 1 .. n : i \in 0 .. n /\ i # 0
    BY <1>2
  <2> HIDE DEF Body, b
  <2>2. \A i \in 0 .. n : f[i] = IF i = 0 THEN b ELSE Body(f[i - 1], i)
    BY <1>7, Zenon
  <2> QED
    BY <2>1, <2>2
<1> HIDE DEF Run
<1>9. \A i \in 0 .. n : f[i] \in S
  <2> DEFINE A == {i \in 0 .. n : f[i] \in S}
  <2>1. 0 \in A
    BY <1>2, <1>5, <1>8
  <2>2. ASSUME NEW i \in 1 .. n, i - 1 \in A PROVE i \in A
    <3> DEFINE k == f[i - 1]
    <3>1. k \in S
      BY <2>2
    <3>2. i \in 0 .. n
      BY <1>2
    <3> HIDE DEF Body, S
    <3>3. f[i] = Body(k, i)
      BY <1>8
    <3> HIDE DEF k
    <3>4. Body(k, i) \in S
      BY <1>3, <3>1
    <3> QED
      BY <3>2, <3>3, <3>4
  <2> HIDE DEF A
  <2>3. n \in Nat
    BY <1>2
  <2>4. \A i \in 0 .. n : i \in A
    BY <2>1, <2>2, <2>3, TurnInduction
  <2> QED
    BY <2>4 DEF A
<1>10. \A i \in 0 .. n : Sound(f[i]) /\ f[i].nx = m.nx
  BY <1>9 DEF Sounds
<1>11. f[0] = b /\ f[n] = EnsureLoop(m, from, to)
  BY <1>1, <1>8
<1>12. \E h : EnsureRunOf(h, m, s, n) /\ h[n] = EnsureLoop(m, from, to)
  <2>1. EnsureRunOf(f, m, s, n)
    BY <1>8, <1>10, <1>11 DEF EnsureRunOf, b
  <2> QED
    BY <1>11, <2>1, Zenon
<1> QED
  BY <1>12, Zenon DEF s, n

\* r is m with the pages of S, which were not mapped, mapped to themselves
Widens(m, r, S) ==
    /\ Sound(r) /\ Grows(m, r)
    /\ r.ret = 0 => Dry(r)
    /\ Changes(Flatten(m), Flatten(r), S)
    /\ \A b \in S : b \in DOMAIN Flatten(r) /\ Flatten(r)[b] = Plain(b, m.nx)

\* the pages of k large pages from that of base on
Stretch(base, k) == {b \in AllPages : Num(base, 2) <= Num(b, 2) /\ Num(b, 2) < Num(base, 2) + k}

\* One large page more.
LEMMA RunMore ==
    ASSUME NEW base \in Nat, NEW k \in Nat, NEW a \in AllPages, Num(a, 2) = Num(base, 2) + k
    PROVE  /\ Stretch(base, k + 1) = Stretch(base, k) \cup Piece(a, 2)
           /\ Stretch(base, k) \cap Piece(a, 2) = {}
<1>1. \A b \in AllPages : Num(b, 2) \in Nat
  <2>1. \A c \in Nat : Num(c, 2) \in Nat
    BY NumFacts, 2 \in 1 .. 4, Zenon
  <2> QED
    BY <2>1, PageNumbers
<1>2. Num(base, 2) \in Nat
  BY NumFacts, 2 \in 1 .. 4, Zenon
<1> QED
  BY <1>1, <1>2 DEF Stretch, Piece

\* One turn more.
LEMMA WidensMore ==
    ASSUME NEW m, Sound(m), NEW n, NEW r, NEW P, NEW Q, P \cap Q = {},
           Widens(m, n, P \ DOMAIN Flatten(m)), MapsPlain(n, r, Q \ DOMAIN Flatten(n)), r.ret # 0
    PROVE  Widens(m, r, (P \cup Q) \ DOMAIN Flatten(m))
<1> DEFINE F == Flatten(m)
           G == Flatten(n)
           H == Flatten(r)
           nx == m.nx
<1>1. /\ Sound(n) /\ Grows(m, n) /\ Changes(F, G, P \ DOMAIN F)
      /\ \A b \in P \ DOMAIN F : b \in DOMAIN G /\ G[b] = Plain(b, nx)
  BY DEF Widens
<1>2. /\ Sound(r) /\ Grows(n, r) /\ Changes(G, H, Q \ DOMAIN G)
      /\ \A b \in Q \ DOMAIN G : b \in DOMAIN H /\ H[b] = Plain(b, n.nx)
  BY DEF MapsPlain
<1>3. n.nx = nx /\ Grows(m, r)
  BY <1>1, <1>2, GrowsTrans DEF Grows, Sound
<1> HIDE DEF F, G, H, nx
<1>4. Q \ DOMAIN G = Q \ DOMAIN F
  BY <1>1 DEF Changes
<1>5. Changes(F, H, (P \cup Q) \ DOMAIN F)
  BY <1>1, <1>2, <1>4, Zenon DEF Changes
<1>6. \A b \in (P \cup Q) \ DOMAIN F : b \in DOMAIN H /\ H[b] = Plain(b, nx)
  <2>1. \A b \in P \ DOMAIN F : b \in DOMAIN H /\ H[b] = G[b]
    BY <1>1, <1>2, <1>4, Zenon DEF Changes
  <2>2. \A b \in Q \ DOMAIN F : b \in DOMAIN H /\ H[b] = Plain(b, nx)
    BY <1>2, <1>3, <1>4
  <2> QED
    BY <1>1, <2>1, <2>2
<1> QED
  BY <1>2, <1>3, <1>5, <1>6 DEF Widens, F, H, nx

\* What vm_ensure_identity has mapped when it returns: so many large pages
\* from the first on, all of them unless no page was left.
Ensures(m, r, base, to, k) ==
    /\ Widens(m, r, Stretch(base, k) \ DOMAIN Flatten(m))
    /\ \A i \in Nat : i < k => (Num(base, 2) + i) * Span(2) < to
    /\ r.ret # 0 => ~ ((Num(base, 2) + k) * Span(2) < to)

\* vm_ensure_identity, from the first turn on.
LEMMA EnsureLoopStep ==
    ASSUME NEW m, Sound(m), NEW s, NEW n, NEW base \in Nat, NEW to, LargeLoop(s, n, base, to),
           \A i \in 1 .. n : s[i] \notin Window,
           NEW f, EnsureRunOf(f, m, s, n)
    PROVE  \E k \in Nat : Ensures(f[0], f[n], base, to, k)
<1> DEFINE New(k) == Stretch(base, k) \ DOMAIN Flatten(f[0])
           Good(i, k) == (f[i].ret # 0 => k = i) /\ Widens(f[0], f[i], New(k))
           A == {i \in 0 .. n : \E k \in 0 .. i : Good(i, k)}
<1>1. /\ f[0] = Fresh(m)
      /\ \A i \in 0 .. n : Sound(f[i]) /\ f[i].nx = m.nx
      /\ \A i \in 1 .. n : f[i] = IF f[i - 1].ret = 0 THEN f[i - 1] ELSE EnsureTurn(f[i - 1], s[i])
  BY DEF EnsureRunOf
<1>2. /\ n \in Nat
      /\ \A i \in 1 .. n : /\ s[i] \in AllPages \ Window /\ s[i] = Num(s[i], 2) * Span(2)
                           /\ Num(s[i], 2) = Num(base, 2) + (i - 1)
      /\ \A i \in Nat \ {0} : i <= n <=> (Num(base, 2) + (i - 1)) * Span(2) < to
  BY DEF LargeLoop
<1>3. Sound(f[0]) /\ f[0] \in States /\ f[0].ret # 0
  <2>1. 0 \in 0 .. n
    BY <1>2
  <2> QED
    BY <1>1, <2>1, FreshSound DEF Sound
<1>4. 0 \in A
  <2>1. New(0) = {}
    <3>1. \A b \in AllPages : Num(b, 2) \in Nat
      <4>1. \A c \in Nat : Num(c, 2) \in Nat
        BY NumFacts, 2 \in 1 .. 4, Zenon
      <4> QED
        BY <4>1, PageNumbers
    <3>2. Num(base, 2) \in Nat
      BY NumFacts, 2 \in 1 .. 4, Zenon
    <3> QED
      BY <3>1, <3>2 DEF Stretch
  <2>2. Widens(f[0], f[0], {})
    BY <1>3, GrowsRefl DEF Widens, Changes
  <2> HIDE DEF New
  <2>3. Good(0, 0)
    BY <2>1, <2>2
  <2> HIDE DEF Good
  <2> QED
    BY <1>2, <2>3
<1>5. ASSUME NEW i \in 1 .. n, i - 1 \in A PROVE i \in A
  <2>1. PICK k \in 0 .. (i - 1) : Good(i - 1, k)
    BY <1>5
  <2>2. k \in Nat /\ i - 1 \in 0 .. n /\ i - 1 \in Nat
    BY <1>2, <2>1
  <2>3. CASE f[i - 1].ret = 0
    <3>1. f[i] = f[i - 1]
      BY <1>1, <2>3
    <3> HIDE DEF New
    <3>2. Good(i, k)
      BY <2>1, <2>3, <3>1
    <3> HIDE DEF Good
    <3> QED
      BY <1>2, <2>1, <3>2
  <2>4. CASE f[i - 1].ret # 0
    <3> DEFINE a == s[i]
               g == f[i - 1]
               h == f[i]
               b0 == f[0]
               Q == Piece(a, 2)
               P == Stretch(base, i - 1)
    <3>1. h = EnsureTurn(g, a) /\ k = i - 1 /\ Widens(b0, g, P \ DOMAIN Flatten(b0))
      BY <1>1, <2>1, <2>4
    <3>2. Sound(g) /\ Sound(b0)
      BY <1>1, <1>3, <2>2
    <3>3. a \in AllPages \ Window /\ a = Num(a, 2) * Span(2) /\ Num(a, 2) = Num(base, 2) + (i - 1)
      BY <1>2
    <3> HIDE DEF a, g, h, b0
    <3>4. MapsPlain(g, h, Q \ DOMAIN Flatten(g))
      BY <3>1, <3>2, <3>3, EnsureTurnStep
    <3>5. CASE h.ret = 0
      <4>1. Flatten(h) = Flatten(g) /\ Sound(h) /\ Grows(g, h) /\ Dry(h)
        BY <3>4, <3>5 DEF MapsPlain
      <4>2. Grows(b0, h)
        BY <3>1, <3>2, <4>1, GrowsTrans DEF Widens, Sound
      <4>3. Widens(b0, h, P \ DOMAIN Flatten(b0))
        BY <3>1, <4>1, <4>2 DEF Widens
      <4>4. Good(i, k)
        BY <3>1, <3>5, <4>3 DEF h, b0
      <4> HIDE DEF Good
      <4> QED
        BY <1>2, <2>1, <4>4
    <3>6. CASE h.ret # 0
      <4>1. Stretch(base, i) = P \cup Q /\ P \cap Q = {}
        <5> DEFINE j == i - 1
        <5>1. j \in Nat /\ i = j + 1 /\ a \in AllPages /\ Num(a, 2) = Num(base, 2) + j
          BY <2>2, <3>3
        <5> HIDE DEF j
        <5>2. /\ Stretch(base, j + 1) = Stretch(base, j) \cup Piece(a, 2)
              /\ Stretch(base, j) \cap Piece(a, 2) = {}
          BY <5>1, RunMore
        <5> QED
          BY <5>1, <5>2 DEF j
      <4> HIDE DEF P, Q
      <4>2. Widens(b0, h, (P \cup Q) \ DOMAIN Flatten(b0))
        BY <3>1, <3>2, <3>4, <3>6, <4>1, WidensMore
      <4>3. Widens(f[0], f[i], New(i))
        BY <4>1, <4>2 DEF h, b0
      <4> HIDE DEF New
      <4>4. Good(i, i)
        BY <4>3
      <4> HIDE DEF Good
      <4> QED
        BY <2>2, <4>4
    <3> QED
      BY <3>5, <3>6
  <2> QED
    BY <2>3, <2>4
<1> HIDE DEF A
<1>6. n \in A
  BY <1>2, <1>4, <1>5, TurnInduction
<1>7. PICK k \in 0 .. n : Good(n, k)
  BY <1>6 DEF A
<1>8. k \in Nat /\ k <= n
  BY <1>2, <1>7
<1>9. \A i \in Nat : i < k => (Num(base, 2) + i) * Span(2) < to
  <2> SUFFICES ASSUME NEW i \in Nat, i < k PROVE (Num(base, 2) + i) * Span(2) < to
    OBVIOUS
  <2> DEFINE j == i + 1
  <2>1. j \in Nat \ {0} /\ j <= n /\ j - 1 = i
    BY <1>2, <1>8
  <2> HIDE DEF j
  <2>2. (Num(base, 2) + (j - 1)) * Span(2) < to
    BY <1>2, <2>1
  <2> QED
    BY <2>1, <2>2
<1>10. k = n => ~ ((Num(base, 2) + k) * Span(2) < to)
  <2> DEFINE j == n + 1
  <2>1. j \in Nat \ {0} /\ ~ (j <= n) /\ j - 1 = n
    BY <1>2
  <2> HIDE DEF j
  <2>2. ~ ((Num(base, 2) + (j - 1)) * Span(2) < to)
    BY <1>2, <2>1
  <2> QED
    BY <2>1, <2>2
<1>11. Ensures(f[0], f[n], base, to, k)
  BY <1>7, <1>9, <1>10 DEF Ensures
<1> QED
  BY <1>8, <1>11

\* vm_ensure_identity.
LEMMA EnsureStep ==
    ASSUME NEW m, Sound(m), NEW r, InRam(r)
    PROVE  \E k \in Nat : Ensures(m, Ensure(m, r), r.base, r.base + r.len, k)
<1> DEFINE base == r.base
           to == r.base + r.len
           from == Floor(r.base, Span(2))
           s == Steps(from, to, Span(2))
           n == Len(s)
<1>1. base \in Nat /\ to \in Nat /\ to <= UserBase
  BY DEF InRam, Ranges
<1>2. LargeLoop(s, n, base, to)
  BY RamTurns
<1>3. Ensure(m, r) = EnsureLoop(m, from, to)
  BY Zenon DEF Ensure, EnsureLoop, EnsureTurn
<1> HIDE DEF from, to, base
<1>4. \A i \in 1 .. n : s[i] \notin Window
  <2> HIDE DEF s, n
  <2> SUFFICES ASSUME NEW i \in 1 .. n PROVE s[i] \notin Window
    OBVIOUS
  <2> DEFINE a == s[i]
             z == Num(a, 2) * Span(2)
  <2>1. i \in Nat \ {0} /\ i <= n
    BY <1>2 DEF LargeLoop
  <2>2. a \in AllPages /\ a = z /\ z < to
    BY <1>2, <2>1 DEF LargeLoop
  <2> HIDE DEF a, z
  <2>3. a \in Nat
    BY <2>2, PageNumbers
  <2>4. a < UserBase
    BY <1>1, <2>2, <2>3, WindowFacts
  <2>5. a \notin Window
    BY <2>3, <2>4, WindowFacts
  <2> QED
    BY <2>5 DEF a
<1>5. PICK f : EnsureRunOf(f, m, s, n) /\ f[n] = EnsureLoop(m, from, to)
  BY <1>2, <1>4, EnsureRun
<1> HIDE DEF s, n
<1>6. PICK k \in Nat : Ensures(f[0], f[n], base, to, k)
  BY <1>1, <1>2, <1>4, <1>5, EnsureLoopStep
<1>7. f[0] = Fresh(m) /\ f[n] = Ensure(m, r)
  BY <1>3, <1>5 DEF EnsureRunOf
<1> DEFINE h == Ensure(m, r)
<1>8. Ensures(Fresh(m), h, base, to, k)
  BY <1>6, <1>7
<1> HIDE DEF h
<1> DEFINE b0 == Fresh(m)
<1>9. /\ Sound(b0) /\ Grows(m, b0) /\ b0.nx = m.nx /\ Flatten(b0) = Flatten(m)
  BY FreshSound
<1> HIDE DEF b0
<1>10. Ensures(b0, h, base, to, k)
  BY <1>8 DEF b0
<1>11. Grows(m, h)
  BY <1>9, <1>10, GrowsTrans DEF Ensures, Widens, Sound
<1>12. Ensures(m, h, base, to, k)
  BY <1>9, <1>10, <1>11 DEF Ensures, Widens
<1> QED
  BY <1>12 DEF h, base, to

-----------------------------------------------------------------------------
(* elf_run.                                                                *)

\* a page nobody had in m, and no table of r
Owned(m, r, f) == f \in Nat /\ OwnPage(r, f) /\ ~OwnPage(m, f) /\ f \notin DOMAIN r.mem

\* r is m with the pages of G on new frames, each its own, with G's rights
Loads(m, r, G) ==
    /\ Sound(r) /\ Grows(m, r)
    /\ Changes(Flatten(m), Flatten(r), DOMAIN G)
    /\ \A b \in DOMAIN G :
          /\ b \in DOMAIN Flatten(r) /\ Owned(m, r, Flatten(r)[b].frame)
          /\ Flatten(r)[b] = [frame |-> Flatten(r)[b].frame, w |-> G[b].w,
                              u |-> TRUE, x |-> G[b].x \/ ~m.nx]
    /\ \A b, c \in DOMAIN G : b # c => Flatten(r)[b].frame # Flatten(r)[c].frame

\* G and then H
With(G, H) == [b \in DOMAIN G \cup DOMAIN H |-> IF b \in DOMAIN H THEN H[b] ELSE G[b]]

\* One after the other.
LEMMA LoadsTrans ==
    ASSUME NEW m, Sound(m), NEW n, NEW r, NEW G, NEW H, Loads(m, n, G), Loads(n, r, H)
    PROVE  Loads(m, r, With(G, H))
<1> DEFINE F == Flatten(m)
           K == Flatten(n)
           L == Flatten(r)
           D == DOMAIN G
           E == DOMAIN H
           W == With(G, H)
           nx == m.nx
<1>1. /\ Sound(n) /\ Grows(m, n) /\ Changes(F, K, D)
      /\ \A b \in D : /\ b \in DOMAIN K /\ Owned(m, n, K[b].frame)
                      /\ K[b] = [frame |-> K[b].frame, w |-> G[b].w, u |-> TRUE, x |-> G[b].x \/ ~nx]
      /\ \A b, c \in D : b # c => K[b].frame # K[c].frame
  BY DEF Loads
<1>2. /\ Sound(r) /\ Grows(n, r) /\ Changes(K, L, E)
      /\ \A b \in E : /\ b \in DOMAIN L /\ Owned(n, r, L[b].frame)
                      /\ L[b] = [frame |-> L[b].frame, w |-> H[b].w, u |-> TRUE, x |-> H[b].x \/ ~n.nx]
      /\ \A b, c \in E : b # c => L[b].frame # L[c].frame
  BY DEF Loads
<1>3. n.nx = nx /\ Grows(m, r)
  BY <1>1, <1>2, GrowsTrans DEF Grows, Sound
<1>4. DOMAIN W = D \cup E /\ \A b \in D \cup E : W[b] = IF b \in E THEN H[b] ELSE G[b]
  BY DEF With
<1> HIDE DEF F, K, L, D, E, W, nx
<1>5. Changes(F, L, D \cup E)
  BY <1>1, <1>2, Zenon DEF Changes
<1>6. \A b \in D : b \notin E => b \in DOMAIN L /\ L[b] = K[b] /\ W[b] = G[b]
  BY <1>1, <1>2, <1>4 DEF Changes
<1>7. \A f : Owned(m, n, f) => Owned(m, r, f) /\ OwnPage(n, f)
  BY <1>1, <1>2 DEF Owned, OwnPage, Grows
<1>8. \A f : Owned(n, r, f) => Owned(m, r, f) /\ ~OwnPage(n, f)
  BY <1>1, <1>2 DEF Owned, OwnPage, Grows
<1>9. ASSUME NEW b \in D \cup E
      PROVE  /\ b \in DOMAIN L /\ Owned(m, r, L[b].frame)
             /\ L[b] = [frame |-> L[b].frame, w |-> W[b].w, u |-> TRUE, x |-> W[b].x \/ ~nx]
             /\ b \in E <=> ~OwnPage(n, L[b].frame)
  <2>1. CASE b \in E
    BY <1>2, <1>3, <1>4, <1>8, <2>1, Zenon
  <2>2. CASE b \notin E
    BY <1>1, <1>3, <1>4, <1>6, <1>7, <2>2, Zenon
  <2> QED
    BY <2>1, <2>2
<1>10. ASSUME NEW b \in D \cup E, NEW c \in D \cup E, b # c
       PROVE  L[b].frame # L[c].frame
  <2>1. CASE b \in E /\ c \in E
    BY <1>2, <1>10, <2>1
  <2>2. CASE b \notin E /\ c \notin E
    BY <1>1, <1>6, <1>10, <2>2
  <2>3. CASE ~ (b \in E <=> c \in E)
    BY <1>9, <2>3
  <2> QED
    BY <2>1, <2>2, <2>3
<1> QED
  BY <1>2, <1>3, <1>4, <1>5, <1>9, <1>10 DEF Loads, F, L, W, nx

\* Nothing loaded.
LEMMA LoadsNothing ==
    ASSUME NEW m, Sound(m), NEW r, Sound(r), Grows(m, r), Flatten(r) = Flatten(m),
           NEW G, DOMAIN G = {}
    PROVE  Loads(m, r, G)
  BY DEF Loads, Changes

\* the rights of pages D of segment s
Grants(s, D) == [b \in D |-> [w |-> s.w, x |-> s.x]]

\* What one turn of load_segment does.
LEMMA LoadTurnLoads ==
    ASSUME NEW m, Sound(m), NEW a \in Window, NEW s, s.w \in BOOLEAN, s.x \in BOOLEAN
    PROVE  LET r == LoadTurn(m, s, a)
           IN /\ r.ret = 0 => Loads(m, r, Grants(s, {}))
              /\ r.ret # 0 => Loads(m, r, Grants(s, {a}))
<1> DEFINE r == LoadTurn(m, s, a)
           F == Flatten(m)
           L == Flatten(r)
<1>1. GivesPage(m, r, a, s.w, s.x)
  BY LoadTurnStep
<1> HIDE DEF r
<1>2. CASE r.ret = 0
  <2>1. DOMAIN Grants(s, {}) = {}
    BY DEF Grants
  <2>2. Loads(m, r, Grants(s, {}))
    BY <1>1, <1>2, <2>1, LoadsNothing DEF GivesPage
  <2> QED
    BY <1>2, <2>2 DEF r
<1>3. CASE r.ret # 0
  <2> DEFINE G == Grants(s, {a})
  <2>1. DOMAIN G = {a} /\ G[a].w = s.w /\ G[a].x = s.x
    BY DEF Grants
  <2> HIDE DEF G
  <2>2. Sound(r) /\ Grows(m, r) /\ Changes(F, L, {a}) /\ a \in DOMAIN L
    BY <1>1, <1>3 DEF GivesPage
  <2>3. PICK f \in Nat : /\ OwnPage(r, f) /\ ~OwnPage(m, f) /\ f \notin DOMAIN r.mem
                         /\ L[a] = [frame |-> f, w |-> s.w, u |-> TRUE, x |-> s.x \/ ~m.nx]
    BY <1>1, <1>3 DEF GivesPage
  <2> HIDE DEF F, L
  <2>4. L[a].frame = f /\ Owned(m, r, L[a].frame)
    BY <2>3 DEF Owned
  <2>5. L[a] = [frame |-> L[a].frame, w |-> G[a].w, u |-> TRUE, x |-> G[a].x \/ ~m.nx]
    BY <2>1, <2>3, <2>4
  <2>6. Loads(m, r, G)
    BY <2>1, <2>2, <2>4, <2>5 DEF Loads, F, L
  <2> QED
    BY <1>3, <2>6 DEF r, G
<1> QED
  BY <1>2, <1>3

\* a segment in the window, of whole pages
SegOK(s) ==
    /\ s \in [lo : Nat, hi : Nat, w : BOOLEAN, x : BOOLEAN]
    /\ UserBase <= s.lo /\ s.lo < s.hi /\ s.hi < UserTop
    /\ s.lo % Page = 0 /\ s.hi % Page = 0

\* its first n pages
First(s, n) == {a \in AllPages : s.lo <= a /\ a < s.lo + n * Page}

\* load_segment's turns: the pages of the segment
SegLoop(t, n, s) ==
    /\ n = Len(t) /\ n \in Nat \ {0} /\ n * Page = s.hi - s.lo
    /\ \A i \in 1 .. n : t[i] = s.lo + (i - 1) * Page /\ t[i] \in Window /\ t[i] \in AllPages
                         /\ First(s, i) = First(s, i - 1) \cup {t[i]}
    /\ First(s, 0) = {}

\* The turns of load_segment.
LEMMA SegTurns ==
    ASSUME NEW s, SegOK(s)
    PROVE  SegLoop(Steps(s.lo, s.hi, Page), Len(Steps(s.lo, s.hi, Page)), s)
<1> DEFINE lo == s.lo
           hi == s.hi
           t == Steps(lo, hi, Page)
           n == Len(t)
<1>1. lo \in Nat /\ hi \in Nat /\ UserBase <= lo /\ lo < hi /\ hi < UserTop
  BY DEF SegOK
<1>2. lo % Page = 0
  BY DEF SegOK
<1>3. PageLoop(t, n, lo, hi)
  <2>1. lo \in Nat
    BY <1>1
  <2>2. hi \in Nat
    BY <1>1
  <2> HIDE DEF lo, hi
  <2> QED
    BY <1>2, <2>1, <2>2, PageTurns, Zenon DEF t, n
<1>4. lo % 4096 = 0 /\ hi % 4096 = 0 /\ Page = 4096
  BY DEF SegOK, Page
<1>5. \A a : a \in First(s, 0) => FALSE
  <2>1. \A a \in AllPages : a \in Nat
    BY PageNumbers
  <2>2. lo + 0 * Page = lo
    BY <1>1, <1>4
  <2>3. \A a \in Nat : ~ (lo <= a /\ a < lo)
    BY <1>1
  <2> QED
    BY <2>1, <2>2, <2>3 DEF First
<1> HIDE DEF t, n, lo, hi
<1>6. n = Len(t) /\ n \in Nat /\ \A i \in 1 .. n : t[i] = lo + (i - 1) * 4096 /\ lo <= t[i] /\ t[i] < hi
      /\ t[i] \in Nat /\ t[i] % 4096 = 0
  BY <1>3 DEF PageLoop
<1>7. n * 4096 = hi - lo
  <2> DEFINE b == hi - 4096
  <2>1. b \in Nat /\ b % 4096 = 0 /\ lo <= b /\ b < hi
    BY <1>1, <1>4
  <2>2. PICK i \in 1 .. n : t[i] = b
    BY <1>3, <2>1 DEF PageLoop, Hits
  <2>3. i \in Nat /\ i <= n /\ n \in 1 .. n
    BY <1>6, <2>2
  <2>4. lo + (n - 1) * 4096 < hi /\ lo + (i - 1) * 4096 = b
    BY <1>6, <2>2, <2>3
  <2> HIDE DEF b
  <2>5. b = hi - 4096
    BY DEF b
  <2> QED
    BY <1>1, <1>6, <2>3, <2>4, <2>5
<1>8. n # 0
  BY <1>1, <1>7
<1>9. ASSUME NEW i \in 1 .. n
      PROVE  t[i] \in Window /\ t[i] \in AllPages /\ First(s, i) = First(s, i - 1) \cup {t[i]}
  <2> DEFINE a == t[i]
  <2>1. a = lo + (i - 1) * 4096 /\ a \in Nat /\ lo <= a /\ a < hi /\ a % 4096 = 0
    BY <1>6
  <2> HIDE DEF a
  <2>2. UserTop <= Fan * Span(4) /\ UserTop \in Nat /\ Fan * Span(4) \in Nat
    BY PagingAssumption, SpanFacts, SMT
  <2>3. a < Fan * Span(4)
    <3> DEFINE top == Fan * Span(4)
    <3>1. UserTop <= top /\ top \in Nat
      BY <2>2
    <3> HIDE DEF top
    <3>2. a < top
      BY <1>1, <2>1, <2>2, <3>1
    <3> QED
      BY <3>2 DEF top
  <2>4. a \in AllPages
    BY <2>1, <2>3, PageFacts
  <2>5. a \in Window
    BY <1>1, <2>1, <2>2, <2>4, WindowFacts
  <2>6. ASSUME NEW b \in AllPages
        PROVE  b < lo + i * 4096 /\ lo <= b <=> (b < lo + (i - 1) * 4096 /\ lo <= b) \/ b = a
    <3>1. b \in Nat /\ b % 4096 = 0
      BY PageFacts
    <3> DEFINE j == i - 1
    <3>2. j \in Nat /\ i = j + 1
      BY <1>6
    <3> HIDE DEF j
    <3>3. a = lo + j * 4096 /\ i * 4096 = j * 4096 + 4096
      BY <2>1, <3>2 DEF j
    <3> DEFINE v == j * 4096
               z == i * 4096
    <3>4. v \in Nat /\ v % 4096 = 0 /\ z = v + 4096 /\ a = lo + v
      BY <3>2, <3>3
    <3> HIDE DEF v, z
    <3>5. b < lo + z /\ lo <= b <=> (b < lo + v /\ lo <= b) \/ b = a
      BY <1>1, <1>4, <3>1, <3>4
    <3> QED
      BY <3>5 DEF v, z, j
  <2>7. \A b : b \in First(s, i) <=> b \in First(s, i - 1) \/ b = a
    BY <1>4, <2>4, <2>6 DEF First, lo
  <2>8. First(s, i) = First(s, i - 1) \cup {a}
    BY <2>7
  <2> QED
    BY <2>4, <2>5, <2>8 DEF a
<1>10. SegLoop(t, n, s)
  <2>1. n * Page = s.hi - s.lo
    BY <1>4, <1>7 DEF hi, lo
  <2>2. \A i \in 1 .. n : t[i] = s.lo + (i - 1) * Page
    BY <1>4, <1>6 DEF lo
  <2>3. First(s, 0) = {}
    BY <1>5
  <2>4. n = Len(t) /\ n \in Nat \ {0}
    BY <1>6, <1>8
  <2> QED
    BY <1>9, <2>1, <2>2, <2>3, <2>4 DEF SegLoop
<1> QED
  BY <1>10, Zenon DEF n, t, lo, hi

\* where a program may be loaded: sound tables, or no page left for it
Loadables == {k \in States : HeapOK(k) /\ (Sound(k) \/ Dry(k))}

\* No page left stays so.
LEMMA DryStep ==
    ASSUME NEW k \in States, HeapOK(k), Dry(k)
    PROVE  LET h == kalloc_page(k)
           IN /\ h \in States /\ HeapOK(h) /\ h.ret = 0 /\ Dry(h) /\ Grows(k, h)
              /\ h.mem = k.mem /\ h.blocks = k.blocks
<1> DEFINE h == kalloc_page(k)
<1>1. /\ h \in States /\ HeapOK(h) /\ Grows(k, h) /\ h.mem = k.mem
      /\ h.ret = 0 => h.blocks = k.blocks /\ Dry(h)
  BY KallocStep
<1>2. h.ret = 0
  BY DEF kalloc_page, Dry, States
<1> HIDE DEF h
<1> QED
  BY <1>1, <1>2 DEF h

\* f[i] is the state after turn i of that loop
SegRunOf(f, m, c, s, n) ==
    /\ f[0] = Fresh(m)
    /\ \A i \in 0 .. n : f[i] \in Loadables
    /\ \A i \in 1 .. n :
          f[i] = IF f[i - 1].ret = 0 THEN f[i - 1] ELSE LoadTurn(f[i - 1], c, s[i])

\* The loop of load_segment.
LEMMA SegRun ==
    ASSUME NEW m \in Loadables, NEW c, SegOK(c)
    PROVE  \E f : SegRunOf(f, m, c, Steps(c.lo, c.hi, Page),
                  Len(Steps(c.lo, c.hi, Page))) /\ f[Len(Steps(c.lo, c.hi, Page))] = load_segment(m, c)
<1> DEFINE s == Steps(c.lo, c.hi, Page)
           n == Len(s)
           b == Fresh(m)
           Body(k, i) == IF k.ret = 0 THEN k ELSE LoadTurn(k, c, s[i])
           Run(f) == f = [i \in 0 .. n |-> IF i = 0 THEN b ELSE Body(f[i - 1], i)]
           f == CHOOSE after : Run(after)
           S == Loadables
           g == [p \in (1 .. n) \X S |-> Body(p[2], p[1])]
<1>1. load_segment(m, c) = f[n]
  BY Zenon DEF load_segment, Each, Over, Then, Fresh, LoadTurn
<1>2. n \in Nat /\ \A i \in 1 .. n : s[i] \in Window
  <2>1. SegLoop(s, n, c)
    BY SegTurns
  <2> HIDE DEF s, n
  <2> QED
    BY <2>1 DEF SegLoop
<1> HIDE DEF s, n
<1>3. ASSUME NEW i \in 1 .. n, NEW k \in S PROVE Body(k, i) \in S
  <2> DEFINE a == s[i]
             q == LoadTurn(k, c, a)
  <2>1. a \in Window /\ c.w \in BOOLEAN /\ c.x \in BOOLEAN
    BY <1>2 DEF SegOK
  <2>2. k \in States /\ HeapOK(k) /\ (Sound(k) \/ Dry(k))
    BY DEF Loadables
  <2> HIDE DEF a, q
  <2>3. CASE Sound(k)
    <3>1. GivesPage(k, q, a, c.w, c.x)
      BY <2>1, <2>3, LoadTurnStep DEF q
    <3> QED
      BY <2>2, <3>1 DEF GivesPage, Sound, Loadables, q, a
  <2>4. CASE Dry(k)
    <3> DEFINE h == kalloc_page(k)
    <3>1. h \in States /\ HeapOK(h) /\ h.ret = 0 /\ Dry(h)
      BY <2>2, <2>4, DryStep
    <3>2. q = IF h.ret = 0 THEN h ELSE vm_user_map(h, a, h.ret, c.w, c.x)
      BY Zenon DEF q, LoadTurn, Then
    <3> HIDE DEF h
    <3> QED
      BY <2>2, <3>1, <3>2 DEF Loadables, q, a
  <2> QED
    BY <2>2, <2>3, <2>4
<1>4. g \in [(1 .. n) \X S -> S]
  <2>1. \A p \in (1 .. n) \X S : Body(p[2], p[1]) \in S
    BY <1>3
  <2> HIDE DEF Body, S
  <2> QED
    BY <2>1
<1>5. b \in S
  <2>1. m \in States /\ HeapOK(m) /\ (Sound(m) \/ Dry(m))
    BY DEF Loadables
  <2> DEFINE v == Fresh(m)
  <2>2. v \in States /\ v.at = m.at /\ v.blocks = m.blocks
    BY <2>1, FreshStep0
  <2>3. Sound(m) => Sound(v)
    BY FreshSound
  <2> HIDE DEF v
  <2>4. v \in Loadables
    BY <2>1, <2>2, <2>3 DEF Loadables, HeapOK, Dry
  <2> QED
    BY <2>4 DEF v
<1>6. \E h : Run(h)
  <2>1. \E h : RunOf(h, S, n, b, g)
    <3> HIDE DEF g, b, S
    <3>1. n \in Nat
      BY <1>2
    <3> QED
      BY <1>4, <1>5, <3>1, LoopRun
  <2> PICK h : RunOf(h, S, n, b, g)
    BY <2>1
  <2>2. h \in [0 .. n -> S] /\ h[0] = b /\ \A i \in 1 .. n : h[i] = g[<<i, h[i - 1]>>]
    BY DEF RunOf
  <2>3. \A i \in 1 .. n : i - 1 \in 0 .. n /\ h[i - 1] \in S
    BY <1>2, <2>2
  <2> HIDE DEF Body, S, b
  <2>4. \A i \in 1 .. n : h[i] = Body(h[i - 1], i)
    BY <2>2, <2>3
  <2>5. \A i \in 0 .. n : i = 0 \/ i \in 1 .. n
    BY <1>2
  <2>6. \A i \in 0 .. n : h[i] = IF i = 0 THEN b ELSE Body(h[i - 1], i)
    BY <2>2, <2>4, <2>5, Zenon
  <2>7. h \in [0 .. n -> S]
    BY <2>2
  <2> HIDE DEF g
  <2>8. h = [i \in 0 .. n |-> IF i = 0 THEN b ELSE Body(h[i - 1], i)]
    BY <2>6, <2>7, Zenon
  <2> QED
    BY <2>8
<1>7. Run(f)
  <2> HIDE DEF Run
  <2> QED
    BY <1>6, Zenon DEF f
<1> HIDE DEF f
<1>8. f[0] = b /\ \A i \in 1 .. n : f[i] = Body(f[i - 1], i)
  <2>1. 0 \in 0 .. n /\ \A i \in 1 .. n : i \in 0 .. n /\ i # 0
    BY <1>2
  <2> HIDE DEF Body, b
  <2>2. \A i \in 0 .. n : f[i] = IF i = 0 THEN b ELSE Body(f[i - 1], i)
    BY <1>7, Zenon
  <2> QED
    BY <2>1, <2>2
<1> HIDE DEF Run
<1>9. \A i \in 0 .. n : f[i] \in S
  <2> DEFINE A == {i \in 0 .. n : f[i] \in S}
  <2>1. 0 \in A
    BY <1>2, <1>5, <1>8
  <2>2. ASSUME NEW i \in 1 .. n, i - 1 \in A PROVE i \in A
    <3> DEFINE k == f[i - 1]
    <3>1. k \in S
      BY <2>2
    <3>2. i \in 0 .. n
      BY <1>2
    <3> HIDE DEF Body, S
    <3>3. f[i] = Body(k, i)
      BY <1>8
    <3> HIDE DEF k
    <3>4. Body(k, i) \in S
      BY <1>3, <3>1
    <3> QED
      BY <3>2, <3>3, <3>4
  <2> HIDE DEF A
  <2>3. n \in Nat
    BY <1>2
  <2>4. \A i \in 0 .. n : i \in A
    BY <2>1, <2>2, <2>3, TurnInduction
  <2> QED
    BY <2>4 DEF A
<1>10. \A i \in 0 .. n : f[i] \in Loadables
  BY <1>9 DEF Sounds
<1>11. f[0] = b /\ f[n] = load_segment(m, c)
  BY <1>1, <1>8
<1>12. \E h : SegRunOf(h, m, c, s, n) /\ h[n] = load_segment(m, c)
  <2>1. SegRunOf(f, m, c, s, n)
    BY <1>8, <1>10, <1>11 DEF SegRunOf, b
  <2> QED
    BY <1>11, <2>1, Zenon
<1> QED
  BY <1>12, Zenon DEF s, n

\* how many pages a segment has
SegSize(s) == (s.hi - s.lo) \div Page

\* load_segment on tables: its pages up to where the memory ran out
SegLoads(m, r, s) ==
    \E c \in 0 .. SegSize(s) : /\ Loads(m, r, Grants(s, First(s, c)))
                               /\ r.ret # 0 => c = SegSize(s)

\* What a loop of load_segment has loaded at its end.
LEMMA SegLoopStep ==
    ASSUME NEW m, Sound(m), NEW c, SegOK(c), NEW s, NEW n, SegLoop(s, n, c),
           NEW f, SegRunOf(f, m, c, s, n)
    PROVE  SegLoads(f[0], f[n], c)
<1> DEFINE Good(i, k) == (f[i].ret # 0 => k = i) /\ Loads(f[0], f[i], Grants(c, First(c, k)))
           A == {i \in 0 .. n : \E k \in 0 .. i : Good(i, k)}
<1>1. /\ f[0] = Fresh(m)
      /\ \A i \in 1 .. n : f[i] = IF f[i - 1].ret = 0 THEN f[i - 1] ELSE LoadTurn(f[i - 1], c, s[i])
  BY DEF SegRunOf
<1>2. /\ n \in Nat \ {0} /\ n * Page = c.hi - c.lo
      /\ \A i \in 1 .. n : s[i] \in Window /\ First(c, i) = First(c, i - 1) \cup {s[i]}
      /\ First(c, 0) = {}
  BY DEF SegLoop
<1>3. Sound(f[0]) /\ f[0] \in States
  BY <1>1, FreshSound DEF Sound
<1>4. 0 \in A
  <2>1. DOMAIN Grants(c, First(c, 0)) = {}
    BY <1>2 DEF Grants
  <2>2. Loads(f[0], f[0], Grants(c, First(c, 0)))
    BY <1>3, <2>1, GrowsRefl, LoadsNothing
  <2>3. Good(0, 0)
    BY <2>2
  <2> HIDE DEF Good
  <2> QED
    BY <1>2, <2>3
<1>5. ASSUME NEW i \in 1 .. n, i - 1 \in A PROVE i \in A
  <2>1. PICK k \in 0 .. (i - 1) : Good(i - 1, k)
    BY <1>5
  <2>2. k \in 0 .. i /\ i - 1 \in 0 .. n /\ i - 1 \in Nat /\ i \in 0 .. n /\ i \in 0 .. i
    BY <1>2, <2>1
  <2>3. CASE f[i - 1].ret = 0
    <3>1. f[i] = f[i - 1]
      BY <1>1, <2>3
    <3>2. Good(i, k)
      BY <2>1, <2>3, <3>1
    <3> HIDE DEF Good
    <3> QED
      BY <2>2, <3>2
  <2>4. CASE f[i - 1].ret # 0
    <3> DEFINE a == s[i]
               g == f[i - 1]
               h == f[i]
               b0 == f[0]
               P == First(c, i - 1)
    <3>1. h = LoadTurn(g, c, a) /\ k = i - 1 /\ Loads(b0, g, Grants(c, P))
      BY <1>1, <2>1, <2>4
    <3>2. Sound(g) /\ Sound(b0) /\ a \in Window /\ c.w \in BOOLEAN /\ c.x \in BOOLEAN
      BY <1>2, <1>3, <3>1 DEF Loads, SegOK
    <3>3. First(c, i) = P \cup {a}
      BY <1>2
    <3> HIDE DEF a, g, h, b0
    <3>4. /\ h.ret = 0 => Loads(g, h, Grants(c, {}))
          /\ h.ret # 0 => Loads(g, h, Grants(c, {a}))
      BY <3>1, <3>2, LoadTurnLoads
    <3> HIDE DEF P
    <3>5. CASE h.ret = 0
      <4>1. Loads(b0, h, With(Grants(c, P), Grants(c, {})))
        BY <3>1, <3>2, <3>4, <3>5, LoadsTrans
      <4>2. With(Grants(c, P), Grants(c, {})) = Grants(c, P)
        BY DEF With, Grants
      <4>3. Good(i, k)
        BY <3>1, <3>5, <4>1, <4>2 DEF h, b0, P
      <4> HIDE DEF Good
      <4> QED
        BY <2>2, <4>3
    <3>6. CASE h.ret # 0
      <4>1. Loads(b0, h, With(Grants(c, P), Grants(c, {a})))
        BY <3>1, <3>2, <3>4, <3>6, LoadsTrans
      <4>2. With(Grants(c, P), Grants(c, {a})) = Grants(c, P \cup {a})
        BY DEF With, Grants
      <4>3. Good(i, i)
        BY <3>3, <4>1, <4>2 DEF h, b0
      <4> HIDE DEF Good
      <4> QED
        BY <2>2, <4>3
    <3> QED
      BY <3>5, <3>6
  <2> QED
    BY <2>3, <2>4
<1> HIDE DEF A
<1>6. n \in Nat
  BY <1>2
<1>7. n \in A
  BY <1>4, <1>5, <1>6, TurnInduction
<1>8. PICK k \in 0 .. n : Good(n, k)
  BY <1>7 DEF A
<1>9. SegSize(c) = n
  <2>1. Page = 4096 /\ c.hi \in Nat /\ c.lo \in Nat
    BY DEF Page, SegOK
  <2> DEFINE d == c.hi - c.lo
  <2>2. d = n * 4096
    BY <1>2, <2>1
  <2> HIDE DEF d
  <2>3. d \div 4096 = n
    BY <1>6, <2>2
  <2> QED
    BY <2>1, <2>3 DEF SegSize, d
<1> QED
  BY <1>8, <1>9 DEF SegLoads

\* The run of load_segment, on tables or with no page left.
LEMMA SegIs ==
    ASSUME NEW m \in Loadables, NEW c, SegOK(c)
    PROVE  \E f, s, n : SegLoop(s, n, c) /\ SegRunOf(f, m, c, s, n) /\ f[n] = load_segment(m, c)
<1> DEFINE s == Steps(c.lo, c.hi, Page)
           n == Len(s)
<1>1. SegLoop(s, n, c)
  BY SegTurns
<1>2. PICK f : SegRunOf(f, m, c, s, n) /\ f[n] = load_segment(m, c)
  BY SegRun
<1> HIDE DEF s, n
<1> QED
  BY <1>1, <1>2

\* load_segment.
LEMMA SegStep ==
    ASSUME NEW m, Sound(m), NEW c, SegOK(c)
    PROVE  SegLoads(m, load_segment(m, c), c)
<1>1. m \in Loadables
  BY DEF Loadables, Sound
<1>2. PICK f, s, n : SegLoop(s, n, c) /\ SegRunOf(f, m, c, s, n) /\ f[n] = load_segment(m, c)
  BY <1>1, SegIs
<1>3. SegLoads(f[0], f[n], c) /\ f[0] = Fresh(m)
  BY <1>2, SegLoopStep DEF SegRunOf
<1> DEFINE h == load_segment(m, c)
           b0 == Fresh(m)
<1>4. SegLoads(b0, h, c)
  BY <1>2, <1>3
<1>5. Sound(b0) /\ Grows(m, b0) /\ b0.nx = m.nx /\ Flatten(b0) = Flatten(m) /\ b0.blocks = m.blocks
  BY FreshSound, FreshStep0 DEF Sound
<1> HIDE DEF h, b0
<1>6. ASSUME NEW G, Loads(b0, h, G) PROVE Loads(m, h, G)
  <2>1. Grows(m, h)
    BY <1>5, <1>6, GrowsTrans DEF Loads, Sound
  <2>2. \A q : Owned(b0, h, q) => Owned(m, h, q)
    BY <1>5 DEF Owned, OwnPage
  <2> QED
    BY <1>5, <1>6, <2>1, <2>2 DEF Loads
<1>7. SegLoads(m, h, c)
  <2>1. PICK k \in 0 .. SegSize(c) : Loads(b0, h, Grants(c, First(c, k))) /\ (h.ret # 0 => k = SegSize(c))
    BY <1>4 DEF SegLoads
  <2>2. Loads(m, h, Grants(c, First(c, k)))
    BY <1>6, <2>1
  <2> QED
    BY <2>1, <2>2 DEF SegLoads
<1> QED
  BY <1>7 DEF h

\* nothing changed but the padding
Stays(m, r) ==
    /\ r \in States /\ HeapOK(r) /\ Dry(r) /\ Grows(m, r)
    /\ r.mem = m.mem /\ r.blocks = m.blocks /\ r.ret = 0

\* load_segment with no page left.
LEMMA SegDry ==
    ASSUME NEW m \in States, HeapOK(m), Dry(m), NEW c, SegOK(c)
    PROVE  Stays(m, load_segment(m, c))
<1>1. m \in Loadables
  BY DEF Loadables
<1>2. PICK f, s, n : SegLoop(s, n, c) /\ SegRunOf(f, m, c, s, n) /\ f[n] = load_segment(m, c)
  BY <1>1, SegIs
<1>3. /\ f[0] = Fresh(m) /\ n \in Nat \ {0}
      /\ \A i \in 1 .. n : f[i] = IF f[i - 1].ret = 0 THEN f[i - 1] ELSE LoadTurn(f[i - 1], c, s[i])
  BY <1>2 DEF SegRunOf, SegLoop
<1> DEFINE b0 == Fresh(m)
           h == kalloc_page(b0)
<1>4. /\ b0 \in States /\ b0.ret = 1 /\ b0.at = m.at /\ b0.blocks = m.blocks /\ b0.mem = m.mem
      /\ b0.pml4 = m.pml4 /\ b0.nx = m.nx
  BY FreshStep0
<1>5. HeapOK(b0) /\ Dry(b0)
  <2> HIDE DEF b0
  <2> QED
    BY <1>4 DEF HeapOK, Dry
<1>6. LoadTurn(b0, c, s[1]) = IF h.ret = 0 THEN h ELSE vm_user_map(h, s[1], h.ret, c.w, c.x)
  BY Zenon DEF LoadTurn, Then
<1> HIDE DEF b0
<1>7. /\ h \in States /\ HeapOK(h) /\ h.ret = 0 /\ Dry(h) /\ Grows(b0, h)
      /\ h.mem = b0.mem /\ h.blocks = b0.blocks
  BY <1>4, <1>5, DryStep
<1> HIDE DEF h
<1>8. Stays(m, h)
  BY <1>4, <1>7 DEF Stays, Grows
<1>9. f[1] = h
  <2>1. 1 \in 1 .. n /\ 1 - 1 = 0
    BY <1>3
  <2>2. f[1] = IF f[0].ret = 0 THEN f[0] ELSE LoadTurn(f[0], c, s[1])
    BY <1>3, <2>1
  <2> QED
    BY <1>3, <1>4, <1>6, <1>7, <2>2 DEF b0
<1> DEFINE A == {i \in 0 .. n : i = 0 \/ f[i] = h}
<1>10. 0 \in A /\ n \in Nat
  BY <1>3
<1>11. ASSUME NEW i \in 1 .. n, i - 1 \in A PROVE i \in A
  <2>1. CASE i = 1
    BY <1>9, <2>1
  <2>2. CASE i # 1
    <3>1. f[i - 1] = h
      BY <1>11, <2>2
    <3>2. f[i] = h
      BY <1>3, <1>7, <3>1
    <3> QED
      BY <1>10, <3>2
  <2> QED
    BY <2>1, <2>2
<1> HIDE DEF A
<1>12. n \in A
  BY <1>10, <1>11, TurnInduction
<1> QED
  BY <1>2, <1>3, <1>8, <1>12 DEF A

-----------------------------------------------------------------------------
\* m after a header was refused
Refused(m) == [m EXCEPT !.ret = 0]

\* The tables are what they were.
LEMMA RefusedFacts ==
    ASSUME NEW m \in States
    PROVE  /\ Refused(m) \in States /\ Refused(m).ret = 0
           /\ Refused(m).at = m.at /\ Refused(m).blocks = m.blocks /\ Refused(m).mem = m.mem
           /\ Refused(m).pml4 = m.pml4 /\ Refused(m).nx = m.nx
  BY DEF Refused, States

\* ... and sound when they were.
LEMMA RefusedSound ==
    ASSUME NEW m, Sound(m)
    PROVE  Sound(Refused(m)) /\ Grows(m, Refused(m)) /\ Flatten(Refused(m)) = Flatten(m)
<1> DEFINE r == Refused(m)
<1>1. m \in States
  BY DEF Sound
<1>2. r \in States /\ r.ret = 0 /\ r.at = m.at /\ r.blocks = m.blocks /\ r.mem = m.mem
      /\ r.pml4 = m.pml4 /\ r.nx = m.nx
  BY <1>1, RefusedFacts
<1> HIDE DEF r
<1>3. HeapOK(r)
  BY <1>2 DEF Sound, HeapOK
<1>4. Grows(m, r)
  BY <1>1, <1>2 DEF Grows, States
<1> QED
  BY <1>2, <1>3, <1>4, SoundSame DEF r

\* the segments of a program, but the stack
Segments(m, p) ==
    Over(m, p, LAMBDA n, s : IF s.w /\ s.x THEN [n EXCEPT !.ret = 0] ELSE load_segment(n, s))
Turn(k, s) == IF s.w /\ s.x THEN Refused(k) ELSE load_segment(k, s)

\* f[i] is the state after turn i of that loop
SegmentsRunOf(f, m, s, n) ==
    /\ f[0] = m
    /\ \A i \in 0 .. n : f[i] \in Loadables
    /\ \A i \in 1 .. n :
          f[i] = IF f[i - 1].ret = 0 THEN f[i - 1] ELSE Turn(f[i - 1], s[i])

\* The loop over the headers of a program.
LEMMA SegmentsRun ==
    ASSUME NEW m \in Loadables, NEW prog, Len(prog) \in Nat,
           \A i \in 1 .. Len(prog) : SegOK(prog[i])
    PROVE  \E f : SegmentsRunOf(f, m, prog,
                  Len(prog)) /\ f[Len(prog)] = Segments(m, prog)
<1> DEFINE s == prog
           n == Len(s)
           b == m
           Body(k, i) == IF k.ret = 0 THEN k ELSE Turn(k, s[i])
           Run(f) == f = [i \in 0 .. n |-> IF i = 0 THEN b ELSE Body(f[i - 1], i)]
           f == CHOOSE after : Run(after)
           S == Loadables
           g == [p \in (1 .. n) \X S |-> Body(p[2], p[1])]
<1>1. Segments(m, prog) = f[n]
  BY Zenon DEF Segments, Over, Then, Turn, Refused
<1>2. n \in Nat /\ \A i \in 1 .. n : SegOK(s[i])
  OBVIOUS
<1> HIDE DEF s, n
<1>3. ASSUME NEW i \in 1 .. n, NEW k \in S PROVE Body(k, i) \in S
  <2> DEFINE c == s[i]
             q == load_segment(k, c)
             o == Refused(k)
  <2>1. SegOK(c)
    BY <1>2
  <2>2. k \in States /\ HeapOK(k) /\ (Sound(k) \/ Dry(k))
    BY DEF Loadables
  <2>3. Turn(k, s[i]) = IF c.w /\ c.x THEN o ELSE q
    BY Zenon DEF Turn
  <2> HIDE DEF c
  <2>4. q \in Loadables
    <3>1. PICK h, t, l : SegLoop(t, l, c) /\ SegRunOf(h, k, c, t, l) /\ h[l] = q
      BY <2>1, SegIs
    <3>2. l \in 0 .. l
      BY <3>1 DEF SegLoop
    <3> HIDE DEF q
    <3> QED
      BY <3>1, <3>2 DEF SegRunOf
  <2>5. o \in Loadables
    <3>1. o \in States /\ o.at = k.at /\ o.blocks = k.blocks /\ (Sound(k) => Sound(o))
      BY <2>2, RefusedFacts, RefusedSound
    <3> HIDE DEF o
    <3> QED
      BY <2>2, <3>1 DEF Loadables, HeapOK, Dry
  <2> HIDE DEF q, o
  <2> QED
    BY <2>3, <2>4, <2>5
<1>4. g \in [(1 .. n) \X S -> S]
  <2>1. \A p \in (1 .. n) \X S : Body(p[2], p[1]) \in S
    BY <1>3
  <2> HIDE DEF Body, S
  <2> QED
    BY <2>1
<1>5. b \in S
  OBVIOUS
<1>6. \E h : Run(h)
  <2>1. \E h : RunOf(h, S, n, b, g)
    <3> HIDE DEF g, b, S
    <3>1. n \in Nat
      BY <1>2
    <3> QED
      BY <1>4, <1>5, <3>1, LoopRun
  <2> PICK h : RunOf(h, S, n, b, g)
    BY <2>1
  <2>2. h \in [0 .. n -> S] /\ h[0] = b /\ \A i \in 1 .. n : h[i] = g[<<i, h[i - 1]>>]
    BY DEF RunOf
  <2>3. \A i \in 1 .. n : i - 1 \in 0 .. n /\ h[i - 1] \in S
    BY <1>2, <2>2
  <2> HIDE DEF Body, S, b
  <2>4. \A i \in 1 .. n : h[i] = Body(h[i - 1], i)
    BY <2>2, <2>3
  <2>5. \A i \in 0 .. n : i = 0 \/ i \in 1 .. n
    BY <1>2
  <2>6. \A i \in 0 .. n : h[i] = IF i = 0 THEN b ELSE Body(h[i - 1], i)
    BY <2>2, <2>4, <2>5, Zenon
  <2>7. h \in [0 .. n -> S]
    BY <2>2
  <2> HIDE DEF g
  <2>8. h = [i \in 0 .. n |-> IF i = 0 THEN b ELSE Body(h[i - 1], i)]
    BY <2>6, <2>7, Zenon
  <2> QED
    BY <2>8
<1>7. Run(f)
  <2> HIDE DEF Run
  <2> QED
    BY <1>6, Zenon DEF f
<1> HIDE DEF f
<1>8. f[0] = b /\ \A i \in 1 .. n : f[i] = Body(f[i - 1], i)
  <2>1. 0 \in 0 .. n /\ \A i \in 1 .. n : i \in 0 .. n /\ i # 0
    BY <1>2
  <2> HIDE DEF Body, b
  <2>2. \A i \in 0 .. n : f[i] = IF i = 0 THEN b ELSE Body(f[i - 1], i)
    BY <1>7, Zenon
  <2> QED
    BY <2>1, <2>2
<1> HIDE DEF Run
<1>9. \A i \in 0 .. n : f[i] \in S
  <2> DEFINE A == {i \in 0 .. n : f[i] \in S}
  <2>1. 0 \in A
    BY <1>2, <1>5, <1>8
  <2>2. ASSUME NEW i \in 1 .. n, i - 1 \in A PROVE i \in A
    <3> DEFINE k == f[i - 1]
    <3>1. k \in S
      BY <2>2
    <3>2. i \in 0 .. n
      BY <1>2
    <3> HIDE DEF Body, S
    <3>3. f[i] = Body(k, i)
      BY <1>8
    <3> HIDE DEF k
    <3>4. Body(k, i) \in S
      BY <1>3, <3>1
    <3> QED
      BY <3>2, <3>3, <3>4
  <2> HIDE DEF A
  <2>3. n \in Nat
    BY <1>2
  <2>4. \A i \in 0 .. n : i \in A
    BY <2>1, <2>2, <2>3, TurnInduction
  <2> QED
    BY <2>4 DEF A
<1>10. \A i \in 0 .. n : f[i] \in Loadables
  BY <1>9 DEF Sounds
<1>11. f[0] = b /\ f[n] = Segments(m, prog)
  BY <1>1, <1>8
<1>12. \E h : SegmentsRunOf(h, m, s, n) /\ h[n] = Segments(m, prog)
  <2>1. SegmentsRunOf(f, m, s, n)
    BY <1>8, <1>10, <1>11 DEF SegmentsRunOf, b
  <2> QED
    BY <1>11, <2>1, Zenon
<1> QED
  BY <1>12, Zenon DEF s, n

\* what has been reached of segment i, when n pages of segment k were the last
Reached(segs, k, n, i) == First(segs[i], IF i < k THEN SegSize(segs[i]) ELSE n)

\* G holds the rights of the last segment that has the page
Grant(G, segs, k, n) ==
    /\ \A b : b \in DOMAIN G <=> \E i \in 1 .. k : b \in Reached(segs, k, n, i)
    /\ \A b \in DOMAIN G : \E i \in 1 .. k :
          /\ b \in Reached(segs, k, n, i)
          /\ \A j \in 1 .. k : i < j => b \notin Reached(segs, k, n, j)
          /\ G[b] = [w |-> segs[i].w, x |-> segs[i].x]

\* r is m with so much of the segments loaded
Progress(m, r, segs, k, n) ==
    /\ \E G : Loads(m, r, G) /\ Grant(G, segs, k, n)
    /\ \A i \in 1 .. k : ~(segs[i].w /\ segs[i].x)

\* the last segment is complete
FullAt(segs, k) == IF k = 0 THEN 0 ELSE SegSize(segs[k])

\* One segment more.
LEMMA ElfMore ==
    ASSUME NEW m, Sound(m), NEW g, NEW h, NEW segs, NEW k \in Nat,
           Progress(m, g, segs, k, FullAt(segs, k)), NEW s, s = segs[k + 1], ~(s.w /\ s.x),
           NEW c, Loads(g, h, Grants(s, First(s, c)))
    PROVE  Progress(m, h, segs, k + 1, c)
<1> DEFINE l == k + 1
           N == FullAt(segs, k)
           Old(i) == Reached(segs, k, N, i)
           New(i) == Reached(segs, l, c, i)
           P == First(s, c)
           H == Grants(s, P)
<1>1. PICK G : Loads(m, g, G) /\ Grant(G, segs, k, N)
  BY DEF Progress
<1> DEFINE W == With(G, H)
<1>2. \A i \in 1 .. k : New(i) = Old(i)
  <2> SUFFICES ASSUME NEW i \in 1 .. k PROVE New(i) = Old(i)
    OBVIOUS
  <2>1. i < l /\ (i < k \/ i = k) /\ k # 0
    OBVIOUS
  <2> HIDE DEF l
  <2>2. CASE i < k
    BY <2>1, <2>2 DEF Reached
  <2>3. CASE i = k
    <3>1. ~ (i < k)
      BY <2>3
    <3> QED
      BY <2>1, <2>3, <3>1 DEF Reached, FullAt
  <2> QED
    BY <2>1, <2>2, <2>3
<1>3. New(l) = P
  <2>1. ~ (l < l)
    OBVIOUS
  <2> QED
    BY <2>1 DEF Reached
<1>4. \A i : i \in 1 .. l <=> i \in 1 .. k \/ i = l
  OBVIOUS
<1>5. l \in 1 .. l /\ (\A i \in 1 .. k : i < l /\ i # l) /\ (\A i \in 1 .. l : ~ (l < i))
  OBVIOUS
<1>6. /\ DOMAIN H = P /\ \A b \in P : H[b] = [w |-> s.w, x |-> s.x]
      /\ DOMAIN W = DOMAIN G \cup P
      /\ \A b \in DOMAIN G \cup P : W[b] = IF b \in P THEN H[b] ELSE G[b]
  BY DEF Grants, With
<1>7. Loads(m, h, W)
  <2> HIDE DEF H, W
  <2> QED
    BY <1>1, LoadsTrans DEF H, W
<1>8. /\ \A b : b \in DOMAIN G <=> \E i \in 1 .. k : b \in Old(i)
      /\ \A b \in DOMAIN G : \E i \in 1 .. k :
            /\ b \in Old(i) /\ \A j \in 1 .. k : i < j => b \notin Old(j)
            /\ G[b] = [w |-> segs[i].w, x |-> segs[i].x]
  BY <1>1, Zenon DEF Grant
<1>0. s = segs[l]
  OBVIOUS
<1> HIDE DEF Old, New, H, W, P, l, N
<1>9. \A b : b \in DOMAIN W <=> \E i \in 1 .. l : b \in New(i)
  BY <1>2, <1>3, <1>4, <1>6, <1>8
<1>10. ASSUME NEW b \in DOMAIN W
       PROVE  \E i \in 1 .. l : /\ b \in New(i) /\ \A j \in 1 .. l : i < j => b \notin New(j)
                                /\ W[b] = [w |-> segs[i].w, x |-> segs[i].x]
  <2>1. CASE b \in P
    <3>1. b \in New(l) /\ W[b] = [w |-> segs[l].w, x |-> segs[l].x]
      BY <1>0, <1>3, <1>6, <2>1
    <3> QED
      BY <1>5, <3>1
  <2>2. CASE b \notin P
    <3>1. b \in DOMAIN G /\ W[b] = G[b]
      BY <1>6, <2>2
    <3>2. PICK i \in 1 .. k : /\ b \in Old(i) /\ \A j \in 1 .. k : i < j => b \notin Old(j)
                              /\ G[b] = [w |-> segs[i].w, x |-> segs[i].x]
      BY <1>8, <3>1
    <3>3. i \in 1 .. l /\ b \in New(i)
      BY <1>2, <1>4, <3>2
    <3>4. \A j \in 1 .. l : i < j => b \notin New(j)
      BY <1>2, <1>3, <1>4, <2>2, <3>2
    <3> QED
      BY <3>1, <3>2, <3>3, <3>4
  <2> QED
    BY <2>1, <2>2
<1>11. Grant(W, segs, l, c)
  BY <1>9, <1>10, Zenon DEF Grant, New
<1>12. \A i \in 1 .. l : ~(segs[i].w /\ segs[i].x)
  BY <1>0, <1>4 DEF Progress
<1>13. Progress(m, h, segs, l, c)
  BY <1>7, <1>11, <1>12 DEF Progress
<1> QED
  BY <1>13 DEF l

\* The tables may have grown meanwhile.
LEMMA ElfSame ==
    ASSUME NEW m, Sound(m), NEW g, NEW h, NEW segs, NEW k, NEW n, Progress(m, g, segs, k, n),
           Sound(h), Grows(g, h), Flatten(h) = Flatten(g)
    PROVE  Progress(m, h, segs, k, n)
<1>1. PICK G : Loads(m, g, G) /\ Grant(G, segs, k, n)
  BY DEF Progress
<1> DEFINE H == [b \in {} |-> 0]
<1>2. Loads(g, h, H)
  BY <1>1, LoadsNothing DEF Loads
<1>3. Loads(m, h, With(G, H))
  BY <1>1, <1>2, LoadsTrans
<1>4. DOMAIN With(G, H) = DOMAIN G /\ \A b \in DOMAIN G : With(G, H)[b] = G[b]
  BY DEF With
<1> DEFINE W == With(G, H)
<1> HIDE DEF W
<1>5. Grant(W, segs, k, n)
  BY <1>1, <1>4 DEF Grant, W
<1> QED
  BY <1>3, <1>5 DEF Progress, W

\* the stack, as load_segment is given it
StackSeg == [lo |-> Stack.lo, hi |-> Stack.hi, w |-> TRUE, x |-> FALSE]
Segs(p)  == Append(p, StackSeg)

\* The segments of a program and its stack.
LEMMA ProgramFacts ==
    ASSUME NEW p \in Programs
    PROVE  /\ Len(p) \in Nat \ {0} /\ DOMAIN p = 1 .. Len(p)
           /\ \A i \in 1 .. Len(p) : /\ SegOK(p[i]) /\ p[i].hi < Stack.lo
                                     /\ Segs(p)[i] = p[i]
           /\ SegOK(StackSeg) /\ Segs(p)[Len(p) + 1] = StackSeg
           /\ Len(Segs(p)) = Len(p) + 1 /\ DOMAIN Segs(p) = 1 .. (Len(p) + 1)
<1> DEFINE T == [lo : Nat, hi : Nat, w : BOOLEAN, x : BOOLEAN]
<1>1. /\ p \in Seq(T) /\ p # <<>>
      /\ \A i \in DOMAIN p : /\ UserBase <= p[i].lo /\ p[i].lo < p[i].hi /\ p[i].hi < Stack.lo
                             /\ p[i].lo % Page = 0 /\ p[i].hi % Page = 0
  BY ProgramsAssumption
<1>2. /\ UserBase < Stack.lo /\ Stack.lo < Stack.hi /\ Stack.hi < UserTop
      /\ Stack \in [lo : Nat, hi : Nat] /\ Stack.lo % Page = 0 /\ Stack.hi % Page = 0
      /\ UserBase \in Nat /\ UserTop \in Nat
  BY PagingAssumption
<1>3. StackSeg \in T /\ SegOK(StackSeg)
  <2>1. Stack.lo \in Nat /\ Stack.hi \in Nat
    BY <1>2
  <2>2. StackSeg \in T /\ StackSeg.lo = Stack.lo /\ StackSeg.hi = Stack.hi
    BY <2>1 DEF StackSeg
  <2> QED
    BY <1>2, <2>1, <2>2 DEF SegOK
<1>4. ASSUME NEW i \in DOMAIN p PROVE SegOK(p[i])
  <2>1. p[i] \in T
    <3> HIDE DEF T
    <3> QED
      BY <1>1
  <2> DEFINE s == p[i]
  <2>2. s \in T /\ UserBase <= s.lo /\ s.lo < s.hi /\ s.hi < Stack.lo
        /\ s.lo % Page = 0 /\ s.hi % Page = 0
    BY <1>1, <2>1
  <2> HIDE DEF s
  <2>3. s.hi < UserTop
    <3>1. s.hi \in Nat /\ Stack.lo \in Nat /\ Stack.hi \in Nat
      BY <1>2, <2>2
    <3> QED
      BY <1>2, <2>2, <3>1
  <2>4. SegOK(s)
    BY <2>2, <2>3 DEF SegOK
  <2> QED
    BY <2>4 DEF s
<1> HIDE DEF T
<1>5. Len(p) \in Nat \ {0} /\ DOMAIN p = 1 .. Len(p)
  BY <1>1
<1>6. /\ \A i \in 1 .. Len(p) : Segs(p)[i] = p[i]
      /\ Segs(p)[Len(p) + 1] = StackSeg
      /\ Len(Segs(p)) = Len(p) + 1 /\ DOMAIN Segs(p) = 1 .. (Len(p) + 1)
  BY <1>1, <1>3, <1>5 DEF Segs
<1> QED
  BY <1>1, <1>3, <1>4, <1>5, <1>6

\* What the loop over the headers has loaded at its end.
SegmentsDone(m, r, segs, n) ==
    \E k \in 0 .. n, c \in Nat :
       /\ Progress(m, r, segs, k, c)
       /\ k > 0 => c <= SegSize(segs[k])
       /\ r.ret # 0 => k = n /\ c = FullAt(segs, k)

\* One header more.
LEMMA TurnStep ==
    ASSUME NEW m, Sound(m), NEW g, NEW h, NEW segs, NEW k \in Nat,
           SegmentsDone(m, g, segs, k), g.ret # 0, NEW s, s = segs[k + 1], SegOK(s),
           h = Turn(g, s)
    PROVE  SegmentsDone(m, h, segs, k + 1)
<1>1. Progress(m, g, segs, k, FullAt(segs, k))
      /\ FullAt(segs, k) \in Nat /\ (k > 0 => FullAt(segs, k) <= SegSize(segs[k]))
  <2>1. PICK j \in 0 .. k, c \in Nat :
            /\ Progress(m, g, segs, j, c)
            /\ j > 0 => c <= SegSize(segs[j])
            /\ j = k /\ c = FullAt(segs, j)
    BY DEF SegmentsDone
  <2> QED
    BY <2>1
<1>2. Sound(g)
  BY <1>1 DEF Progress, Loads
<1>3. k \in 0 .. (k + 1) /\ k + 1 \in 0 .. (k + 1) /\ k + 1 # k /\ k + 1 > 0 /\ k + 1 # 0
  OBVIOUS
<1> DEFINE l == k + 1
<1>4. CASE s.w /\ s.x
  <2>1. h = Refused(g)
    BY <1>4 DEF Turn
  <2>2. Sound(h) /\ Grows(g, h) /\ Flatten(h) = Flatten(g) /\ h.ret = 0
    BY <1>2, <2>1, RefusedSound, RefusedFacts DEF Sound
  <2>3. Progress(m, h, segs, k, FullAt(segs, k))
    BY <1>1, <2>2, ElfSame
  <2> QED
    BY <1>1, <1>3, <2>2, <2>3 DEF SegmentsDone
<1>5. CASE ~(s.w /\ s.x)
  <2>1. h = load_segment(g, s)
    BY <1>5 DEF Turn
  <2>2. SegLoads(g, h, s)
    BY <1>2, <2>1, SegStep
  <2>3. PICK c \in 0 .. SegSize(s) : /\ Loads(g, h, Grants(s, First(s, c)))
                                     /\ h.ret # 0 => c = SegSize(s)
    BY <2>2 DEF SegLoads
  <2>4. Progress(m, h, segs, l, c)
    BY <1>1, <1>5, <2>3, ElfMore
  <2>5. SegSize(s) \in Int
    <3>1. s.hi \in Nat /\ s.lo \in Nat /\ Page = 4096
      BY DEF SegOK, Page
    <3> DEFINE d == s.hi - s.lo
    <3>2. d \in Int
      BY <3>1
    <3> HIDE DEF d
    <3> QED
      BY <3>1, <3>2 DEF SegSize, d
  <2>6. c \in Nat /\ c <= SegSize(s)
    BY <2>3, <2>5
  <2>7. s = segs[l] /\ (h.ret # 0 => c = FullAt(segs, l))
    BY <1>3, <2>3 DEF FullAt
  <2> HIDE DEF l
  <2>8. l \in 0 .. l
    BY <1>3 DEF l
  <2>9. SegmentsDone(m, h, segs, l)
    BY <2>4, <2>6, <2>7, <2>8 DEF SegmentsDone
  <2> QED
    BY <2>9 DEF l
<1> QED
  BY <1>4, <1>5

\* elf_run's loading, on tables.
LEMMA LoadedStep ==
    ASSUME NEW m, Sound(m), m.ret # 0, NEW p \in Programs
    PROVE  SegmentsDone(m, Loaded(m, p), Segs(p), Len(p) + 1)
<1> DEFINE n == Len(p)
           segs == Segs(p)
           g == Segments(m, p)
           h == load_segment(g, StackSeg)
<1>1. /\ n \in Nat /\ \A i \in 1 .. n : SegOK(p[i]) /\ segs[i] = p[i]
      /\ SegOK(StackSeg) /\ segs[n + 1] = StackSeg
  BY ProgramFacts
<1>2. Loaded(m, p) = IF g.ret = 0 THEN g ELSE h
  BY Zenon DEF Loaded, Segments, Then, StackSeg
<1>3. m \in Loadables /\ m \in States
  BY DEF Sound, Loadables
<1>4. PICK f : SegmentsRunOf(f, m, p, n) /\ f[n] = g
  BY <1>1, <1>3, SegmentsRun
<1>5. f[0] = m /\ \A i \in 1 .. n : f[i] = IF f[i - 1].ret = 0 THEN f[i - 1] ELSE Turn(f[i - 1], p[i])
  BY <1>4 DEF SegmentsRunOf
<1> HIDE DEF g, h, segs, n
<1> DEFINE Good(i) == IF f[i].ret = 0 THEN \E k \in 0 .. i : SegmentsDone(m, f[i], segs, k)
                      ELSE SegmentsDone(m, f[i], segs, i)
           A == {i \in 0 .. n : Good(i)}
<1>6. 0 \in A
  <2>1. SegmentsDone(m, m, segs, 0)
    <3> DEFINE G == [b \in {} |-> 0]
    <3>1. DOMAIN G = {}
      OBVIOUS
    <3> HIDE DEF G
    <3>2. Loads(m, m, G)
      BY <1>3, <3>1, GrowsRefl, LoadsNothing
    <3>3. Grant(G, segs, 0, 0)
      BY <3>1 DEF Grant
    <3>4. Progress(m, m, segs, 0, 0)
      BY <3>2, <3>3 DEF Progress
    <3>5. 0 \in 0 .. 0 /\ 0 \in Nat /\ FullAt(segs, 0) = 0
      BY DEF FullAt
    <3> QED
      BY <3>4, <3>5 DEF SegmentsDone
  <2>2. Good(0)
    BY <1>5, <2>1
  <2> HIDE DEF Good
  <2> QED
    BY <1>1, <2>2
<1>7. ASSUME NEW i \in 1 .. n, i - 1 \in A PROVE i \in A
  <2>1. Good(i - 1) /\ i \in 0 .. n /\ i - 1 \in Nat /\ (i - 1) + 1 = i
    BY <1>1, <1>7
  <2>2. CASE f[i - 1].ret = 0
    <3>1. f[i] = f[i - 1]
      BY <1>5, <2>2
    <3>2. PICK k \in 0 .. (i - 1) : SegmentsDone(m, f[i - 1], segs, k)
      BY <2>1, <2>2
    <3>3. k \in 0 .. i
      BY <2>1
    <3>4. Good(i)
      BY <2>2, <3>1, <3>2, <3>3
    <3> HIDE DEF Good
    <3> QED
      BY <2>1, <3>4
  <2>3. CASE f[i - 1].ret # 0
    <3> DEFINE j == i - 1
               a == f[j]
               b == f[i]
               s == p[i]
    <3>1. SegmentsDone(m, a, segs, j) /\ b = Turn(a, s) /\ a.ret # 0
      BY <1>5, <2>1, <2>3
    <3>2. j \in Nat /\ j + 1 = i /\ SegOK(s) /\ s = segs[i]
      BY <1>1, <2>1
    <3> HIDE DEF j, a, b, s
    <3>3. SegmentsDone(m, b, segs, j + 1)
      BY <3>1, <3>2, TurnStep
    <3>4. i \in 0 .. i
      BY <2>1
    <3>5. Good(i)
      BY <3>2, <3>3, <3>4 DEF b
    <3> HIDE DEF Good
    <3> QED
      BY <2>1, <3>5
  <2> QED
    BY <2>2, <2>3
<1> HIDE DEF A
<1>8. n \in A
  BY <1>1, <1>6, <1>7, TurnInduction
<1>9. Good(n)
  BY <1>8 DEF A
<1>10. CASE g.ret = 0
  <2>1. PICK j \in 0 .. n : SegmentsDone(m, g, segs, j)
    BY <1>4, <1>9, <1>10
  <2>2. PICK k \in 0 .. j, c \in Nat : Progress(m, g, segs, k, c) /\ (k > 0 => c <= SegSize(segs[k]))
    BY <2>1 DEF SegmentsDone
  <2>3. k \in 0 .. (n + 1)
    BY <1>1
  <2>4. SegmentsDone(m, g, segs, n + 1)
    BY <1>10, <2>2, <2>3 DEF SegmentsDone
  <2> QED
    BY <1>2, <1>10, <2>4 DEF segs, n
<1>11. CASE g.ret # 0
  <2>1. SegmentsDone(m, g, segs, n)
    BY <1>4, <1>9, <1>11
  <2>2. h = Turn(g, StackSeg)
    BY DEF h, Turn, StackSeg
  <2>3. SegmentsDone(m, h, segs, n + 1)
    BY <1>1, <1>11, <2>1, <2>2, TurnStep
  <2> QED
    BY <1>2, <1>11, <2>3 DEF segs, n
<1> QED
  BY <1>10, <1>11

\* Without a page it loads nothing.
LEMMA LoadedDry ==
    ASSUME NEW m \in States, HeapOK(m), Dry(m), m.ret # 0, NEW p \in Programs
    PROVE  Stays(m, Loaded(m, p))
<1> DEFINE n == Len(p)
           g == Segments(m, p)
           h == load_segment(g, StackSeg)
<1>1. n \in Nat \ {0} /\ \A i \in 1 .. n : SegOK(p[i])
  BY ProgramFacts
<1>2. Loaded(m, p) = IF g.ret = 0 THEN g ELSE h
  BY Zenon DEF Loaded, Segments, Then, StackSeg
<1>3. m \in Loadables
  BY DEF Loadables
<1>4. PICK f : SegmentsRunOf(f, m, p, n) /\ f[n] = g
  BY <1>1, <1>3, SegmentsRun
<1>5. f[0] = m /\ \A i \in 1 .. n : f[i] = IF f[i - 1].ret = 0 THEN f[i - 1] ELSE Turn(f[i - 1], p[i])
  BY <1>4 DEF SegmentsRunOf
<1> DEFINE b == Turn(m, p[1])
<1>6. 1 \in 1 .. n /\ 1 - 1 = 0
  BY <1>1
<1>7. Stays(m, b)
  <2> DEFINE s == p[1]
  <2>1. SegOK(s)
    BY <1>1, <1>6
  <2> HIDE DEF s
  <2>2. Stays(m, load_segment(m, s))
    BY <2>1, SegDry
  <2>3. Stays(m, Refused(m))
    <3> DEFINE r == Refused(m)
    <3>1. /\ r \in States /\ r.ret = 0 /\ r.at = m.at /\ r.blocks = m.blocks /\ r.mem = m.mem
          /\ r.pml4 = m.pml4 /\ r.nx = m.nx
      BY RefusedFacts
    <3> HIDE DEF r
    <3>2. Stays(m, r)
      BY <3>1 DEF Stays, Grows, HeapOK, Dry, States
    <3> QED
      BY <3>2 DEF r
  <2> QED
    BY <2>2, <2>3 DEF Turn, s
<1> HIDE DEF g, h, n, b
<1>8. f[1] = b /\ b.ret = 0
  BY <1>5, <1>6, <1>7 DEF Stays, b
<1> DEFINE A == {i \in 0 .. n : i = 0 \/ f[i] = b}
<1>9. 0 \in A /\ n \in Nat
  BY <1>1
<1>10. ASSUME NEW i \in 1 .. n, i - 1 \in A PROVE i \in A
  <2>1. CASE i = 1
    BY <1>8, <2>1
  <2>2. CASE i # 1
    <3>1. f[i - 1] = b
      BY <1>10, <2>2
    <3>2. f[i] = b
      BY <1>5, <1>8, <3>1
    <3> QED
      BY <1>9, <3>2
  <2> QED
    BY <2>1, <2>2
<1> HIDE DEF A
<1>11. n \in A
  BY <1>9, <1>10, TurnInduction
<1>12. g = b
  BY <1>1, <1>4, <1>11 DEF A
<1> QED
  BY <1>2, <1>7, <1>8, <1>12

-----------------------------------------------------------------------------
(* vm_user_unmap_range.                                                    *)

\* the pages from lo up to hi
Between(lo, hi) == {a \in AllPages : lo <= a /\ a < hi}

\* what is mapped in the window is the user's
WindowUser(m) == \A a \in DOMAIN Flatten(m) : a \in Window => Flatten(m)[a].u

\* The loop unmaps pages of the window.
UnmapLoop(s, n, lo, hi) ==
    /\ n \in Nat
    /\ \A i \in 1 .. n : s[i] \in Window /\ s[i] \in Between(lo, hi)
    /\ \A a \in Between(lo, hi) : \E i \in 1 .. n : s[i] = a

\* A loop over pages comes to each of them.
LEMMA PageHit ==
    ASSUME NEW s, NEW n, NEW from, NEW to, PageLoop(s, n, from, to),
           NEW a \in Nat, a % 4096 = 0, from <= a, a < to
    PROVE  \E i \in 1 .. n : s[i] = a
<1>1. Hits(s, n, from, to)
  BY DEF PageLoop
<1> QED
  BY <1>1 DEF Hits

\* Its turns.
LEMMA UnmapTurns ==
    ASSUME NEW lo \in Nat, NEW hi \in Nat, lo % Page = 0, UserBase <= lo, hi < UserTop
    PROVE  UnmapLoop(Steps(lo, hi, Page), Len(Steps(lo, hi, Page)), lo, hi)
<1> DEFINE s == Steps(lo, hi, Page)
           n == Len(s)
<1>1. PageLoop(s, n, lo, hi)
  BY PageTurns, Zenon
<1> HIDE DEF s, n
<1>2. ASSUME NEW i \in 1 .. n PROVE s[i] \in Window /\ s[i] \in Between(lo, hi)
  <2> DEFINE a == s[i]
             top == Fan * Span(4)
  <2>1. a \in Nat /\ a % 4096 = 0 /\ lo <= a /\ a < hi
    BY <1>1 DEF PageLoop
  <2>2. UserTop <= top /\ UserTop \in Nat /\ UserBase \in Nat /\ top \in Nat
    BY PagingAssumption, SpanFacts, SMT
  <2> HIDE DEF a, top
  <2>3. a < top /\ UserBase <= a /\ a < UserTop
    BY <2>1, <2>2
  <2>4. a \in AllPages
    BY <2>1, <2>3, PageFacts DEF top
  <2>5. a \in Window
    BY <2>3, <2>4, WindowFacts
  <2> QED
    BY <2>1, <2>4, <2>5 DEF Between, a
<1>3. ASSUME NEW a \in Between(lo, hi) PROVE \E i \in 1 .. n : s[i] = a
  <2>1. a \in Nat /\ a % 4096 = 0 /\ lo <= a /\ a < hi
    BY PageFacts DEF Between
  <2> QED
    BY <1>1, <2>1, PageHit
<1>4. n \in Nat
  BY <1>1 DEF PageLoop
<1> QED
  BY <1>2, <1>3, <1>4, Zenon DEF UnmapLoop, n, s

\* One after the other.
LEMMA UnmapsTrans ==
    ASSUME NEW m, Sound(m), WindowUser(m), NEW n, NEW r, NEW S, NEW T,
           Unmaps(m, n, S), Unmaps(n, r, T)
    PROVE  Unmaps(m, r, S \cup T)
<1> DEFINE F == Flatten(m)
           G == Flatten(n)
           H == Flatten(r)
<1>1. /\ Sound(n) /\ Grows(m, n) /\ n.at = m.at /\ n.blocks = m.blocks
      /\ DOMAIN n.mem = DOMAIN m.mem /\ Changes(F, G, S) /\ \A b \in S : b \notin DOMAIN G
  BY DEF Unmaps
<1>2. /\ Sound(r) /\ Grows(n, r) /\ r.at = n.at /\ r.blocks = n.blocks
      /\ DOMAIN r.mem = DOMAIN n.mem /\ Changes(G, H, T) /\ \A b \in T : b \notin DOMAIN H
  BY DEF Unmaps
<1>3. Grows(m, r)
  BY <1>1, <1>2, GrowsTrans DEF Sound
<1> HIDE DEF F, G, H
<1>4. Changes(F, H, S \cup T)
  BY <1>1, <1>2, Zenon DEF Changes
<1>5. \A b \in S \cup T : b \notin DOMAIN H
  BY <1>1, <1>2, Zenon DEF Changes
<1> QED
  BY <1>1, <1>2, <1>3, <1>4, <1>5 DEF Unmaps, F, H

\* What is left of the window is still the user's.
LEMMA UnmapsUser ==
    ASSUME NEW m, WindowUser(m), NEW n, NEW S, Unmaps(m, n, S)
    PROVE  WindowUser(n)
<1> DEFINE F == Flatten(m)
           G == Flatten(n)
<1>1. Changes(F, G, S) /\ (\A b \in S : b \notin DOMAIN G) /\ \A a \in DOMAIN F : a \in Window => F[a].u
  BY DEF Unmaps, WindowUser
<1> HIDE DEF F, G
<1>2. \A a \in DOMAIN G : a \in Window => G[a].u
  BY <1>1 DEF Changes
<1> QED
  BY <1>2 DEF WindowUser, G

\* where programs are unmapped
Unmappables == {k \in States : Sound(k) /\ WindowUser(k)}

UnmapPages(m, from, hi) == Each(m, from, hi, Page, LAMBDA n, va : UnmapTurn(n, va))

\* f[i] is the state after turn i of that loop
UnmapRunOf(f, m, s, n) ==
    /\ f[0] = Fresh(m)
    /\ \A i \in 0 .. n : f[i] \in Unmappables
    /\ \A i \in 1 .. n :
          f[i] = IF f[i - 1].ret = 0 THEN f[i - 1] ELSE UnmapTurn(f[i - 1], s[i])

\* The loop of vm_user_unmap_range.
LEMMA UnmapRun ==
    ASSUME NEW m, Sound(m), WindowUser(m), NEW from, NEW hi,
           UnmapLoop(Steps(from, hi, Page), Len(Steps(from, hi, Page)), from, hi)
    PROVE  \E f : UnmapRunOf(f, m, Steps(from, hi, Page),
                  Len(Steps(from, hi, Page))) /\ f[Len(Steps(from, hi, Page))] = UnmapPages(m, from, hi)
<1> DEFINE s == Steps(from, hi, Page)
           n == Len(s)
           b == Fresh(m)
           Body(k, i) == IF k.ret = 0 THEN k ELSE UnmapTurn(k, s[i])
           Run(f) == f = [i \in 0 .. n |-> IF i = 0 THEN b ELSE Body(f[i - 1], i)]
           f == CHOOSE after : Run(after)
           S == Unmappables
           g == [p \in (1 .. n) \X S |-> Body(p[2], p[1])]
<1>1. UnmapPages(m, from, hi) = f[n]
  BY Zenon DEF UnmapPages, Each, Over, Then, Fresh, UnmapTurn
<1>2. n \in Nat /\ \A i \in 1 .. n : s[i] \in Window
  BY DEF UnmapLoop
<1> HIDE DEF s, n
<1>3. ASSUME NEW i \in 1 .. n, NEW k \in S PROVE Body(k, i) \in S
  <2> DEFINE a == s[i]
             q == UnmapTurn(k, a)
  <2>1. k \in Unmappables /\ Sound(k) /\ WindowUser(k) /\ a \in Window
    BY <1>2 DEF Unmappables
  <2> HIDE DEF a
  <2>2. a \in DOMAIN Flatten(k) => Flatten(k)[a].u
    BY <2>1 DEF WindowUser
  <2>3. Unmaps(k, q, {a})
    BY <2>1, <2>2, UnmapTurnStep
  <2> HIDE DEF q
  <2>4. WindowUser(q) /\ Sound(q)
    BY <2>1, <2>3, UnmapsUser DEF Unmaps
  <2>5. q \in Unmappables
    BY <2>4 DEF Unmappables, Sound
  <2> QED
    BY <2>1, <2>5 DEF q, a
<1>4. g \in [(1 .. n) \X S -> S]
  <2>1. \A p \in (1 .. n) \X S : Body(p[2], p[1]) \in S
    BY <1>3
  <2> HIDE DEF Body, S
  <2> QED
    BY <2>1
<1>5. b \in S
  <2> DEFINE v == Fresh(m)
  <2>1. Sound(v) /\ Flatten(v) = Flatten(m)
    BY FreshSound
  <2> HIDE DEF v
  <2>2. v \in Unmappables
    BY <2>1 DEF Unmappables, WindowUser, Sound
  <2> QED
    BY <2>2 DEF v
<1>6. \E h : Run(h)
  <2>1. \E h : RunOf(h, S, n, b, g)
    <3> HIDE DEF g, b, S
    <3>1. n \in Nat
      BY <1>2
    <3> QED
      BY <1>4, <1>5, <3>1, LoopRun
  <2> PICK h : RunOf(h, S, n, b, g)
    BY <2>1
  <2>2. h \in [0 .. n -> S] /\ h[0] = b /\ \A i \in 1 .. n : h[i] = g[<<i, h[i - 1]>>]
    BY DEF RunOf
  <2>3. \A i \in 1 .. n : i - 1 \in 0 .. n /\ h[i - 1] \in S
    BY <1>2, <2>2
  <2> HIDE DEF Body, S, b
  <2>4. \A i \in 1 .. n : h[i] = Body(h[i - 1], i)
    BY <2>2, <2>3
  <2>5. \A i \in 0 .. n : i = 0 \/ i \in 1 .. n
    BY <1>2
  <2>6. \A i \in 0 .. n : h[i] = IF i = 0 THEN b ELSE Body(h[i - 1], i)
    BY <2>2, <2>4, <2>5, Zenon
  <2>7. h \in [0 .. n -> S]
    BY <2>2
  <2> HIDE DEF g
  <2>8. h = [i \in 0 .. n |-> IF i = 0 THEN b ELSE Body(h[i - 1], i)]
    BY <2>6, <2>7, Zenon
  <2> QED
    BY <2>8
<1>7. Run(f)
  <2> HIDE DEF Run
  <2> QED
    BY <1>6, Zenon DEF f
<1> HIDE DEF f
<1>8. f[0] = b /\ \A i \in 1 .. n : f[i] = Body(f[i - 1], i)
  <2>1. 0 \in 0 .. n /\ \A i \in 1 .. n : i \in 0 .. n /\ i # 0
    BY <1>2
  <2> HIDE DEF Body, b
  <2>2. \A i \in 0 .. n : f[i] = IF i = 0 THEN b ELSE Body(f[i - 1], i)
    BY <1>7, Zenon
  <2> QED
    BY <2>1, <2>2
<1> HIDE DEF Run
<1>9. \A i \in 0 .. n : f[i] \in S
  <2> DEFINE A == {i \in 0 .. n : f[i] \in S}
  <2>1. 0 \in A
    BY <1>2, <1>5, <1>8
  <2>2. ASSUME NEW i \in 1 .. n, i - 1 \in A PROVE i \in A
    <3> DEFINE k == f[i - 1]
    <3>1. k \in S
      BY <2>2
    <3>2. i \in 0 .. n
      BY <1>2
    <3> HIDE DEF Body, S
    <3>3. f[i] = Body(k, i)
      BY <1>8
    <3> HIDE DEF k
    <3>4. Body(k, i) \in S
      BY <1>3, <3>1
    <3> QED
      BY <3>2, <3>3, <3>4
  <2> HIDE DEF A
  <2>3. n \in Nat
    BY <1>2
  <2>4. \A i \in 0 .. n : i \in A
    BY <2>1, <2>2, <2>3, TurnInduction
  <2> QED
    BY <2>4 DEF A
<1>10. \A i \in 0 .. n : f[i] \in Unmappables
  BY <1>9 DEF Sounds
<1>11. f[0] = b /\ f[n] = UnmapPages(m, from, hi)
  BY <1>1, <1>8
<1>12. \E h : UnmapRunOf(h, m, s, n) /\ h[n] = UnmapPages(m, from, hi)
  <2>1. UnmapRunOf(f, m, s, n)
    BY <1>8, <1>10, <1>11 DEF UnmapRunOf, b
  <2> QED
    BY <1>11, <2>1, Zenon
<1> QED
  BY <1>12, Zenon DEF s, n

\* vm_user_unmap_range, in the window.
LEMMA UnmapStep ==
    ASSUME NEW m, Sound(m), WindowUser(m), NEW lo \in Nat, NEW hi \in Nat, lo % Page = 0,
           UserBase <= lo, hi < UserTop
    PROVE  Unmaps(m, Unmap(m, lo, hi), Between(lo, hi))
<1> DEFINE s == Steps(lo, hi, Page)
           n == Len(s)
           r == Unmap(m, lo, hi)
<1>1. UnmapLoop(s, n, lo, hi)
  BY UnmapTurns
<1>2. r = UnmapPages(m, lo, hi)
  <2> DEFINE from == Floor(lo, Page)
  <2>1. r = UnmapPages(m, from, hi)
    BY Zenon DEF Unmap, UnmapPages, UnmapTurn
  <2>2. from = lo
    BY DEF Floor, Page
  <2> QED
    BY <2>1, <2>2
<1>3. PICK f : UnmapRunOf(f, m, s, n) /\ f[n] = UnmapPages(m, lo, hi)
  BY <1>1, UnmapRun
<1> HIDE DEF s, n, r
<1>4. /\ f[0] = Fresh(m)
      /\ \A i \in 0 .. n : Sound(f[i]) /\ WindowUser(f[i])
      /\ \A i \in 1 .. n : f[i] = IF f[i - 1].ret = 0 THEN f[i - 1] ELSE UnmapTurn(f[i - 1], s[i])
  BY <1>3 DEF UnmapRunOf, Unmappables
<1> DEFINE D(k) == {s[i] : i \in 1 .. k}
           Good(k) == Unmaps(f[0], f[k], D(k)) /\ f[k].ret # 0
           A == {k \in 0 .. n : Good(k)}
<1>5. n \in Nat /\ 0 \in 0 .. n /\ \A i \in 1 .. n : s[i] \in Window
  BY <1>1 DEF UnmapLoop
<1>6. f[0].ret # 0 /\ Sound(f[0]) /\ WindowUser(f[0])
  BY <1>4, <1>5, FreshSound
<1>7. 0 \in A
  <2>1. D(0) = {}
    OBVIOUS
  <2>2. Unmaps(f[0], f[0], {})
    BY <1>6, GrowsRefl DEF Unmaps, Changes, Sound
  <2> HIDE DEF D
  <2> QED
    BY <1>5, <1>6, <2>1, <2>2
<1>8. ASSUME NEW i \in 1 .. n, i - 1 \in A PROVE i \in A
  <2> DEFINE j == i - 1
             a == s[i]
             g == f[j]
             h == f[i]
             b0 == f[0]
             P == D(j)
  <2>1. Unmaps(b0, g, P) /\ g.ret # 0 /\ j \in 0 .. n /\ i \in 0 .. n
    BY <1>5, <1>8
  <2>2. h = UnmapTurn(g, a) /\ Sound(g) /\ WindowUser(g)
    BY <1>4, <2>1
  <2>3. D(i) = P \cup {a}
    <3>1. \A k : k \in 1 .. i <=> k \in 1 .. (i - 1) \/ k = i
      BY <1>5
    <3> QED
      BY <3>1
  <2>4. a \in Window /\ Sound(b0) /\ WindowUser(b0)
    BY <1>5, <1>6
  <2> HIDE DEF D, j, a, g, h, b0, P
  <2>5. a \in DOMAIN Flatten(g) => Flatten(g)[a].u
    BY <2>2, <2>4 DEF WindowUser
  <2>6. Unmaps(g, h, {a}) /\ h.ret # 0
    BY <2>1, <2>2, <2>4, <2>5, UnmapTurnStep
  <2>7. Unmaps(b0, h, P \cup {a})
    BY <2>1, <2>4, <2>6, UnmapsTrans
  <2>8. Good(i)
    BY <2>3, <2>6, <2>7 DEF b0, h
  <2> HIDE DEF Good
  <2> QED
    BY <2>1, <2>8
<1> HIDE DEF A
<1>9. n \in A
  BY <1>5, <1>7, <1>8, TurnInduction
<1>10. Unmaps(f[0], f[n], D(n))
  BY <1>9 DEF A
<1>11. D(n) = Between(lo, hi)
  BY <1>1 DEF UnmapLoop
<1> DEFINE b0 == Fresh(m)
<1>12. Sound(b0) /\ Grows(m, b0) /\ Flatten(b0) = Flatten(m)
       /\ b0.at = m.at /\ b0.blocks = m.blocks /\ b0.mem = m.mem
  BY FreshSound, FreshStep0 DEF Sound
<1> HIDE DEF b0, D
<1>13. Unmaps(b0, r, Between(lo, hi))
  BY <1>2, <1>3, <1>4, <1>10, <1>11 DEF b0
<1>14. Grows(m, r)
  BY <1>12, <1>13, GrowsTrans DEF Unmaps, Sound
<1>15. Unmaps(m, r, Between(lo, hi))
  BY <1>12, <1>13, <1>14 DEF Unmaps
<1> QED
  BY <1>15 DEF r

\* The end of a program: its pages, then the stack's.
LEMMA UnmapTwice ==
    ASSUME NEW m, Sound(m), WindowUser(m), NEW lo \in Nat, NEW hi \in Nat, lo % Page = 0,
           UserBase <= lo, hi < UserTop
    PROVE  Unmaps(m, Unmap(Unmap(m, lo, hi), Stack.lo, Stack.hi),
                  Between(lo, hi) \cup Between(Stack.lo, Stack.hi))
<1> DEFINE g == Unmap(m, lo, hi)
           sl == Stack.lo
           sh == Stack.hi
           h == Unmap(g, sl, sh)
           S == Between(lo, hi)
           T == Between(sl, sh)
<1>1. Unmaps(m, g, S)
  BY UnmapStep
<1> HIDE DEF g
<1>2. Sound(g) /\ WindowUser(g)
  BY <1>1, UnmapsUser DEF Unmaps
<1>3. sl \in Nat /\ sh \in Nat /\ sl % Page = 0 /\ UserBase <= sl /\ sh < UserTop
  <2>1. /\ UserBase < Stack.lo /\ Stack.lo < Stack.hi /\ Stack.hi < UserTop
        /\ Stack \in [lo : Nat, hi : Nat] /\ Stack.lo % Page = 0 /\ UserBase \in Nat
    BY PagingAssumption
  <2> QED
    BY <2>1
<1>4. sl \in Nat
  BY <1>3
<1>5. sh \in Nat
  BY <1>3
<1> HIDE DEF sl, sh
<1>6. Unmaps(g, h, T)
  BY <1>2, <1>3, <1>4, <1>5, UnmapStep
<1> HIDE DEF h, S, T
<1>7. Unmaps(m, h, S \cup T)
  BY <1>1, <1>6, UnmapsTrans
<1> QED
  BY <1>7 DEF h, S, T, g, sl, sh

-----------------------------------------------------------------------------
(* The kernel's tables, once they are loaded.                              *)

\* A page lies below the window when its large page does.
LEMMA BelowUser ==
    ASSUME NEW a \in Nat
    PROVE  a < UserBase <=> Num(a, 2) * Span(2) < UserBase
<1> DEFINE q == Fan * (Fan * (UserBase \div Span(4)))
<1>1. q \in Nat /\ UserBase = q * Span(2)
  <2> DEFINE s == Span(4)
             p == UserBase \div s
  <2>1. s \in Nat \ {0} /\ UserBase \in Nat /\ UserBase % s = 0
    BY SpanFacts, PagingAssumption
  <2>2. p \in Nat /\ UserBase = s * p
    <3> HIDE DEF s
    <3>1. UserBase \div s \in Nat /\ UserBase % s \in 0 .. (s - 1)
          /\ UserBase = s * (UserBase \div s) + (UserBase % s)
      BY <2>1, Euclid, Zenon
    <3>2. s * (UserBase \div s) \in Nat
      BY <2>1, <3>1, SMT
    <3> QED
      BY <2>1, <3>1, <3>2
  <2>3. s = (Span(2) * Fan) * Fan /\ Span(2) \in Nat /\ Fan \in Nat
    BY SpanFacts
  <2> HIDE DEF s, p
  <2>4. UserBase = (Fan * (Fan * p)) * Span(2) /\ Fan * (Fan * p) \in Nat
    BY <2>2, <2>3, SMT
  <2> QED
    BY <2>4 DEF p, s
<1> HIDE DEF q
<1>2. a < q * Span(2) <=> Num(a, 2) * Span(2) < q * Span(2)
  BY <1>1, LargeBelow
<1> QED
  BY <1>1, <1>2

\* The boot info asks for nothing in the window.
LEMMA BootApart ==
    ASSUME NEW c \in BootInfos
    PROVE  BootPages(c) \cap Window = {}
<1> SUFFICES ASSUME NEW a \in BootPages(c) PROVE a \notin Window
  OBVIOUS
<1>1. a \in AllPages /\ a \in Nat
  BY PageNumbers DEF BootPages, Wide
<1>2. a < UserBase
  <2>1. CASE a < Low
    <3>1. Low <= UserBase /\ Low \in Nat /\ UserBase \in Nat
      BY PagingAssumption
    <3> QED
      BY <1>1, <2>1, <3>1
  <2>2. CASE \E r \in Range(extra(c)) : a \in Wide(r)
    <3>1. PICK r \in Range(extra(c)) : a \in Wide(r)
      BY <2>2
    <3>2. InRam(r)
      BY ExtraFacts
    <3> DEFINE z == Num(a, 2) * Span(2)
    <3>3. Floor(a, Span(2)) = z
      BY DEF Floor, Num
    <3>4. z < r.base + r.len
      BY <3>1, <3>3 DEF Wide
    <3>5. r.base + r.len <= UserBase /\ r.base + r.len \in Nat /\ UserBase \in Nat
      BY <3>2, WindowFacts DEF InRam, Ranges
    <3>6. z \in Nat
      <4>1. Num(a, 2) \in Nat
        BY <1>1, NumFacts, 2 \in 1 .. 4, Zenon
      <4>2. Span(2) \in Nat
        BY SpanFacts
      <4> QED
        BY <4>1, <4>2, SMT
    <3> HIDE DEF z
    <3>7. z < UserBase
      BY <3>4, <3>5, <3>6
    <3> QED
      BY <1>1, <3>7, BelowUser DEF z
  <2> QED
    BY <2>1, <2>2 DEF BootPages
<1> QED
  BY <1>1, <1>2, WindowFacts

\* Rights and frame of a page outside the window.
LEMMA KernelPage ==
    ASSUME NEW m, m.nx \in BOOLEAN, NEW c, KernelMap(m, c), NEW a \in DOMAIN Flatten(m), a \notin Window
    PROVE  /\ Flatten(m)[a].frame = a /\ ~Flatten(m)[a].u
           /\ m.nx => ~(Flatten(m)[a].w /\ Flatten(m)[a].x)
           /\ Flatten(m)[a].w <=> ~(a \in BootPages(c) /\ a \in PagesIn(c.text) \cup PagesIn(c.rodata))
<1>1. CASE a \in BootPages(c)
  <2> DEFINE p == [frame |-> a, w |-> a \notin PagesIn(c.text) \cup PagesIn(c.rodata),
                   u |-> FALSE, x |-> a \in PagesIn(c.text) \/ ~m.nx]
  <2>1. Flatten(m)[a] = p
    BY <1>1 DEF KernelMap, BootMap
  <2>2. /\ p.frame = a /\ ~p.u
        /\ p.w <=> a \notin PagesIn(c.text) \cup PagesIn(c.rodata)
        /\ p.x <=> a \in PagesIn(c.text) \/ ~m.nx
    OBVIOUS
  <2> HIDE DEF p
  <2> QED
    BY <1>1, <2>1, <2>2, Zenon
<1>2. CASE a \notin BootPages(c)
  <2> DEFINE p == [frame |-> a, w |-> TRUE, u |-> FALSE, x |-> ~m.nx]
  <2>1. Flatten(m)[a] = p
    BY <1>2 DEF KernelMap, Plain
  <2>2. p.frame = a /\ ~p.u /\ p.w /\ (p.x <=> ~m.nx)
    OBVIOUS
  <2> HIDE DEF p
  <2> QED
    BY <1>2, <2>1, <2>2, Zenon
<1> QED
  BY <1>1, <1>2

\* Calls on the heap and calls that keep the map leave the tables fit for use.
LEMMA ServesKept ==
    ASSUME NEW m, NEW c, NEW S, Serves(m, c, S),
           NEW r, Sound(r), Grows(m, r), Flatten(r) = Flatten(m), Dry(m) => Dry(r)
    PROVE  Serves(r, c, S)
<1>1. r.nx = m.nx /\ m.blocks \subseteq r.blocks
      /\ \A t \in DOMAIN r.mem : t \in DOMAIN m.mem \/ ~OwnPage(m, t)
  BY DEF Grows
<1>2. KernelMap(r, c)
  BY <1>1 DEF Serves, KernelMap
<1>3. UserMap(r)
  <2>1. ASSUME NEW a \in DOMAIN Flatten(r), a \in Window PROVE UserPage(r, a)
    <3>1. UserPage(m, a)
      BY <2>1 DEF Serves, UserMap
    <3> QED
      BY <1>1, <3>1 DEF UserPage, OwnPage
  <2>2. \A a, d \in DOMAIN Flatten(r) : a \in Window /\ d \in Window /\ a # d =>
            Flatten(r)[a].frame # Flatten(r)[d].frame
    BY DEF Serves, UserMap
  <2> QED
    BY <2>1, <2>2 DEF UserMap
<1>4. BarsMap(r, S)
  BY DEF Serves, BarsMap
<1> QED
  BY <1>2, <1>3, <1>4 DEF Serves

\* Taking memory does not make more of it.
LEMMA DryGrows ==
    ASSUME NEW m \in States, HeapOK(m), Dry(m), NEW r \in States, HeapOK(r), m.at <= r.at
    PROVE  Dry(r)
<1>1. /\ m.at \in Nat /\ r.at \in Nat /\ r.at <= HeapEnd /\ HeapEnd \in Nat
  BY HeapAssumption DEF States, HeapOK, HeapEnd
<1>2. /\ AlignUp(m.at, 4096) = ((m.at + 4095) \div 4096) * 4096
      /\ AlignUp(r.at, 4096) = ((r.at + 4095) \div 4096) * 4096
  BY <1>1, AlignUpKernel
<1>3. /\ AlignUp(m.at, 4096) \in Nat /\ AlignUp(r.at, 4096) \in Nat
  BY <1>1, HeapRounding
<1>4. AlignUp(m.at, 4096) <= AlignUp(r.at, 4096)
  BY <1>1, <1>2
<1> QED
  BY <1>1, <1>3, <1>4 DEF Dry, Fits, Page

\* A large page starts at or before any address in it.
LEMMA LargeStart ==
    ASSUME NEW a \in Nat
    PROVE  /\ Num(a, 2) \in Nat /\ Span(2) \in Nat /\ Num(a, 2) * Span(2) \in Nat
           /\ Num(a, 2) * Span(2) <= a
           /\ Num(a, 2) * Span(2) = 4096 * (Fan * Num(a, 2)) /\ Fan * Num(a, 2) \in Nat
<1> DEFINE z == Span(2)
           n == Num(a, 2)
           t == a % z
<1>1. z \in Nat \ {0} /\ z = 4096 * Fan /\ Fan \in Nat
  BY SpanFacts
<1>2. n \in Nat /\ t \in Nat /\ a = z * n + t
  <2> HIDE DEF z
  <2>0. z \in Nat \ {0}
    BY <1>1
  <2>1. a \div z \in Nat /\ t \in 0 .. (z - 1) /\ a = z * (a \div z) + t
    BY <2>0, Euclid, Zenon
  <2>2. t \in Nat
    BY <1>1, <2>1
  <2> QED
    BY <2>1, <2>2 DEF Num, z
<1> HIDE DEF z, n, t
<1>3. n * z = z * n /\ z * n \in Nat /\ n * z = 4096 * (Fan * n) /\ Fan * n \in Nat
  BY <1>1, <1>2, SMT
<1>4. n * z <= a
  BY <1>2, <1>3
<1> QED
  BY <1>1, <1>2, <1>3, <1>4 DEF z, n

\* The pages of a range of physical memory.
LEMMA RamPages ==
    ASSUME NEW r, InRam(r), r.len # 0, NEW a \in PagesIn(r)
    PROVE  /\ a \in AllPages /\ a \in Nat /\ a < UserBase /\ a \notin Window
           /\ Num(r.base, 2) <= Num(a, 2) /\ a < r.base + r.len
<1>1. r.base \in Nat /\ r.len \in Nat \ {0} /\ r.base + r.len <= UserBase
  BY DEF InRam, Ranges
<1>2. a \in Nat /\ a % 4096 = 0 /\ r.base < a + 4096 /\ a < r.base + r.len
  BY <1>1, PagesInIs
<1>3. a < UserBase /\ UserBase \in Nat
  BY <1>1, <1>2, WindowFacts
<1>4. Low \in Nat /\ UserBase <= Fan * Span(4) /\ Fan * Span(4) \in Nat
  <2>1. Fan \in Nat /\ Span(4) \in Nat
    BY SpanFacts
  <2>2. Fan * Span(4) \in Nat
    BY <2>1, SMT
  <2> QED
    BY <2>2, LowFacts
<1>5. a \in AllPages
  <2>1. a < Fan * Span(4)
    BY <1>2, <1>3, <1>4
  <2> QED
    BY <1>2, <2>1, PageFacts
<1> DEFINE p == Fan * Num(r.base, 2)
           x == Floor(r.base, Span(2))
<1>6. p \in Nat /\ x = 4096 * p /\ x <= r.base
  <2>1. x = Num(r.base, 2) * Span(2)
    BY DEF Floor, Num
  <2> QED
    BY <1>1, <2>1, LargeStart
<1>7. x <= a
  <2> HIDE DEF p, x
  <2> QED
    BY <1>1, <1>2, <1>6
<1>8. Num(r.base, 2) <= Num(a, 2)
  BY <1>1, <1>2, <1>7, FloorNum
<1>9. a \notin Window
  BY <1>2, <1>3, WindowFacts
<1> QED
  BY <1>2, <1>3, <1>5, <1>8, <1>9

\* A BAR mapped as far as asked is mapped in full.
LEMMA BarMapped ==
    ASSUME NEW r, InRam(r), r.len # 0, NEW k \in Nat,
           ~ ((Num(r.base, 2) + k) * Span(2) < r.base + r.len)
    PROVE  PagesIn(r) \subseteq Stretch(r.base, k)
<1> SUFFICES ASSUME NEW a \in PagesIn(r) PROVE a \in Stretch(r.base, k)
  OBVIOUS
<1>1. /\ a \in AllPages /\ a \in Nat /\ Num(r.base, 2) <= Num(a, 2) /\ a < r.base + r.len
  BY RamPages
<1>2. r.base \in Nat /\ r.base + r.len \in Nat
  BY DEF InRam, Ranges
<1> DEFINE b == Num(r.base, 2)
           n == Num(a, 2)
           z == Span(2)
<1>3. /\ b \in Nat /\ n \in Nat /\ z \in Nat /\ n * z \in Nat /\ n * z <= a
  BY <1>1, <1>2, LargeStart
<1>4. n < b + k
  <2> HIDE DEF b, n, z
  <2> SUFFICES ASSUME b + k <= n PROVE FALSE
    BY <1>3
  <2>1. n - (b + k) \in Nat /\ n = (b + k) + (n - (b + k))
    BY <1>3
  <2> DEFINE d == n - (b + k)
             e == b + k
  <2>2. e \in Nat /\ d \in Nat /\ n = e + d
    BY <1>3, <2>1
  <2> HIDE DEF d, e
  <2>3. n * z = e * z + d * z /\ e * z \in Nat /\ d * z \in Nat
    BY <1>3, <2>2, SMT
  <2>4. e * z <= n * z
    BY <2>3
  <2>5. ~(e * z < r.base + r.len)
    BY DEF e, b, z
  <2> QED
    BY <1>1, <1>2, <1>3, <2>3, <2>4, <2>5
<1> QED
  BY <1>1, <1>4 DEF Stretch

\* What a call maps outside the window, in pages that were not mapped.
LEMMA ServesWider ==
    ASSUME NEW m, NEW c, NEW S, Serves(m, c, S), NEW h, NEW P, Widens(m, h, P \ DOMAIN Flatten(m)),
           P \cap Window = {}
    PROVE  KernelMap(h, c) /\ UserMap(h) /\ DOMAIN Flatten(m) \subseteq DOMAIN Flatten(h)
<1>1. /\ h.nx = m.nx /\ m.blocks \subseteq h.blocks
      /\ \A t \in DOMAIN h.mem : t \in DOMAIN m.mem \/ ~OwnPage(m, t)
  BY DEF Widens, Grows
<1> DEFINE F == Flatten(m)
           G == Flatten(h)
           Q == P \ DOMAIN F
<1>2. /\ \A b : b \notin Q => (b \in DOMAIN G <=> b \in DOMAIN F)
      /\ \A b \in DOMAIN F : b \notin Q => G[b] = F[b]
      /\ \A b \in Q : b \in DOMAIN G /\ G[b] = Plain(b, m.nx)
  BY DEF Widens, Changes
<1>3. /\ BootPages(c) \subseteq DOMAIN F
      /\ \A a \in DOMAIN F : a \notin Window =>
            F[a] = IF a \in BootPages(c) THEN BootMap(c, m.nx)[a] ELSE Plain(a, m.nx)
  BY DEF Serves, KernelMap
<1>4. \A a \in DOMAIN F : a \in Window => UserPage(m, a)
  BY DEF Serves, UserMap
<1>5. \A a, d \in DOMAIN F : a \in Window /\ d \in Window /\ a # d => F[a].frame # F[d].frame
  BY DEF Serves, UserMap
<1>6. \A a \in DOMAIN G : a \in Window => a \in DOMAIN F /\ G[a] = F[a]
  BY <1>2
<1>7. KernelMap(h, c)
  <2> HIDE DEF F, G
  <2>1. BootPages(c) \subseteq DOMAIN G
    BY <1>2, <1>3
  <2>2. ASSUME NEW a \in DOMAIN G, a \notin Window
        PROVE  G[a] = IF a \in BootPages(c) THEN BootMap(c, m.nx)[a] ELSE Plain(a, m.nx)
    BY <1>2, <1>3, <2>2
  <2> QED
    BY <1>1, <2>1, <2>2 DEF KernelMap, G
<1>8. UserMap(h)
  <2>1. ASSUME NEW a \in DOMAIN G, a \in Window PROVE UserPage(h, a)
    <3>1. UserPage(m, a) /\ G[a] = F[a]
      BY <1>4, <1>6, <2>1
    <3> QED
      BY <1>1, <3>1 DEF UserPage, OwnPage
  <2>2. \A a, d \in DOMAIN G : a \in Window /\ d \in Window /\ a # d => G[a].frame # G[d].frame
    BY <1>5, <1>6
  <2> QED
    BY <2>1, <2>2 DEF UserMap
<1>9. DOMAIN F \subseteq DOMAIN G
  BY <1>2
<1> QED
  BY <1>7, <1>8, <1>9

\* Tables that paging_init could complete.
LEMMA ServesBuilt ==
    ASSUME NEW m \in States, HeapOK(m), m.pml4 = 0, NEW c \in BootInfos,
           NEW r, r = Built(m, c), r.ret # 0
    PROVE  Serves(r, c, {}) /\ r.pml4 # 0
<1>1. Builds(m, r, BootMap(c, m.nx))
  BY BuiltStep
<1>2. r.pml4 # m.pml4 /\ Sound(r) /\ Flatten(r) = BootMap(c, m.nx) /\ r.nx = m.nx
  BY <1>1 DEF Builds, Takes
<1>3. DOMAIN Flatten(r) = BootPages(c) /\ BootPages(c) \cap Window = {}
  BY <1>2, BootApart DEF BootMap
<1>4. KernelMap(r, c)
  BY <1>2, <1>3 DEF KernelMap
<1>5. UserMap(r)
  BY <1>3 DEF UserMap
<1>6. BarsMap(r, {})
  BY DEF BarsMap
<1> QED
  BY <1>2, <1>4, <1>5, <1>6 DEF Serves

\* The large pages of a range of physical memory are none of the window's.
LEMMA StretchApart ==
    ASSUME NEW r, InRam(r), NEW k \in Nat,
           \A i \in Nat : i < k => (Num(r.base, 2) + i) * Span(2) < r.base + r.len
    PROVE  Stretch(r.base, k) \cap Window = {}
<1> SUFFICES ASSUME NEW b \in Stretch(r.base, k) PROVE b \notin Window
  OBVIOUS
<1>1. b \in AllPages /\ b \in Nat /\ Num(r.base, 2) <= Num(b, 2) /\ Num(b, 2) < Num(r.base, 2) + k
  BY PageNumbers DEF Stretch
<1>2. r.base \in Nat /\ r.base + r.len \in Nat /\ r.base + r.len <= UserBase /\ UserBase \in Nat
  BY WindowFacts DEF InRam, Ranges
<1>3. Num(b, 2) \in Nat /\ Num(r.base, 2) \in Nat /\ Num(b, 2) * Span(2) \in Nat
  BY <1>1, <1>2, LargeStart
<1>4. Num(b, 2) * Span(2) < UserBase
  <2> DEFINE i == Num(b, 2) - Num(r.base, 2)
  <2>1. i \in Nat /\ i < k /\ Num(r.base, 2) + i = Num(b, 2)
    BY <1>1, <1>3
  <2> HIDE DEF i
  <2>2. Num(b, 2) * Span(2) < r.base + r.len
    BY <2>1
  <2> QED
    BY <1>2, <1>3, <2>2
<1>5. b < UserBase
  BY <1>1, <1>4, BelowUser
<1> QED
  BY <1>1, <1>2, <1>5, WindowFacts

\* vm_ensure_identity: no mapping of the kernel's or of a program's changes.
LEMMA ServesEnsure ==
    ASSUME NEW m, NEW c, NEW S, Serves(m, c, S), NEW r \in Bars
    PROVE  Serves(Ensure(m, r), c, S \cup {r})
<1> DEFINE h == Ensure(m, r)
<1>1. InRam(r) /\ r.len # 0
  BY PlacesAssumption DEF InRam, Ranges
<1>2. Sound(m)
  BY DEF Serves
<1>3. PICK k \in Nat : Ensures(m, h, r.base, r.base + r.len, k)
  BY <1>1, <1>2, EnsureStep
<1> HIDE DEF h
<1>4. /\ Widens(m, h, Stretch(r.base, k) \ DOMAIN Flatten(m))
      /\ \A i \in Nat : i < k => (Num(r.base, 2) + i) * Span(2) < r.base + r.len
      /\ h.ret # 0 => ~ ((Num(r.base, 2) + k) * Span(2) < r.base + r.len)
  BY <1>3 DEF Ensures
<1>5. Stretch(r.base, k) \cap Window = {}
  BY <1>1, <1>4, StretchApart
<1>6. KernelMap(h, c) /\ UserMap(h) /\ DOMAIN Flatten(m) \subseteq DOMAIN Flatten(h)
  BY <1>4, <1>5, ServesWider
<1>7. Sound(h) /\ Grows(m, h) /\ (h.ret = 0 => Dry(h))
  BY <1>4 DEF Widens
<1>8. Stretch(r.base, k) \subseteq DOMAIN Flatten(h)
  BY <1>4, <1>6 DEF Widens
<1>9. BarsMap(h, S \cup {r})
  <2> SUFFICES ASSUME ~Dry(h), NEW q \in S \cup {r} PROVE PagesIn(q) \subseteq DOMAIN Flatten(h)
    BY DEF BarsMap
  <2>1. ~Dry(m)
    BY <1>2, <1>7, DryGrows DEF Sound, Grows
  <2>2. CASE q \in S
    <3>1. PagesIn(q) \subseteq DOMAIN Flatten(m)
      BY <2>1, <2>2 DEF Serves, BarsMap
    <3> QED
      BY <1>6, <3>1
  <2>3. CASE q = r
    <3>1. ~ ((Num(r.base, 2) + k) * Span(2) < r.base + r.len)
      BY <1>4, <1>7
    <3>2. PagesIn(r) \subseteq Stretch(r.base, k)
      BY <1>1, <3>1, BarMapped
    <3> QED
      BY <1>8, <2>3, <3>2
  <2> QED
    BY <2>2, <2>3
<1> QED
  BY <1>6, <1>7, <1>9 DEF Serves, h

\* The pages of a program, as far as it was loaded.
LEMMA ServesLoads ==
    ASSUME NEW m, NEW c \in BootInfos, NEW S, Serves(m, c, S), NEW r, NEW G, Loads(m, r, G),
           DOMAIN G \subseteq Window, \A b \in DOMAIN G : ~(G[b].w /\ G[b].x)
    PROVE  Serves(r, c, S)
<1> DEFINE F == Flatten(m)
           H == Flatten(r)
<1>1. Sound(m) /\ Sound(r) /\ Grows(m, r)
  BY DEF Serves, Loads
<1>2. /\ r.nx = m.nx /\ m.blocks \subseteq r.blocks /\ m.at <= r.at
      /\ \A t \in DOMAIN r.mem : t \in DOMAIN m.mem \/ ~OwnPage(m, t)
  BY <1>1 DEF Grows
<1>3. /\ \A b : b \notin DOMAIN G => (b \in DOMAIN H <=> b \in DOMAIN F)
      /\ \A b \in DOMAIN F : b \notin DOMAIN G => H[b] = F[b]
  BY DEF Loads, Changes
<1>4. \A b \in DOMAIN G : /\ b \in DOMAIN H /\ Owned(m, r, H[b].frame)
                          /\ H[b] = [frame |-> H[b].frame, w |-> G[b].w,
                                     u |-> TRUE, x |-> G[b].x \/ ~m.nx]
  BY DEF Loads
<1>5. \A b, d \in DOMAIN G : b # d => H[b].frame # H[d].frame
  BY DEF Loads
<1>6. /\ BootPages(c) \subseteq DOMAIN F /\ BootPages(c) \cap Window = {}
      /\ \A a \in DOMAIN F : a \notin Window =>
            F[a] = IF a \in BootPages(c) THEN BootMap(c, m.nx)[a] ELSE Plain(a, m.nx)
  BY BootApart DEF Serves, KernelMap
<1>7. /\ \A a \in DOMAIN F : a \in Window => UserPage(m, a)
      /\ \A a, d \in DOMAIN F : a \in Window /\ d \in Window /\ a # d => F[a].frame # F[d].frame
  BY DEF Serves, UserMap
<1>8. KernelMap(r, c)
  <2> HIDE DEF F, H
  <2>1. BootPages(c) \subseteq DOMAIN H
    BY <1>3, <1>6
  <2>2. ASSUME NEW a \in DOMAIN H, a \notin Window
        PROVE  H[a] = IF a \in BootPages(c) THEN BootMap(c, m.nx)[a] ELSE Plain(a, m.nx)
    <3>1. a \in DOMAIN F /\ H[a] = F[a]
      BY <1>3, <2>2
    <3> QED
      BY <1>6, <2>2, <3>1, Zenon
  <2> QED
    BY <1>2, <2>1, <2>2 DEF KernelMap, H
<1>9. UserMap(r)
  <2>1. ASSUME NEW a \in DOMAIN H, a \in Window PROVE UserPage(r, a)
    <3>1. CASE a \in DOMAIN G
      <4> DEFINE p == H[a]
                 f == p.frame
                 q == [frame |-> f, w |-> G[a].w, u |-> TRUE, x |-> G[a].x \/ ~m.nx]
      <4>1. f \in Nat /\ OwnPage(r, f) /\ f \notin DOMAIN r.mem /\ p = q
        BY <1>4, <3>1 DEF Owned
      <4>2. q.w = G[a].w /\ q.u /\ (q.x <=> G[a].x \/ ~m.nx)
        OBVIOUS
      <4>3. ~(G[a].w /\ G[a].x)
        BY <3>1
      <4> HIDE DEF p, q
      <4>4. p.u /\ (m.nx => ~(p.w /\ p.x))
        BY <4>1, <4>2, <4>3, Zenon
      <4> QED
        BY <1>2, <4>1, <4>4 DEF UserPage, p
    <3>2. CASE a \notin DOMAIN G
      <4>1. a \in DOMAIN F /\ H[a] = F[a]
        BY <1>3, <2>1, <3>2
      <4>2. UserPage(m, a)
        BY <1>7, <2>1, <4>1
      <4> QED
        BY <1>2, <4>1, <4>2 DEF UserPage, OwnPage
    <3> QED
      BY <3>1, <3>2
  <2>2. ASSUME NEW a \in DOMAIN H, a \in Window, a \notin DOMAIN G
        PROVE  a \in DOMAIN F /\ H[a] = F[a] /\ OwnPage(m, H[a].frame)
    BY <1>3, <1>7, <2>2 DEF UserPage
  <2>3. \A b \in DOMAIN G : ~OwnPage(m, H[b].frame)
    BY <1>4 DEF Owned
  <2>4. ASSUME NEW a \in DOMAIN H, NEW d \in DOMAIN H, a \in Window, d \in Window, a # d
        PROVE  H[a].frame # H[d].frame
    <3> HIDE DEF F, H
    <3>1. CASE a \in DOMAIN G /\ d \in DOMAIN G
      BY <1>5, <2>4, <3>1
    <3>2. CASE a \notin DOMAIN G /\ d \notin DOMAIN G
      BY <1>7, <2>2, <2>4, <3>2
    <3>3. CASE a \in DOMAIN G /\ d \notin DOMAIN G
      BY <2>2, <2>3, <2>4, <3>3
    <3>4. CASE a \notin DOMAIN G /\ d \in DOMAIN G
      BY <2>2, <2>3, <2>4, <3>4
    <3> QED
      BY <3>1, <3>2, <3>3, <3>4
  <2> QED
    BY <2>1, <2>4 DEF UserMap
<1>10. BarsMap(r, S)
  <2> SUFFICES ASSUME ~Dry(r), NEW q \in S PROVE PagesIn(q) \subseteq DOMAIN H
    BY DEF BarsMap
  <2>1. ~Dry(m)
    BY <1>1, <1>2, DryGrows DEF Sound
  <2>2. PagesIn(q) \subseteq DOMAIN F
    BY <2>1 DEF Serves, BarsMap
  <2> QED
    BY <1>3, <1>4, <2>2
<1> QED
  BY <1>1, <1>8, <1>9, <1>10 DEF Serves

\* A bounded set of naturals has a greatest element.
LEMMA GreatestNat ==
    ASSUME NEW T \in SUBSET Nat, T # {}, NEW B \in Nat, \A k \in T : k <= B
    PROVE  \E n \in T : \A k \in T : k <= n
<1> DEFINE U == {B - k : k \in T}
<1>1. U \in SUBSET Nat /\ U # {}
  <2>1. \A k \in T : B - k \in Nat
    OBVIOUS
  <2>2. PICK k \in T : TRUE
    OBVIOUS
  <2>3. B - k \in U
    OBVIOUS
  <2> QED
    BY <2>1, <2>3
<1>2. PICK d \in U : \A e \in U : d <= e
  <2> HIDE DEF U
  <2> QED
    BY <1>1, LeastNat
<1>3. PICK n \in T : d = B - n
  BY <1>2
<1>4. ASSUME NEW k \in T PROVE k <= n
  <2>1. B - k \in U
    OBVIOUS
  <2>2. n \in Nat /\ k \in Nat /\ k <= B
    OBVIOUS
  <2> HIDE DEF U
  <2>3. d <= B - k
    BY <1>2, <2>1
  <2> QED
    BY <1>3, <2>2, <2>3
<1> QED
  BY <1>3, <1>4

\* Where a program lies.
LEMMA SpanFits ==
    ASSUME NEW p \in Programs
    PROVE  /\ SpanOf(p).lo \in Nat /\ SpanOf(p).hi \in Nat /\ SpanOf(p).lo % Page = 0
           /\ UserBase <= SpanOf(p).lo /\ SpanOf(p).hi < UserTop
<1> DEFINE L == {p[i].lo : i \in DOMAIN p}
           H == {p[i].hi : i \in DOMAIN p}
<1>1. /\ Len(p) \in Nat \ {0} /\ DOMAIN p = 1 .. Len(p)
      /\ \A i \in 1 .. Len(p) : SegOK(p[i]) /\ p[i].hi < Stack.lo
  BY ProgramFacts
<1>2. /\ UserBase \in Nat /\ UserTop \in Nat /\ Stack.lo \in Nat /\ Stack.lo < UserTop
  BY PagingAssumption
<1>3. \A i \in DOMAIN p : /\ p[i].lo \in Nat /\ p[i].hi \in Nat /\ p[i].lo % Page = 0
                          /\ UserBase <= p[i].lo /\ p[i].hi < Stack.lo
  BY <1>1 DEF SegOK
<1>4. /\ L \in SUBSET Nat /\ L # {} /\ H \in SUBSET Nat /\ H # {}
      /\ \A x \in L : UserBase <= x /\ x % Page = 0
      /\ \A x \in H : x <= Stack.lo /\ x < Stack.lo
  <2>1. 1 \in DOMAIN p
    BY <1>1
  <2>2. p[1].lo \in L /\ p[1].hi \in H
    BY <2>1
  <2>3. \A x \in H : x \in Nat /\ x < Stack.lo
    BY <1>3
  <2>4. \A x \in L : x \in Nat /\ UserBase <= x /\ x % Page = 0
    BY <1>3
  <2> HIDE DEF L, H
  <2> QED
    BY <1>2, <2>2, <2>3, <2>4
<1> HIDE DEF L, H
<1>5. Min(L) \in L
  <2>1. \E n \in L : \A k \in L : n <= k
    BY <1>4, LeastNat
  <2> QED
    BY <2>1, Zenon DEF Min
<1>6. Max(H) \in H
  <2>1. PICK n \in H : \A k \in H : k <= n
    BY <1>2, <1>4, GreatestNat
  <2>2. \A k \in H : n >= k
    BY <1>4, <2>1
  <2> QED
    BY <2>2, Zenon DEF Max
<1>7. SpanOf(p).lo = Min(L) /\ SpanOf(p).hi = Max(H)
  BY DEF SpanOf, L, H
<1> DEFINE x == Min(L)
           y == Max(H)
<1>8. x \in L /\ y \in H /\ SpanOf(p).lo = x /\ SpanOf(p).hi = y
  BY <1>5, <1>6, <1>7
<1> HIDE DEF x, y
<1>9. x \in Nat /\ y \in Nat /\ UserBase <= x /\ x % Page = 0 /\ y < Stack.lo
  BY <1>4, <1>8
<1>10. y < UserTop
  BY <1>2, <1>9
<1> QED
  BY <1>8, <1>9, <1>10

\* The first pages of a segment lie in the window.
LEMMA FirstInWindow ==
    ASSUME NEW s, SegOK(s), NEW n \in Nat, n <= SegSize(s)
    PROVE  First(s, n) \subseteq Window
<1> SUFFICES ASSUME NEW a \in First(s, n) PROVE a \in Window
  OBVIOUS
<1>1. /\ s.lo \in Nat /\ s.hi \in Nat /\ UserBase <= s.lo /\ s.lo < s.hi /\ s.hi < UserTop
      /\ s.lo % 4096 = 0 /\ s.hi % 4096 = 0
  BY DEF SegOK, Page
<1>2. SegSize(s) = (s.hi - s.lo) \div 4096
  BY DEF SegSize, Page
<1>3. n * 4096 <= s.hi - s.lo
  BY <1>1, <1>2
<1>4. a \in AllPages /\ a \in Nat /\ s.lo <= a /\ a < s.lo + n * 4096
  BY PageNumbers DEF First, Page
<1>5. UserBase \in Nat /\ UserTop \in Nat
  BY WindowFacts
<1>6. UserBase <= a /\ a < UserTop
  BY <1>1, <1>3, <1>4, <1>5
<1> QED
  BY <1>4, <1>6, WindowFacts

\* elf_run's loading: the kernel's map and other pages stay as they are.
LEMMA ServesLoaded ==
    ASSUME NEW m, NEW c \in BootInfos, NEW S, Serves(m, c, S), m.ret # 0, NEW p \in Programs
    PROVE  Serves(Loaded(m, p), c, S)
<1> DEFINE r == Loaded(m, p)
           segs == Segs(p)
           n == Len(p) + 1
<1>1. SegmentsDone(m, r, segs, n)
  BY LoadedStep DEF Serves
<1>2. /\ n \in Nat /\ \A i \in 1 .. n : SegOK(segs[i])
  <2>1. /\ Len(p) \in Nat /\ \A i \in 1 .. Len(p) : SegOK(p[i]) /\ Segs(p)[i] = p[i]
        /\ SegOK(StackSeg) /\ Segs(p)[Len(p) + 1] = StackSeg
    BY ProgramFacts
  <2>2. ASSUME NEW i \in 1 .. n PROVE SegOK(segs[i])
    <3>1. i \in 1 .. Len(p) \/ i = Len(p) + 1
      BY <2>1
    <3> QED
      BY <2>1, <3>1
  <2> QED
    BY <2>1, <2>2
<1> HIDE DEF r, segs, n
<1>3. PICK k \in 0 .. n, d \in Nat : /\ Progress(m, r, segs, k, d)
                                     /\ k > 0 => d <= SegSize(segs[k])
  BY <1>1 DEF SegmentsDone
<1>4. PICK G : Loads(m, r, G) /\ Grant(G, segs, k, d)
  BY <1>3 DEF Progress
<1>5. \A i \in 1 .. k : ~(segs[i].w /\ segs[i].x)
  BY <1>3 DEF Progress
<1>6. ASSUME NEW b \in DOMAIN G PROVE b \in Window /\ ~(G[b].w /\ G[b].x)
  <2>1. PICK i \in 1 .. k : /\ b \in Reached(segs, k, d, i)
                            /\ G[b] = [w |-> segs[i].w, x |-> segs[i].x]
    BY <1>4 DEF Grant
  <2> DEFINE q == [w |-> segs[i].w, x |-> segs[i].x]
  <2>2. q.w = segs[i].w /\ q.x = segs[i].x /\ G[b] = q
    BY <2>1
  <2> HIDE DEF q
  <2>3. ~(G[b].w /\ G[b].x)
    BY <1>5, <2>2, Zenon
  <2>4. i \in 1 .. n /\ k \in Nat /\ i \in Nat /\ (i < k \/ (i = k /\ k > 0))
    BY <1>2, <1>3
  <2> DEFINE e == IF i < k THEN SegSize(segs[i]) ELSE d
  <2>5. SegOK(segs[i])
    BY <1>2, <2>4
  <2>6. SegSize(segs[i]) \in Nat
    BY <2>5 DEF SegOK, SegSize, Page
  <2>7. e \in Nat /\ e <= SegSize(segs[i])
    BY <1>3, <2>4, <2>6
  <2>8. b \in First(segs[i], e)
    BY <2>1 DEF Reached
  <2> HIDE DEF e
  <2>9. b \in Window
    BY <2>5, <2>7, <2>8, FirstInWindow
  <2> QED
    BY <2>3, <2>9
<1>7. Serves(r, c, S)
  BY <1>4, <1>6, ServesLoads
<1> QED
  BY <1>7 DEF r

\* The end of a program.
LEMMA ServesUnmaps ==
    ASSUME NEW m, NEW c \in BootInfos, NEW S \in SUBSET Bars, Serves(m, c, S), NEW r, NEW P, Unmaps(m, r, P),
           P \subseteq Window
    PROVE  Serves(r, c, S)
<1> DEFINE F == Flatten(m)
           H == Flatten(r)
<1>1. Sound(m) /\ Sound(r) /\ Grows(m, r) /\ r.at = m.at /\ r.blocks = m.blocks
      /\ DOMAIN r.mem = DOMAIN m.mem /\ r.nx = m.nx
  BY DEF Serves, Unmaps, Grows
<1>2. /\ \A b : b \notin P => (b \in DOMAIN H <=> b \in DOMAIN F)
      /\ \A b \in DOMAIN F : b \notin P => H[b] = F[b]
      /\ \A b \in P : b \notin DOMAIN H
  BY DEF Unmaps, Changes
<1>3. \A b \in DOMAIN H : b \in DOMAIN F /\ H[b] = F[b]
  BY <1>2
<1>4. KernelMap(r, c)
  <2>1. /\ BootPages(c) \subseteq DOMAIN F /\ BootPages(c) \cap Window = {}
        /\ \A a \in DOMAIN F : a \notin Window =>
              F[a] = IF a \in BootPages(c) THEN BootMap(c, m.nx)[a] ELSE Plain(a, m.nx)
    BY BootApart DEF Serves, KernelMap
  <2> HIDE DEF F, H
  <2>2. BootPages(c) \subseteq DOMAIN H
    BY <1>2, <2>1
  <2>3. ASSUME NEW a \in DOMAIN H, a \notin Window
        PROVE  H[a] = IF a \in BootPages(c) THEN BootMap(c, m.nx)[a] ELSE Plain(a, m.nx)
    <3>1. a \in DOMAIN F /\ H[a] = F[a]
      BY <1>3
    <3> QED
      BY <2>1, <2>3, <3>1, Zenon
  <2> QED
    BY <1>1, <2>2, <2>3 DEF KernelMap, H
<1>5. UserMap(r)
  <2>1. /\ \A a \in DOMAIN F : a \in Window => UserPage(m, a)
        /\ \A a, d \in DOMAIN F : a \in Window /\ d \in Window /\ a # d => F[a].frame # F[d].frame
    BY DEF Serves, UserMap
  <2>2. ASSUME NEW a \in DOMAIN H, a \in Window PROVE UserPage(r, a)
    <3>1. a \in DOMAIN F /\ H[a] = F[a] /\ UserPage(m, a)
      BY <1>3, <2>1, <2>2
    <3> QED
      BY <1>1, <3>1 DEF UserPage, OwnPage
  <2>3. ASSUME NEW a \in DOMAIN H, NEW d \in DOMAIN H, a \in Window, d \in Window, a # d
        PROVE  H[a].frame # H[d].frame
    <3> HIDE DEF F, H
    <3> QED
      BY <1>3, <2>1, <2>3
  <2> QED
    BY <2>2, <2>3 DEF UserMap
<1>6. BarsMap(r, S)
  <2> SUFFICES ASSUME ~Dry(r), NEW q \in S, NEW a \in PagesIn(q) PROVE a \in DOMAIN H
    BY DEF BarsMap
  <2>1. ~Dry(m)
    BY <1>1 DEF Dry
  <2>2. a \in DOMAIN F
    BY <2>1 DEF Serves, BarsMap
  <2>3. InRam(q) /\ q.len # 0
    BY PlacesAssumption DEF InRam, Ranges
  <2>4. a \notin Window
    BY <2>3, RamPages
  <2> QED
    BY <1>2, <2>2, <2>4
<1> QED
  BY <1>1, <1>4, <1>5, <1>6 DEF Serves

\* ProgramEnds.
LEMMA ServesEnded ==
    ASSUME NEW m, NEW c \in BootInfos, NEW S \in SUBSET Bars, Serves(m, c, S), NEW p \in Programs,
           NEW r, r = Unmap(Unmap(m, SpanOf(p).lo, SpanOf(p).hi), Stack.lo, Stack.hi)
    PROVE  /\ Serves(r, c, S)
           /\ Unmaps(m, r, Between(SpanOf(p).lo, SpanOf(p).hi) \cup Between(Stack.lo, Stack.hi))
<1> DEFINE lo == SpanOf(p).lo
           hi == SpanOf(p).hi
<1>1. lo \in Nat /\ hi \in Nat /\ lo % Page = 0 /\ UserBase <= lo /\ hi < UserTop
  BY SpanFits
<1>2. WindowUser(m) /\ Sound(m)
  BY DEF Serves, UserMap, UserPage, WindowUser
<1> HIDE DEF lo, hi
<1>3. Unmaps(m, r, Between(lo, hi) \cup Between(Stack.lo, Stack.hi))
  <2>1. Unmaps(m, Unmap(Unmap(m, lo, hi), Stack.lo, Stack.hi),
               Between(lo, hi) \cup Between(Stack.lo, Stack.hi))
    BY <1>1, <1>2, UnmapTwice
  <2> QED
    BY <2>1 DEF lo, hi
<1>4. Between(lo, hi) \subseteq Window /\ Between(Stack.lo, Stack.hi) \subseteq Window
  <2>1. UserBase <= Stack.lo /\ Stack.hi < UserTop /\ Stack.lo \in Nat /\ Stack.hi \in Nat
        /\ UserBase \in Nat /\ UserTop \in Nat
    BY PagingAssumption
  <2>2. ASSUME NEW x \in Nat, NEW y \in Nat, UserBase <= x, y < UserTop, NEW a \in Between(x, y)
        PROVE  a \in Window
    <3>0. a \in AllPages /\ x <= a /\ a < y
      BY DEF Between
    <3>1. a \in AllPages /\ a \in Nat /\ x <= a /\ a < y
      BY <3>0, PageNumbers
    <3>2. UserBase <= a /\ a < UserTop
      BY <2>1, <2>2, <3>1
    <3> QED
      BY <3>1, <3>2, WindowFacts
  <2> QED
    BY <1>1, <2>1, <2>2
<1>5. Serves(r, c, S)
  BY <1>3, <1>4, ServesUnmaps
<1> QED
  BY <1>3, <1>5 DEF lo, hi

-----------------------------------------------------------------------------
(* The invariant of the kernel's tables.                                   *)

\* What Now is made of.
LEMMA NowFields ==
    /\ Now.at = heap_at /\ Now.blocks = blocks /\ Now.mem = mem
    /\ Now.pml4 = pml4 /\ Now.nx = nx_ok /\ Now.ret = 1
  BY DEF Now

\* The state a call ends in is the one the next call begins in.
LEMMA BecomeNow ==
    ASSUME NEW m \in States, NEW l, Become(m, l)
    PROVE  /\ Now' = Fresh(m) /\ live' = l
           /\ flat' = IF l THEN Flatten(m) ELSE <<>>
           /\ pml4' = m.pml4
<1>1. /\ heap_at' = m.at /\ blocks' = m.blocks /\ mem' = m.mem /\ pml4' = m.pml4 /\ nx_ok' = m.nx
      /\ live' = l /\ flat' = IF l THEN Flatten(m) ELSE <<>>
  BY DEF Become
<1>2. Now' = [at |-> m.at, blocks |-> m.blocks, mem |-> m.mem, pml4 |-> m.pml4,
              nx |-> m.nx, ret |-> 1]
  BY <1>1 DEF Now
<1>3. Fresh(m) = [at |-> m.at, blocks |-> m.blocks, mem |-> m.mem, pml4 |-> m.pml4,
                  nx |-> m.nx, ret |-> 1]
  <2> DEFINE R == Mems
  <2>1. m \in [at : Nat, blocks : SUBSET BlockT, mem : R, pml4 : Nat, nx : BOOLEAN, ret : Nat]
    BY DEF States
  <2> HIDE DEF R
  <2> QED
    BY <2>1 DEF Fresh
<1> QED
  BY <1>1, <1>2, <1>3

\* What a call leaves, seen by the next one.
LEMMA FreshAll ==
    ASSUME NEW m \in States, HeapOK(m)
    PROVE  /\ Fresh(m) \in States /\ HeapOK(Fresh(m)) /\ Flatten(Fresh(m)) = Flatten(m)
           /\ Fresh(m).nx = m.nx /\ Fresh(m).pml4 = m.pml4 /\ Fresh(m).ret = 1
           /\ Sound(m) => Sound(Fresh(m))
           /\ Dry(m) => Dry(Fresh(m))
           /\ \A c, S : Serves(m, c, S) => Serves(Fresh(m), c, S)
<1> DEFINE b == Fresh(m)
<1>1. /\ b \in States /\ b.ret = 1 /\ b.at = m.at /\ b.blocks = m.blocks /\ b.mem = m.mem
      /\ b.pml4 = m.pml4 /\ b.nx = m.nx
  BY FreshStep0
<1>2. Sound(m) => Sound(b) /\ Grows(m, b)
  BY FreshSound
<1> HIDE DEF b
<1>3. HeapOK(b)
  BY <1>1 DEF HeapOK
<1>4. Flatten(b) = Flatten(m)
  BY <1>1, SameTables
<1>5. Dry(m) => Dry(b)
  BY <1>1 DEF Dry
<1>6. ASSUME NEW c, NEW S, Serves(m, c, S) PROVE Serves(b, c, S)
  BY <1>2, <1>4, <1>5, <1>6, ServesKept DEF Serves
<1> QED
  BY <1>1, <1>2, <1>3, <1>4, <1>5, <1>6 DEF b

\* A call that leaves the memory, and the tables as they are needed.
LEMMA BecomeInv ==
    ASSUME NEW m \in States, HeapOK(m), NEW l \in BOOLEAN, Become(m, l),
           bi' \in BootInfos, bars' \in SUBSET Bars,
           m.pml4 # 0 => Sound(m),
           ~l => Dry(m),
           l => m.pml4 # 0 /\ Serves(m, bi', bars')
    PROVE  MemoryInv' /\ TablesInv' /\ live' = l
<1>1. /\ Now' = Fresh(m) /\ live' = l /\ pml4' = m.pml4
      /\ flat' = IF l THEN Flatten(m) ELSE <<>>
  BY BecomeNow
<1>2. /\ Fresh(m) \in States /\ HeapOK(Fresh(m)) /\ Flatten(Fresh(m)) = Flatten(m)
      /\ Sound(m) => Sound(Fresh(m))
      /\ Dry(m) => Dry(Fresh(m))
      /\ \A c, S : Serves(m, c, S) => Serves(Fresh(m), c, S)
  BY FreshAll
<1>3. MemoryInv'
  BY <1>1, <1>2 DEF MemoryInv
<1>4. TablesInv'
  <2>1. (pml4 # 0)' => Sound(Now')
    BY <1>1, <1>2
  <2>2. (~live /\ stage # "boot")' => Dry(Now')
    BY <1>1, <1>2
  <2>3. live' => pml4' # 0 /\ Serves(Now', bi', bars')
    BY <1>1, <1>2
  <2>4. flat' = IF live' THEN Flatten(Now') ELSE <<>>
    BY <1>1, <1>2
  <2> QED
    BY <2>1, <2>2, <2>3, <2>4 DEF TablesInv
<1> QED
  BY <1>1, <1>3, <1>4

\* paging_init sets out without tables.
Reset(m, nx) == [m EXCEPT !.nx = nx, !.pml4 = 0]

\* What it sets out with.
LEMMA StatesReset ==
    ASSUME NEW m \in States, NEW nx \in BOOLEAN
    PROVE  LET k == Reset(m, nx)
           IN k \in States /\ k.at = m.at /\ k.blocks = m.blocks /\ k.pml4 = 0 /\ k.nx = nx
<1> DEFINE R == Mems
           k == [m EXCEPT !.nx = nx, !.pml4 = 0]
<1>1. m \in [at : Nat, blocks : SUBSET BlockT, mem : R, pml4 : Nat, nx : BOOLEAN, ret : Nat]
  BY DEF States
<1> HIDE DEF R
<1>2. /\ k \in [at : Nat, blocks : SUBSET BlockT, mem : R, pml4 : Nat, nx : BOOLEAN, ret : Nat]
      /\ k.at = m.at /\ k.blocks = m.blocks /\ k.pml4 = 0 /\ k.nx = nx
  BY <1>1
<1> HIDE DEF k
<1>3. k \in States /\ k.at = m.at /\ k.blocks = m.blocks /\ k.pml4 = 0 /\ k.nx = nx
  BY <1>2 DEF States, R
<1> QED
  BY <1>3, Zenon DEF Reset, k

\* paging_init.
LEMMA InitPagingStep ==
    ASSUME PInv, paging_init
    PROVE  PInv'
<1>1. PICK nx \in BOOLEAN :
          LET m == Built([Now EXCEPT !.nx = nx, !.pml4 = 0], bi) IN Become(m, m.ret # 0)
  BY Zenon DEF paging_init
<1> DEFINE k == Reset(Now, nx)
           m == Built(k, bi)
<1>2. stage = "boot" /\ stage' = "usb" /\ bi' = bi /\ bars' = bars
  BY DEF paging_init
<1>3. /\ Now \in States /\ HeapOK(Now) /\ bi \in BootInfos /\ bars = {}
  BY <1>2 DEF PInv, MemoryInv, StageInv
<1>4. k \in States /\ k.at = Now.at /\ k.blocks = Now.blocks /\ k.pml4 = 0 /\ k.nx = nx
  BY <1>3, StatesReset
<1> HIDE DEF k
<1>5. HeapOK(k)
  BY <1>3, <1>4 DEF HeapOK
<1>6. Builds(k, m, BootMap(bi, k.nx)) /\ (m.ret # 0 => Serves(m, bi, {}) /\ m.pml4 # 0)
  BY <1>3, <1>4, <1>5, BuiltStep, ServesBuilt
<1>7. Become(m, m.ret # 0)
  BY <1>1, Zenon DEF k, Reset
<1> HIDE DEF m
<1> DEFINE l == m.ret # 0
<1>8. m \in States /\ HeapOK(m) /\ (m.pml4 # 0 => Sound(m)) /\ (m.ret = 0 => Dry(m))
  BY <1>4, <1>6 DEF Builds, Takes
<1>9. /\ l \in BOOLEAN /\ Become(m, l) /\ (~l => Dry(m))
      /\ l => m.pml4 # 0 /\ Serves(m, bi', bars')
  BY <1>2, <1>3, <1>6, <1>7, <1>8
<1> HIDE DEF l
<1>10. bi' \in BootInfos /\ bars' \in SUBSET Bars
  BY <1>2, <1>3
<1>11. MemoryInv' /\ TablesInv' /\ live' = l
  BY <1>8, <1>9, <1>10, BecomeInv
<1>12. StageInv'
  BY <1>2, <1>9, <1>11 DEF StageInv
<1> QED
  BY <1>11, <1>12 DEF PInv

\* vm_ensure_identity.
LEMMA EnsureInv ==
    ASSUME PInv, NEW r \in Bars, vm_ensure_identity(r)
    PROVE  PInv'
<1>1. /\ stage = "usb" /\ stage' = stage /\ bi' = bi /\ bars' = bars \cup {r} /\ span' = span
  BY DEF vm_ensure_identity
<1>2. /\ Now \in States /\ HeapOK(Now) /\ bi \in BootInfos /\ bars \in SUBSET Bars
      /\ bi' \in BootInfos /\ bars' \in SUBSET Bars
  BY <1>1 DEF PInv, MemoryInv
<1>3. live \in BOOLEAN
  BY DEF PInv, StageInv
<1>4. InRam(r) /\ r.len # 0
  BY PlacesAssumption DEF InRam, Ranges
<1>5. CASE pml4 = 0
  <2>1. UNCHANGED <<memory, tlb>>
    BY <1>5, Zenon DEF vm_ensure_identity
  <2>2. Now' = Now /\ live' = live /\ flat' = flat /\ pml4' = pml4
    BY <2>1 DEF memory, vars, Now
  <2>3. ~live /\ Dry(Now)
    BY <1>1, <1>3, <1>5 DEF PInv, TablesInv
  <2>4. MemoryInv'
    BY <1>2, <2>2 DEF MemoryInv
  <2>5. TablesInv'
    BY <1>1, <1>5, <2>2, <2>3 DEF PInv, TablesInv
  <2>6. StageInv'
    BY <1>1, <1>3, <2>2, <2>3 DEF StageInv
  <2> QED
    BY <2>4, <2>5, <2>6 DEF PInv
<1>6. CASE pml4 # 0
  <2> DEFINE m == Ensure(Now, r)
  <2>1. Become(m, live)
    BY <1>4, <1>6, Zenon DEF vm_ensure_identity
  <2>2. Sound(Now)
    BY <1>6 DEF PInv, TablesInv
  <2>3. PICK k \in Nat : Ensures(Now, m, r.base, r.base + r.len, k)
    BY <1>4, <2>2, EnsureStep
  <2>4. live => Serves(m, bi, bars \cup {r})
    BY ServesEnsure DEF PInv, TablesInv
  <2> HIDE DEF m
  <2>5. Sound(m) /\ Grows(Now, m)
    BY <2>3 DEF Ensures, Widens
  <2>6. m \in States /\ HeapOK(m) /\ m.pml4 = pml4
    BY <2>5, NowFields DEF Sound, Grows
  <2>7. ~live => Dry(m)
    <3>1. ~live => Dry(Now)
      BY <1>1 DEF PInv, TablesInv
    <3> QED
      BY <1>2, <2>5, <2>6, <3>1, DryGrows DEF Grows
  <2>8. live => m.pml4 # 0 /\ Serves(m, bi', bars')
    BY <1>1, <1>6, <2>4, <2>6
  <2>9. MemoryInv' /\ TablesInv' /\ live' = live
    BY <1>2, <1>3, <2>1, <2>5, <2>6, <2>7, <2>8, BecomeInv
  <2>10. StageInv'
    BY <1>1, <1>3, <2>9 DEF StageInv
  <2> QED
    BY <2>9, <2>10 DEF PInv
<1> QED
  BY <1>5, <1>6

\* elf_run.
LEMMA ElfInv ==
    ASSUME PInv, NEW p \in Programs, elf_run(p)
    PROVE  PInv'
<1> DEFINE m == Loaded(Now, p)
<1>1. /\ stage = "shell" /\ bi' = bi /\ bars' = bars
      /\ Become(m, live)
      /\ stage' = IF m.ret = 0 THEN "shell" ELSE "running"
      /\ span' = IF m.ret = 0 THEN span ELSE SpanOf(p)
  BY DEF elf_run
<1>2. /\ Now \in States /\ HeapOK(Now) /\ bi \in BootInfos /\ bars \in SUBSET Bars
      /\ bi' \in BootInfos /\ bars' \in SUBSET Bars
  BY <1>1 DEF PInv, MemoryInv
<1>3. live \in BOOLEAN /\ Now.ret # 0
  BY NowFields DEF PInv, StageInv
<1>4. CASE live
  <2>1. Serves(Now, bi, bars) /\ pml4 # 0
    BY <1>4 DEF PInv, TablesInv
  <2>2. Serves(m, bi, bars)
    BY <1>2, <1>3, <2>1, ServesLoaded
  <2>3. m.pml4 = pml4
    <3>1. SegmentsDone(Now, m, Segs(p), Len(p) + 1)
      BY <1>3, <2>1, LoadedStep DEF Serves
    <3> HIDE DEF m
    <3>2. Grows(Now, m)
      BY <3>1 DEF SegmentsDone, Progress, Loads
    <3> QED
      BY <3>2, NowFields DEF Grows
  <2> HIDE DEF m
  <2>4. m \in States /\ HeapOK(m) /\ Sound(m)
    BY <2>2 DEF Serves, Sound
  <2>5. live => m.pml4 # 0 /\ Serves(m, bi', bars')
    BY <1>1, <2>1, <2>2, <2>3
  <2>6. MemoryInv' /\ TablesInv' /\ live' = live
    BY <1>1, <1>2, <1>3, <1>4, <2>4, <2>5, BecomeInv
  <2>7. StageInv'
    BY <1>1, <1>4, <2>6 DEF StageInv
  <2> QED
    BY <2>6, <2>7 DEF PInv
<1>5. CASE ~live
  <2>1. Dry(Now)
    BY <1>1, <1>5 DEF PInv, TablesInv
  <2>2. Stays(Now, m)
    BY <1>2, <1>3, <2>1, LoadedDry
  <2> HIDE DEF m
  <2>3. /\ m \in States /\ HeapOK(m) /\ Dry(m) /\ Grows(Now, m) /\ m.mem = Now.mem /\ m.ret = 0
        /\ m.pml4 = pml4
    BY <2>2, NowFields DEF Stays, Grows
  <2>4. m.pml4 # 0 => Sound(m)
    <3>1. pml4 # 0 => Sound(Now)
      BY DEF PInv, TablesInv
    <3> QED
      BY <2>3, <3>1, SoundSame
  <2>5. MemoryInv' /\ TablesInv' /\ live' = live
    BY <1>1, <1>2, <1>3, <1>5, <2>3, <2>4, BecomeInv
  <2>6. StageInv'
    BY <1>1, <1>3, <2>3, <2>5 DEF StageInv
  <2> QED
    BY <2>5, <2>6 DEF PInv
<1> QED
  BY <1>4, <1>5

\* ProgramEnds.
LEMMA EndsInv ==
    ASSUME PInv, ProgramEnds
    PROVE  PInv'
<1> DEFINE m == Unmap(Unmap(Now, span.lo, span.hi), Stack.lo, Stack.hi)
<1>1. /\ stage = "running" /\ stage' = "shell" /\ bi' = bi /\ bars' = bars
      /\ Become(m, live)
  BY DEF ProgramEnds
<1>2. /\ Now \in States /\ HeapOK(Now) /\ bi \in BootInfos /\ bars \in SUBSET Bars
      /\ bi' \in BootInfos /\ bars' \in SUBSET Bars
  BY <1>1 DEF PInv, MemoryInv
<1>3. PICK p \in Programs : span = SpanOf(p)
  BY <1>1 DEF PInv, StageInv
<1>4. live /\ live \in BOOLEAN
  BY <1>1 DEF PInv, StageInv
<1>5. Serves(Now, bi, bars) /\ pml4 # 0
  BY <1>4 DEF PInv, TablesInv
<1>6. /\ Serves(m, bi, bars)
      /\ Unmaps(Now, m, Between(SpanOf(p).lo, SpanOf(p).hi) \cup Between(Stack.lo, Stack.hi))
  BY <1>2, <1>3, <1>5, ServesEnded
<1> HIDE DEF m
<1>7. m \in States /\ HeapOK(m) /\ Sound(m) /\ m.pml4 = pml4
  BY <1>6, NowFields DEF Serves, Sound, Unmaps, Grows
<1>8. MemoryInv' /\ TablesInv' /\ live' = live
  BY <1>1, <1>2, <1>4, <1>5, <1>6, <1>7, BecomeInv
<1>9. StageInv'
  BY <1>1, <1>4, <1>8 DEF StageInv
<1> QED
  BY <1>8, <1>9 DEF PInv

\* The heap between two calls is what KHeap says.
LEMMA HeapIs ==
    ASSUME MemoryInv
    PROVE  IInv
<1>1. /\ heap_at \in Nat /\ blocks \subseteq [lo : Nat, hi : Nat, align : Nat]
  <2> DEFINE w == Now
             R == Mems
             B == SUBSET BlockT
  <2>1. w \in [at : Nat, blocks : B, mem : R, pml4 : Nat, nx : BOOLEAN, ret : Nat]
    BY DEF MemoryInv, States
  <2> HIDE DEF w, R, B
  <2>2. w.at \in Nat /\ w.blocks \in B
    BY <2>1
  <2>3. heap_at \in Nat /\ blocks \in B
    BY <2>2, NowFields DEF w
  <2> QED
    BY <2>3 DEF B, BlockT
<1>2. /\ HeapBase <= heap_at /\ heap_at <= HeapEnd
      /\ \A b \in blocks : /\ HeapBase <= b.lo /\ b.lo < b.hi /\ b.hi <= heap_at
                           /\ b.lo % b.align = 0
      /\ \A b, c \in blocks : b # c => b.hi <= c.lo \/ c.hi <= b.lo
  BY NowFields DEF MemoryInv, HeapOK
<1>3. AddrSpace \in Nat /\ HeapEnd + 4096 <= AddrSpace /\ HeapEnd \in Nat
  BY HeapAssumption DEF HeapEnd
<1>4. heap_at \in 0 .. (AddrSpace - 1)
  BY <1>1, <1>2, <1>3
<1> QED
  BY <1>1, <1>2, <1>4 DEF IInv, UsedWithinHeap, TypeOK, BlocksInHeap, BlocksDisjoint, BlocksAligned

\* What a request of con_init or of the USB driver does to the memory.
LEMMA AllocMemory ==
    ASSUME MemoryInv, [Next]_vars, heap_at <= heap_at', blocks \subseteq blocks',
           UNCHANGED <<mem, pml4, nx_ok, bi, bars>>
    PROVE  MemoryInv' /\ Grows(Now, Now') /\ Now'.mem = Now.mem /\ heap_at <= heap_at'
<1>1. IInv' /\ NoPageLost /\ IInv
  BY HeapIs, StepInv
<1>2. /\ Now \in States /\ HeapOK(Now) /\ bi \in BootInfos /\ bars \in SUBSET Bars
  BY DEF MemoryInv
<1> DEFINE k == Now
           n == Now'
<1>3. /\ k.at = heap_at /\ k.blocks = blocks /\ k.mem = mem
      /\ k.pml4 = pml4 /\ k.nx = nx_ok /\ k.ret = 1
  BY NowFields
<1>4. n = [at |-> heap_at', blocks |-> blocks', mem |-> mem, pml4 |-> pml4, nx |-> nx_ok, ret |-> 1]
  BY DEF Now
<1>5. n.at = heap_at' /\ n.blocks = blocks' /\ n.mem = mem /\ n.pml4 = pml4 /\ n.nx = nx_ok
  <2> HIDE DEF n
  <2> QED
    BY <1>4
<1>6. /\ heap_at' \in Nat /\ blocks' \in SUBSET BlockT /\ heap_at' <= HeapEnd /\ heap_at' >= HeapBase
      /\ heap_at \in Nat /\ heap_at <= HeapEnd
  BY <1>1 DEF IInv, TypeOK, UsedWithinHeap, BlockT
<1>7. n \in States
  <2> DEFINE R == Mems
             B == SUBSET BlockT
  <2>1. k \in [at : Nat, blocks : B, mem : R, pml4 : Nat, nx : BOOLEAN, ret : Nat]
    BY <1>2 DEF States
  <2>2. blocks' \in B
    BY <1>6
  <2> HIDE DEF k, n, R, B
  <2>3. mem \in R /\ pml4 \in Nat /\ nx_ok \in BOOLEAN
    BY <1>3, <2>1
  <2>4. n \in [at : Nat, blocks : B, mem : R, pml4 : Nat, nx : BOOLEAN, ret : Nat]
    BY <1>4, <1>6, <2>2, <2>3
  <2> QED
    BY <2>4 DEF States, R, B
<1> HIDE DEF k, n
<1>8. HeapOK(n)
  <2>1. /\ HeapBase <= heap_at' /\ heap_at' <= HeapEnd
        /\ \A b \in blocks' : /\ HeapBase <= b.lo /\ b.lo < b.hi /\ b.hi <= heap_at'
                              /\ b.lo % b.align = 0
        /\ \A b, c \in blocks' : b # c => b.hi <= c.lo \/ c.hi <= b.lo
    BY <1>1 DEF IInv, UsedWithinHeap, BlocksInHeap, BlocksDisjoint, BlocksAligned
  <2> QED
    BY <1>5, <2>1 DEF HeapOK
<1>9. blocks' = blocks => AlignUp(heap_at', 4096) = AlignUp(heap_at, 4096)
  <2> SUFFICES ASSUME blocks' = blocks PROVE AlignUp(heap_at', 4096) = AlignUp(heap_at, 4096)
    OBVIOUS
  <2> DEFINE x == AlignUp(heap_at, 4096)
             y == AlignUp(heap_at', 4096)
  <2>1. /\ x \in Nat /\ y \in Nat /\ x % 4096 = 0 /\ y % 4096 = 0
    BY <1>6, HeapRounding
  <2>2. (HeapEnd - y) \div 4096 = (HeapEnd - x) \div 4096
    BY <1>1 DEF NoPageLost, FreePages, HeapEnd
  <2> HIDE DEF x, y
  <2>3. HeapEnd \in Nat /\ HeapEnd % 4096 = 0
    BY HeapAssumption DEF HeapEnd
  <2>4. x = y
    BY <2>1, <2>2, <2>3
  <2> QED
    BY <2>4 DEF x, y
<1>10. Grows(k, n)
  BY <1>3, <1>5, <1>9 DEF Grows, Page
<1>11. MemoryInv'
  BY <1>2, <1>7, <1>8 DEF MemoryInv, n
<1> QED
  BY <1>3, <1>5, <1>10, <1>11 DEF k, n

\* A request keeps the tables as they are.
LEMMA AllocInv ==
    ASSUME PInv, [Next]_vars, heap_at <= heap_at', blocks \subseteq blocks',
           UNCHANGED <<mem, pml4, nx_ok, live, flat, bi, stage, span, bars>>
    PROVE  PInv'
<1>1. MemoryInv' /\ Grows(Now, Now') /\ Now'.mem = Now.mem /\ heap_at <= heap_at'
  BY AllocMemory DEF PInv
<1> DEFINE k == Now
           n == Now'
<1>2. k \in States /\ HeapOK(k) /\ n \in States /\ HeapOK(n) /\ Grows(k, n) /\ n.mem = k.mem
      /\ n.pml4 = k.pml4
  BY <1>1 DEF PInv, MemoryInv, Grows
<1>3. /\ pml4 # 0 => Sound(k)
      /\ ~live /\ stage # "boot" => Dry(k)
      /\ live => pml4 # 0 /\ Serves(k, bi, bars)
      /\ flat = IF live THEN Flatten(k) ELSE <<>>
  BY DEF PInv, TablesInv
<1> HIDE DEF k, n
<1>4. Dry(k) => Dry(n)
  BY <1>2, DryGrows DEF Grows
<1>5. Sound(k) => Sound(n) /\ Flatten(n) = Flatten(k)
  BY <1>2, SoundSame
<1>6. Flatten(n) = Flatten(k)
  BY <1>2, SameTables
<1>7. Serves(k, bi, bars) => Serves(n, bi, bars)
  BY <1>2, <1>4, <1>5, ServesKept DEF Serves
<1>8. TablesInv'
  BY <1>3, <1>4, <1>5, <1>6, <1>7 DEF TablesInv, n
<1>9. StageInv'
  BY DEF PInv, StageInv
<1> QED
  BY <1>1, <1>8, <1>9 DEF PInv

\* The pointer and the blocks grow.
LEMMA BumpGrows ==
    ASSUME MemoryInv, NEW n \in Nat, NEW b, Bump(n, 16, b)
    PROVE  heap_at <= heap_at' /\ blocks \subseteq blocks'
<1>1. heap_at \in Nat /\ heap_at <= HeapEnd /\ HeapEnd \in Nat
  BY HeapIs, HeapAssumption DEF IInv, UsedWithinHeap, TypeOK, HeapEnd
<1>2. AlignUp(heap_at, 16) \in Nat /\ heap_at <= AlignUp(heap_at, 16)
  BY <1>1, HeapRounding
<1> QED
  BY <1>1, <1>2 DEF Bump

\* The invariant holds throughout.
LEMMA PagingStep ==
    ASSUME PInv, [PagingNext]_pagingVars
    PROVE  PInv'
<1>1. ASSUME NEW n \in Sizes, ConsoleAlloc(n) PROVE PInv'
  <2>1. Kalloc(n) /\ UNCHANGED <<mem, pml4, nx_ok, live, flat, bi, stage, span, bars>>
    BY <1>1 DEF ConsoleAlloc
  <2>2. [Next]_vars
    BY <1>1, <2>1 DEF Next
  <2>3. n \in Nat
    BY RequestAssumption, HeapAssumption
  <2>4. heap_at <= heap_at' /\ blocks \subseteq blocks'
    BY <2>1, <2>3, BumpGrows DEF Kalloc, PInv
  <2> QED
    BY <2>1, <2>2, <2>4, AllocInv
<1>2. ASSUME NEW n \in DmaSizes, NEW a \in DmaAligns, DriverAlloc(n, a) PROVE PInv'
  <2>1. DmaAlloc(n, a) /\ UNCHANGED <<mem, pml4, nx_ok, live, flat, bi, stage, span, bars>>
    BY <1>2 DEF DriverAlloc
  <2>2. [Next]_vars
    BY <1>2, <2>1 DEF Next
  <2>3. (n + a) % AddrSpace \in Nat
    <3>1. n \in Nat /\ a \in Nat /\ AddrSpace \in Nat /\ n + a < AddrSpace
      BY RequestAssumption, HeapAssumption
    <3> QED
      BY <3>1
  <2>4. heap_at <= heap_at' /\ blocks \subseteq blocks'
    BY <2>1, <2>3, BumpGrows DEF DmaAlloc, PInv
  <2> QED
    BY <2>1, <2>2, <2>4, AllocInv
<1>3. CASE \/ DriversDone \/ UNCHANGED pagingVars \/ \E va \in Window : Touch(va)
  <2>1. UNCHANGED <<memory, bi, span, bars>>
    BY <1>3 DEF DriversDone, Touch, pagingVars, place
  <2>2. stage' = stage \/ (stage = "usb" /\ stage' = "shell")
    BY <1>3 DEF DriversDone, Touch, pagingVars, place
  <2>3. /\ Now' = Now /\ live' = live /\ flat' = flat /\ pml4' = pml4 /\ bi' = bi /\ bars' = bars
        /\ span' = span
    BY <2>1 DEF memory, vars, Now
  <2>4. MemoryInv'
    BY <2>3 DEF PInv, MemoryInv
  <2>5. TablesInv'
    BY <2>2, <2>3 DEF PInv, TablesInv
  <2>6. StageInv'
    BY <2>2, <2>3 DEF PInv, StageInv
  <2> QED
    BY <2>4, <2>5, <2>6 DEF PInv
<1> QED
  BY <1>1, <1>2, <1>3, InitPagingStep, EnsureInv, ElfInv, EndsInv DEF PagingNext

\* The heap is empty, and there are no tables.
LEMMA PagingStart == PagingInit => PInv
<1> SUFFICES ASSUME PagingInit PROVE PInv
  OBVIOUS
<1>1. /\ heap_at = HeapBase /\ blocks = {} /\ mem = <<>> /\ pml4 = 0 /\ nx_ok = FALSE
      /\ live = FALSE /\ flat = <<>> /\ bi \in BootInfos /\ stage = "boot" /\ bars = {}
  BY DEF PagingInit, Init
<1>2. HeapBase \in Nat /\ HeapBase <= HeapEnd
  BY HeapAssumption DEF HeapEnd
<1>3. <<>> \in Mems
  <2> DEFINE e == [i \in {} |-> ZeroTable]
  <2>1. e \in [{} -> Tables]
    OBVIOUS
  <2>2. <<>> = e
    OBVIOUS
  <2>3. {} \in SUBSET Nat
    OBVIOUS
  <2> HIDE DEF e
  <2>4. e \in Mems
    BY <2>1, <2>3, Zenon DEF Mems
  <2> QED
    BY <2>2, <2>4
<1>4. Now \in States
  <2> DEFINE R == Mems
             B == SUBSET BlockT
  <2>1. Now = [at |-> HeapBase, blocks |-> {}, mem |-> <<>>, pml4 |-> 0, nx |-> FALSE, ret |-> 1]
    BY <1>1 DEF Now
  <2>2. {} \in B
    OBVIOUS
  <2> HIDE DEF R, B
  <2>3. Now \in [at : Nat, blocks : B, mem : R, pml4 : Nat, nx : BOOLEAN, ret : Nat]
    BY <1>2, <1>3, <2>1, <2>2 DEF R
  <2> QED
    BY <2>3 DEF States, R, B
<1>5. HeapOK(Now)
  BY <1>1, <1>2, NowFields DEF HeapOK
<1>6. MemoryInv
  BY <1>1, <1>4, <1>5 DEF MemoryInv
<1>7. TablesInv
  BY <1>1 DEF TablesInv
<1>8. StageInv
  BY <1>1 DEF StageInv
<1> QED
  BY <1>6, <1>7, <1>8 DEF PInv

\* At every step of the kernel the tables are sound, and those it has loaded
\* serve: the inductive invariant behind every property of paging.c.
THEOREM TablesServe == PagingSpec => []PInv
  BY PagingStart, PagingStep, PTL DEF PagingSpec

-----------------------------------------------------------------------------
(* What it gives.                                                          *)

\* What is mapped in the kernel's own tables.
LEMMA FlatIs ==
    ASSUME PInv, live
    PROVE  /\ flat = Flatten(Now) /\ Serves(Now, bi, bars) /\ Sound(Now) /\ nx_ok \in BOOLEAN
           /\ \A a : a \in DOMAIN flat <=> a \in AllPages /\ E1(Now, a).p
           /\ \A a \in DOMAIN flat : flat[a] = Says(E1(Now, a), a)
           /\ bi \in BootInfos /\ bars \in SUBSET Bars
<1>1. flat = Flatten(Now) /\ Serves(Now, bi, bars)
  BY DEF PInv, TablesInv
<1>2. Sound(Now)
  BY <1>1 DEF Serves
<1>3. nx_ok \in BOOLEAN
  <2> DEFINE w == Now
             R == Mems
             B == SUBSET BlockT
  <2>1. w \in [at : Nat, blocks : B, mem : R, pml4 : Nat, nx : BOOLEAN, ret : Nat]
    BY <1>2 DEF Sound, States
  <2> HIDE DEF w, R, B
  <2>2. w.nx \in BOOLEAN
    BY <2>1
  <2> QED
    BY <2>2, NowFields DEF w
<1> QED
  BY <1>1, <1>2, <1>3, FlattenFacts DEF PInv, MemoryInv

\* No page is writable and executable, and no text or constant writable.
LEMMA InvNoWriteExecute == PInv => NoWriteExecute
<1> SUFFICES ASSUME PInv, NEW a \in DOMAIN flat
             PROVE  /\ flat[a].w => a \notin PagesIn(bi.text) \cup PagesIn(bi.rodata)
                    /\ nx_ok => ~(flat[a].w /\ flat[a].x)
  BY DEF NoWriteExecute
<1>1. live
  BY DEF PInv, TablesInv, StageInv
<1>2. /\ flat = Flatten(Now) /\ Serves(Now, bi, bars) /\ nx_ok \in BOOLEAN /\ bi \in BootInfos
  BY <1>1, FlatIs
<1>3. Now.nx = nx_ok
  BY NowFields
<1>4. PagesIn(bi.text) \subseteq BootPages(bi) /\ PagesIn(bi.rodata) \subseteq BootPages(bi)
  BY <1>2, ImageFacts
<1>5. CASE a \in Window
  <2>1. UserPage(Now, a)
    BY <1>2, <1>5 DEF Serves, UserMap
  <2>2. a \notin BootPages(bi)
    BY <1>2, <1>5, BootApart
  <2> QED
    BY <1>2, <1>3, <1>4, <2>1, <2>2, Zenon DEF UserPage
<1>6. CASE a \notin Window
  <2> DEFINE m == Now
  <2>1. KernelMap(m, bi) /\ a \in DOMAIN Flatten(m) /\ m.nx \in BOOLEAN
    BY <1>2, <1>3 DEF Serves
  <2> HIDE DEF m
  <2>2. /\ m.nx => ~(Flatten(m)[a].w /\ Flatten(m)[a].x)
        /\ Flatten(m)[a].w <=> ~(a \in BootPages(bi) /\ a \in PagesIn(bi.text) \cup PagesIn(bi.rodata))
    BY <1>6, <2>1, KernelPage
  <2> QED
    BY <1>2, <1>3, <1>4, <2>2, Zenon DEF m
<1> QED
  BY <1>5, <1>6

\* paging.c's W^X, and text and constants that nobody writes, for every boot
\* info and every sequence of calls.
THEOREM WriteExecuteNever == PagingSpec => []NoWriteExecute
  BY TablesServe, InvNoWriteExecute, PTL

\* vm_user_ok and the processor agree on every page of the window.
LEMMA InvUserOkIsAccess == PInv => UserOkIsAccess
<1> SUFFICES ASSUME PInv, live, NEW va \in Window
             PROVE  vm_user_ok(va, 1) <=> va \in DOMAIN flat /\ flat[va].u
  BY DEF UserOkIsAccess
<1> DEFINE m == Now
<1>1. /\ Sound(m) /\ \A a : a \in DOMAIN flat <=> a \in AllPages /\ E1(m, a).p
      /\ \A a \in DOMAIN flat : flat[a] = Says(E1(m, a), a)
  BY FlatIs
<1>2. va \in AllPages /\ va \in Nat /\ UserBase <= va /\ va < UserTop
      /\ UserTop \in Nat /\ va % 4096 = 0
  BY WindowFacts, PageFacts
<1>3. PagesIn([base |-> va, len |-> 1]) = {va}
  <2> DEFINE r == [base |-> va, len |-> 1]
  <2>1. r.base = va /\ r.len = 1
    OBVIOUS
  <2> HIDE DEF r
  <2>2. \A a : a \in PagesIn(r) <=> a \in Nat /\ a % 4096 = 0 /\ r.base < a + 4096 /\ a < r.base + r.len
    BY <1>2, <2>1, PagesInIs
  <2>3. \A a \in Nat : a % 4096 = 0 /\ va < a + 4096 /\ a < va + 1 => a = va
    BY <1>2
  <2>4. \A a : a \in PagesIn(r) <=> a = va
    BY <1>2, <2>1, <2>2, <2>3
  <2> QED
    BY <2>4 DEF r
<1>4. vm_user_ok(va, 1) <=> UserOkLeaf(va)
  <2>1. 1 <= UserTop - va
    BY <1>2
  <2> QED
    BY <1>2, <1>3, <2>1 DEF vm_user_ok
<1>5. Path(m, va)[3] = E2(m, va) /\ Path(m, va)[4] = E1(m, va)
  BY PathIs
<1>6. UserOkLeaf(va) <=> ~E2(m, va).ps /\ E1(m, va).p /\ E1(m, va).u
  BY <1>5, Zenon DEF UserOkLeaf
<1>7. E1(m, va).p /\ E1(m, va).u => ~E2(m, va).ps
  <2>1. PICK pos : Tree(m, pos)
    BY <1>1 DEF Sound
  <2>2. WalkOK(m, pos, va)
    BY <1>2, <2>1, WalkFacts
  <2> QED
    BY <2>2 DEF WalkOK, E1
<1>8. va \in DOMAIN flat => (flat[va].u <=> E1(m, va).u)
  BY <1>1 DEF Says
<1> QED
  BY <1>1, <1>2, <1>4, <1>6, <1>7, <1>8

\* vm_user_ok, one U bit of four, is the processor's own answer.
THEOREM UserOkIsRight == PagingSpec => []UserOkIsAccess
  BY TablesServe, InvUserOkIsAccess, PTL

\* There are finitely many pages.
LEMMA PagesFinite == IsFiniteSet(AllPages)
<1> DEFINE z == Fan * Span(4)
<1>1. Fan \in Nat /\ Span(4) \in Nat
  BY SpanFacts
<1>2. z \in Nat
  <2> DEFINE s == Span(4)
  <2>1. s \in Nat
    BY <1>1
  <2> HIDE DEF s
  <2>2. Fan * s \in Nat
    BY <1>1, <2>1, SMT
  <2> QED
    BY <2>2 DEF s
<1> HIDE DEF z
<1>3. AllPages \subseteq 0 .. z
  <2>1. \A a \in AllPages : a \in Nat /\ a < z
    BY PageFacts DEF z
  <2> QED
    BY <1>2, <2>1
<1>4. IsFiniteSet(0 .. z)
  BY <1>2, FS_Interval
<1> QED
  BY <1>3, <1>4, FS_Subset

\* What an injective function makes of a finite set has as many elements.
LEMMA SameSize ==
    ASSUME NEW S, IsFiniteSet(S), NEW T, NEW f, f \in [S -> T],
           \A t \in T : \E s \in S : f[s] = t,
           \A s, t \in S : s # t => f[s] # f[t]
    PROVE  Cardinality(T) = Cardinality(S)
<1>1. f \in Surjection(S, T)
  BY DEF Surjection
<1>2. f \in Injection(S, T)
  BY DEF Injection, IsInjective
<1> QED
  BY <1>1, <1>2, FS_Surjection

\* Ring 3 has its own pages, and nothing else.
LEMMA InvKernelPrivate == PInv => KernelPrivate
<1> SUFFICES ASSUME PInv PROVE KernelPrivate
  OBVIOUS
<1> DEFINE reached == {a \in DOMAIN flat : flat[a].u}
           frames == {flat[a].frame : a \in reached}
           f == [a \in reached |-> flat[a].frame]
<1>1. stage = "running" => live
  BY DEF PInv, StageInv
<1>2. ASSUME NEW a \in reached
      PROVE  /\ a \in Window /\ a \in AllPages /\ flat[a].frame \notin DOMAIN mem
             /\ Block(flat[a].frame, Page, Page) \in blocks
  <2>1. live
    BY <1>2 DEF PInv, TablesInv, StageInv
  <2>2. /\ flat = Flatten(Now) /\ Serves(Now, bi, bars) /\ nx_ok \in BOOLEAN
    BY <2>1, FlatIs
  <2>3. /\ Now.nx = nx_ok /\ Now.mem = mem /\ Now.blocks = blocks
    BY NowFields
  <2>4. a \in Window
    BY <1>2, <2>2, <2>3, KernelPage DEF Serves
  <2>5. UserPage(Now, a)
    BY <1>2, <2>2, <2>4 DEF Serves, UserMap
  <2> QED
    BY <2>2, <2>3, <2>4, <2>5, WindowFacts DEF UserPage, OwnPage
<1>3. \A a, b \in reached : a # b => flat[a].frame # flat[b].frame
  <2> SUFFICES ASSUME NEW a \in reached, NEW b \in reached, a # b
               PROVE  flat[a].frame # flat[b].frame
    OBVIOUS
  <2>1. live
    BY DEF PInv, TablesInv, StageInv
  <2>2. flat = Flatten(Now) /\ Serves(Now, bi, bars)
    BY <2>1, FlatIs
  <2>3. a \in Window /\ b \in Window /\ a \in DOMAIN flat /\ b \in DOMAIN flat
    BY <1>2
  <2> QED
    BY <2>2, <2>3 DEF Serves, UserMap
<1>4. IsFiniteSet(reached)
  <2>1. reached \subseteq AllPages
    BY <1>2
  <2> HIDE DEF reached
  <2> QED
    BY <2>1, PagesFinite, FS_Subset
<1>5. Cardinality(frames) = Cardinality(reached)
  <2>1. f \in [reached -> frames]
    OBVIOUS
  <2>2. \A t \in frames : \E s \in reached : f[s] = t
    OBVIOUS
  <2>3. \A s, t \in reached : s # t => f[s] # f[t]
    BY <1>3
  <2> HIDE DEF reached, frames, f
  <2> QED
    BY <1>4, <2>1, <2>2, <2>3, SameSize
<1>6. reached \subseteq Window /\ frames \cap DOMAIN mem = {}
      /\ {Block(d, Page, Page) : d \in frames} \subseteq blocks
  BY <1>2
<1> QED
  BY <1>1, <1>5, <1>6 DEF KernelPrivate

\* A program reaches pages of its window only, each on a heap page of its own:
\* no table, nothing of the kernel's. It runs on no other tables than these.
THEOREM KernelIsPrivate == PagingSpec => []KernelPrivate
  BY TablesServe, InvKernelPrivate, PTL

\* A range the boot info asks for is asked for page by page.
LEMMA RangePages ==
    ASSUME NEW c \in BootInfos, NEW r \in Range(extra(c)), r.base # 0, r.len # 0
    PROVE  PagesIn(r) \subseteq BootPages(c)
<1> SUFFICES ASSUME NEW a \in PagesIn(r) PROVE a \in Wide(r)
  BY DEF BootPages
<1>1. InRam(r)
  BY ExtraFacts
<1>2. /\ a \in AllPages /\ a \in Nat /\ Num(r.base, 2) <= Num(a, 2) /\ a < r.base + r.len
      /\ r.base \in Nat /\ r.base + r.len \in Nat
  BY <1>1, RamPages DEF InRam, Ranges
<1>3. Floor(r.base, Span(2)) <= a
  BY <1>2, FloorNum
<1> DEFINE z == Num(a, 2) * Span(2)
<1>4. Floor(a, Span(2)) = z /\ z \in Nat /\ z <= a
  BY <1>2, LargeStart DEF Floor, Num
<1>5. z < r.base + r.len
  <2> HIDE DEF z
  <2> QED
    BY <1>2, <1>4
<1> QED
  BY <1>2, <1>3, <1>4, <1>5 DEF Wide

\* A page of the heap is one of the boot info's, and none of the image's.
LEMMA HeapPage ==
    ASSUME NEW m \in States, HeapOK(m), NEW c \in BootInfos, NEW t \in Nat, OwnPage(m, t)
    PROVE  t \in BootPages(c) /\ t \notin PagesIn(c.text) \cup PagesIn(c.rodata)
<1>1. t # 0 /\ t % 4096 = 0 /\ HeapBase <= t /\ t + 4096 <= HeapEnd
  BY OwnPageFacts
<1>2. HeapBase \in Nat /\ HeapBase # 0 /\ HeapSize \in Nat /\ HeapEnd = HeapBase + HeapSize
  BY HeapAssumption DEF HeapEnd
<1> DEFINE r == [base |-> HeapBase, len |-> HeapSize]
<1>3. r.base = HeapBase /\ r.len = HeapSize /\ HeapSize # 0
  BY <1>1, <1>2
<1>4. r \in Range(extra(c))
  <2>1. Len(extra(c)) \in Nat /\ extra(c)[1] = r /\ Len(extra(c)) = 6
    BY DEF extra
  <2>2. \A q : q \in Range(extra(c)) <=> \E i \in 1 .. Len(extra(c)) : q = extra(c)[i]
    BY ExtraFacts
  <2> HIDE DEF r
  <2> QED
    BY <2>1, <2>2
<1> HIDE DEF r
<1>5. t \in PagesIn(r)
  BY <1>1, <1>2, <1>3, PagesInIs
<1>6. t \in BootPages(c)
  BY <1>2, <1>3, <1>4, <1>5, RangePages
<1>7. /\ InRam(c.text) /\ InRam(c.rodata) /\ InRam(c.data)
      /\ c.text.base + c.text.len <= c.rodata.base
      /\ c.rodata.base + c.rodata.len <= c.data.base
      /\ c.data.base + c.data.len <= HeapBase \/ HeapEnd <= c.text.base
      /\ c.text.base % 4096 = 0 /\ c.rodata.base % 4096 = 0
  BY PlacesAssumption DEF Page
<1>8. /\ c.text.base \in Nat /\ c.text.len \in Nat /\ c.rodata.base \in Nat /\ c.rodata.len \in Nat
      /\ c.data.base \in Nat /\ c.data.len \in Nat
  BY <1>7 DEF InRam, Ranges
<1>9. ASSUME NEW q \in {c.text, c.rodata}, t \in PagesIn(q) PROVE FALSE
  <2>1. PartLoop(Steps(Floor(q.base, Page), Floor(q.base + q.len + Page - 1, Page), Page),
                 Len(Steps(Floor(q.base, Page), Floor(q.base + q.len + Page - 1, Page), Page)), q)
    <3>1. InRam(q) /\ q.base % Page = 0
      BY <1>7 DEF Page
    <3> QED
      BY <3>1, ProtectTurns
  <2>2. q.base <= t /\ t < q.base + q.len
    BY <1>9, <2>1 DEF PartLoop
  <2> QED
    BY <1>1, <1>2, <1>7, <1>8, <1>9, <2>2
<1> QED
  BY <1>6, <1>9

\* Ranges of the boot info, BARs and tables are mapped to themselves.
LEMMA InvKernelReaches == PInv => KernelReaches
<1> SUFFICES ASSUME PInv PROVE KernelReaches
  OBVIOUS
<1>1. CASE ~live
  BY <1>1 DEF KernelReaches, Reaches
<1>2. CASE live
  <2> DEFINE m == Now
  <2>1. /\ flat = Flatten(m) /\ Serves(m, bi, bars) /\ Sound(m) /\ nx_ok \in BOOLEAN
        /\ bi \in BootInfos /\ bars \in SUBSET Bars
    BY <1>2, FlatIs
  <2>2. m.nx = nx_ok /\ m.mem = mem /\ m.at = heap_at /\ m.blocks = blocks
    BY NowFields
  <2> HIDE DEF m
  <2>3. KernelMap(m, bi) /\ BootPages(bi) \subseteq DOMAIN flat /\ BootPages(bi) \cap Window = {}
    BY <2>1, BootApart DEF Serves, KernelMap
  <2>4. \A a \in DOMAIN flat : a \notin Window =>
            /\ flat[a].frame = a
            /\ flat[a].w <=> ~(a \in BootPages(bi) /\ a \in PagesIn(bi.text) \cup PagesIn(bi.rodata))
    BY <2>1, <2>2, <2>3, KernelPage
  <2>5. \A r \in Range(extra(bi)) : r.base # 0 /\ r.len # 0 => Reaches(PagesIn(r))
    BY <2>1, <2>3, <2>4, RangePages DEF Reaches
  <2>6. ASSUME NEW r \in bars, FreePages > 0 PROVE Reaches(PagesIn(r))
    <3>1. ~Dry(m)
      <4> DEFINE x == AlignUp(heap_at, 4096)
      <4>1. heap_at \in Nat /\ heap_at <= HeapEnd /\ HeapEnd \in Nat
        BY HeapIs, HeapAssumption DEF PInv, IInv, UsedWithinHeap, TypeOK, HeapEnd
      <4>2. x \in Nat /\ x <= HeapEnd
        BY <4>1, HeapRounding
      <4>3. (HeapEnd - x) \div 4096 > 0
        BY <2>6 DEF FreePages
      <4> HIDE DEF x
      <4>4. 4096 <= HeapEnd - x
        BY <4>1, <4>2, <4>3
      <4> QED
        BY <2>2, <4>2, <4>4 DEF Dry, Fits, Page, x
    <3>2. PagesIn(r) \subseteq DOMAIN flat
      BY <2>1, <3>1 DEF Serves, BarsMap
    <3>3. InRam(r) /\ r.len # 0
      BY <2>1, PlacesAssumption DEF InRam, Ranges
    <3> QED
      BY <2>4, <3>2, <3>3, RamPages DEF Reaches
  <2>7. ASSUME NEW t \in DOMAIN mem PROVE t \in DOMAIN flat /\ flat[t].frame = t /\ flat[t].w
    <3>1. m \in States /\ HeapOK(m) /\ OwnPage(m, t)
      BY <2>1, <2>2 DEF Sound
    <3>2. t \in Nat
      <4> DEFINE B == SUBSET BlockT
      <4>1. m \in [at : Nat, blocks : B, mem : Mems, pml4 : Nat, nx : BOOLEAN, ret : Nat]
        BY <3>1 DEF States
      <4> HIDE DEF B
      <4>2. mem \in Mems
        BY <2>2, <4>1
      <4> QED
        BY <4>2 DEF Mems
    <3>3. t \in BootPages(bi) /\ t \notin PagesIn(bi.text) \cup PagesIn(bi.rodata)
      BY <2>1, <3>1, <3>2, HeapPage
    <3> QED
      BY <2>3, <2>4, <3>3
  <2> QED
    BY <2>5, <2>6, <2>7 DEF KernelReaches, Reaches
<1> QED
  BY <1>1, <1>2

\* What the kernel goes on to use is mapped to itself: all of extra[], the
\* tables, which it can write, and, while memory is left, the BARs.
THEOREM KernelReachesAll == PagingSpec => []KernelReaches
  BY TablesServe, InvKernelReaches, PTL

\* The heap of the kernel is KHeap's, with page tables in it.
LEMMA InvBlocksSafe == PInv => BlocksSafe
  BY HeapIs DEF PInv, IInv, BlocksSafe

\* Blocks stay apart whatever mix of tables, user pages and buffers is made.
THEOREM KernelHeapSafe == PagingSpec => []BlocksSafe
  BY TablesServe, InvBlocksSafe, PTL

\* As long as no block was handed out, the next page to be had is the same.
LEMMA FreeSame ==
    ASSUME AlignUp(heap_at', 4096) = AlignUp(heap_at, 4096)
    PROVE  FreePages' = FreePages
  BY DEF FreePages, HeapEnd

\* A call that hands out nothing costs no page.
LEMMA BecomeFree ==
    ASSUME NEW m, NEW l, Become(m, l),
           m.blocks = Now.blocks => AlignUp(m.at, Page) = AlignUp(Now.at, Page)
    PROVE  NoPageLost
<1>1. heap_at' = m.at /\ blocks' = m.blocks
  BY DEF Become
<1>2. blocks' = blocks => AlignUp(heap_at', 4096) = AlignUp(heap_at, 4096)
  BY <1>1, NowFields DEF Page
<1> QED
  BY <1>2, FreeSame DEF NoPageLost

\* No operation of the kernel that gets no memory loses any.
LEMMA PagingFree ==
    ASSUME PInv, [PagingNext]_pagingVars
    PROVE  NoPageLost
<1>1. ASSUME [Next]_vars PROVE NoPageLost
  BY <1>1, HeapIs, StepInv DEF PInv
<1>2. CASE UNCHANGED memory
  <2>1. UNCHANGED vars
    BY <1>2 DEF memory
  <2> QED
    BY <1>1, <2>1
<1>3. ASSUME NEW n \in Sizes, ConsoleAlloc(n) PROVE NoPageLost
  BY <1>1, <1>3 DEF ConsoleAlloc, Next
<1>4. ASSUME NEW n \in DmaSizes, NEW a \in DmaAligns, DriverAlloc(n, a) PROVE NoPageLost
  BY <1>1, <1>4 DEF DriverAlloc, Next
<1>5. CASE paging_init
  <2>1. PICK nx \in BOOLEAN :
            LET m == Built([Now EXCEPT !.nx = nx, !.pml4 = 0], bi) IN Become(m, m.ret # 0)
    BY <1>5, Zenon DEF paging_init
  <2> DEFINE k == Reset(Now, nx)
             m == Built(k, bi)
  <2>2. k \in States /\ k.at = Now.at /\ k.blocks = Now.blocks /\ k.pml4 = 0
    BY StatesReset DEF PInv, MemoryInv
  <2> HIDE DEF k
  <2>3. HeapOK(k) /\ bi \in BootInfos
    BY <2>2 DEF PInv, MemoryInv, HeapOK
  <2>4. Takes(k, m)
    BY <2>2, <2>3, BuiltStep DEF Builds
  <2>5. Become(m, m.ret # 0)
    BY <2>1, Zenon DEF k, Reset
  <2> HIDE DEF m
  <2>6. m.blocks = Now.blocks => AlignUp(m.at, Page) = AlignUp(Now.at, Page)
    BY <2>2, <2>4 DEF Takes
  <2> QED
    BY <2>5, <2>6, BecomeFree
<1>6. ASSUME NEW r \in Bars, vm_ensure_identity(r) PROVE NoPageLost
  <2>1. CASE pml4 = 0 \/ r.len = 0
    <3>1. UNCHANGED <<memory, tlb>>
      BY <1>6, <2>1, Zenon DEF vm_ensure_identity
    <3> QED
      BY <1>2, <3>1
  <2>2. CASE ~(pml4 = 0 \/ r.len = 0)
    <3> DEFINE m == Ensure(Now, r)
    <3>1. Become(m, live)
      BY <1>6, <2>2, Zenon DEF vm_ensure_identity
    <3>2. Sound(Now) /\ InRam(r)
      BY <2>2, PlacesAssumption DEF PInv, TablesInv
    <3>3. PICK k \in Nat : Ensures(Now, m, r.base, r.base + r.len, k)
      BY <3>2, EnsureStep
    <3> HIDE DEF m
    <3>4. Grows(Now, m)
      BY <3>3 DEF Ensures, Widens
    <3> QED
      BY <3>1, <3>4, BecomeFree DEF Grows
  <2> QED
    BY <2>1, <2>2
<1>7. ASSUME NEW p \in Programs, elf_run(p) PROVE NoPageLost
  <2> DEFINE m == Loaded(Now, p)
  <2>1. Become(m, live) /\ stage = "shell" /\ Now.ret # 0
    BY <1>7, NowFields DEF elf_run
  <2>2. Grows(Now, m)
    <3>1. CASE live
      <4>1. Sound(Now)
        BY <3>1 DEF PInv, TablesInv
      <4>2. SegmentsDone(Now, m, Segs(p), Len(p) + 1)
        BY <2>1, <4>1, LoadedStep
      <4> HIDE DEF m
      <4> QED
        BY <4>2 DEF SegmentsDone, Progress, Loads
    <3>2. CASE ~live
      <4>1. Now \in States /\ HeapOK(Now) /\ Dry(Now)
        BY <2>1, <3>2 DEF PInv, MemoryInv, TablesInv
      <4>2. Stays(Now, m)
        BY <2>1, <4>1, LoadedDry
      <4> QED
        BY <4>2 DEF Stays
    <3> QED
      BY <3>1, <3>2
  <2> HIDE DEF m
  <2> QED
    BY <2>1, <2>2, BecomeFree DEF Grows
<1>8. CASE ProgramEnds
  <2> DEFINE m == Unmap(Unmap(Now, span.lo, span.hi), Stack.lo, Stack.hi)
  <2>1. Become(m, live) /\ stage = "running"
    BY <1>8 DEF ProgramEnds
  <2>2. PICK p \in Programs : span = SpanOf(p)
    BY <2>1 DEF PInv, StageInv
  <2>3. Serves(Now, bi, bars) /\ bi \in BootInfos /\ bars \in SUBSET Bars
    BY <2>1 DEF PInv, StageInv, TablesInv, MemoryInv
  <2>4. Unmaps(Now, m, Between(SpanOf(p).lo, SpanOf(p).hi) \cup Between(Stack.lo, Stack.hi))
    BY <2>2, <2>3, ServesEnded
  <2> HIDE DEF m
  <2> QED
    BY <2>1, <2>4, BecomeFree DEF Unmaps, Grows
<1>9. CASE \/ DriversDone \/ UNCHANGED pagingVars \/ \E va \in Window : Touch(va)
  <2>1. UNCHANGED memory
    BY <1>9 DEF DriversDone, Touch, pagingVars
  <2> QED
    BY <1>2, <2>1
<1> QED
  BY <1>3, <1>4, <1>5, <1>6, <1>7, <1>8, <1>9 DEF PagingNext

\* A failed paging_init, BAR, program or buffer costs no page.
THEOREM KernelRefusalIsFree == PagingSpec => RefusalCostsNoPage
<1>1. PInv /\ [PagingNext]_pagingVars => [blocks' = blocks => FreePages' = FreePages]_vars
  BY PagingFree DEF NoPageLost
<1> QED
  BY <1>1, TablesServe, PTL DEF PagingSpec, RefusalCostsNoPage

-----------------------------------------------------------------------------
(* The tables implement the flat map.                                      *)

\* A map is a function.
LEMMA FlattenFun ==
    ASSUME NEW m
    PROVE  Flatten(m) = [a \in DOMAIN Flatten(m) |-> Flatten(m)[a]]
<1> DEFINE D == {b \in AllPages : Path(m, b)[4].p}
<1>1. Flatten(m) = [a \in D |-> Translation(Path(m, a), a)]
  BY Zenon DEF Flatten
<1> HIDE DEF D
<1> QED
  BY <1>1

\* Maps that agree everywhere are one.
LEMMA SameMap ==
    ASSUME NEW m, NEW r, Changes(Flatten(m), Flatten(r), {})
    PROVE  Flatten(r) = Flatten(m)
<1> DEFINE F == Flatten(m)
           G == Flatten(r)
<1>1. F = [a \in DOMAIN F |-> F[a]] /\ G = [a \in DOMAIN G |-> G[a]]
  BY FlattenFun
<1>2. /\ \A b : b \in DOMAIN G <=> b \in DOMAIN F
      /\ \A b \in DOMAIN F : G[b] = F[b]
  BY DEF Changes
<1> HIDE DEF F, G
<1>3. F = G
  BY <1>1, <1>2
<1> QED
  BY <1>3 DEF F, G

\* F with the pages of Q mapped to themselves
WithPlain(F, Q, nx) == [a \in Q \cup DOMAIN F |-> IF a \in Q THEN Plain(a, nx) ELSE F[a]]

\* What vm_ensure_identity makes of a map.
LEMMA WidensIs ==
    ASSUME NEW m, NEW r, NEW S, Widens(m, r, S \ DOMAIN Flatten(m))
    PROVE  Flatten(r) = WithPlain(Flatten(m), S \ DOMAIN Flatten(m), m.nx)
<1> DEFINE F == Flatten(m)
           G == Flatten(r)
           Q == S \ DOMAIN F
<1>1. G = [a \in DOMAIN G |-> G[a]]
  BY FlattenFun
<1>2. /\ \A b : b \notin Q => (b \in DOMAIN G <=> b \in DOMAIN F)
      /\ \A b \in DOMAIN F : b \notin Q => G[b] = F[b]
      /\ \A b \in Q : b \in DOMAIN G /\ G[b] = Plain(b, m.nx)
  BY DEF Widens, Changes
<1>3. \A b \in DOMAIN F : b \notin Q
  OBVIOUS
<1> HIDE DEF F, G, Q
<1>4. DOMAIN G = Q \cup DOMAIN F
  BY <1>2, <1>3
<1>5. G = [a \in Q \cup DOMAIN F |-> IF a \in Q THEN Plain(a, m.nx) ELSE F[a]]
  BY <1>1, <1>2, <1>3, <1>4
<1> QED
  BY <1>5 DEF F, G, Q, WithPlain

\* paging_init makes the map the boot info asks for, or none.
LEMMA BuildStep ==
    ASSUME PInv, paging_init
    PROVE  Flat!Build \/ flat' = flat
<1>1. PICK nx \in BOOLEAN :
          LET m == Built([Now EXCEPT !.nx = nx, !.pml4 = 0], bi) IN Become(m, m.ret # 0)
  BY Zenon DEF paging_init
<1> DEFINE k == Reset(Now, nx)
           m == Built(k, bi)
<1>2. stage = "boot" /\ bi' = bi
  BY DEF paging_init
<1>3. /\ k \in States /\ k.at = Now.at /\ k.blocks = Now.blocks /\ k.pml4 = 0
  BY StatesReset DEF PInv, MemoryInv
<1> HIDE DEF k
<1>4. HeapOK(k) /\ bi \in BootInfos
  BY <1>3 DEF PInv, MemoryInv, HeapOK
<1>5. Builds(k, m, BootMap(bi, k.nx))
  BY <1>3, <1>4, BuiltStep
<1>6. Become(m, m.ret # 0)
  BY <1>1, Zenon DEF k, Reset
<1> HIDE DEF m
<1>7. flat' = (IF m.ret # 0 THEN Flatten(m) ELSE <<>>) /\ nx_ok' = m.nx
  BY <1>6 DEF Become
<1>8. m.nx = k.nx /\ (m.ret # 0 => Flatten(m) = BootMap(bi, k.nx))
  BY <1>5 DEF Builds, Takes
<1>9. flat = <<>>
  BY <1>2 DEF PInv, StageInv, TablesInv
<1>10. CASE m.ret # 0
  <2>1. flat' = BootMap(bi', nx_ok')
    BY <1>2, <1>7, <1>8, <1>10
  <2> QED
    BY <1>9, <2>1 DEF Flat!Build
<1>11. CASE m.ret = 0
  BY <1>7, <1>9, <1>11
<1> QED
  BY <1>10, <1>11

\* A large page that begins before the end of a range is one of its pieces.
LEMMA LastPiece ==
    ASSUME NEW q \in Nat, NEW to \in Nat, q * Span(2) < to
    PROVE  q <= (to - 1) \div Span(2)
<1> DEFINE z == Span(2)
           x == to - 1
           p == x \div z
           t == x % z
<1>1. z \in Nat \ {0}
  BY SpanFacts
<1>2. q * z \in Nat
  <2> HIDE DEF z
  <2> QED
    BY <1>1, SMT
<1>3. x \in Nat /\ q * z <= x
  BY <1>2
<1> HIDE DEF z, x
<1>4. p \in Nat /\ t \in 0 .. (z - 1) /\ x = z * p + t
  BY <1>1, <1>3, Euclid, Zenon
<1> HIDE DEF p, t
<1>5. q <= p
  <2> SUFFICES ASSUME p + 1 <= q PROVE FALSE
    BY <1>4
  <2>1. PICK d \in Nat : q = p + 1 + d
    <3>1. q - (p + 1) \in Nat /\ q = p + 1 + (q - (p + 1))
      BY <1>4
    <3> QED
      BY <3>1
  <2>2. q * z = z * p + z + d * z /\ d * z \in Nat /\ z * p \in Nat
    BY <1>1, <1>4, <2>1, SMT
  <2> DEFINE u == z * p
             v == d * z
             w == q * z
  <2>3. w = u + z + v /\ u \in Nat /\ v \in Nat /\ w <= x /\ x = u + t
    BY <1>3, <1>4, <2>2
  <2> HIDE DEF u, v, w
  <2> QED
    BY <1>1, <1>3, <1>4, <2>3
<1> QED
  BY <1>5 DEF p, x, z

\* the pages of units first to last
WholeUnits(first, last, unit) ==
    {a \in AllPages : first <= a \div unit /\ a \div unit <= last}

\* AddressMap's Widen, as a relation of two maps
WidensBy(unit, r, F, G, nx) ==
    \E n \in (r.base \div unit) .. ((r.base + r.len - 1) \div unit) :
       G = WithPlain(F, WholeUnits(r.base \div unit, n, unit) \ DOMAIN F, nx)

\* vm_ensure_identity widens the map, as far as memory lasts.
LEMMA WidenStep ==
    ASSUME PInv, NEW r \in Bars, vm_ensure_identity(r)
    PROVE  Flat!Widen(r) \/ flat' = flat
<1>1. CASE pml4 = 0 \/ r.len = 0
  <2>1. UNCHANGED <<memory, tlb>>
    BY <1>1, Zenon DEF vm_ensure_identity
  <2> QED
    BY <2>1 DEF memory
<1>2. CASE ~(pml4 = 0 \/ r.len = 0)
  <2> DEFINE m == Ensure(Now, r)
             base == r.base
             to == r.base + r.len
  <2>1. Become(m, live)
    BY <1>2, Zenon DEF vm_ensure_identity
  <2>2. Sound(Now) /\ InRam(r)
    BY <1>2, PlacesAssumption DEF PInv, TablesInv
  <2>3. PICK k \in Nat : Ensures(Now, m, base, to, k)
    BY <2>2, EnsureStep
  <2> HIDE DEF m
  <2>4. flat' = IF live THEN Flatten(m) ELSE <<>>
    BY <2>1 DEF Become
  <2>5. flat = IF live THEN Flatten(Now) ELSE <<>>
    BY DEF PInv, TablesInv
  <2>6. CASE ~live
    BY <2>4, <2>5, <2>6
  <2>7. CASE live
    <3>1. flat' = Flatten(m) /\ flat = Flatten(Now)
      BY <2>4, <2>5, <2>7
    <3>2. /\ Widens(Now, m, Stretch(base, k) \ DOMAIN flat)
          /\ \A i \in Nat : i < k => (Num(base, 2) + i) * Span(2) < to
      BY <2>3, <3>1 DEF Ensures
    <3>3. flat' = WithPlain(flat, Stretch(base, k) \ DOMAIN flat, nx_ok)
      BY <3>1, <3>2, WidensIs, NowFields
    <3>4. base \in Nat /\ to \in Nat /\ Num(base, 2) \in Nat
      BY <2>2, LargeStart DEF InRam, Ranges
    <3>5. CASE k = 0
      <4>1. Stretch(base, k) = {}
        <5>1. \A b \in AllPages : Num(b, 2) \in Nat
          BY PageNumbers, LargeStart
        <5>2. \A b \in AllPages : ~(Num(base, 2) <= Num(b, 2) /\ Num(b, 2) < Num(base, 2) + 0)
          BY <3>4, <5>1
        <5> QED
          BY <3>5, <5>2, Zenon DEF Stretch
      <4>2. Changes(Flatten(Now), Flatten(m), {})
        BY <3>2, <4>1 DEF Widens
      <4> QED
        BY <3>1, <4>2, SameMap
    <3>6. CASE k > 0
      <4> DEFINE z == Span(2)
                 first == base \div z
                 last == (r.base + r.len - 1) \div z
                 n == first + (k - 1)
                 new == WholeUnits(first, n, z) \ DOMAIN flat
      <4>1. n \in Nat /\ first <= n /\ first \in Nat /\ first = Num(base, 2)
        BY <3>4, <3>6 DEF Num
      <4>2. n <= last
        <5>1. n * Span(2) < to
          <6>1. k - 1 \in Nat /\ k - 1 < k
            BY <3>6
          <6> QED
            BY <3>2, <4>1, <6>1
        <5>2. n <= (to - 1) \div Span(2)
          <6> HIDE DEF n, to
          <6> QED
            BY <3>4, <4>1, <5>1, LastPiece
        <5>3. to - 1 = r.base + r.len - 1
          BY <2>2 DEF InRam, Ranges
        <5> HIDE DEF n, to
        <5> QED
          BY <5>2, <5>3
      <4>3. last \in Nat
        <5> DEFINE x == r.base + r.len - 1
        <5>1. z \in Nat \ {0}
          BY SpanFacts
        <5>2. x \in Nat
          BY <1>2, <2>2 DEF InRam, Ranges
        <5> HIDE DEF z, x
        <5>3. x \div z \in Nat
          BY <5>1, <5>2, Euclid, Zenon
        <5> QED
          BY <5>3 DEF x
      <4>4. new = Stretch(base, k) \ DOMAIN flat
        <5>1. \A b \in AllPages : Num(b, 2) \in Nat /\ b \div z = Num(b, 2)
          BY PageNumbers, LargeStart DEF Num
        <5> HIDE DEF z, first
        <5>2. \A b \in AllPages : b \div z <= n <=> Num(b, 2) < first + k
          BY <3>4, <3>6, <4>1, <5>1
        <5> HIDE DEF n
        <5>3. WholeUnits(first, n, z) = Stretch(base, k)
          BY <4>1, <5>1, <5>2 DEF Stretch, WholeUnits
        <5> QED
          BY <5>3
      <4>5. flat' = WithPlain(flat, new, nx_ok)
        BY <3>3, <4>4
      <4>6. n \in first .. last
        BY <4>1, <4>2, <4>3
      <4>8. z = Fan * Page
        BY SpanFacts DEF Page
      <4> HIDE DEF n, z
      <4>7. WidensBy(z, r, flat, flat', nx_ok)
        BY <4>5, <4>6, Zenon DEF WidensBy
      <4>9. WidensBy(Fan * Page, r, flat, flat', nx_ok)
        BY <4>7, <4>8
      <4>10. Flat!Widen(r)
        BY <4>9, Zenon DEF Flat!Widen, Flat!Identity, WidensBy, WholeUnits, WithPlain, Plain
      <4> QED
        BY <4>10
    <3> QED
      BY <3>5, <3>6
  <2> QED
    BY <2>6, <2>7
<1> QED
  BY <1>1, <1>2

\* AddressMap's Remaps, as a relation of two maps
RemapsBy(F, G, S) ==
    /\ S \subseteq DOMAIN G
    /\ DOMAIN G \ S = DOMAIN F \ S
    /\ \A a \in DOMAIN F \ S : G[a] = F[a]

\* AddressMap's Load, likewise: the segments up to page n of segment k
LoadsBy(segs, k, n, F, G, nx) ==
    LET pages == UNION {Reached(segs, k, n, i) : i \in 1 .. k}
    IN /\ RemapsBy(F, G, pages)
       /\ \A i \in 1 .. k : ~(segs[i].w /\ segs[i].x)
       /\ \A a \in pages : \E i \in 1 .. k :
             /\ a \in Reached(segs, k, n, i) /\ \A j \in (i + 1) .. k : a \notin Reached(segs, k, n, j)
             /\ G[a] = [frame |-> G[a].frame, w |-> segs[i].w,
                        u |-> TRUE, x |-> segs[i].x \/ ~nx]
       /\ \A a \in pages : \A b \in DOMAIN F : F[b].u => F[b].frame # G[a].frame
       /\ \A a, b \in pages : a # b => G[a].frame # G[b].frame

\* What elf_run has loaded, as the flat map sees it.
LEMMA LoadsFlat ==
    ASSUME NEW m, NEW c, NEW S, Serves(m, c, S), m.nx \in BOOLEAN, NEW r, NEW segs,
           NEW k \in Nat, NEW n, Progress(m, r, segs, k, n)
    PROVE  LoadsBy(segs, k, n, Flatten(m), Flatten(r), m.nx)
<1> DEFINE F == Flatten(m)
           G == Flatten(r)
           pages == UNION {Reached(segs, k, n, i) : i \in 1 .. k}
<1>1. PICK R : Loads(m, r, R) /\ Grant(R, segs, k, n)
  BY DEF Progress
<1>2. \A i \in 1 .. k : ~(segs[i].w /\ segs[i].x)
  BY DEF Progress
<1>3. pages = DOMAIN R
  <2>1. \A b : b \in DOMAIN R <=> \E i \in 1 .. k : b \in Reached(segs, k, n, i)
    BY <1>1 DEF Grant
  <2> QED
    BY <2>1, Zenon
<1>4. /\ \A b : b \notin pages => (b \in DOMAIN G <=> b \in DOMAIN F)
      /\ \A b \in DOMAIN F : b \notin pages => G[b] = F[b]
      /\ \A b \in pages :
            /\ b \in DOMAIN G /\ Owned(m, r, G[b].frame)
            /\ G[b] = [frame |-> G[b].frame, w |-> R[b].w, u |-> TRUE, x |-> R[b].x \/ ~m.nx]
      /\ \A b, d \in pages : b # d => G[b].frame # G[d].frame
  BY <1>1, <1>3, Zenon DEF Loads, Changes
<1>5. \A b \in pages : \E i \in 1 .. k :
          /\ b \in Reached(segs, k, n, i)
          /\ \A j \in 1 .. k : i < j => b \notin Reached(segs, k, n, j)
          /\ R[b] = [w |-> segs[i].w, x |-> segs[i].x]
  BY <1>1, <1>3, Zenon DEF Grant
<1>6. ASSUME NEW b \in DOMAIN F, F[b].u PROVE OwnPage(m, F[b].frame)
  <2>1. b \in Window
    BY <1>6, KernelPage DEF Serves
  <2> QED
    BY <2>1 DEF Serves, UserMap, UserPage
<1> HIDE DEF pages, F, G
<1>7. RemapsBy(F, G, pages)
  <2>1. pages \subseteq DOMAIN G /\ \A a \in DOMAIN F \ pages : G[a] = F[a]
    BY <1>4
  <2>2. DOMAIN G \ pages = DOMAIN F \ pages
    BY <1>4
  <2> QED
    BY <2>1, <2>2 DEF RemapsBy
<1>8. ASSUME NEW a \in pages
      PROVE  \E i \in 1 .. k :
                /\ a \in Reached(segs, k, n, i) /\ \A j \in (i + 1) .. k : a \notin Reached(segs, k, n, j)
                /\ G[a] = [frame |-> G[a].frame, w |-> segs[i].w,
                           u |-> TRUE, x |-> segs[i].x \/ ~m.nx]
  <2>1. PICK i \in 1 .. k :
            /\ a \in Reached(segs, k, n, i)
            /\ \A j \in 1 .. k : i < j => a \notin Reached(segs, k, n, j)
            /\ R[a] = [w |-> segs[i].w, x |-> segs[i].x]
    BY <1>5
  <2> DEFINE q == [w |-> segs[i].w, x |-> segs[i].x]
  <2>2. q.w = segs[i].w /\ q.x = segs[i].x /\ R[a] = q
    BY <2>1
  <2>3. G[a] = [frame |-> G[a].frame, w |-> R[a].w, u |-> TRUE, x |-> R[a].x \/ ~m.nx]
    BY <1>4
  <2> HIDE DEF q
  <2>4. G[a] = [frame |-> G[a].frame, w |-> segs[i].w, u |-> TRUE, x |-> segs[i].x \/ ~m.nx]
    BY <2>2, <2>3, Zenon
  <2>5. \A j \in (i + 1) .. k : j \in 1 .. k /\ i < j
    OBVIOUS
  <2>6. \A j \in (i + 1) .. k : a \notin Reached(segs, k, n, j)
    BY <2>1, <2>5
  <2> QED
    BY <2>1, <2>4, <2>6, Zenon
<1>9. ASSUME NEW a \in pages, NEW b \in DOMAIN F, F[b].u PROVE F[b].frame # G[a].frame
  <2>1. OwnPage(m, F[b].frame) /\ ~OwnPage(m, G[a].frame)
    BY <1>4, <1>6, <1>9 DEF Owned
  <2> QED
    BY <2>1
<1>10. \A a, b \in pages : a # b => G[a].frame # G[b].frame
  BY <1>4
<1> QED
  BY <1>2, <1>7, <1>8, <1>9, <1>10, Zenon DEF LoadsBy, pages, F, G

\* elf_run loads the segments into the map, as far as memory lasts.
LEMMA LoadStep ==
    ASSUME PInv, NEW p \in Programs, elf_run(p)
    PROVE  Flat!Load(p) \/ flat' = flat
<1> DEFINE m == Loaded(Now, p)
           segs == Segs(p)
           l == Len(p) + 1
<1>1. Become(m, live)
  BY DEF elf_run
<1> HIDE DEF m
<1>2. flat' = IF live THEN Flatten(m) ELSE <<>>
  BY <1>1 DEF Become
<1>3. flat = IF live THEN Flatten(Now) ELSE <<>>
  BY DEF PInv, TablesInv
<1>4. CASE ~live
  BY <1>2, <1>3, <1>4
<1>5. CASE live
  <2>1. flat' = Flatten(m) /\ flat = Flatten(Now)
    BY <1>2, <1>3, <1>5
  <2>2. Serves(Now, bi, bars) /\ Now.ret # 0 /\ Now.nx = nx_ok /\ Now.nx \in BOOLEAN
    <3>1. Now.nx \in BOOLEAN
      BY DEF PInv, MemoryInv, States
    <3> QED
      BY <1>5, <3>1, NowFields DEF PInv, TablesInv
  <2>3. SegmentsDone(Now, m, segs, l)
    BY <2>2, LoadedStep DEF Serves, m
  <2>4. l \in Nat /\ l = Len(segs) /\ DOMAIN segs = 1 .. l
        /\ \A i \in 1 .. l : SegOK(segs[i])
    <3>1. /\ Len(p) \in Nat /\ \A i \in 1 .. Len(p) : SegOK(p[i]) /\ Segs(p)[i] = p[i]
          /\ SegOK(StackSeg) /\ Segs(p)[Len(p) + 1] = StackSeg
          /\ Len(Segs(p)) = Len(p) + 1 /\ DOMAIN Segs(p) = 1 .. (Len(p) + 1)
      BY ProgramFacts
    <3>2. ASSUME NEW i \in 1 .. l PROVE SegOK(segs[i])
      <4>1. i \in 1 .. Len(p) \/ i = Len(p) + 1
        BY <3>1
      <4> QED
        BY <3>1, <4>1
    <3> QED
      BY <3>1, <3>2
  <2> HIDE DEF segs, l
  <2>5. PICK k \in 0 .. l, n \in Nat : /\ Progress(Now, m, segs, k, n)
                                       /\ k > 0 => n <= SegSize(segs[k])
    BY <2>3 DEF SegmentsDone
  <2>6. k \in Nat
    BY <2>4, <2>5
  <2>7. LoadsBy(segs, k, n, flat, flat', nx_ok)
    BY <2>1, <2>2, <2>5, <2>6, LoadsFlat
  <2>8. CASE k = 0
    <3>1. UNION {Reached(segs, k, n, i) : i \in 1 .. k} = {}
      BY <2>8
    <3>2. RemapsBy(flat, flat', {})
      BY <2>7, <3>1, Zenon DEF LoadsBy
    <3>3. Changes(flat, flat', {})
      BY <3>2 DEF RemapsBy, Changes
    <3> QED
      BY <2>1, <3>3, SameMap
  <2>9. CASE k # 0
    <3>1. k \in DOMAIN segs /\ k > 0
      BY <2>4, <2>6, <2>9
    <3>2. n \in 0 .. SegSize(segs[k])
      <4>1. SegOK(segs[k])
        BY <2>4, <3>1
      <4>2. SegSize(segs[k]) \in Nat
        BY <4>1 DEF SegOK, SegSize, Page
      <4> QED
        BY <2>5, <3>1, <4>2
    <3>3. \E x \in DOMAIN segs : \E y \in 0 .. SegSize(segs[x]) :
             LoadsBy(segs, x, y, flat, flat', nx_ok)
      BY <2>7, <3>1, <3>2
    <3>4. Flat!Load(p)
      BY <3>3, Zenon DEF Flat!Load, Flat!First, Flat!Count, Flat!Remaps,
             LoadsBy, Reached, First, SegSize, RemapsBy, segs, Segs, StackSeg
    <3> QED
      BY <3>4
  <2> QED
    BY <2>8, <2>9
<1> QED
  BY <1>4, <1>5

\* The span of a program is the lowest start and the highest end.
LEMMA SpanIs ==
    ASSUME NEW p \in Programs
    PROVE  /\ \A i \in DOMAIN p : SpanOf(p).lo <= p[i].lo /\ p[i].hi <= SpanOf(p).hi
           /\ \E i \in DOMAIN p : SpanOf(p).lo = p[i].lo
           /\ \E i \in DOMAIN p : SpanOf(p).hi = p[i].hi
<1> DEFINE L == {p[i].lo : i \in DOMAIN p}
           H == {p[i].hi : i \in DOMAIN p}
<1>1. /\ Len(p) \in Nat \ {0} /\ DOMAIN p = 1 .. Len(p)
      /\ \A i \in 1 .. Len(p) : SegOK(p[i]) /\ p[i].hi < Stack.lo
  BY ProgramFacts
<1>2. Stack.lo \in Nat
  BY PagingAssumption
<1>3. \A i \in DOMAIN p : p[i].lo \in Nat /\ p[i].hi \in Nat /\ p[i].hi < Stack.lo
  BY <1>1 DEF SegOK
<1>4. /\ L \in SUBSET Nat /\ L # {} /\ H \in SUBSET Nat /\ H # {}
      /\ \A x \in H : x <= Stack.lo
      /\ \A i \in DOMAIN p : p[i].lo \in L /\ p[i].hi \in H
      /\ \A x \in L : \E i \in DOMAIN p : x = p[i].lo
      /\ \A x \in H : \E i \in DOMAIN p : x = p[i].hi
  <2>1. 1 \in DOMAIN p
    BY <1>1
  <2>2. p[1].lo \in L /\ p[1].hi \in H
    BY <2>1
  <2>3. \A x \in H : x \in Nat /\ x < Stack.lo
    BY <1>3
  <2>4. \A x \in L : x \in Nat
    BY <1>3
  <2>5. /\ \A i \in DOMAIN p : p[i].lo \in L /\ p[i].hi \in H
        /\ \A x \in L : \E i \in DOMAIN p : x = p[i].lo
        /\ \A x \in H : \E i \in DOMAIN p : x = p[i].hi
    OBVIOUS
  <2> HIDE DEF L, H
  <2> QED
    BY <1>2, <2>2, <2>3, <2>4, <2>5
<1>5. SpanOf(p).lo = Min(L) /\ SpanOf(p).hi = Max(H)
  BY DEF SpanOf
<1> HIDE DEF L, H
<1>6. Min(L) \in L /\ \A k \in L : Min(L) <= k
  <2>1. \E n \in L : \A k \in L : n <= k
    BY <1>4, LeastNat
  <2> QED
    BY <2>1, Zenon DEF Min
<1>7. Max(H) \in H /\ \A k \in H : Max(H) >= k
  <2>1. PICK n \in H : \A k \in H : k <= n
    BY <1>2, <1>4, GreatestNat
  <2>2. \A k \in H : n >= k
    BY <1>4, <2>1
  <2> QED
    BY <2>2, Zenon DEF Max
<1>8. SpanOf(p).lo \in L /\ \A k \in L : SpanOf(p).lo <= k
  BY <1>5, <1>6
<1>9. SpanOf(p).hi \in H /\ \A k \in H : k <= SpanOf(p).hi
  BY <1>4, <1>5, <1>7
<1> QED
  BY <1>4, <1>8, <1>9, Zenon

\* AddressMap's Unload, as a relation of two maps
GoneBy(p, F, a) == \/ \E i, j \in DOMAIN p : p[i].lo <= a /\ a < p[j].hi
                   \/ StackSeg.lo <= a /\ a < StackSeg.hi
UnloadsBy(p, F, G) ==
    G = [a \in DOMAIN F \ {b \in DOMAIN F : GoneBy(p, F, b)} |-> F[a]]

\* The pages vm_user_unmap_range is called for are those of the segments and
\* what lies between them.
LEMMA UnmapsFlat ==
    ASSUME NEW p \in Programs, NEW m, NEW r,
           Unmaps(m, r, Between(SpanOf(p).lo, SpanOf(p).hi) \cup Between(Stack.lo, Stack.hi))
    PROVE  UnloadsBy(p, Flatten(m), Flatten(r))
<1> DEFINE F == Flatten(m)
           G == Flatten(r)
           lo == SpanOf(p).lo
           hi == SpanOf(p).hi
           S == Between(lo, hi) \cup Between(Stack.lo, Stack.hi)
           gone == {b \in DOMAIN F : GoneBy(p, F, b)}
<1>1. /\ \A b : b \notin S => (b \in DOMAIN G <=> b \in DOMAIN F)
      /\ \A b \in DOMAIN F : b \notin S => G[b] = F[b]
      /\ \A b \in S : b \notin DOMAIN G
  BY DEF Unmaps, Changes
<1>2. G = [a \in DOMAIN G |-> G[a]]
  BY FlattenFun
<1>3. ASSUME NEW b \in DOMAIN F PROVE b \in AllPages /\ b \in Nat
  <2>1. b \in AllPages
    BY Zenon DEF Flatten
  <2> QED
    BY <2>1, PageNumbers
<1>4. \A i \in DOMAIN p : p[i].lo \in Nat /\ p[i].hi \in Nat
  BY ProgramFacts DEF SegOK
<1>5. lo \in Nat /\ hi \in Nat
  BY SpanFits
<1>6. StackSeg.lo = Stack.lo /\ StackSeg.hi = Stack.hi
  BY DEF StackSeg
<1>7. ASSUME NEW b \in DOMAIN F
      PROVE  (\E i, j \in DOMAIN p : p[i].lo <= b /\ b < p[j].hi) <=> lo <= b /\ b < hi
  <2>1. /\ \A i \in DOMAIN p : lo <= p[i].lo /\ p[i].hi <= hi
        /\ \E i \in DOMAIN p : lo = p[i].lo
        /\ \E i \in DOMAIN p : hi = p[i].hi
    BY SpanIs
  <2>2. b \in Nat
    BY <1>3
  <2> HIDE DEF lo, hi
  <2>3. ASSUME NEW i \in DOMAIN p, NEW j \in DOMAIN p, p[i].lo <= b, b < p[j].hi
        PROVE  lo <= b /\ b < hi
    BY <1>4, <1>5, <2>1, <2>2, <2>3
  <2>4. ASSUME lo <= b, b < hi
        PROVE  \E i, j \in DOMAIN p : p[i].lo <= b /\ b < p[j].hi
    BY <2>1, <2>4
  <2> QED
    BY <2>3, <2>4
<1>8. ASSUME NEW b \in DOMAIN F PROVE GoneBy(p, F, b) <=> b \in S
  <2>1. b \in S <=> (lo <= b /\ b < hi) \/ (Stack.lo <= b /\ b < Stack.hi)
    BY <1>3 DEF Between
  <2> HIDE DEF lo, hi, S
  <2> QED
    BY <1>6, <1>7, <2>1, Zenon DEF GoneBy
<1> HIDE DEF F, G, S
<1>9. DOMAIN G = DOMAIN F \ gone
  BY <1>1, <1>8
<1>10. \A a \in DOMAIN G : G[a] = F[a]
  BY <1>1, <1>8
<1>11. G = [a \in DOMAIN F \ gone |-> F[a]]
  BY <1>2, <1>9, <1>10
<1> QED
  BY <1>11, Zenon DEF UnloadsBy, F, G

\* The end of a program takes it out of the map.
LEMMA UnloadStep ==
    ASSUME PInv, ProgramEnds
    PROVE  \E p \in Programs : Flat!Unload(p)
<1> DEFINE m == Unmap(Unmap(Now, span.lo, span.hi), Stack.lo, Stack.hi)
<1>1. Become(m, live) /\ stage = "running"
  BY DEF ProgramEnds
<1>2. PICK p \in Programs : span = SpanOf(p)
  BY <1>1 DEF PInv, StageInv
<1>3. live /\ Serves(Now, bi, bars) /\ bi \in BootInfos /\ bars \in SUBSET Bars
  BY <1>1 DEF PInv, StageInv, TablesInv, MemoryInv
<1>4. Unmaps(Now, m, Between(SpanOf(p).lo, SpanOf(p).hi) \cup Between(Stack.lo, Stack.hi))
  BY <1>2, <1>3, ServesEnded
<1> HIDE DEF m
<1>5. flat' = Flatten(m) /\ flat = Flatten(Now)
  BY <1>1, <1>3 DEF Become, PInv, TablesInv
<1>6. UnloadsBy(p, flat, flat')
  BY <1>4, <1>5, UnmapsFlat
<1>7. Flat!Unload(p)
  BY <1>6, Zenon DEF Flat!Unload, Flat!Spans, UnloadsBy, GoneBy, StackSeg
<1> QED
  BY <1>7

\* Each operation is one of AddressMap's, or leaves the map alone.
LEMMA FlatStep ==
    ASSUME PInv, [PagingNext]_pagingVars
    PROVE  [Flat!Next]_flat
<1>1. CASE paging_init
  BY <1>1, BuildStep DEF Flat!Next
<1>2. ASSUME NEW r \in Bars, vm_ensure_identity(r) PROVE [Flat!Next]_flat
  BY <1>2, WidenStep DEF Flat!Next
<1>3. ASSUME NEW p \in Programs, elf_run(p) PROVE [Flat!Next]_flat
  BY <1>3, LoadStep DEF Flat!Next
<1>4. CASE ProgramEnds
  BY <1>4, UnloadStep DEF Flat!Next
<1>5. ASSUME NEW n \in Sizes, ConsoleAlloc(n) PROVE flat' = flat
  BY <1>5 DEF ConsoleAlloc
<1>6. ASSUME NEW n \in DmaSizes, NEW a \in DmaAligns, DriverAlloc(n, a) PROVE flat' = flat
  BY <1>6 DEF DriverAlloc
<1>7. CASE \/ DriversDone \/ UNCHANGED pagingVars \/ \E va \in Window : Touch(va)
  BY <1>7 DEF DriversDone, Touch, pagingVars, memory
<1> QED
  BY <1>1, <1>2, <1>3, <1>4, <1>5, <1>6, <1>7 DEF PagingNext

\* The four levels of tables, shared, split and never complete when the
\* memory runs out, are the flat map that their callers see: paging.c
\* implements AddressMap.
THEOREM TablesAreFlat == PagingSpec => FlatMap
<1>1. PagingInit => Flat!Init
  BY DEF PagingInit, Flat!Init
<1>2. PInv /\ [PagingNext]_pagingVars => [Flat!Next]_flat
  BY FlatStep
<1> QED
  BY <1>1, <1>2, TablesServe, PTL DEF PagingSpec, FlatMap, Flat!Spec
=============================================================================
