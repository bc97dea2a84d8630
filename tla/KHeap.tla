------------------------------- MODULE KHeap -------------------------------
(***************************************************************************)
(* The kernel's bump heap: kalloc, kalloc_page and kalloc_used (kmain.c)   *)
(* and the DMA allocator usb.c builds on kalloc.  Nothing is ever freed.   *)
(* Addresses are bytes, physical = virtual (identity map).                 *)
(*                                                                         *)
(* heap_at is the code's bump pointer; blocks is the ledger of what the    *)
(* callers were given: [lo, hi) and the alignment they were promised.      *)
(***************************************************************************)
EXTENDS Integers

CONSTANTS
    AddrSpace,   \* 2^64 in the code: every sum is taken modulo it
    HeapBase,    \* bi->heap_base, from the loader's AllocatePages
    HeapSize,    \* bi->heap_size
    Sizes,       \* arguments of kalloc: any size_t, framebuffer-dependent
    DmaSizes,    \* sizes of dma_alloc
    DmaAligns    \* alignments of dma_alloc: 64, 4096 or the controller page

HeapEnd == HeapBase + HeapSize

\* AllocatePages returns whole pages, in physical memory that stays clear of
\* the last page of the 64-bit address space.
ASSUME HeapAssumption ==
    /\ AddrSpace \in Nat
    /\ HeapBase \in Nat \ {0} /\ HeapSize \in Nat
    /\ HeapBase % 4096 = 0 /\ HeapSize % 4096 = 0
    /\ HeapEnd + 4096 <= AddrSpace

ASSUME RequestAssumption ==
    /\ Sizes \subseteq 1 .. (AddrSpace - 1)
    /\ DmaSizes \subseteq Nat \ {0}
    /\ DmaAligns \subseteq Nat \ {0}
    /\ \A n \in DmaSizes, a \in DmaAligns : n + a < AddrSpace

VARIABLES heap_at, blocks

vars == <<heap_at, blocks>>

-----------------------------------------------------------------------------
\* (x + a-1) & ~(a-1) for a power of two a
AlignUp(x, a) == (((x + a - 1) % AddrSpace) \div a) * a

Block(lo, n, a) == [lo |-> lo, hi |-> lo + n, align |-> a]

Fits(at, n) == at <= HeapEnd /\ n <= HeapEnd - at

BumpEager(n, a, block) ==
    LET at == AlignUp(heap_at, a)
    IN /\ heap_at' = (at + n) % AddrSpace
       /\ blocks' = IF Fits(at, n) THEN blocks \cup {block} ELSE blocks

(* Every allocator first moves heap_at up to its own alignment, and leaves *)
(* it there when the request is refused.                                   *)
Bump(n, a, block) ==
    LET at == AlignUp(heap_at, a)
    IN \/ /\ Fits(at, n)
          /\ heap_at' = at + n
          /\ blocks' = blocks \cup {block}
       \/ /\ ~Fits(at, n)
          /\ heap_at' = at
          /\ UNCHANGED blocks

Kalloc(n) == Bump(n, 16, Block(AlignUp(heap_at, 16), n, 16))

KallocPage == Bump(4096, 4096, Block(AlignUp(heap_at, 4096), 4096, 4096))

DmaAllocNoSlack(n, a) ==
    Bump(n, 16, Block(AlignUp(AlignUp(heap_at, 16), a), n, a))

DmaAlloc(n, a) ==
    Bump((n + a) % AddrSpace, 16, Block(AlignUp(AlignUp(heap_at, 16), a), n, a))

Init == heap_at = HeapBase /\ blocks = {}

Next == \/ \E n \in Sizes : Kalloc(n)
        \/ KallocPage
        \/ \E n \in DmaSizes, a \in DmaAligns : DmaAlloc(n, a)

Spec == Init /\ [][Next]_vars

\* what the shell's "mem" builtin prints
kalloc_used == heap_at - HeapBase

FreePages == (HeapEnd - AlignUp(heap_at, 4096)) \div 4096

-----------------------------------------------------------------------------
(* The bump pointer is a u64; a block is a start, an end and an alignment. *)
TypeOK ==
    /\ heap_at \in 0 .. (AddrSpace - 1)
    /\ blocks \subseteq [lo : Nat, hi : Nat, align : Nat]

(* No two blocks ever share a byte: a framebuffer shadow, a page table, a  *)
(* TRB ring and a user page come from the same heap, and a device writes   *)
(* into some of them behind the kernel's back (kmain.c kalloc, usb.c       *)
(* dma_alloc, which over-allocates and rounds the pointer up).             *)
BlocksDisjoint ==
    \A b, c \in blocks : b # c => b.hi <= c.lo \/ c.hi <= b.lo

(* Every block lies in the heap the loader reserved and below the bump     *)
(* pointer, also after a request close to 2^64 (the "no wrap" test).       *)
BlocksInHeap ==
    \A b \in blocks : HeapBase <= b.lo /\ b.lo < b.hi /\ b.hi <= heap_at

(* A block starts on the boundary its caller asked for: 16, a page for     *)
(* page tables and user pages, the DMA alignment for the controller.       *)
BlocksAligned ==
    \A b \in blocks : b.lo % b.align = 0

(* All of it: a block is its owner's alone, in the heap, where asked for.  *)
BlocksSafe == BlocksDisjoint /\ BlocksInHeap /\ BlocksAligned

(* "heap used" never exceeds the heap: rounding up to a page or refusing a *)
(* request cannot leave heap_at past heap_end, although kalloc and         *)
(* kalloc_page both test for it.                                           *)
UsedWithinHeap == HeapBase <= heap_at /\ heap_at <= HeapEnd

(* A refused request costs padding and nothing more: the number of whole   *)
(* pages still to be had is what it was, so an out-of-memory program does  *)
(* not make the next one fail.                                             *)
RefusalCostsNoPage ==
    [][blocks' = blocks => FreePages' = FreePages]_vars
=============================================================================
