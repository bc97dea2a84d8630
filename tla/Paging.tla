------------------------------- MODULE Paging -------------------------------
(***************************************************************************)
(* The kernel's 4-level page tables (paging.c) on the bump heap of KHeap:  *)
(* paging_init, vm_ensure_identity, vm_user_map and vm_user_unmap_range,   *)
(* in the order kmain, usb.c and proc.c call them, with the memory running *)
(* out at any page.  Addresses are bytes; a table has Fan entries.         *)
(*                                                                         *)
(* A function of the code is an operator on the state m of the heap and    *)
(* the tables; m.ret is what it returns, 0 for NULL or failure.  Nothing   *)
(* runs between the stores of one call, so an action is a whole call.      *)
(* The processor's part is Walk and the translations it keeps (tlb).       *)
(***************************************************************************)
EXTENDS KHeap, SequencesExt

CONSTANTS
    Fan,             \* entries of a table: 512
    Low,             \* what is mapped whatever the boot info says: 4 GiB
    UserBase, UserTop,
    Stack,           \* the stack's pages, [lo |-> USTACK_LO, hi |-> USER_STACK_TOP]
    BootInfos,       \* where the firmware put things: see Bi below
    Bars,            \* xHCI BARs, each [base, len]
    Programs,        \* sequences of segments [lo, hi, w, x], page-aligned
    MaxKallocs,      \* con_init asks at most three times
    MaxDma           \* bound on the DMA blocks of the USB driver

VARIABLES
    mem,             \* the tables: address -> entries
    pml4, nx_ok,     \* the statics of the same name
    live,            \* CR3 holds pml4
    bi,              \* the boot info, the kernel image and the LAPIC
    stage,           \* boot, usb, shell, or running (a program)
    span,            \* img_lo and img_hi of the program
    calls, bars,     \* kallocs or DMA blocks so far; BARs mapped so far
    tlb,             \* translations the processor holds: page -> translation
    flat             \* ghost: what live tables amount to, page -> translation

memory     == <<vars, mem, pml4, nx_ok, live, flat>>
place      == <<bi, stage, span, calls, bars>>
pagingVars == <<memory, place, tlb>>

Page == 4096
\* what an entry of a table at each level covers; Span(2) is "2 MiB"
Span(l) == Page * (CASE l = 1 -> 1 [] l = 2 -> Fan [] l = 3 -> Fan * Fan
                     [] l = 4 -> Fan * Fan * Fan)
Index(va, l) == (va \div Span(l)) % Fan

ASSUME PagingAssumption ==
    /\ Fan \in Nat \ {0, 1} /\ MaxKallocs \in Nat /\ MaxDma \in Nat
    /\ Low \in Nat /\ Low % Span(3) = 0
    /\ UserBase \in Nat /\ UserTop \in Nat
    /\ UserBase % Span(4) = 0 /\ UserTop % Span(2) = 0
    /\ Low <= UserBase /\ UserBase < Stack.lo /\ Stack.lo < Stack.hi /\ Stack.hi < UserTop
    /\ UserTop <= Fan * Span(4)
    /\ Stack \in [lo : Nat, hi : Nat] /\ Stack.lo % Page = 0 /\ Stack.hi % Page = 0

\* what is left of a program after elf_run's checks, rounded to pages
ASSUME ProgramsAssumption ==
    \A p \in Programs :
        /\ p \in Seq([lo : Nat, hi : Nat, w : BOOLEAN, x : BOOLEAN]) /\ p # <<>>
        /\ \A i \in DOMAIN p :
              /\ UserBase <= p[i].lo /\ p[i].lo < p[i].hi /\ p[i].hi < Stack.lo
              /\ p[i].lo % Page = 0 /\ p[i].hi % Page = 0

Ranges == [base : Nat, len : Nat]
InRam(r) == r \in Ranges /\ r.base + r.len <= UserBase

(* Physical addresses end below USER_BASE (112 TiB); usb.c asks for 64 KiB *)
(* of each BAR; linker.ld starts the three parts of the image on a page,   *)
(* in this order, and the loader allocates image and heap apart.           *)
ASSUME PlacesAssumption ==
    /\ HeapEnd <= UserBase
    /\ \A r \in Bars : InRam(r) /\ r.len > 0
    /\ \A b \in BootInfos :
          /\ \A r \in {b.text, b.rodata, b.data, b.fb, b.splash, b.initrc, b.lapic} : InRam(r)
          /\ \A r \in {b.text, b.rodata, b.data} : r.base % Page = 0
          /\ 0 < b.text.base /\ 0 < b.text.len
          /\ b.text.base + b.text.len <= b.rodata.base
          /\ b.rodata.base + b.rodata.len <= b.data.base
          /\ b.data.base + b.data.len <= HeapBase \/ HeapEnd <= b.text.base

-----------------------------------------------------------------------------
(* Page table entries: P, W, U, PS, NX and the address.                    *)
Flags(w, u, nx) == [w |-> w, u |-> u, nx |-> nx]
Entry(addr, f)  == [p |-> TRUE, ps |-> FALSE, w |-> f.w, u |-> f.u, nx |-> f.nx, addr |-> addr]
Huge(addr, f)   == [Entry(addr, f) EXCEPT !.ps = TRUE]
NoEntry         == [Entry(0, Flags(FALSE, FALSE, FALSE)) EXCEPT !.p = FALSE]
ZeroTable       == [i \in 0 .. (Fan - 1) |-> NoEntry]

Now == [at |-> heap_at, blocks |-> blocks, mem |-> mem, pml4 |-> pml4, nx |-> nx_ok, ret |-> 1]

\* KHeap's KallocPage, for a caller that goes on with the result.
kalloc_page(m) ==
    LET at == AlignUp(m.at, Page)
    IN IF Fits(at, Page)
       THEN [m EXCEPT !.at = at + Page, !.blocks = @ \cup {Block(at, Page, Page)}, !.ret = at]
       ELSE [m EXCEPT !.at = at, !.ret = 0]

\* The rest of a function, unless what came before returned 0.
Then(m, op(_)) == IF m.ret = 0 THEN m ELSE op(m)

\* op on one element of s after the other: the first failure returns
Over(m, s, op(_, _)) ==
    LET after[i \in 0 .. Len(s)] ==
            IF i = 0 THEN m ELSE Then(after[i - 1], LAMBDA n : op(n, s[i]))
    IN after[Len(s)]

\* for(a = from; a < to; a += step)
Steps(from, to, step) ==
    [i \in 1 .. ((to - from + step - 1) \div step) |-> from + (i - 1) * step]
Each(m, from, to, step, op(_, _)) == Over([m EXCEPT !.ret = 1], Steps(from, to, step), op)

Put(m, tab, idx, e) == [m EXCEPT !.mem[tab][idx] = e, !.ret = 1]

FreshTable(m, tab, idx, f) ==      \* a zeroed page, hung into tab[idx]
    Then(kalloc_page(m),
         LAMBDA n : [n EXCEPT !.mem = [t \in {n.ret} \cup DOMAIN @ |->
                        IF t = n.ret THEN ZeroTable
                        ELSE IF t = tab THEN [@[t] EXCEPT ![idx] = Entry(n.ret, f)] ELSE @[t]]])

next_level_late_user(m, tab, idx, user) ==
    LET e == m.mem[tab][idx]
    IN CASE ~e.p -> FreshTable(m, tab, idx, Flags(TRUE, FALSE, FALSE))
         [] e.p /\ e.ps -> [m EXCEPT !.ret = 0]
         [] OTHER -> [m EXCEPT !.ret = e.addr, !.mem[tab][idx].u = @ \/ user]

next_level(m, tab, idx, user) ==
    LET e == m.mem[tab][idx]
    IN CASE ~e.p -> FreshTable(m, tab, idx, Flags(TRUE, user, FALSE))
         [] e.p /\ e.ps -> [m EXCEPT !.ret = 0]
         [] OTHER -> [m EXCEPT !.ret = e.addr, !.mem[tab][idx].u = @ \/ user]

\* the two calls every walk begins with: the page directory of va
page_dir(m, va, user) ==
    Then(next_level(m, m.pml4, Index(va, 4), user),
         LAMBDA n : next_level(n, n.ret, Index(va, 3), user))

map_2m(m, va, f) ==
    Then(page_dir(m, va, FALSE), LAMBDA n : Put(n, n.ret, Index(va, 2), Huge(va, f)))

SplitFlat(m, pd, di, user) ==
    LET e == m.mem[pd][di]
        s == FreshTable(m, pd, di, Flags(TRUE, user, FALSE))
    IN Then(s, LAMBDA n : [n EXCEPT !.mem[n.ret] =
                  [i \in 0 .. (Fan - 1) |-> Entry(e.addr, e)]])

(* A large page in the way: Fan small ones with the same permissions.      *)
Split(m, pd, di, user) ==
    LET e == m.mem[pd][di]
        s == FreshTable(m, pd, di, Flags(TRUE, user, FALSE))
    IN Then(s, LAMBDA n : [n EXCEPT !.mem[n.ret] =
                  [i \in 0 .. (Fan - 1) |-> Entry(e.addr + i * Page, e)]])

pt_for(m, va, user) ==
    Then(page_dir(m, va, user), LAMBDA n :
         LET pd == n.ret
             di == Index(va, 2)
             e  == n.mem[pd][di]
         IN Then(IF e.p /\ e.ps THEN Split(n, pd, di, user) ELSE n,
                 LAMBDA s : next_level(s, pd, di, user)))

map_4k(m, va, pa, f, user) ==
    Then(pt_for(m, va, user), LAMBDA n : Put(n, n.ret, Index(va, 1), Entry(pa, f)))

-----------------------------------------------------------------------------
Floor(a, unit) == (a \div unit) * unit

\* the entry of e's table that translates va, or none
Under(m, e, va, l) == IF e.p THEN m.mem[e.addr][Index(va, l)] ELSE NoEntry

(* The processor's walk to va, and what it makes of it: rights are the AND *)
(* of all levels, NX the OR.                                               *)
Path(m, va) ==
    LET e4 == m.mem[m.pml4][Index(va, 4)]
        e3 == Under(m, e4, va, 3)
        e2 == Under(m, e3, va, 2)
    IN <<e4, e3, e2, IF e2.ps THEN e2 ELSE Under(m, e2, va, 1)>>

Translation(path, va) ==
    [frame |-> IF path[3].ps THEN path[3].addr + Floor(va % Span(2), Page) ELSE path[4].addr,
     w |-> \A i \in 1 .. 4 : path[i].w,
     u |-> \A i \in 1 .. 4 : path[i].u,
     x |-> \A i \in 1 .. 4 : ~path[i].nx]

PagesIn(r) == {a * Page : a \in (r.base \div Page) .. ((r.base + r.len - 1) \div Page)}
AllPages   == PagesIn([base |-> 0, len |-> Fan * Span(4)])
Window     == PagesIn([base |-> UserBase, len |-> UserTop - UserBase])

Flatten(m) == [a \in {b \in AllPages : Path(m, b)[4].p} |-> Translation(Path(m, a), a)]

Become(m, loaded) ==
    /\ heap_at' = m.at /\ blocks' = m.blocks
    /\ mem' = m.mem /\ pml4' = m.pml4 /\ nx_ok' = m.nx
    /\ live' = loaded
    /\ flat' = IF loaded THEN Flatten(m) ELSE <<>>

\* RW and, where the processor has it, NX: what everything else gets
Data(m) == Flags(TRUE, FALSE, m.nx)

protect_short(m, s, f) ==
    Each(m, s.base, Floor(s.base + s.len, Page), Page,
         LAMBDA n, a : map_4k(n, a, a, f, FALSE))

protect(m, s, f) ==
    Each(m, Floor(s.base, Page), Floor(s.base + s.len + Page - 1, Page), Page,
         LAMBDA n, a : map_4k(n, a, a, f, FALSE))

MapExtraUnrounded(m, r) ==
    IF r.base = 0 \/ r.len = 0 THEN m
    ELSE Each(m, Floor(r.base, Span(2)), Floor(r.base, Span(2)) + r.len, Span(2),
              LAMBDA n, a : IF a < Low THEN n ELSE map_2m(n, a, Data(n)))

\* one element of extra[]: what of it is below Low is mapped already
MapExtra(m, r) ==
    IF r.base = 0 \/ r.len = 0 THEN m
    ELSE Each(m, Floor(r.base, Span(2)), r.base + r.len, Span(2),
              LAMBDA n, a : IF a < Low THEN n ELSE map_2m(n, a, Data(n)))

\* the kernel image, __text_start to __kernel_end
Kernel(b) == [base |-> b.text.base, len |-> b.data.base + b.data.len - b.text.base]

extra(b) == <<[base |-> HeapBase, len |-> HeapSize], b.fb, b.splash, b.initrc,
              Kernel(b), b.lapic>>

IdentityMap(m) == Each(m, 0, Low, Span(2), LAMBDA n, a : map_2m(n, a, Data(n)))
Extras(m, b)   == Over(m, extra(b), MapExtra)

KernelWX(m, b) ==
    Then(Then(protect(m, b.text, Flags(FALSE, FALSE, FALSE)),
              LAMBDA n : protect(n, b.rodata, Flags(FALSE, FALSE, n.nx))),
         LAMBDA n : protect(n, b.data, Data(n)))

\* the tables paging_init builds, as far as the memory lasts
Built(m, b) ==
    LET root == Then(kalloc_page(m), LAMBDA n :
                     [n EXCEPT !.pml4 = n.ret, !.mem = [t \in {n.ret} |-> ZeroTable]])
        low  == Then(root, IdentityMap)
        all  == Then(low, LAMBDA n : Extras(n, b))
    IN Then(all, LAMBDA n : KernelWX(n, b))

(* paging_init: on failure the kernel stays on the firmware's tables, and  *)
(* pml4 keeps pointing at what was built so far.                           *)
paging_init ==
    /\ stage = "boot"
    /\ \E nx \in BOOLEAN :
          LET m == Built([Now EXCEPT !.nx = nx, !.pml4 = 0], bi)
          IN Become(m, m.ret # 0)
    /\ stage' = "usb" /\ calls' = 0 /\ tlb' = <<>>
    /\ UNCHANGED <<bi, span, bars>>

-----------------------------------------------------------------------------
(* Entries already present are left alone, whatever they say.              *)
Ensure(m, r) ==
    Each(m, Floor(r.base, Span(2)), r.base + r.len, Span(2), LAMBDA n, a :
         Then(page_dir(n, a, FALSE), LAMBDA o :
              IF o.mem[o.ret][Index(a, 2)].p THEN o
              ELSE Put(o, o.ret, Index(a, 2), Huge(a, Data(o)))))

(* xhci_init_one, once per controller.                                     *)
vm_ensure_identity(r) ==
    /\ stage = "usb" /\ r \notin bars
    /\ bars' = bars \cup {r}
    /\ IF pml4 = 0 \/ r.len = 0 THEN UNCHANGED <<memory, tlb>>
       ELSE LET m == Ensure(Now, r)
            IN Become(m, live) /\ tlb' = IF m.ret = 0 THEN tlb ELSE <<>>
    /\ UNCHANGED <<bi, stage, span, calls>>

vm_user_map(m, va, pa, w, x) ==
    IF va < UserBase \/ va >= UserTop THEN [m EXCEPT !.ret = 0]
    ELSE map_4k(m, va, pa, Flags(w, TRUE, ~x /\ m.nx), TRUE)

load_segment_hoisted(m, s) ==
    LET pg == kalloc_page(m)
    IN Then(pg, LAMBDA n :
            Each(n, s.lo, s.hi, Page, LAMBDA o, va : vm_user_map(o, va, pg.ret, s.w, s.x)))

(* A fresh page per page of the segment (its bytes: UserProc).             *)
load_segment(m, s) ==
    Each(m, s.lo, s.hi, Page, LAMBDA n, va :
         Then(kalloc_page(n), LAMBDA o : vm_user_map(o, va, o.ret, s.w, s.x)))

SpanOf(p) == [lo |-> Min({p[i].lo : i \in DOMAIN p}), hi |-> Max({p[i].hi : i \in DOMAIN p})]

(* The headers of a program, its checks of one cut down to W^X, then its   *)
(* stack.                                                                  *)
Loaded(m, p) ==
    LET Checked(n, s) == IF s.w /\ s.x THEN [n EXCEPT !.ret = 0] ELSE load_segment(n, s)
        segs == Over(m, p, Checked)
    IN Then(segs, LAMBDA n :
            load_segment(n, [lo |-> Stack.lo, hi |-> Stack.hi, w |-> TRUE, x |-> FALSE]))

(* elf_run up to user_enter.  When a header is refused or the memory runs  *)
(* out, what was mapped stays.                                             *)
elf_run(p) ==
    /\ stage = "shell"
    /\ LET m == Loaded(Now, p)
       IN /\ Become(m, live) /\ stage' = IF m.ret = 0 THEN "shell" ELSE "running"
          /\ span' = IF m.ret = 0 THEN span ELSE SpanOf(p)
    /\ UNCHANGED <<bi, calls, bars, tlb>>

Unmap(m, lo, hi) ==
    Each(m, Floor(lo, Page), hi, Page, LAMBDA n, va :
         LET e2 == Under(n, Under(n, n.mem[n.pml4][Index(va, 4)], va, 3), va, 2)
         IN IF ~e2.p \/ e2.ps THEN n ELSE Put(n, e2.addr, Index(va, 1), NoEntry))

ProgramEndsStale ==
    /\ stage = "running"
    /\ Become(Unmap(Unmap(Now, span.lo, span.hi), Stack.lo, Stack.hi), live)
    /\ stage' = "shell"
    /\ UNCHANGED <<tlb, bi, span, calls, bars>>

(* The program is over: vm_user_unmap_range for the image and the stack,   *)
(* each with a CR3 reload.                                                 *)
ProgramEnds ==
    /\ stage = "running"
    /\ Become(Unmap(Unmap(Now, span.lo, span.hi), Stack.lo, Stack.hi), live)
    /\ stage' = "shell" /\ tlb' = <<>>
    /\ UNCHANGED <<bi, span, calls, bars>>

-----------------------------------------------------------------------------
\* con_init's buffers, before the tables are built
ConsoleAlloc(n) ==
    /\ stage = "boot" /\ calls < MaxKallocs
    /\ calls' = calls + 1
    /\ Kalloc(n)
    /\ UNCHANGED <<mem, pml4, nx_ok, live, flat, bi, stage, span, bars, tlb>>

\* rings and contexts of the USB driver, whenever the shell or a program waits
DriverAlloc(n, a) ==
    /\ stage # "boot" /\ calls < MaxDma
    /\ calls' = calls + 1
    /\ DmaAlloc(n, a)
    /\ UNCHANGED <<mem, pml4, nx_ok, live, flat, bi, stage, span, bars, tlb>>

DriversDone ==                         \* usbkbd_init returns; the shell starts
    /\ stage = "usb"
    /\ stage' = "shell"
    /\ UNCHANGED <<memory, bi, span, calls, bars, tlb>>

\* A program touches one of its pages, and the processor keeps the translation.
Touch(va) ==
    /\ stage = "running" /\ va \notin DOMAIN tlb
    /\ va \in DOMAIN flat /\ flat[va].u
    /\ tlb' = [a \in {va} \cup DOMAIN tlb |-> IF a = va THEN flat[va] ELSE tlb[a]]
    /\ UNCHANGED <<memory, place>>

PagingInit ==
    /\ Init
    /\ mem = <<>> /\ pml4 = 0 /\ nx_ok = FALSE /\ live = FALSE
    /\ flat = <<>>
    /\ bi \in BootInfos
    /\ stage = "boot" /\ span = [lo |-> 0, hi |-> 0]
    /\ calls = 0 /\ bars = {} /\ tlb = <<>>

PagingNext ==
    \/ \E n \in Sizes : ConsoleAlloc(n)
    \/ paging_init
    \/ \E r \in Bars : vm_ensure_identity(r)
    \/ \E n \in DmaSizes, a \in DmaAligns : DriverAlloc(n, a)
    \/ DriversDone
    \/ \E p \in Programs : elf_run(p)
    \/ \E va \in Window : Touch(va)
    \/ ProgramEnds

PagingSpec == PagingInit /\ [][PagingNext]_pagingVars

-----------------------------------------------------------------------------
UserOkLeaf(va) == LET path == Path(Now, va)
                  IN ~path[3].ps /\ path[4].p /\ path[4].u

\* vm_user_ok: it looks at the U bit of the last level only.
vm_user_ok(va, len) ==
    \/ len = 0
    \/ /\ UserBase <= va /\ va < UserTop /\ len <= UserTop - va
       /\ \A a \in PagesIn([base |-> va, len |-> len]) : UserOkLeaf(a)

-----------------------------------------------------------------------------
\* the pages that a range of the boot info asks for, and all of them
Wide(r) == {a \in AllPages : /\ r.base # 0 /\ r.len # 0
                             /\ Floor(r.base, Span(2)) <= a
                             /\ Floor(a, Span(2)) < r.base + r.len}
BootPages(b) == {a \in AllPages : a < Low} \cup UNION {Wide(r) : r \in Range(extra(b))}

\* The map the boot info asks for, page by page.
BootMap(b, nx) ==
    [a \in BootPages(b) |->
        [frame |-> a, w |-> a \notin PagesIn(b.text) \cup PagesIn(b.rodata),
         u |-> FALSE, x |-> a \in PagesIn(b.text) \/ ~nx]]

(* Splitting, sharing of tables and running out of memory never show: the  *)
(* four levels behave as the flat map of AddressMap.                       *)
Flat == INSTANCE AddressMap WITH
            Pages <- AllPages, Large <- Fan, Size <- Page,
            Stack <- [lo |-> Stack.lo, hi |-> Stack.hi, w |-> TRUE, x |-> FALSE],
            map   <- flat, start <- BootMap(bi, nx_ok), nx <- nx_ok
FlatMap == Flat!Spec

(* Once the kernel's tables are live nothing is writable and executable,   *)
(* where the processor can tell (paging.c's W^X), and neither text nor     *)
(* constants can be written.                                               *)
NoWriteExecute ==
    \A a \in DOMAIN flat :
        /\ flat[a].w => a \notin PagesIn(bi.text) \cup PagesIn(bi.rodata)
        /\ nx_ok => ~(flat[a].w /\ flat[a].x)

(* Ring 3 reaches pages of its window only, and behind each is a heap page *)
(* that was handed out for it alone: no table, no kernel memory, no page   *)
(* of another address.  It runs on these tables: paging_init may fail and  *)
(* leave pml4 pointing at half-built ones, which vm_user_map goes on to    *)
(* fill while the firmware's stay loaded, but no program starts on them.   *)
KernelPrivate ==
    LET reached == {a \in DOMAIN flat : flat[a].u}
        frames  == {flat[a].frame : a \in reached}
    IN /\ stage = "running" => live
       /\ reached \subseteq Window
       /\ frames \cap DOMAIN mem = {}
       /\ {Block(f, Page, Page) : f \in frames} \subseteq blocks
       /\ Cardinality(frames) = Cardinality(reached)

(* The kernel draws, edits the tables and drives the controller through    *)
(* the map it has made: the ranges of extra[], the tables, and each BAR    *)
(* while a page is left are mapped to themselves, and the tables are       *)
(* writable.  On a dry heap a BAR stays out, silently; the archive is the  *)
(* subject of BootInfoReached, and bootinfo itself of no property.         *)
Reaches(S) == live => \A a \in S : a \in DOMAIN flat /\ flat[a].frame = a
KernelReaches ==
    /\ \A r \in Range(extra(bi)) : r.base # 0 /\ r.len # 0 => Reaches(PagesIn(r))
    /\ \A r \in bars : FreePages > 0 => Reaches(PagesIn(r))
    /\ Reaches(DOMAIN mem)
    /\ live => \A a \in DOMAIN mem : flat[a].w

(* The processor's copies agree with the tables: no page of the last       *)
(* program is seen by the next one, although vm_user_map never flushes.    *)
NoStaleTranslation == \A a \in DOMAIN tlb : a \in DOMAIN flat /\ tlb[a] = flat[a]

(* vm_user_ok reads one U bit of the four that the processor ANDs: what it *)
(* accepts is accessible all the same, and it accepts all that is.         *)
UserOkIsAccess ==
    live => \A va \in Window : vm_user_ok(va, 1) <=> va \in DOMAIN flat /\ flat[va].u

(* paging.c:9, "explicit mappings for anything the boot info points above  *)
(* 4 GiB": the program archive, which proc_init and elf_run read, too.     *)
BootInfoReached ==
    bi.pak.base # 0 => Reaches(PagesIn(bi.pak))
=============================================================================
