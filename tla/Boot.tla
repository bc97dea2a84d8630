-------------------------------- MODULE Boot --------------------------------
(***************************************************************************)
(* The UEFI boot stage, boot.c: what it asks of the firmware, which        *)
(* buffers it holds, and what it promises the kernel.  Every firmware call *)
(* may fail; files may be missing, cut short or too large; the memory map  *)
(* may change under ExitBootServices.  Pixels and log text are left out.   *)
(* What is computed from the kernel's headers is in KernelImage.           *)
(***************************************************************************)
EXTENDS KernelImage

CONSTANTS Cap,          \* the limit load_file is given
          Chunk,        \* the most one Read is asked for (1 MiB)
          FileSizes,    \* sizes of the files on the volume
          MaxHeap,      \* heap pages asked for first
          MinHeap,      \* heap pages asked for last
          Tries,        \* attempts of exit_boot_services
          MaxMapChanges \* bound: changes of the memory map after the first query

ASSUME BootAssumption ==
    /\ {Cap, Chunk, MinHeap} \subseteq Nat \ {0}
    /\ {MaxHeap, Tries, MaxMapChanges} \subseteq Nat /\ FileSizes \subseteq Nat

VARIABLES gop,        \* [kind, fits]: the mode, and whether the panel fits it
          pc,
          job,        \* the file being loaded
          size,       \* its size on the volume
          limit,      \* bytes load_asset or load_file wants of it
          got,        \* bytes read
          elf,        \* the kernel's headers
          lo, hi,     \* the addresses its segments span
          at,         \* the program header a loop is at
          rel,        \* and the relocation
          uses,       \* ghost: bytes of the file and of the image touched
          live,       \* pool and page allocations not freed
          ol_live,
          heap_pages,
          granted,    \* pages the firmware gave the heap
          bootinfo,
          tries,
          map_ver,    \* the firmware's memory map
          key,        \* the map version GetMemoryMap returned last
          g_ebs_tried,
          did         \* the firmware services the last step called

image  == <<elf, lo, hi, at, rel, uses>>
loader == <<job, size, limit, got, image>>
exits  == <<tries, map_ver, key, g_ebs_tried>>
vars   == <<gop, pc, loader, live, ol_live, heap_pages, granted, bootinfo, exits, did>>

Jobs     == {"asset", "kernel", "rc", "pak"}
Buffers  == Jobs \cup {"frame", "panel", "image", "heap", "map"}
Services == {"ConOut", "Blt", "Boot", "Map", "Exit"}
Loading  == {"open", "alloc", "read", "check", "elf", "span", "copy", "dynamic", "relocate"}
Stopped  == {"halt", "kernel"}
Pcs      == Loading \cup Stopped
            \cup {"start", "draw", "overlay", "usable", "heap", "info", "map", "try", "exit", "refused"}

NoElf  == [ident |-> FALSE, tables |-> 0, entry |-> 0, ph |-> <<>>]
NoInfo == [entry |-> FALSE, heap |-> 0, initrc |-> FALSE, pak |-> FALSE,
           splash |-> FALSE, total_ram |-> 0]

Init ==
    /\ gop \in [kind : {"none", "direct", "odd", "blt"}, fits : BOOLEAN]
    /\ pc = "start" /\ job = "asset" /\ size = 0 /\ limit = 0 /\ got = 0
    /\ elf = NoElf /\ lo = 0 /\ hi = 0 /\ at = 1 /\ rel = 1 /\ uses = {}
    /\ live = {} /\ ol_live = FALSE
    /\ heap_pages = MaxHeap /\ granted = 0 /\ bootinfo = NoInfo
    /\ tries = 0 /\ map_ver = 1 /\ key = 0 /\ g_ebs_tried = FALSE
    /\ did = {}

\* Pixels reach the screen by the firmware's Blt when there is no framebuffer
\* to store them in.
ol_flush == IF gop.kind = "blt" THEN {"Blt"} ELSE {}

\* puts16 and con_attr: who shows the log.
LogUnfenced == IF ol_live THEN ol_flush ELSE {"ConOut"}
Log == IF ol_live THEN ol_flush ELSE IF g_ebs_tried THEN {} ELSE {"ConOut"}

\* A step that calls ss and goes to p.
Step(p, ss) == pc' = p /\ did' = ss

-----------------------------------------------------------------------------
(* load_asset and load_file, called for job j.                             *)

Load(j) == /\ job' = j /\ got' = 0 /\ limit' = 0 /\ size' = 0
           /\ elf' = NoElf /\ lo' = 0 /\ hi' = 0 /\ at' = 1 /\ rel' = 1 /\ uses' = {}

\* Where efi_main goes when the file is not there or was refused.
AfterFail == IF job \in {"asset", "kernel"} THEN "halt"
             ELSE IF job = "rc" THEN "open" ELSE "info"

\* A failed load keeps none of bufs.
Refuse(bufs) ==
    /\ live' = live \ bufs
    /\ IF job = "rc" THEN Load("pak") ELSE UNCHANGED loader
    /\ Step(AfterFail, {"Boot"} \cup Log)
    /\ UNCHANGED <<gop, ol_live, heap_pages, granted, bootinfo, exits>>

\* A protocol, the volume or every name is missing.
OpenFails == pc = "open" /\ Refuse({})

\* The asset's own header says how many bytes follow it.
OpenWorks ==
    /\ pc = "open"
    /\ size' \in FileSizes
    /\ limit' \in IF job = "asset" THEN FileSizes \ {0} ELSE {Cap}
    /\ got' = 0 /\ Step("alloc", {"Boot"})
    /\ UNCHANGED <<gop, job, image, live, ol_live, heap_pages, granted, bootinfo, exits>>

AllocFails == pc = "alloc" /\ Refuse({})

AllocWorks ==
    /\ pc = "alloc" /\ live' = live \cup {job} /\ Step("read", {"Boot"})
    /\ UNCHANGED <<gop, loader, ol_live, heap_pages, granted, bootinfo, exits>>

\* One Read of at most Chunk bytes, which may return fewer; none at the end,
\* where the loop goes to p.
ReadSome(p) ==
    /\ pc = "read" /\ got < limit
    /\ LET left == IF size > got THEN size - got ELSE 0
           most == CHOOSE n \in {Chunk, limit - got, left} :
                       \A m \in {Chunk, limit - got, left} : n <= m
       IN \E n \in (IF left = 0 THEN {0} ELSE 1..most) :
            got' = got + n /\ Step(IF n = 0 THEN p ELSE "read", {"Boot"})
    /\ UNCHANGED <<gop, job, size, limit, image, live, ol_live, heap_pages, granted, bootinfo, exits>>

ReadForever == ReadSome("read")
ReadChunk   == ReadSome("check")

ReadFailsLeaking == pc = "read" /\ got < limit /\ Refuse({})
ReadFails        == pc = "read" /\ got < limit /\ Refuse({job})

ReadAll ==
    /\ pc = "read" /\ got = limit /\ Step("check", {"Boot"})
    /\ UNCHANGED <<gop, loader, live, ol_live, heap_pages, granted, bootinfo, exits>>

\* A truncated asset; an empty file, or one that fills the buffer.
Unfit == IF job = "asset" THEN got # limit ELSE got = 0 \/ got = limit

CheckFails == pc = "check" /\ Unfit /\ Refuse({job})

CheckWorks ==
    /\ pc = "check" /\ ~Unfit
    /\ \/ job = "asset"  /\ Step("draw", {"Boot"} \cup Log) /\ UNCHANGED <<loader, bootinfo>>
       \/ job = "kernel" /\ Step("elf", {}) /\ UNCHANGED <<loader, bootinfo>>
       \/ job = "rc" /\ Step("open", Log) /\ Load("pak")
          /\ bootinfo' = [bootinfo EXCEPT !.initrc = TRUE]
       \/ job = "pak" /\ Step("info", Log) /\ UNCHANGED loader
          /\ bootinfo' = [bootinfo EXCEPT !.pak = TRUE]
    /\ UNCHANGED <<gop, live, ol_live, heap_pages, granted, exits>>

-----------------------------------------------------------------------------
(* efi_main up to the splash.                                              *)

\* The watchdog, the banner and the search for a mode to draw in.
FindGop ==
    /\ pc = "start"
    /\ IF gop.kind = "none" THEN Step("halt", {"Boot", "ConOut"}) ELSE Step("open", {"Boot", "ConOut"})
    /\ UNCHANGED <<gop, loader, live, ol_live, heap_pages, granted, bootinfo, exits>>

\* draw: without a frame the fish goes straight to the screen.
Draw ==
    /\ pc = "draw"
    /\ \E room \in BOOLEAN : live' = IF room THEN live \cup {"frame"} ELSE live
    /\ Step("overlay", {"Boot"} \cup ol_flush)
    /\ UNCHANGED <<gop, loader, ol_live, heap_pages, granted, bootinfo, exits>>

\* ol_init, with the flush at its end.
OverlayStarts ==
    /\ pc = "overlay" /\ "frame" \in live /\ gop.fits
    /\ live' = live \cup {"panel"} /\ ol_live' = TRUE
    /\ Step("usable", {"Boot"} \cup ol_flush)
    /\ UNCHANGED <<gop, loader, heap_pages, granted, bootinfo, exits>>

\* No frame, no room in the mode, or no pool.
NoOverlay ==
    /\ pc = "overlay" /\ Step("usable", {"Boot"})
    /\ UNCHANGED <<gop, loader, live, ol_live, heap_pages, granted, bootinfo, exits>>

KernelUsable ==
    /\ pc = "usable"
    /\ IF gop.kind = "direct" THEN Step("open", {}) /\ Load("kernel")
       ELSE Step("halt", Log) /\ UNCHANGED loader
    /\ UNCHANGED <<gop, live, ol_live, heap_pages, granted, bootinfo, exits>>

-----------------------------------------------------------------------------
(* kernel_load past load_file, and the kernel's heap.                      *)

ph == elf.ph[at]
More == at <= Len(elf.ph)

\* kernel_load looks at a file, which may be any.
ReadHeaders ==
    /\ pc = "elf"
    /\ \E e \in Elfs : HeadersHold(e, got) /\ elf' = e
    /\ lo' = AddrSpace - 1 /\ hi' = 0 /\ at' = 1 /\ Step("span", {})
    /\ UNCHANGED <<gop, job, size, limit, got, rel, uses, live, ol_live, heap_pages,
                   granted, bootinfo, exits>>

Spanned ==
    /\ pc = "span" /\ More /\ at' = at + 1 /\ Step("span", {})
    /\ IF Loaded(ph)
       THEN /\ SegmentHolds(ph)
            /\ lo' = IF ph.vaddr < lo THEN ph.vaddr ELSE lo
            /\ hi' = IF Add(ph.vaddr, ph.memsz) > hi THEN Add(ph.vaddr, ph.memsz) ELSE hi
       ELSE UNCHANGED <<lo, hi>>
    /\ UNCHANGED <<gop, job, size, limit, got, elf, rel, uses, live, ol_live, heap_pages,
                   granted, bootinfo, exits>>

\* A header, a program header or the image they add up to does not hold up.
HeadersFail ==
    /\ \/ pc = "elf" /\ \E e \in Elfs : ~HeadersHold(e, got)
       \/ pc = "span" /\ More /\ Loaded(ph) /\ ~SegmentHolds(ph)
       \/ pc = "span" /\ ~More /\ ~SpanHolds(lo, hi, elf.entry)
    /\ Refuse({"kernel"})

PagesFail ==
    /\ pc = "span" /\ ~More /\ SpanHolds(lo, hi, elf.entry)
    /\ Refuse({"kernel"})

PagesWork ==
    /\ pc = "span" /\ ~More /\ SpanHolds(lo, hi, elf.entry)
    /\ lo' = Floor(lo) /\ at' = 1
    /\ live' = live \cup {"image"} /\ Step("copy", {"Boot"})
    /\ UNCHANGED <<gop, job, size, limit, got, elf, hi, rel, uses, ol_live, heap_pages,
                   granted, bootinfo, exits>>

\* n bytes of the file, or at an address slid to the pages of the image.
Bytes(of, a, n) == {[of |-> of, at |-> IF of = "file" THEN a ELSE Sub(a, lo), n |-> n]}

\* A round of a loop over the program headers, which goes on at p.
Round(p, i, r, bytes) ==
    /\ Step(p, {}) /\ at' = i /\ rel' = r /\ uses' = uses \cup bytes
    /\ UNCHANGED <<gop, job, size, limit, got, elf, lo, hi, live, ol_live, heap_pages,
                   granted, bootinfo, exits>>

Copy ==
    /\ pc = "copy" /\ More
    /\ \/ ~Loaded(ph) /\ Round("copy", at + 1, 1, {})
       \/ /\ Loaded(ph) /\ InFile(ph, got)
          /\ Round("copy", at + 1, 1, Bytes("file", ph.offset, ph.filesz)
                                      \cup Bytes("image", ph.vaddr, ph.filesz))

Copied == pc = "copy" /\ ~More /\ Round("dynamic", 1, 1, {})

\* The scan of a dynamic table: without relocations the loop goes on.
ReadDynamic ==
    /\ pc = "dynamic" /\ More
    /\ \/ ph.type # "dynamic" /\ Round("dynamic", at + 1, 1, {})
       \/ /\ ph.type = "dynamic" /\ TableHolds(lo, hi, ph.vaddr, ph.memsz)
          /\ Round(IF ph.relasz = 0 THEN "dynamic" ELSE "relocate",
                   IF ph.relasz = 0 THEN at + 1 ELSE at, 1,
                   Bytes("table", ph.vaddr, ph.memsz))

Relocate ==
    /\ pc = "relocate" /\ TableHolds(lo, hi, ph.rela, ph.relasz)
    /\ \/ rel > Len(ph.relocs) /\ Round("dynamic", at + 1, 1, {})
       \/ /\ rel <= Len(ph.relocs) /\ TargetHolds(lo, hi, ph.relocs[rel])
          /\ Round("relocate", at, rel + 1,
                   Bytes("table", ph.rela, ph.relasz)
                   \cup Bytes("word", ph.relocs[rel].offset, WordSize))

\* KLOAD_FAIL: a segment beyond the file, a table outside the image, a
\* relocation of another kind or with a target outside.
Unloadable ==
    \/ pc = "copy" /\ More /\ Loaded(ph) /\ ~InFile(ph, got)
    \/ pc = "dynamic" /\ More /\ ph.type = "dynamic" /\ ~TableHolds(lo, hi, ph.vaddr, ph.memsz)
    \/ pc = "relocate" /\ \/ ~TableHolds(lo, hi, ph.rela, ph.relasz)
                          \/ rel <= Len(ph.relocs) /\ ~TargetHolds(lo, hi, ph.relocs[rel])

ImageFailsLeaking == Unloadable /\ Refuse({"kernel"})
ImageFails        == Unloadable /\ Refuse({"kernel", "image"})

ImageWorks ==
    /\ pc = "dynamic" /\ ~More
    /\ live' = live \ {"kernel"} /\ bootinfo' = [bootinfo EXCEPT !.entry = TRUE]
    /\ uses' = uses \cup Bytes("image", elf.entry, 1)
    /\ Step("heap", {"Boot"} \cup Log)
    /\ UNCHANGED <<gop, job, size, limit, got, elf, lo, hi, at, rel, ol_live, heap_pages,
                   granted, exits>>

\* The size is halved before it is known whether the firmware agreed.
HeapHalvedEarly ==
    /\ pc = "heap" /\ heap_pages >= MinHeap
    /\ granted' = heap_pages /\ live' = live \cup {"heap"} /\ heap_pages' = heap_pages \div 2
    /\ Load("rc") /\ Step("open", {"Boot"} \cup Log)
    /\ UNCHANGED <<gop, ol_live, bootinfo, exits>>

HeapWorks ==
    /\ pc = "heap" /\ heap_pages >= MinHeap
    /\ granted' = heap_pages /\ live' = live \cup {"heap"}
    /\ Load("rc") /\ Step("open", {"Boot"} \cup Log)
    /\ UNCHANGED <<gop, ol_live, heap_pages, bootinfo, exits>>

HeapFails ==
    /\ pc = "heap" /\ heap_pages >= MinHeap
    /\ heap_pages' = heap_pages \div 2 /\ Step("heap", {"Boot"})
    /\ UNCHANGED <<gop, loader, live, ol_live, granted, bootinfo, exits>>

HeapGivenUp ==
    /\ pc = "heap" /\ heap_pages < MinHeap /\ Step("halt", Log)
    /\ UNCHANGED <<gop, loader, live, ol_live, heap_pages, granted, bootinfo, exits>>

-----------------------------------------------------------------------------
(* The boot information and exit_boot_services.                            *)

FillBootInfo ==
    /\ pc = "info"
    /\ bootinfo' = [bootinfo EXCEPT !.heap = heap_pages,
                                    !.splash = {"frame", "panel"} \subseteq live]
    /\ Step("map", {"Boot"} \cup Log)
    /\ UNCHANGED <<gop, loader, live, ol_live, heap_pages, granted, exits>>

\* The size query and the buffer for the map.
MapBuffer ==
    /\ pc = "map"
    /\ \/ live' = live \cup {"map"} /\ Step("try", {"Map", "Boot"})
       \/ live' = live /\ Step("refused", {"Map", "Boot"})
    /\ UNCHANGED <<gop, loader, ol_live, heap_pages, granted, bootinfo, exits>>

TriesUp == pc = "try" /\ tries = Tries /\ Step("refused", {})
           /\ UNCHANGED <<gop, loader, live, ol_live, heap_pages, granted, bootinfo, exits>>

\* The map has outgrown the buffer, or the firmware knows no descriptor size.
MapFails ==
    /\ pc = "try" /\ tries < Tries
    /\ \/ tries' = tries + 1 /\ Step("try", {"Map"})
       \/ tries' = tries /\ Step("refused", {"Map"})
    /\ UNCHANGED <<gop, loader, live, ol_live, heap_pages, granted, bootinfo,
                   map_ver, key, g_ebs_tried>>

MapWorks ==
    /\ pc = "try" /\ tries < Tries
    /\ key' = map_ver /\ Step("exit", {"Map"})
    /\ UNCHANGED <<gop, loader, live, ol_live, heap_pages, granted, bootinfo,
                   tries, map_ver, g_ebs_tried>>

ExitBootServices ==
    /\ pc = "exit" /\ g_ebs_tried' = TRUE
    /\ \/ /\ key = map_ver
          /\ bootinfo' = [bootinfo EXCEPT !.total_ram = key]
          /\ Step("kernel", {"Exit"}) /\ UNCHANGED tries
       \/ /\ key # map_ver
          /\ tries' = tries + 1 /\ Step("try", {"Exit"}) /\ UNCHANGED bootinfo
    /\ UNCHANGED <<gop, loader, live, ol_live, heap_pages, granted, map_ver, key>>

ExitRefused ==
    /\ pc = "refused" /\ Step("halt", Log)
    /\ UNCHANGED <<gop, loader, live, ol_live, heap_pages, granted, bootinfo, exits>>

\* A firmware timer allocates or frees behind the loader's back.
MapChanges ==
    /\ pc \in {"try", "exit"} /\ map_ver <= MaxMapChanges
    /\ map_ver' = map_ver + 1
    /\ UNCHANGED <<gop, pc, loader, live, ol_live, heap_pages, granted, bootinfo,
                   tries, key, g_ebs_tried, did>>

-----------------------------------------------------------------------------
\* The firmware says no.
Fails == \/ OpenFails \/ AllocFails \/ ReadFails \/ PagesFail \/ HeapFails \/ MapFails

Works == \/ FindGop \/ Draw \/ OverlayStarts \/ NoOverlay \/ KernelUsable
         \/ OpenWorks \/ AllocWorks \/ ReadChunk \/ ReadAll \/ CheckFails \/ CheckWorks
         \/ ReadHeaders \/ Spanned \/ HeadersFail \/ PagesWork \/ Copy \/ Copied
         \/ ReadDynamic \/ Relocate \/ ImageFails \/ ImageWorks \/ HeapWorks \/ HeapGivenUp
         \/ FillBootInfo \/ MapBuffer \/ TriesUp \/ MapWorks
         \/ ExitBootServices \/ ExitRefused

Next == Works \/ Fails \/ MapChanges

\* One processor runs the loader and every call returns; no failure is certain.
Spec == Init /\ [][Next]_vars /\ WF_vars(Works)

-----------------------------------------------------------------------------
(* Properties.                                                             *)

\* Every variable stays in its type.
TypeOK ==
    /\ gop \in [kind : {"none", "direct", "odd", "blt"}, fits : BOOLEAN]
    /\ pc \in Pcs /\ job \in Jobs /\ {size, limit, got, heap_pages, granted} \subseteq Nat
    /\ elf \in Elfs \cup {NoElf} /\ {lo, hi, at, rel} \subseteq Nat
    /\ live \subseteq Buffers /\ ol_live \in BOOLEAN
    /\ bootinfo \in [entry : BOOLEAN, heap : 0..MaxHeap, initrc : BOOLEAN, pak : BOOLEAN,
                     splash : BOOLEAN, total_ram : 0..MaxMapChanges + 1]
    /\ tries \in 0..Tries /\ {map_ver, key} \subseteq 0..MaxMapChanges + 1
    /\ g_ebs_tried \in BOOLEAN /\ did \subseteq Services

\* Whichever of its calls fails, a loader that gave up holds no buffer: outside
\* the loaders each file or image in memory is one the kernel will be told of,
\* and the asset, which only the loader draws, was read to its end.
FailuresFree ==
    pc \notin Loading =>
        /\ "asset" \in live /\ job = "asset" => got = limit
        /\ "kernel" \notin live
        /\ "image" \in live <=> bootinfo.entry
        /\ "rc" \in live <=> bootinfo.initrc
        /\ "pak" \in live <=> bootinfo.pak

\* However the headers lie, nothing beyond the file is read, and nothing outside
\* the image is written, read as a table, or entered: unless hi - a wraps, for a
\* table above the image, or r_offset + 8 does (boot.c:316, 326, 330).
ImageContainedUnlessWrapped ==
    \A u \in uses :
        /\ u.of = "file"  => u.at + u.n <= got
        /\ u.of = "image" => u.at + u.n <= hi - lo
        /\ u.of = "table" => u.at + u.n <= hi - lo \/ lo + u.at > hi
        /\ u.of = "word"  => u.at + u.n <= hi - lo \/ lo + u.at + u.n >= AddrSpace

\* What the kernel is told is so: the image and every buffer named is still
\* allocated, the heap is as large as the firmware granted, and the RAM was
\* counted in the very map boot services ended with.
HandoverTrue ==
    pc = "kernel" =>
        /\ bootinfo.entry /\ {"image", "heap"} \subseteq live
        /\ bootinfo.heap = granted /\ granted >= MinHeap
        /\ bootinfo.splash => {"frame", "panel"} \subseteq live
        /\ bootinfo.total_ram = map_ver

\* After the first ExitBootServices, failed or not, the loader calls nothing
\* but GetMemoryMap and ExitBootServices, whatever it still has to log.
OnlyMapOrExit == [][g_ebs_tried => did' \subseteq {"Map", "Exit"}]_vars

\* Whatever the files hold and however the firmware fails, the boot stage ends:
\* in the kernel or halted with its log on the screen.
BootEnds == <>(pc \in Stopped)
=============================================================================
