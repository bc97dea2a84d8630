----------------------------- MODULE BootProofs -----------------------------
(***************************************************************************)
(* For every limit, chunk, heap size, number of attempts and set of file   *)
(* sizes: a loader that gave up holds nothing, the kernel is told the      *)
(* truth, and boot services are left alone once their end was tried.  The  *)
(* argument ties the buffers in memory and the fields of bootinfo to the   *)
(* place in the code and to the file last loaded.  And, whatever numbers   *)
(* are in its headers, the kernel's loader stays in the file and in the    *)
(* image: lo and hi, as soon as a loop relies on them, enclose every       *)
(* segment without a wrap.                                                 *)
(***************************************************************************)
EXTENDS Boot, TLAPS

Placing == {"copy", "dynamic", "relocate"}
Leaving == {"info", "map", "try", "exit", "refused", "kernel"}

\* The counters stay in their bounds.
Counters ==
    /\ heap_pages <= MaxHeap
    /\ pc = "exit" => tries < Tries

\* Which file was last loaded, by the place in efi_main.
Stage ==
    /\ pc \in {"start", "draw", "overlay", "usable"} => job = "asset"
    /\ pc \in {"elf", "span", "heap"} \cup Placing => job = "kernel"
    /\ pc \in Leaving => job = "pak"
    /\ job # "asset" => gop.kind = "direct"
    /\ g_ebs_tried => /\ pc \in {"try", "exit", "refused", "halt", "kernel"} /\ job = "pak"
                      /\ did \subseteq {"Map", "Exit"}

\* What each file's loader and its caller hold.
Holding ==
    /\ "kernel" \in live => job = "kernel" /\ pc \in {"read", "check", "elf", "span"} \cup Placing
    /\ "asset" \in live /\ job = "asset" =>
          pc \notin {"start", "open", "alloc"} /\ (pc \in {"read", "check"} \/ got = limit)
    /\ "image" \in live <=> bootinfo.entry \/ pc \in Placing
    /\ bootinfo.entry => job # "asset" /\ (job = "kernel" => pc \in {"heap", "halt"})
    /\ "rc" \in live <=> bootinfo.initrc \/ (job = "rc" /\ pc \in {"read", "check"})
    /\ bootinfo.initrc => job = "pak"
    /\ "pak" \in live <=> bootinfo.pak \/ (job = "pak" /\ pc \in {"read", "check"})
    /\ bootinfo.pak => job = "pak" /\ pc \in Leaving \cup {"halt"}

\* What the kernel will be told, as far as it is known.
Told ==
    /\ bootinfo.splash => {"frame", "panel"} \subseteq live
    /\ pc = "heap" => bootinfo.entry
    /\ job \in {"rc", "pak"} => /\ bootinfo.entry /\ "heap" \in live
                                /\ granted = heap_pages /\ granted >= MinHeap
    /\ pc \in Leaving \ {"info"} => bootinfo.heap = granted
    /\ pc = "kernel" => bootinfo.total_ram = map_ver

\* What is known of the kernel's headers: no loop has passed a segment that is
\* not within lo and hi, and until they are final no byte was touched.
Inside(h) == /\ lo <= h.vaddr /\ h.vaddr + h.memsz <= hi /\ h.filesz <= h.memsz
Image ==
    /\ elf \in Elfs \cup {NoElf} /\ lo \in Words /\ hi \in Words
    /\ pc \in {"span"} \cup Placing => elf \in Elfs
    /\ pc \in {"relocate"} => at <= Len(elf.ph)
    /\ {at, rel} \subseteq Nat \ {0}
    /\ pc = "span" => \A i \in 1 .. (at - 1) : Loaded(elf.ph[i]) => Inside(elf.ph[i])
    /\ pc \in Placing =>
          /\ \A i \in 1 .. Len(elf.ph) : Loaded(elf.ph[i]) => Inside(elf.ph[i])
          /\ lo <= elf.entry /\ elf.entry < hi
    /\ uses # {} => job = "kernel" /\ pc \in Placing \cup {"heap", "halt"}
    /\ ImageContainedUnlessWrapped

IInv == TypeOK /\ Counters /\ Stage /\ Holding /\ Told /\ Image

-----------------------------------------------------------------------------
\* The fields of the boot information.
Info == [entry : BOOLEAN, heap : 0..MaxHeap, initrc : BOOLEAN, pak : BOOLEAN,
         splash : BOOLEAN, total_ram : 0..MaxMapChanges + 1]

\* What Image says of the types.
LEMMA ImageTypes ==
  ASSUME Image
  PROVE  elf \in Elfs \cup {NoElf} /\ {lo, hi, at, rel} \subseteq Nat
  BY ImageAssumption DEF Image, Words

\* A step away from the kernel's headers, or the one that gives them up.
LEMMA ImageKept ==
  ASSUME Image, UNCHANGED image, pc' \notin {"span"} \cup Placing,
         uses = {} \/ (UNCHANGED <<got, job>> /\ pc' \in {"heap", "halt"})
  PROVE  Image'
  BY DEF Image, image, Placing, ImageContainedUnlessWrapped

\* A step that loads another file forgets them.
LEMMA ImageForgotten ==
  ASSUME NEW j, Load(j), pc' \notin {"span"} \cup Placing
  PROVE  Image'
  BY ImageAssumption DEF Image, Load, Placing, ImageContainedUnlessWrapped, Words

\* What a program header and a relocation are.
LEMMA Headers ==
  ASSUME NEW e \in Elfs
  PROVE  /\ e.ph \in Seq(Header) /\ e.entry \in Words
         /\ \A i \in 1 .. Len(e.ph) :
               /\ e.ph[i] \in Header /\ e.ph[i].relocs \in Seq(Reloc)
               /\ {e.ph[i].vaddr, e.ph[i].offset, e.ph[i].filesz, e.ph[i].memsz,
                   e.ph[i].rela, e.ph[i].relasz} \subseteq Words
               /\ \A r \in 1 .. Len(e.ph[i].relocs) : e.ph[i].relocs[r].offset \in Words
  <1>1. e \in ElfFile
    BY ImageAssumption
  <1>2. e.ph \in Seq(Header) /\ e.entry \in Words
    BY <1>1 DEF ElfFile
  <1>3. ASSUME NEW i \in 1 .. Len(e.ph)
        PROVE  /\ e.ph[i] \in Header /\ e.ph[i].relocs \in Seq(Reloc)
               /\ {e.ph[i].vaddr, e.ph[i].offset, e.ph[i].filesz, e.ph[i].memsz,
                   e.ph[i].rela, e.ph[i].relasz} \subseteq Words
               /\ \A r \in 1 .. Len(e.ph[i].relocs) : e.ph[i].relocs[r].offset \in Words
    <2>1. e.ph[i] \in Header
      BY <1>2
    <2>2. e.ph[i].relocs \in Seq(Reloc)
      BY <2>1 DEF Header
    <2>3. {e.ph[i].vaddr, e.ph[i].offset, e.ph[i].filesz, e.ph[i].memsz,
           e.ph[i].rela, e.ph[i].relasz} \subseteq Words
      BY <2>1 DEF Header
    <2>4. ASSUME NEW r \in 1 .. Len(e.ph[i].relocs)
          PROVE  e.ph[i].relocs[r].offset \in Words
      <3>1. e.ph[i].relocs[r] \in Reloc
        BY <2>2, <2>4
      <3> QED  BY <3>1 DEF Reloc
    <2> QED  BY <2>1, <2>2, <2>3, <2>4
  <1> QED  BY <1>2, <1>3

\* The loader starts with nothing held and nothing told.
LEMMA InitIInv == Init => IInv
  <1> SUFFICES ASSUME Init PROVE IInv
    OBVIOUS
  <1>1. TypeOK
    <2>1. NoInfo \in Info
      BY BootAssumption DEF NoInfo, Info
    <2>2. bootinfo \in Info
      BY <2>1 DEF Init
    <2>3. /\ tries \in 0..Tries /\ {map_ver, key} \subseteq 0..MaxMapChanges + 1
          /\ {size, limit, got, heap_pages, granted} \subseteq Nat
      BY BootAssumption DEF Init
    <2>4. live \subseteq Buffers /\ did \subseteq Services /\ ol_live \in BOOLEAN
          /\ g_ebs_tried \in BOOLEAN
      BY DEF Init
    <2>5. gop \in [kind : {"none", "direct", "odd", "blt"}, fits : BOOLEAN]
      BY DEF Init
    <2>6. pc \in Pcs /\ job \in Jobs
      BY DEF Init, Pcs, Jobs
    <2>7. elf \in Elfs \cup {NoElf} /\ {lo, hi, at, rel} \subseteq Nat
      BY DEF Init
    <2> QED
      BY <2>2, <2>3, <2>4, <2>5, <2>6, <2>7 DEF TypeOK, Info
  <1>2. Counters /\ Stage
    BY BootAssumption DEF Init, Counters, Stage, Leaving, Placing
  <1>3. Holding /\ Told
    BY DEF Init, Holding, Told, NoInfo, Leaving, Placing
  <1>4. Image
    BY ImageAssumption DEF Init, Image, Placing, ImageContainedUnlessWrapped, Words
  <1> QED  BY <1>1, <1>2, <1>3, <1>4 DEF IInv

\* A loader that gives up, from wherever it is.
LEMMA ImageRefused ==
  ASSUME NEW bufs, IInv, Refuse(bufs), job # "pak" \/ uses = {}
  PROVE  Image'
  <1>1. CASE job = "rc"
    BY <1>1, ImageForgotten DEF Refuse, Step, AfterFail, Placing
  <1>2. CASE job # "rc"
    <2>1. UNCHANGED image /\ UNCHANGED <<got, job>>
      BY <1>2 DEF Refuse, loader
    <2>2. pc' \in {"halt", "info"} /\ (job \in {"asset", "kernel"} => pc' = "halt")
      BY <1>2 DEF Refuse, Step, AfterFail
    <2>3. job = "pak" => uses = {}
      OBVIOUS
    <2>4. job \in {"asset", "kernel", "pak"}
      BY <1>2 DEF IInv, TypeOK, Jobs
    <2> QED  BY <2>1, <2>2, <2>3, <2>4, ImageKept DEF IInv, Placing
  <1> QED  BY <1>1, <1>2

\* A round of a loop that touches nothing but bytes it may touch.
LEMMA ImageRound ==
  ASSUME NEW p \in Placing, NEW i \in Nat \ {0}, NEW r \in Nat \ {0}, NEW bytes,
         IInv, pc \in Placing, Round(p, i, r, bytes),
         p = "relocate" => i <= Len(elf.ph),
         \A u \in bytes :
            /\ u.of = "file"  => u.at + u.n <= got
            /\ u.of = "image" => u.at + u.n <= hi - lo
            /\ u.of = "table" => u.at + u.n <= hi - lo \/ lo + u.at > hi
            /\ u.of = "word"  => u.at + u.n <= hi - lo \/ lo + u.at + u.n >= AddrSpace
  PROVE  Image'
  <1>1. job = "kernel"
    BY DEF IInv, Stage
  <1>2. ImageContainedUnlessWrapped'
    BY DEF IInv, Image, ImageContainedUnlessWrapped, Round
  <1> QED  BY <1>1, <1>2 DEF IInv, Image, Round, Step, Placing, Inside

\* The bytes each of the loops touches.
LEMMA CopyBytes ==
  ASSUME IInv, pc = "copy", More, Loaded(ph), InFile(ph, got),
         NEW u \in Bytes("file", ph.offset, ph.filesz) \cup Bytes("image", ph.vaddr, ph.filesz)
  PROVE  /\ u.of = "file" => u.at + u.n <= got
         /\ u.of = "image" => u.at + u.n <= hi - lo
         /\ u.of \in {"file", "image"}
  <1>1. elf \in Elfs /\ at \in 1 .. Len(elf.ph)
    <2>1. elf \in Elfs /\ at \in Nat \ {0} /\ at <= Len(elf.ph)
      BY DEF IInv, Image, Placing, More
    <2>2. Len(elf.ph) \in Nat
      BY <2>1, Headers
    <2> QED  BY <2>1, <2>2
  <1>2. /\ ph.offset \in Words /\ ph.filesz \in Words /\ ph.vaddr \in Words
        /\ ph.memsz \in Words
    BY <1>1, Headers DEF ph
  <1>3. Inside(ph)
    BY <1>1 DEF IInv, Image, Placing, ph
  <1>4. lo \in Words /\ hi \in Words /\ got \in Nat
    BY DEF IInv, Image, TypeOK
  <1>5. CASE u.of = "file"
    BY <1>2, <1>4, <1>5, ImageAssumption DEF Bytes, InFile, Words
  <1>6. CASE u.of = "image"
    BY <1>2, <1>3, <1>4, <1>6, ImageAssumption DEF Bytes, Inside, Sub, Words
  <1> QED  BY <1>5, <1>6 DEF Bytes

\* Any n bytes at a that TableHolds accepts lie in the image or above it.
LEMMA TableBytes ==
  ASSUME IInv, NEW a \in Words, NEW n \in Words, TableHolds(lo, hi, a, n),
         NEW u \in Bytes("table", a, n)
  PROVE  u.of = "table" /\ (u.at + u.n <= hi - lo \/ lo + u.at > hi)
  <1>1. lo \in Words /\ hi \in Words
    BY DEF IInv, Image
  <1> QED  BY <1>1, ImageAssumption DEF Bytes, TableHolds, Sub, Words

\* A word that TargetHolds accepts lies in the image, or wraps.
LEMMA WordBytes ==
  ASSUME IInv, NEW r, r.offset \in Words, TargetHolds(lo, hi, r),
         NEW u \in Bytes("word", r.offset, WordSize)
  PROVE  u.of = "word" /\ (u.at + u.n <= hi - lo \/ lo + u.at + u.n >= AddrSpace)
  <1>1. lo \in Words /\ hi \in Words
    BY DEF IInv, Image
  <1> QED  BY <1>1, ImageAssumption DEF Bytes, TargetHolds, Sub, Add, Words

\* Rounding down to a page.
LEMMA FloorBelow ==
  ASSUME NEW a \in Words
  PROVE  Floor(a) \in Words /\ Floor(a) <= a
  <1>1. Page \in Nat /\ Page > 0 /\ a \in Nat
    BY ImageAssumption DEF Words
  <1>2. a % Page \in Nat /\ a % Page <= a
    BY <1>1
  <1> QED  BY <1>1, <1>2, ImageAssumption DEF Floor, Words

\* The loop that finds lo and hi passes no segment that is not between them.
LEMMA ImageSpanned == IInv /\ Spanned => Image'
  <1> SUFFICES ASSUME IInv, Spanned PROVE Image'
    OBVIOUS
  <1>1. elf \in Elfs /\ at \in 1 .. Len(elf.ph)
    <2>1. elf \in Elfs /\ at \in Nat \ {0} /\ at <= Len(elf.ph)
      BY DEF IInv, Image, Spanned, More
    <2>2. Len(elf.ph) \in Nat
      BY <2>1, Headers
    <2> QED  BY <2>1, <2>2
  <1>2. \A i \in 1 .. Len(elf.ph) : elf.ph[i].vaddr \in Words /\ elf.ph[i].memsz \in Words
    BY <1>1, Headers
  <1>3. lo \in Words /\ hi \in Words /\ uses = {}
    BY DEF IInv, Image, Spanned, Placing
  <1>4. /\ lo' \in Words /\ hi' \in Words /\ lo' <= lo /\ hi <= hi'
        /\ Loaded(ph) => lo' <= ph.vaddr /\ ph.vaddr + ph.memsz <= hi' /\ ph.filesz <= ph.memsz
    <2>1. CASE ~Loaded(ph)
      BY <1>3, <2>1 DEF Spanned, Words
    <2>2. CASE Loaded(ph)
      <3>1. ph.vaddr \in Words /\ ph.memsz \in Words
        BY <1>1, <1>2 DEF ph
      <3>2. Add(ph.vaddr, ph.memsz) = ph.vaddr + ph.memsz
        <4>1. Add(ph.vaddr, ph.memsz) >= ph.vaddr /\ ph.memsz # 0
          BY <2>2 DEF Spanned, SegmentHolds, Loaded
        <4> QED  BY <3>1, <4>1, ImageAssumption DEF Add, Words
      <3>3. Add(ph.vaddr, ph.memsz) \in Words
        BY <3>1, ImageAssumption DEF Add, Words
      <3>4. lo' = IF ph.vaddr < lo THEN ph.vaddr ELSE lo
        BY <2>2 DEF Spanned
      <3>5. hi' = IF Add(ph.vaddr, ph.memsz) > hi THEN Add(ph.vaddr, ph.memsz) ELSE hi
        BY <2>2 DEF Spanned
      <3>6. ph.filesz <= ph.memsz
        BY <2>2 DEF Spanned, SegmentHolds
      <3> QED
        BY <1>3, <3>1, <3>2, <3>3, <3>4, <3>5, <3>6 DEF Words
    <2> QED  BY <2>1, <2>2
  <1>5. ASSUME NEW i \in 1 .. at, Loaded(elf.ph[i])
        PROVE  /\ lo' <= elf.ph[i].vaddr /\ elf.ph[i].vaddr + elf.ph[i].memsz <= hi'
               /\ elf.ph[i].filesz <= elf.ph[i].memsz
    <2>2. elf.ph[i].vaddr \in Words /\ elf.ph[i].memsz \in Words
      BY <1>1, <1>2
    <2>3. CASE i = at
      BY <1>4, <1>5, <2>3 DEF ph
    <2>4. CASE i # at
      <3>1. i \in 1 .. (at - 1)
        BY <1>1, <2>4
      <3>2. Inside(elf.ph[i])
        BY <1>5, <3>1 DEF IInv, Image, Spanned
      <3> QED  BY <1>3, <1>4, <2>2, <3>2 DEF Inside, Words
    <2> QED  BY <2>3, <2>4
  <1>6. /\ elf' = elf /\ at' = at + 1 /\ rel' = rel /\ uses' = {} /\ pc' = "span"
    BY <1>3 DEF Spanned, Step
  <1>7. ImageContainedUnlessWrapped'
    BY <1>6 DEF ImageContainedUnlessWrapped
  <1>8. \A i \in 1 .. (at' - 1) :
           Loaded(elf'.ph[i]) => /\ lo' <= elf'.ph[i].vaddr
                                 /\ elf'.ph[i].vaddr + elf'.ph[i].memsz <= hi'
                                 /\ elf'.ph[i].filesz <= elf'.ph[i].memsz
    <2>1. at' - 1 = at
      BY <1>1, <1>6
    <2> QED  BY <1>5, <1>6, <2>1
  <1> QED
    BY <1>1, <1>4, <1>6, <1>7, <1>8 DEF IInv, Image, Placing, Inside

\* Every step of the loader keeps what is known of the headers.
LEMMA NextImage == IInv /\ Next => Image'
  <1> SUFFICES ASSUME IInv, Next PROVE Image'
    OBVIOUS
  <1>a. Image /\ (uses # {} => job = "kernel" /\ pc \in Placing \cup {"heap", "halt"})
    BY DEF IInv, Image
  <1>b. /\ pc \in {"elf", "span", "heap"} \cup Placing => job = "kernel"
        /\ pc \in {"open", "alloc", "read", "check", "elf", "span"} => uses = {}
    BY <1>a DEF IInv, Stage, Placing
  <1>1. CASE FindGop \/ Draw \/ OverlayStarts \/ NoOverlay
    <2>1. UNCHANGED image /\ pc' \in {"halt", "open", "overlay", "usable"} /\ uses = {}
      BY <1>1, <1>a DEF FindGop, Draw, OverlayStarts, NoOverlay, Step, loader, Placing
    <2> QED  BY <2>1, <1>a, ImageKept DEF Placing
  <1>2. CASE KernelUsable
    <2>1. CASE gop.kind = "direct"
      BY <1>2, <2>1, ImageForgotten DEF KernelUsable, Step, Placing
    <2>2. CASE gop.kind # "direct"
      BY <1>2, <2>2, <1>a, ImageKept DEF KernelUsable, Step, loader, Placing
    <2> QED  BY <2>1, <2>2
  <1>3. CASE OpenFails \/ AllocFails \/ ReadFails \/ CheckFails
    BY <1>3, <1>b, ImageRefused DEF OpenFails, AllocFails, ReadFails, CheckFails
  <1>4. CASE OpenWorks \/ AllocWorks \/ ReadChunk \/ ReadAll
    <2>1. UNCHANGED image /\ pc' \in {"alloc", "read", "check"} /\ uses = {}
      BY <1>4, <1>b DEF OpenWorks, AllocWorks, ReadChunk, ReadSome, ReadAll, Step, loader
    <2> QED  BY <2>1, <1>a, ImageKept DEF Placing
  <1>5. CASE CheckWorks
    <2>1. CASE job = "rc"
      <3>1. Load("pak") /\ pc' = "open"
        BY <1>5, <2>1 DEF CheckWorks, Step
      <3> QED  BY <3>1, ImageForgotten DEF Placing
    <2>2. CASE job # "rc"
      <3>1. UNCHANGED image /\ pc' \in {"draw", "elf", "info"} /\ uses = {}
        BY <1>5, <1>b, <2>2 DEF CheckWorks, Step, loader
      <3> QED  BY <3>1, <1>a, ImageKept DEF Placing
    <2> QED  BY <2>1, <2>2
  <1>6. CASE ReadHeaders
    <2>1. elf' \in Elfs /\ lo' = AddrSpace - 1 /\ hi' = 0 /\ at' = 1 /\ rel' = rel
          /\ pc' = "span" /\ uses' = {}
      BY <1>6, <1>b DEF ReadHeaders, Step
    <2>2. ImageContainedUnlessWrapped'
      BY <2>1 DEF ImageContainedUnlessWrapped
    <2>3. lo' \in Words /\ hi' \in Words
      BY <2>1, ImageAssumption DEF Words
    <2>4. rel \in Nat \ {0}
      BY <1>a DEF Image
    <2> QED  BY <2>1, <2>2, <2>3, <2>4 DEF Image, Placing
  <1>7. CASE Spanned
    BY <1>7, ImageSpanned
  <1>8. CASE HeadersFail \/ PagesFail \/ ImageFails
    <2>1. job = "kernel"
      BY <1>8, <1>b DEF HeadersFail, PagesFail, ImageFails, Unloadable, Placing
    <2> QED  BY <1>8, <2>1, ImageRefused DEF HeadersFail, PagesFail, ImageFails
  <1>9. CASE PagesWork
    <2>1. /\ elf' = elf /\ hi' = hi /\ lo' = Floor(lo) /\ at' = 1 /\ rel' = rel
          /\ pc' = "copy" /\ uses' = {}
      BY <1>9, <1>b DEF PagesWork, Step
    <2>2. elf \in Elfs /\ lo \in Words /\ hi \in Words /\ at \in Nat \ {0} /\ at > Len(elf.ph)
          /\ rel \in Nat \ {0}
      <3>1. elf \in Elfs /\ lo \in Words /\ hi \in Words /\ at \in Nat \ {0} /\ rel \in Nat \ {0}
        BY <1>9, <1>a DEF PagesWork, Image
      <3>2. Len(elf.ph) \in Nat /\ ~(at <= Len(elf.ph))
        BY <1>9, <3>1, Headers DEF PagesWork, More
      <3> QED  BY <3>1, <3>2
    <2>3. lo' \in Words /\ lo' <= lo
      BY <2>1, <2>2, FloorBelow
    <2>4. lo' <= elf.entry /\ elf.entry < hi
      BY <1>9, <2>1 DEF PagesWork, SpanHolds
    <2>5. ASSUME NEW i \in 1 .. Len(elf.ph), Loaded(elf.ph[i])
          PROVE  Inside(elf.ph[i])'
      <3>1. i \in 1 .. (at - 1)
        BY <2>2, <2>5, Headers
      <3>2. Inside(elf.ph[i])
        BY <1>9, <1>a, <2>5, <3>1 DEF PagesWork, Image
      <3>3. elf.ph[i].vaddr \in Words
        BY <2>2, Headers
      <3> QED  BY <2>1, <2>2, <2>3, <3>2, <3>3 DEF Inside, Words
    <2>6. ImageContainedUnlessWrapped'
      BY <2>1 DEF ImageContainedUnlessWrapped
    <2> QED  BY <2>1, <2>2, <2>3, <2>4, <2>5, <2>6 DEF Image, Placing, Inside
  <1>10. CASE Copy
    <2>1. pc \in Placing /\ at + 1 \in Nat \ {0}
      BY <1>10, <1>a DEF Copy, Image, Placing
    <2>2. CASE ~Loaded(ph)
      BY <1>10, <2>1, <2>2, ImageRound DEF Copy, Placing
    <2>3. CASE Loaded(ph)
      <3> DEFINE bytes == Bytes("file", ph.offset, ph.filesz) \cup Bytes("image", ph.vaddr, ph.filesz)
      <3>1. Round("copy", at + 1, 1, bytes) /\ pc = "copy" /\ More /\ InFile(ph, got)
        BY <1>10, <2>3 DEF Copy
      <3>2. \A u \in bytes : /\ u.of = "file" => u.at + u.n <= got
                             /\ u.of = "image" => u.at + u.n <= hi - lo
                             /\ u.of \in {"file", "image"}
        BY <2>3, <3>1, CopyBytes
      <3> HIDE DEF bytes
      <3> QED  BY <2>1, <3>1, <3>2, ImageRound DEF Placing
    <2> QED  BY <2>2, <2>3
  <1>11. CASE Copied
    BY <1>11, ImageRound DEF Copied, Placing
  <1>12. CASE ReadDynamic
    <2>1. pc \in Placing /\ at \in Nat \ {0} /\ at + 1 \in Nat \ {0} /\ at <= Len(elf.ph)
      BY <1>12, <1>a DEF ReadDynamic, Image, Placing, More
    <2>2. CASE ph.type # "dynamic"
      BY <1>12, <2>1, <2>2, ImageRound DEF ReadDynamic, Placing
    <2>3. CASE ph.type = "dynamic"
      <3> DEFINE bytes == Bytes("table", ph.vaddr, ph.memsz)
      <3> DEFINE p == IF ph.relasz = 0 THEN "dynamic" ELSE "relocate"
      <3> DEFINE i == IF ph.relasz = 0 THEN at + 1 ELSE at
      <3>1. Round(p, i, 1, bytes) /\ TableHolds(lo, hi, ph.vaddr, ph.memsz)
        BY <1>12, <2>3 DEF ReadDynamic
      <3>2. elf \in Elfs /\ at \in 1 .. Len(elf.ph)
        <4>1. elf \in Elfs
          BY <1>12, <1>a DEF ReadDynamic, Image, Placing
        <4> QED  BY <2>1, <4>1, Headers
      <3>3. ph.vaddr \in Words /\ ph.memsz \in Words
        BY <3>2, Headers DEF ph
      <3>4. \A u \in bytes : u.of = "table" /\ (u.at + u.n <= hi - lo \/ lo + u.at > hi)
        BY <3>1, <3>3, TableBytes
      <3>5. p \in Placing /\ i \in Nat \ {0} /\ (p = "relocate" => i <= Len(elf.ph))
        BY <2>1 DEF Placing
      <3> HIDE DEF bytes, p, i
      <3> QED  BY <2>1, <3>1, <3>4, <3>5, ImageRound
    <2> QED  BY <2>2, <2>3
  <1>13. CASE Relocate
    <2>1. pc \in Placing /\ at + 1 \in Nat \ {0} /\ elf \in Elfs /\ at \in 1 .. Len(elf.ph)
          /\ rel \in Nat \ {0}
      <3>1. pc \in Placing /\ at \in Nat \ {0} /\ elf \in Elfs /\ at <= Len(elf.ph)
            /\ rel \in Nat \ {0}
        BY <1>13, <1>a DEF Relocate, Image, Placing
      <3>2. Len(elf.ph) \in Nat
        BY <3>1, Headers
      <3> QED  BY <3>1, <3>2
    <2>2. CASE rel > Len(ph.relocs) /\ Round("dynamic", at + 1, 1, {})
      BY <2>1, <2>2, ImageRound DEF Placing
    <2>3. CASE rel <= Len(ph.relocs) /\ ~(rel > Len(ph.relocs) /\ Round("dynamic", at + 1, 1, {}))
      <3> DEFINE tables == Bytes("table", ph.rela, ph.relasz)
      <3> DEFINE word == Bytes("word", ph.relocs[rel].offset, WordSize)
      <3>1. /\ Round("relocate", at, rel + 1, tables \cup word)
            /\ TableHolds(lo, hi, ph.rela, ph.relasz)
            /\ TargetHolds(lo, hi, ph.relocs[rel])
        BY <1>13, <2>3 DEF Relocate
      <3>2. ph.rela \in Words /\ ph.relasz \in Words /\ Len(ph.relocs) \in Nat
        BY <2>1, Headers DEF ph
      <3>3. rel \in 1 .. Len(ph.relocs)
        BY <2>1, <2>3, <3>2
      <3>4. ph.relocs[rel].offset \in Words
        BY <2>1, <3>3, Headers DEF ph
      <3>5. \A u \in tables : u.of = "table" /\ (u.at + u.n <= hi - lo \/ lo + u.at > hi)
        BY <3>1, <3>2, TableBytes
      <3>6. \A u \in word : u.of = "word" /\ (u.at + u.n <= hi - lo \/ lo + u.at + u.n >= AddrSpace)
        BY <3>1, <3>4, WordBytes
      <3>7. rel + 1 \in Nat \ {0} /\ at \in Nat \ {0} /\ at <= Len(elf.ph) /\ "relocate" \in Placing
        BY <2>1 DEF Placing
      <3> HIDE DEF tables, word
      <3> QED  BY <2>1, <3>1, <3>5, <3>6, <3>7, ImageRound
    <2> QED  BY <1>13, <2>2, <2>3 DEF Relocate
  <1>14. CASE ImageWorks
    <2>1. /\ UNCHANGED <<got, job, elf, lo, hi, at, rel>> /\ pc' = "heap"
          /\ uses' = uses \cup Bytes("image", elf.entry, 1)
      BY <1>14 DEF ImageWorks, Step
    <2>2. elf \in Elfs /\ lo <= elf.entry /\ elf.entry < hi /\ lo \in Words /\ hi \in Words
      BY <1>14, <1>a DEF ImageWorks, Image, Placing
    <2>3. elf.entry \in Words
      BY <2>2, Headers
    <2>4. \A u \in Bytes("image", elf.entry, 1) : u.of = "image" /\ u.at + u.n <= hi - lo
      BY <2>2, <2>3 DEF Bytes, Sub, Words
    <2>5. ImageContainedUnlessWrapped'
      BY <1>a, <2>1, <2>4 DEF Image, ImageContainedUnlessWrapped
    <2>6. job = "kernel"
      BY <1>14, <1>b DEF ImageWorks, Placing
    <2> QED  BY <1>a, <2>1, <2>5, <2>6 DEF Image, Placing
  <1>15. CASE HeapWorks
    BY <1>15, ImageForgotten DEF HeapWorks, Step, Placing
  <1>16. CASE HeapFails \/ HeapGivenUp
    <2>1. UNCHANGED image /\ UNCHANGED <<got, job>> /\ pc' \in {"heap", "halt"}
      BY <1>16 DEF HeapFails, HeapGivenUp, Step, loader
    <2> QED  BY <2>1, <1>a, ImageKept DEF Placing
  <1>17. CASE FillBootInfo \/ MapBuffer \/ TriesUp \/ MapFails \/ MapWorks
              \/ ExitBootServices \/ ExitRefused \/ MapChanges
    <2>1. UNCHANGED image /\ uses = {}
          /\ pc' \in {"map", "try", "refused", "exit", "kernel", "halt"}
      BY <1>17, <1>a DEF FillBootInfo, MapBuffer, TriesUp, MapFails, MapWorks,
         ExitBootServices, ExitRefused, MapChanges, Step, loader, Placing
    <2> QED  BY <2>1, <1>a, ImageKept DEF Placing
  <1> QED
    BY <1>1, <1>2, <1>3, <1>4, <1>5, <1>6, <1>7, <1>8, <1>9, <1>10, <1>11, <1>12, <1>13,
       <1>14, <1>15, <1>16, <1>17 DEF Next, Works, Fails

\* Every step of the loader, and every failure of the firmware, keeps them.
LEMMA NextIInv == IInv /\ [Next]_vars => IInv'
  <1> SUFFICES ASSUME IInv, [Next]_vars PROVE IInv'
    OBVIOUS
  <1>0. Image'
    <2>1. CASE Next
      BY <2>1, NextImage
    <2>2. CASE UNCHANGED vars
      BY <2>2 DEF vars, loader, image, exits, IInv, Image, Inside, ImageContainedUnlessWrapped
    <2> QED  BY <2>1, <2>2
  <1>t. elf' \in Elfs \cup {NoElf} /\ {lo', hi', at', rel'} \subseteq Nat
    BY <1>0, ImageAssumption DEF Image, Words
  \* Every action moves pc, and most load a file or keep one.
  <1> USE <1>0, <1>t DEF
     Step, Load, loader, image, exits, Leaving, Placing, Loading, Stopped, Pcs, Jobs, Buffers,
     Services, Log, ol_flush
  <1>1. CASE FindGop
    BY <1>1 DEF FindGop, IInv, TypeOK, Counters, Stage, Holding, Told
  <1>2. CASE Draw
    BY <1>2 DEF Draw, IInv, TypeOK, Counters, Stage, Holding, Told
  <1>3. CASE OverlayStarts
    BY <1>3 DEF OverlayStarts, IInv, TypeOK, Counters, Stage, Holding, Told
  <1>4. CASE NoOverlay
    BY <1>4 DEF NoOverlay, IInv, TypeOK, Counters, Stage, Holding, Told
  <1>5. CASE KernelUsable
    BY <1>5 DEF KernelUsable, IInv, TypeOK, Counters, Stage, Holding, Told
  <1>6. CASE OpenFails
    BY <1>6 DEF OpenFails, Refuse, AfterFail, IInv, TypeOK, Counters, Stage, Holding, Told
  <1>7. CASE OpenWorks
    BY <1>7, BootAssumption DEF OpenWorks, IInv, TypeOK, Counters, Stage, Holding, Told
  <1>8. CASE AllocFails
    BY <1>8 DEF AllocFails, Refuse, AfterFail, IInv, TypeOK, Counters, Stage, Holding, Told
  <1>9. CASE AllocWorks
    BY <1>9 DEF AllocWorks, IInv, TypeOK, Counters, Stage, Holding, Told
  <1>10. CASE ReadFails
    BY <1>10 DEF ReadFails, Refuse, AfterFail, IInv, TypeOK, Counters, Stage, Holding, Told
  <1>11. CASE ReadChunk
    BY <1>11 DEF ReadChunk, ReadSome, IInv, TypeOK, Counters, Stage, Holding, Told
  <1>12. CASE ReadAll
    BY <1>12 DEF ReadAll, IInv, TypeOK, Counters, Stage, Holding, Told
  <1>13. CASE CheckFails
    BY <1>13 DEF CheckFails, Refuse, AfterFail, IInv, TypeOK, Counters, Stage, Holding, Told
  <1>14. CASE CheckWorks
    <2>1. bootinfo' \in Info
      <3>1. bootinfo \in Info
        BY DEF IInv, TypeOK, Info
      <3>2. \/ bootinfo' = bootinfo
            \/ bootinfo' = [bootinfo EXCEPT !.initrc = TRUE]
            \/ bootinfo' = [bootinfo EXCEPT !.pak = TRUE]
        BY <1>14 DEF CheckWorks
      <3> QED  BY <3>1, <3>2 DEF Info
    <2>2. TypeOK'
      BY <1>14, <2>1 DEF CheckWorks, IInv, TypeOK, Info
    <2>3. Counters' /\ Stage'
      BY <1>14 DEF CheckWorks, IInv, TypeOK, Counters, Stage
    <2>4. Holding'
      BY <1>14 DEF CheckWorks, Load, Unfit, IInv, TypeOK, Stage, Holding
    <2>5. Told'
      BY <1>14 DEF CheckWorks, IInv, TypeOK, Stage, Told
    <2> QED  BY <2>2, <2>3, <2>4, <2>5 DEF IInv
  <1>15. CASE HeadersFail \/ PagesFail
    <2>1. pc \in {"elf", "span"} /\ job = "kernel"
      BY <1>15 DEF HeadersFail, PagesFail, IInv, Stage
    <2>2. Refuse({"kernel"})
      BY <1>15 DEF HeadersFail, PagesFail
    <2>3. /\ pc' = "halt" /\ live' = live \ {"kernel"} /\ did' \subseteq Services
          /\ UNCHANGED <<gop, loader, ol_live, heap_pages, granted, bootinfo, exits>>
      BY <2>1, <2>2 DEF Refuse, AfterFail
    <2> QED  BY <2>1, <2>3 DEF IInv, TypeOK, Counters, Stage, Holding, Told
  <1>16. CASE ReadHeaders \/ Spanned \/ PagesWork
    <2>1. /\ \/ pc \in {"elf", "span"} /\ pc' = "span" /\ live' = live
             \/ pc = "span" /\ pc' = "copy" /\ live' = live \cup {"image"}
          /\ did' \subseteq Services
          /\ UNCHANGED <<gop, job, size, limit, got, ol_live, heap_pages, granted, bootinfo, exits>>
      BY <1>16 DEF ReadHeaders, Spanned, PagesWork
    <2> QED  BY <2>1 DEF IInv, TypeOK, Counters, Stage, Holding, Told
  <1>17. CASE ImageFails
    BY <1>17 DEF ImageFails, Unloadable, Refuse, AfterFail, IInv, TypeOK, Counters, Stage, Holding, Told
  <1>18. CASE Copy \/ Copied \/ ReadDynamic \/ Relocate
    <2>1. /\ pc \in Placing /\ pc' \in Placing /\ did' = {}
          /\ UNCHANGED <<gop, job, size, limit, got, live, ol_live, heap_pages, granted,
                         bootinfo, exits>>
      BY <1>18 DEF Copy, Copied, ReadDynamic, Relocate, Round
    <2> QED  BY <2>1 DEF IInv, TypeOK, Counters, Stage, Holding, Told
  <1>19. CASE ImageWorks
    <2>1. /\ pc = "dynamic" /\ pc' = "heap" /\ live' = live \ {"kernel"}
          /\ bootinfo' = [bootinfo EXCEPT !.entry = TRUE] /\ did' \subseteq Services
          /\ UNCHANGED <<gop, job, size, limit, got, ol_live, heap_pages, granted, exits>>
      BY <1>19 DEF ImageWorks
    <2>2. bootinfo \in Info /\ bootinfo' \in Info
      BY <2>1 DEF IInv, TypeOK, Info
    <2>3. TypeOK'
      BY <2>1, <2>2 DEF IInv, TypeOK, Info
    <2>4. Counters' /\ Stage'
      BY <2>1 DEF IInv, Counters, Stage
    <2>5. Holding'
      BY <2>1, <2>2 DEF IInv, Stage, Holding, Info
    <2>6. Told'
      BY <2>1, <2>2 DEF IInv, Stage, Told, Info
    <2> QED  BY <2>3, <2>4, <2>5, <2>6 DEF IInv
  <1>20. CASE HeapFails
    BY <1>20, BootAssumption DEF HeapFails, IInv, TypeOK, Counters, Stage, Holding, Told
  <1>21. CASE HeapWorks
    BY <1>21 DEF HeapWorks, IInv, TypeOK, Counters, Stage, Holding, Told
  <1>22. CASE HeapGivenUp
    BY <1>22 DEF HeapGivenUp, IInv, TypeOK, Counters, Stage, Holding, Told
  <1>23. CASE FillBootInfo
    <2>1. heap_pages \in 0..MaxHeap
      BY BootAssumption DEF IInv, TypeOK, Counters
    <2>2. bootinfo' \in Info
      BY <1>23, <2>1 DEF FillBootInfo, IInv, TypeOK, Info
    <2>3. TypeOK'
      BY <1>23, <2>2 DEF FillBootInfo, IInv, TypeOK, Info
    <2>4. Counters' /\ Stage'
      BY <1>23 DEF FillBootInfo, IInv, TypeOK, Counters, Stage
    <2>5. Holding'
      BY <1>23 DEF FillBootInfo, IInv, TypeOK, Stage, Holding
    <2>6. Told'
      BY <1>23 DEF FillBootInfo, IInv, TypeOK, Stage, Told
    <2> QED  BY <2>3, <2>4, <2>5, <2>6 DEF IInv
  <1>24. CASE MapBuffer
    BY <1>24 DEF MapBuffer, IInv, TypeOK, Counters, Stage, Holding, Told
  <1>25. CASE TriesUp
    BY <1>25 DEF TriesUp, IInv, TypeOK, Counters, Stage, Holding, Told
  <1>26. CASE MapFails
    BY <1>26, BootAssumption DEF
       MapFails, IInv, TypeOK, Counters, Stage, Holding, Told
  <1>27. CASE MapWorks
    BY <1>27 DEF MapWorks, IInv, TypeOK, Counters, Stage, Holding, Told
  <1>28. CASE ExitBootServices
    BY <1>28, BootAssumption DEF
       ExitBootServices, IInv, TypeOK, Counters, Stage, Holding, Told
  <1>29. CASE ExitRefused
    BY <1>29 DEF ExitRefused, IInv, TypeOK, Counters, Stage, Holding, Told
  <1>30. CASE MapChanges
    BY <1>30, BootAssumption DEF MapChanges, IInv, TypeOK, Counters, Stage, Holding, Told
  <1>31. CASE UNCHANGED vars
    BY <1>31 DEF vars, IInv, TypeOK, Counters, Stage, Holding, Told
  <1> QED
    BY <1>1, <1>2, <1>3, <1>4, <1>5, <1>6, <1>7, <1>8, <1>9, <1>10, <1>11, <1>12,
       <1>13, <1>14, <1>15, <1>16, <1>17, <1>18, <1>19, <1>20, <1>21, <1>22, <1>23, <1>24,
       <1>25, <1>26, <1>27, <1>28, <1>29, <1>30, <1>31 DEF Next, Works, Fails

\* What the theorems rest on, for every behaviour.
LEMMA AlwaysIInv == Spec => []IInv
  BY InitIInv, NextIInv, PTL DEF Spec

\* Every variable stays in its type; bootinfo names no more heap than was asked
\* for, and no attempt of exit_boot_services is made past Tries.
THEOREM BootTypes == Spec => []TypeOK
  <1>1. IInv => TypeOK
    BY DEF IInv
  <1> QED  BY <1>1, AlwaysIInv, PTL

\* Whichever call of load_asset, load_file or kernel_load fails, and wherever,
\* no file and no image stays in memory that the kernel is not told of, and no
\* asset that was not read to its end.
THEOREM FailuresFreeSafe == Spec => []FailuresFree
  <1>1. IInv => FailuresFree
    BY DEF IInv, TypeOK, Holding, FailuresFree, Loading, Placing
  <1> QED  BY <1>1, AlwaysIInv, PTL

\* Whatever the headers of KERNEL.ELF say, kernel_load reads the file only, and
\* writes and enters the image only, unless an address above the image wraps.
THEOREM ImageContainedSafe == Spec => []ImageContainedUnlessWrapped
  <1>1. IInv => ImageContainedUnlessWrapped
    BY DEF IInv, Image
  <1> QED  BY <1>1, AlwaysIInv, PTL

\* What efi_main hands the kernel is so: see HandoverTrue.
THEOREM HandoverSafe == Spec => []HandoverTrue
  <1>1. IInv => HandoverTrue
    BY DEF IInv, Stage, Holding, Told, HandoverTrue, Leaving
  <1> QED  BY <1>1, AlwaysIInv, PTL

\* Once ExitBootServices was called, boot.c calls the firmware for the memory
\* map and for ExitBootServices only.
THEOREM QuietAfterExit == Spec => OnlyMapOrExit
  <1>1. IInv /\ IInv' /\ [Next]_vars => [g_ebs_tried => did' \subseteq {"Map", "Exit"}]_vars
    <2> SUFFICES ASSUME IInv, IInv', Next, g_ebs_tried
                 PROVE  did' \subseteq {"Map", "Exit"}
      OBVIOUS
    <2>1. g_ebs_tried'
      BY DEF
         Next, Works, Fails, FindGop, Draw, OverlayStarts, NoOverlay, KernelUsable,
         OpenFails, OpenWorks, AllocFails, AllocWorks, ReadFails, ReadChunk,
         ReadAll, CheckFails, CheckWorks, ReadHeaders, Spanned,
         HeadersFail, PagesFail, PagesWork, Copy, Copied, ReadDynamic, Relocate,
         Round, ImageFails, ImageWorks, HeapFails, HeapWorks, HeapGivenUp, FillBootInfo, MapBuffer,
         TriesUp, MapFails, MapWorks, ExitBootServices, ExitRefused, MapChanges,
         Refuse, ReadSome, exits, IInv, TypeOK
    <2> QED  BY <2>1 DEF IInv, Stage
  <1> QED  BY <1>1, AlwaysIInv, PTL DEF Spec, OnlyMapOrExit
=============================================================================
