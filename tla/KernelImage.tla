----------------------------- MODULE KernelImage -----------------------------
(***************************************************************************)
(* The numbers of KERNEL.ELF that kernel_load (boot.c) computes addresses  *)
(* with, and the checks it makes of them.  Addresses are the 64-bit words  *)
(* of the code: a sum or a difference may wrap.  A file is what its        *)
(* headers say, whatever a bad disk made of them.                          *)
(***************************************************************************)
EXTENDS Integers, Sequences

CONSTANTS AddrSpace,    \* 2^64
          Page,         \* 4096
          SpanMax,      \* KERNEL_SPAN_MAX
          RelaSize,     \* sizeof(Elf64_Rela)
          WordSize,     \* what a relocation stores: 8 bytes
          Elfs          \* the files

Words  == 0 .. (AddrSpace - 1)
Add(a, b) == IF a + b < AddrSpace THEN a + b ELSE a + b - AddrSpace
Sub(a, b) == IF b <= a THEN a - b ELSE a + AddrSpace - b

\* A program header; a PT_DYNAMIC one with what the scan of its table finds,
\* and with the relocations that lie at rela.
Reloc   == [relative : BOOLEAN, offset : Words]
Header  == [type : {"load", "dynamic", "other"}, vaddr : Words, offset : Words,
            filesz : Words, memsz : Words, rela : Words, relasz : Words,
            relocs : Seq(Reloc)]

\* ident: the magic and the identification hold; tables: where the program
\* headers end in the file.
ElfFile == [ident : BOOLEAN, tables : Words, entry : Words, ph : Seq(Header)]

ASSUME ImageAssumption ==
    /\ {AddrSpace, Page, SpanMax, RelaSize, WordSize} \subseteq Nat \ {0}
    /\ WordSize < AddrSpace
    /\ Elfs \subseteq ElfFile
    /\ \A e \in Elfs : \A i \in DOMAIN e.ph :
          Len(e.ph[i].relocs) = e.ph[i].relasz \div RelaSize

-----------------------------------------------------------------------------
\* The headers are there at all.
HeadersHold(e, fsz) == e.ident /\ e.tables <= fsz /\ e.ph # <<>>

Loaded(h) == h.type = "load" /\ h.memsz # 0

\* A segment is no larger in the file than in memory, and does not wrap.
SegmentHolds(h) == h.filesz <= h.memsz /\ Add(h.vaddr, h.memsz) >= h.vaddr

\* The image from lo to hi is neither empty nor too large, and is entered inside.
Floor(a) == a - (a % Page)
SpanHolds(lo, hi, entry) ==
    lo < hi /\ hi - lo <= SpanMax /\ Floor(lo) <= entry /\ entry < hi

\* A segment's bytes are in the file.
InFileBySum(h, fsz) == Add(h.offset, h.filesz) <= fsz
InFile(h, fsz) == h.offset <= fsz /\ h.filesz <= fsz - h.offset

\* n bytes at a are in the image: the dynamic table, and its relocations.
TableHolds(lo, hi, a, n) == lo <= a /\ n <= Sub(hi, a)

\* So is the word a relocation changes.
TargetHolds(lo, hi, r) == r.relative /\ lo <= r.offset /\ Add(r.offset, WordSize) <= hi
=============================================================================
