------------------------------- MODULE MCBoot -------------------------------
(* Files of no byte up to one more than the limit, read two bytes at a time; *)
(* addresses of eight bits, pages of eight, an image of at most 16, and      *)
(* kernels each of which is wrong in one number, or in none.                 *)
EXTENDS Boot

MCFileSizes == 0..Cap + 1

P(type, vaddr, offset, filesz, memsz) ==
    [type |-> type, vaddr |-> vaddr, offset |-> offset, filesz |-> filesz,
     memsz |-> memsz, rela |-> 0, relasz |-> 0, relocs |-> <<>>]

To(offset) == [relative |-> TRUE, offset |-> offset]
Tables(vaddr, memsz, rela, relocs) ==
    [P("dynamic", vaddr, 0, 0, memsz) EXCEPT
        !.rela = rela, !.relasz = Len(relocs) * RelaSize, !.relocs = relocs]

Text   == P("load", 18, 0, 1, 5)
Data   == P("load", 25, 1, 1, 7)
Linked == Tables(25, 2, 27, <<To(18), To(30)>>)

Elf(phs) == [ident |-> TRUE, tables |-> 1, entry |-> 18, ph |-> phs]
Good    == Elf(<<Text, Data, Linked>>)

WrongElfs == {
    [Good EXCEPT !.ident = FALSE], [Good EXCEPT !.tables = 9], [Good EXCEPT !.entry = 32],
    Elf(<<Linked>>),
    Elf(<<[Text EXCEPT !.filesz = 6]>>),                    \* more bytes than memory
    Elf(<<Text, [Data EXCEPT !.memsz = 235]>>),             \* wraps
    Elf(<<Text, [Data EXCEPT !.vaddr = 32]>>),              \* too far apart
    Elf(<<Text, [Data EXCEPT !.offset = 255, !.filesz = 2]>>) }  \* not in the file

WrongTables == {
    Elf(<<Text, Data, t>>) : t \in {
        Tables(25, 2, 27, <<[relative |-> FALSE, offset |-> 18]>>),
        Tables(12, 2, 27, <<To(18)>>), Tables(31, 2, 27, <<To(18)>>),
        Tables(25, 2, 31, <<To(18)>>), Tables(25, 2, 27, <<To(18), To(31)>>),
        Tables(25, 2, 27, <<To(15)>>),
        Tables(25, 2, 40, <<To(18)>>), Tables(25, 2, 27, <<To(255)>>) } }

\* An image at the end of the address space.
High == [Elf(<<P("load", 248, 0, 1, 7), Tables(248, 2, 248, <<To(253), To(254)>>)>>)
            EXCEPT !.entry = 248]

MCElfs == {Good, High, Elf(<<Data, P("other", 0, 0, 0, 0)>>)} \cup WrongElfs \cup WrongTables
=============================================================================
