--------------------------- MODULE UserProcProofs ---------------------------
(***************************************************************************)
(* For every set of programs, every layout of the window and every amount  *)
(* of memory: no page is writable and executable, the guard pages stay     *)
(* unmapped, the kernel never faults on a program's pointer, only a        *)
(* program elf_run refused leaves anything behind in the window, and when  *)
(* ring 3 is entered the whole image and the whole stack are in place,     *)
(* with the permissions of the last header that covers each page.          *)
(***************************************************************************)
EXTENDS UserProc, TLAPS

-----------------------------------------------------------------------------
(* Pages and bytes.                                                        *)

\* What div means: a lies in the page it is counted to.
LEMMA Quotient ==
    ASSUME NEW a \in Int, NEW n \in Nat \ {0}
    PROVE  /\ a \div n \in Int
           /\ (a \div n) * n <= a
           /\ a < (a \div n) * n + n
  OBVIOUS

\* A page that begins earlier has a smaller number.
LEMMA Earlier ==
    ASSUME NEW i \in Int, NEW j \in Int, NEW n \in Nat \ {0}, i * n < j * n
    PROVE  i < j
  <1> SUFFICES ASSUME j <= i PROVE FALSE
    OBVIOUS
  <1>1. PICK d \in Nat : i = j + d
    <2>1. i - j \in Nat /\ i = j + (i - j)
      OBVIOUS
    <2> QED  BY <2>1
  <1>2. i * n = j * n + d * n /\ d * n >= 0
    BY <1>1
  <1> QED  BY <1>2

\* The page of an earlier byte is no later one, and begins no later.
LEMMA Monotone ==
    ASSUME NEW a \in Int, NEW b \in Int, NEW n \in Nat \ {0}, a <= b
    PROVE  a \div n <= b \div n /\ (a \div n) * n <= (b \div n) * n
  <1> DEFINE i == a \div n
             j == b \div n
  <1>1. i \in Int /\ j \in Int /\ i * n <= a /\ b < j * n + n
    BY Quotient
  <1> HIDE DEF i, j
  <1>2. i * n < (j + 1) * n
    <2>1. (j + 1) * n = j * n + n /\ i * n \in Int /\ j * n \in Int
      BY <1>1
    <2> QED  BY <1>1, <2>1
  <1>3. i <= j
    BY <1>1, <1>2, Earlier
  <1>4. PICK d \in Nat : j = i + d
    <2>1. j - i \in Nat /\ j = i + (j - i)
      BY <1>1, <1>3
    <2> QED  BY <2>1
  <1>5. j * n = i * n + d * n /\ d * n >= 0
    BY <1>1, <1>4
  <1>6. i * n <= j * n
    BY <1>1, <1>5
  <1> QED  BY <1>3, <1>6 DEF i, j

\* A segment elf_run accepts lies on pages below the guard page.
LEMMA SegmentPages ==
    ASSUME NEW s \in Segment, Accepts(s)
    PROVE  /\ FirstPage(s) \in Nat /\ EndPage(s) \in Nat
           /\ FirstPage(s) <= EndPage(s) /\ EndPage(s) <= GuardPage
           /\ ~(s.w /\ s.x) /\ s.w \in BOOLEAN /\ s.x \in BOOLEAN
  <1> DEFINE end == s.va + s.memsz + PageUnits - 1
  <1>1. /\ PageUnits \in Nat \ {0} /\ GuardPage \in Nat \ {0}
        /\ s.va \in Int /\ s.memsz \in Nat /\ s.w \in BOOLEAN /\ s.x \in BOOLEAN
    BY WindowAssumption DEF Segment
  <1>2. GuardPage * PageUnits \in Int
    BY <1>1
  <1>3. /\ 0 <= s.va /\ s.va + s.memsz <= GuardPage * PageUnits
        /\ ~(s.w /\ s.x)
    BY <1>1, <1>2 DEF Accepts, ImageEnd
  <1>4. end \in Int /\ s.va <= end /\ 0 <= s.va /\ end < GuardPage * PageUnits + PageUnits
    BY <1>1, <1>2, <1>3
  <1> HIDE DEF end
  <1>5. s.va \div PageUnits <= end \div PageUnits
    BY <1>1, <1>4, Monotone
  <1>6. /\ s.va \div PageUnits \in Int
        /\ s.va < (s.va \div PageUnits) * PageUnits + PageUnits
        /\ end \div PageUnits \in Int /\ (end \div PageUnits) * PageUnits <= end
    BY <1>1, <1>4, Quotient
  <1>7. 0 <= s.va \div PageUnits
    <2> DEFINE q == s.va \div PageUnits
    <2>1. q \in Int /\ s.va < q * PageUnits + PageUnits
      BY <1>6
    <2> HIDE DEF q
    <2>2. q * PageUnits + PageUnits = (q + 1) * PageUnits /\ 0 * PageUnits = 0
          /\ q * PageUnits \in Int
      BY <1>1, <2>1
    <2>3. 0 * PageUnits < (q + 1) * PageUnits
      BY <1>1, <1>4, <2>1, <2>2
    <2>4. 0 < q + 1
      BY <1>1, <2>1, <2>3, Earlier
    <2> QED  BY <2>1, <2>4 DEF q
  <1>8. end \div PageUnits <= GuardPage
    <2> DEFINE q == end \div PageUnits
    <2>1. q \in Int /\ q * PageUnits <= end
      BY <1>6
    <2> HIDE DEF q
    <2>2. GuardPage * PageUnits + PageUnits = (GuardPage + 1) * PageUnits
          /\ q * PageUnits \in Int
      BY <1>1, <2>1
    <2>3. q * PageUnits < (GuardPage + 1) * PageUnits
      BY <1>1, <1>2, <1>4, <2>1, <2>2
    <2>4. q < GuardPage + 1
      BY <1>1, <2>1, <2>3, Earlier
    <2> QED  BY <1>1, <2>1, <2>4 DEF q
  <1>9. FirstPage(s) = s.va \div PageUnits /\ EndPage(s) = end \div PageUnits
    BY DEF FirstPage, EndPage, end
  <1> QED  BY <1>1, <1>3, <1>5, <1>6, <1>7, <1>8, <1>9

\* Every byte SYS_WRITE reads is on a page vm_user_ok has looked at.
LEMMA PointersHold ==
    ASSUME NEW va \in Addresses, NEW len \in Nat, vm_user_ok(va, len),
           NEW p \in Touched(va, len)
    PROVE  p \in Pages /\ upt[p] # None
  <1>1. PageUnits \in Nat \ {0} /\ UserTop \in Nat
    BY WindowAssumption DEF UserTop, StackTop, StackLo
  <1>2. UserTop * PageUnits \in Nat
    BY <1>1
  <1>3. PICK i \in 0..(len - 1) : p = (va + i) \div PageUnits
    BY DEF Touched
  <1>4. va \in Nat /\ i \in Nat /\ i < len /\ len # 0
    BY <1>2, <1>3 DEF Addresses
  <1>5. va + len <= UserTop * PageUnits
    BY <1>2, <1>4 DEF vm_user_ok
  <1>6. /\ p \in Int /\ p * PageUnits <= va + i /\ va + i < p * PageUnits + PageUnits
        /\ (va \div PageUnits) * PageUnits <= p * PageUnits
    <2> DEFINE c == va + i
    <2>1. c \in Int /\ va \in Int /\ va <= c /\ p = c \div PageUnits
      BY <1>3, <1>4
    <2> HIDE DEF c
    <2>2. c \div PageUnits \in Int /\ (c \div PageUnits) * PageUnits <= c
          /\ c < (c \div PageUnits) * PageUnits + PageUnits
      BY <1>1, <2>1, Quotient
    <2>3. (va \div PageUnits) * PageUnits <= (c \div PageUnits) * PageUnits
      BY <1>1, <2>1, Monotone
    <2> QED  BY <2>1, <2>2, <2>3 DEF c
  <1>7. p * PageUnits \in Int /\ (p + 1) * PageUnits = p * PageUnits + PageUnits
        /\ 0 * PageUnits = 0
    BY <1>1, <1>6
  <1>8. p < UserTop
    <2>1. p * PageUnits < UserTop * PageUnits
      BY <1>2, <1>4, <1>5, <1>6, <1>7
    <2> QED  BY <1>1, <1>6, <2>1, Earlier
  <1>9. 0 <= p
    <2>1. 0 * PageUnits < (p + 1) * PageUnits
      BY <1>1, <1>4, <1>6, <1>7
    <2>2. 0 < p + 1
      BY <1>1, <1>6, <2>1, Earlier
    <2> QED  BY <1>6, <2>2
  <1>10. p \in Pages
    BY <1>1, <1>6, <1>8, <1>9 DEF Pages
  <1>11. FloorPage(va) <= p * PageUnits /\ p * PageUnits < va + len
    BY <1>4, <1>6, <1>7 DEF FloorPage
  <1> QED  BY <1>4, <1>10, <1>11 DEF vm_user_ok
-----------------------------------------------------------------------------
(* The inductive invariant.                                                *)

Segments == prog.segs

\* Where the loader is, and what it has checked by then.
Loading ==
    /\ pc = "header" => seg \in Nat \ {0}
    /\ pc = "segment" =>
          /\ seg \in 1..Len(Segments)
          /\ ~Skipped(Segments[seg]) /\ Accepts(Segments[seg])
          /\ page \in FirstPage(Segments[seg])..EndPage(Segments[seg])
    /\ pc = "stack" => page \in StackLo..StackTop

\* The pages the running program is known to hold: its image so far, the part
\* of the segment being loaded, and the stack.  LeaveUser unmaps them.
Held(p) ==
    \/ img_lo <= p /\ p < img_hi
    \/ pc = "segment" /\ FirstPage(Segments[seg]) <= p /\ p < page
    \/ StackLo <= p /\ p < StackTop

Owned ==
    \A p \in Pages : upt[p] # None =>
        \/ upt[p].by \in refused
        \/ pc # "shell" /\ upt[p].by = prog /\ Held(p)

IInv == /\ TypeOK /\ Loading /\ Owned
        /\ UserWriteXorExecute /\ GuardUnmapped /\ NoKernelFault
\* The window's numbers.
LEMMA Window ==
    /\ PageUnits \in Nat \ {0} /\ GuardPage \in Nat \ {0} /\ HeapPages \in Nat
    /\ StackLo \in Nat /\ StackTop \in Nat /\ UserTop \in Nat
    /\ GuardPage < StackLo /\ StackLo < StackTop /\ StackTop < UserTop
    /\ Pages = 0..(UserTop - 1)
  BY WindowAssumption DEF StackLo, StackTop, UserTop, Pages

\* The headers of a program are segments.
LEMMA SegmentOf ==
    ASSUME TypeOK, pc # "shell", NEW i \in 1..Len(Segments)
    PROVE  prog \in Programs /\ Segments[i] \in Segment
  <1>1. prog \in Programs
    BY DEF TypeOK
  <1>2. Segments \in Seq(Segment)
    BY <1>1, ProgramAssumption DEF Segments
  <1> QED  BY <1>1, <1>2

\* The shell with an empty window and an untouched heap.
LEMMA InitIInv == Init => IInv
  <1> SUFFICES ASSUME Init PROVE IInv
    OBVIOUS
  <1>1. TypeOK
    BY Window, WindowAssumption, ProgramAssumption DEF Init, TypeOK
  <1>2. Loading /\ Owned /\ UserWriteXorExecute /\ GuardUnmapped /\ NoKernelFault
    BY Window DEF Init, Loading, Owned, UserWriteXorExecute, GuardUnmapped, NoKernelFault
  <1> QED  BY <1>1, <1>2 DEF IInv

\* A page mapped for a segment or the stack: no other entry changes.
LEMMA MapKeeps ==
    ASSUME IInv, pc # "shell", NEW p \in Pages, p # GuardPage, p # StackTop,
           NEW w \in BOOLEAN, NEW x \in BOOLEAN, ~(w /\ x), MapFresh(p, w, x)
    PROVE  /\ upt' \in [Pages -> Entry \cup {None}]
           /\ tables' \subseteq {TableOf(q) : q \in Pages} /\ used' \in 0..HeapPages
           /\ \A q \in Pages : q # p => upt'[q] = upt[q]
           /\ upt'[p].by = prog
           /\ upt'[p] # None /\ upt'[p].w = w /\ upt'[p].x = x
           /\ UserWriteXorExecute' /\ GuardUnmapped'
  <1> DEFINE e == [frame |-> used + 1, w |-> w, x |-> x, by |-> prog]
  <1>1. /\ prog \in Programs /\ used \in 0..HeapPages /\ HeapPages \in Nat
        /\ upt \in [Pages -> Entry \cup {None}]
    BY Window DEF IInv, TypeOK
  <1>2. used + 1 \in 1..HeapPages /\ used' \in 0..HeapPages
    BY <1>1 DEF MapFresh, Needs
  <1>3. e \in Entry
    BY <1>1, <1>2 DEF Entry
  <1>4. upt' = [upt EXCEPT ![p] = e]
    BY DEF MapFresh
  <1>5. /\ upt' \in [Pages -> Entry \cup {None}]
        /\ \A q \in Pages : q # p => upt'[q] = upt[q]
        /\ upt'[p] = e
    BY <1>1, <1>3, <1>4
  <1>6. tables' \subseteq {TableOf(q) : q \in Pages}
    BY DEF MapFresh, IInv, TypeOK
  <1>7. UserWriteXorExecute'
    BY <1>5 DEF IInv, UserWriteXorExecute
  <1>8. GuardUnmapped'
    BY <1>5, Window DEF IInv, GuardUnmapped
  <1>9. e # None
    <2>1. e \in [frame : Nat, w : BOOLEAN, x : BOOLEAN, by : Programs]
      BY <1>1
    <2> QED  BY <2>1, ProgramAssumption
  <1> QED  BY <1>2, <1>5, <1>6, <1>7, <1>8, <1>9

\* elf_run gives up: the pages stay, and belong to a refused program.
LEMMA RefuseKeeps ==
    ASSUME IInv, pc # "shell", Refuse, UNCHANGED <<upt, tables>>, used' \in 0..HeapPages
    PROVE  IInv'
  <1>1. TypeOK'
    BY DEF IInv, TypeOK, Refuse
  <1>2. Owned'
    BY DEF IInv, Owned, Refuse
  <1>3. Loading' /\ UserWriteXorExecute' /\ GuardUnmapped' /\ NoKernelFault'
    BY DEF IInv, Loading, UserWriteXorExecute, GuardUnmapped, NoKernelFault, Refuse
  <1> QED  BY <1>1, <1>2, <1>3 DEF IInv

\* Whatever a loaded program does short of ending leaves the window alone.
LEMMA RunKeeps ==
    ASSUME IInv, pc \in {"stack", "user", "entry", "dispatch", "sleep", "getkey"},
           pc' \in {"user", "entry", "dispatch", "sleep", "getkey", "killed"},
           UNCHANGED <<loader, memory, refused>>,
           code' \in 0..415, wait' \in 0..MaxTicks,
           intr' \in BOOLEAN, cursor' \in BOOLEAN
    PROVE  IInv'
  <1> USE DEF loader, memory
  <1>1. TypeOK'
    BY DEF IInv, TypeOK
  <1>2. Owned'
    BY DEF IInv, Owned, Held
  <1>3. Loading' /\ UserWriteXorExecute' /\ GuardUnmapped' /\ NoKernelFault'
    BY DEF IInv, Loading, UserWriteXorExecute, GuardUnmapped, NoKernelFault
  <1> QED  BY <1>1, <1>2, <1>3 DEF IInv
\* Loading: each page of the program is new, in its segment, and off the guard.
LEMMA LoadKeeps == IInv /\ Load => IInv'
  <1> SUFFICES ASSUME IInv, Load PROVE IInv'
    OBVIOUS
  <1> USE DEF memory
  <1>1. CASE SkipHeader
    <2>1. TypeOK' /\ Loading'
      BY <1>1 DEF SkipHeader, IInv, TypeOK, Loading
    <2>2. Owned' /\ UserWriteXorExecute' /\ GuardUnmapped' /\ NoKernelFault'
      BY <1>1 DEF SkipHeader, IInv, Owned, Held, UserWriteXorExecute, GuardUnmapped,
                  NoKernelFault
    <2> QED  BY <2>1, <2>2 DEF IInv
  <1>2. CASE RejectHeader
    BY <1>2, RefuseKeeps DEF RejectHeader, IInv, TypeOK
  <1>3. CASE StartSegment
    <2> DEFINE s == Segments[seg]
    <2>1. seg \in 1..Len(Segments) /\ s \in Segment /\ ~Skipped(s) /\ Accepts(s)
      <3>1. Segments \in Seq(Segment)
        BY <1>3, ProgramAssumption DEF StartSegment, IInv, TypeOK, Segments
      <3>2. seg \in 1..Len(Segments)
        BY <1>3, <3>1 DEF StartSegment, IInv, TypeOK, Loading, Segments
      <3> QED  BY <1>3, <3>1, <3>2 DEF StartSegment, Segments
    <2>2. /\ FirstPage(s) \in Nat /\ EndPage(s) \in Nat
          /\ FirstPage(s) <= EndPage(s) /\ EndPage(s) <= GuardPage
      BY <2>1, SegmentPages
    <2>3. /\ pc = "header" /\ pc' = "segment" /\ page' = FirstPage(s)
          /\ UNCHANGED <<prog, seg, img_lo, img_hi, upt, tables, used, code, wait,
                         intr, cursor, refused>>
      BY <1>3 DEF StartSegment, Segments
    <2> HIDE DEF s
    <2>4. TypeOK'
      BY <2>2, <2>3, Window DEF IInv, TypeOK
    <2>5. Loading'
      BY <2>1, <2>2, <2>3 DEF Loading, Segments, s
    <2>6. Owned' /\ UserWriteXorExecute' /\ GuardUnmapped' /\ NoKernelFault'
      BY <2>3 DEF IInv, Owned, Held, UserWriteXorExecute, GuardUnmapped, NoKernelFault
    <2> QED  BY <2>4, <2>5, <2>6 DEF IInv
  <1>4. CASE LoadPage
    <2> DEFINE s == Segments[seg]
    <2>1. /\ pc = "segment" /\ seg \in 1..Len(Segments) /\ s \in Segment
          /\ ~Skipped(s) /\ Accepts(s)
          /\ page \in FirstPage(s)..EndPage(s) /\ page < EndPage(s)
      BY <1>4, SegmentOf DEF LoadPage, IInv, Loading, Segments
    <2>2. /\ FirstPage(s) \in Nat /\ EndPage(s) \in Nat /\ EndPage(s) <= GuardPage
          /\ ~(s.w /\ s.x) /\ s.w \in BOOLEAN /\ s.x \in BOOLEAN
      BY <2>1, SegmentPages
    <2>3. CASE OutOfPages(page)
      BY <2>1, <2>3, RefuseKeeps, Window DEF OutOfPages
    <2>4. CASE /\ MapFresh(page, s.w, s.x) /\ page' = page + 1
               /\ UNCHANGED <<pc, prog, seg, img_lo, img_hi, code, wait, intr, cursor,
                              refused>>
      <3>1. page \in Pages /\ page # GuardPage /\ page # StackTop
        BY <2>1, <2>2, Window
      <3>2. /\ upt' \in [Pages -> Entry \cup {None}]
            /\ tables' \subseteq {TableOf(q) : q \in Pages} /\ used' \in 0..HeapPages
            /\ \A q \in Pages : q # page => upt'[q] = upt[q]
            /\ upt'[page].by = prog
            /\ UserWriteXorExecute' /\ GuardUnmapped'
        BY <2>1, <2>2, <2>4, <3>1, MapKeeps
      <3>3. TypeOK'
        <4>1. page + 1 \in 0..UserTop
          BY <2>1, <2>2, Window
        <4>2. pc # "shell" /\ pc' # "shell"
          BY <2>1, <2>4
        <4> QED  BY <2>4, <3>2, <4>1, <4>2 DEF IInv, TypeOK
      <3>4. Loading'
        BY <2>1, <2>2, <2>4 DEF Loading, Segments
      <3>5. Owned'
        BY <2>1, <2>2, <2>4, <3>1, <3>2, Window DEF IInv, Owned, Held, Segments
      <3> QED  BY <2>1, <2>4, <3>2, <3>3, <3>4, <3>5 DEF IInv, NoKernelFault
    <2> QED  BY <1>4, <2>3, <2>4 DEF LoadPage, Segments
  <1>5. CASE EndSegment
    <2> DEFINE s == Segments[seg]
    <2>1. /\ pc = "segment" /\ seg \in 1..Len(Segments) /\ s \in Segment
          /\ Accepts(s) /\ page = EndPage(s)
      BY <1>5, SegmentOf DEF EndSegment, IInv, Loading, Segments
    <2>2. /\ FirstPage(s) \in Nat /\ EndPage(s) \in Nat /\ EndPage(s) <= GuardPage
          /\ FirstPage(s) <= EndPage(s)
      BY <2>1, SegmentPages
    <2>3. /\ img_lo' = IF FirstPage(s) < img_lo THEN FirstPage(s) ELSE img_lo
          /\ img_hi' = IF page > img_hi THEN page ELSE img_hi
          /\ pc' = "header" /\ seg' = seg + 1
          /\ UNCHANGED <<prog, page, upt, tables, used, code, wait, intr, cursor, refused>>
      BY <1>5 DEF EndSegment, Segments
    <2>4. img_lo \in 0..UserTop /\ img_hi \in 0..UserTop /\ page \in Nat /\ seg \in Nat
      BY <2>1, <2>2 DEF IInv, TypeOK
    <2>5. TypeOK'
      BY <2>1, <2>2, <2>3, <2>4, Window DEF IInv, TypeOK
    <2>6. Loading' /\ UserWriteXorExecute' /\ GuardUnmapped' /\ NoKernelFault'
      BY <2>1, <2>3 DEF IInv, Loading, UserWriteXorExecute, GuardUnmapped, NoKernelFault
    <2>7. Owned'
      BY <2>1, <2>2, <2>3, <2>4, Window DEF IInv, Owned, Held, Segments
    <2> QED  BY <2>5, <2>6, <2>7 DEF IInv
  <1>6. CASE HeadersDone
    <2>1. CASE img_hi = 0
      BY <1>6, <2>1, RefuseKeeps DEF HeadersDone, IInv, TypeOK
    <2>2. CASE img_hi # 0
      <3>1. TypeOK' /\ Loading'
        BY <1>6, <2>2, Window DEF HeadersDone, IInv, TypeOK, Loading
      <3>2. Owned' /\ UserWriteXorExecute' /\ GuardUnmapped' /\ NoKernelFault'
        BY <1>6, <2>2 DEF HeadersDone, IInv, Owned, Held, UserWriteXorExecute,
                          GuardUnmapped, NoKernelFault
      <3> QED  BY <3>1, <3>2 DEF IInv
    <2> QED  BY <2>1, <2>2
  <1>7. CASE StackPage
    <2>1. pc = "stack" /\ page \in StackLo..StackTop /\ page < StackTop
      BY <1>7 DEF StackPage, IInv, Loading
    <2>2. CASE OutOfPages(page)
      BY <2>1, <2>2, RefuseKeeps, Window DEF OutOfPages
    <2>3. CASE /\ MapFresh(page, TRUE, FALSE) /\ page' = page + 1
               /\ UNCHANGED <<pc, prog, seg, img_lo, img_hi, code, wait, intr, cursor,
                              refused>>
      <3>1. page \in Pages /\ page # GuardPage /\ page # StackTop
        BY <2>1, Window
      <3>2. /\ upt' \in [Pages -> Entry \cup {None}]
            /\ tables' \subseteq {TableOf(q) : q \in Pages} /\ used' \in 0..HeapPages
            /\ \A q \in Pages : q # page => upt'[q] = upt[q]
            /\ upt'[page].by = prog
            /\ UserWriteXorExecute' /\ GuardUnmapped'
        BY <2>1, <2>3, <3>1, MapKeeps
      <3>3. TypeOK' /\ Loading'
        <4>1. page + 1 \in 0..UserTop /\ page + 1 \in StackLo..StackTop
          BY <2>1, Window
        <4>2. pc = "stack" /\ pc' = "stack"
          BY <2>1, <2>3
        <4>3. TypeOK'
          BY <2>3, <3>2, <4>1, <4>2 DEF IInv, TypeOK
        <4>4. Loading'
          BY <2>3, <4>1, <4>2 DEF Loading
        <4> QED  BY <4>3, <4>4
      <3>4. Owned'
        BY <2>1, <2>3, <3>1, <3>2, Window DEF IInv, Owned, Held
      <3> QED  BY <2>1, <2>3, <3>2, <3>3, <3>4 DEF IInv, NoKernelFault
    <2> QED  BY <1>7, <2>2, <2>3 DEF StackPage
  <1>8. CASE EnterUser
    <2>1. code' \in 0..415 /\ wait' \in 0..MaxTicks
      BY <1>8 DEF EnterUser, IInv, TypeOK
    <2> QED  BY <1>8, <2>1, RunKeeps DEF EnterUser
  <1> QED
    BY <1>1, <1>2, <1>3, <1>4, <1>5, <1>6, <1>7, <1>8 DEF Load
\* A system call, whatever its arguments, is answered without a kernel fault.
LEMMA DispatchKeeps == IInv /\ Dispatch => IInv'
  <1> SUFFICES ASSUME IInv, Dispatch PROVE IInv'
    OBVIOUS
  <1>1. /\ code \in 0..415 /\ wait \in 0..MaxTicks /\ intr \in BOOLEAN
        /\ cursor \in BOOLEAN
    BY DEF IInv, TypeOK
  <1>2. ASSUME NEW a \in ExitArgs, SysExit(a) PROVE IInv'
    <2>1. a % 256 \in 0..415
      BY WindowAssumption
    <2> QED  BY <1>1, <1>2, <2>1, RunKeeps DEF SysExit
  <1>3. ASSUME NEW va \in Addresses, NEW len \in WriteLens, SysWrite(va, len) PROVE IInv'
    <2>1. len \in Nat
      BY WindowAssumption
    <2>2. Sysret
      BY <1>3, <2>1, PointersHold DEF SysWrite
    <2> QED  BY <1>1, <1>3, <2>2, RunKeeps DEF SysWrite, Sysret
  <1>4. ASSUME NEW on \in BOOLEAN, SysCursor(on) PROVE IInv'
    BY <1>1, <1>4, RunKeeps DEF SysCursor, Sysret
  <1>5. ASSUME NEW n \in 0..MaxTicks, SysSleep(n) PROVE IInv'
    BY <1>1, <1>5, RunKeeps DEF SysSleep
  <1>6. CASE SysGetkey
    BY <1>1, <1>6, RunKeeps DEF SysGetkey
  <1>7. CASE SysOther
    BY <1>1, <1>7, RunKeeps DEF SysOther, Sysret
  <1> QED  BY <1>2, <1>3, <1>4, <1>5, <1>6, <1>7 DEF Dispatch

\* Leaving user mode unmaps everything the program held.
LEMMA LeaveKeeps == IInv /\ LeaveUser => IInv'
  <1> SUFFICES ASSUME IInv, LeaveUser PROVE IInv'
    OBVIOUS
  <1>1. /\ pc = "killed" /\ pc' = "shell" /\ prog' = None /\ code' = 0
        /\ intr' = TRUE /\ cursor' = TRUE
        /\ UNCHANGED <<seg, page, img_lo, img_hi, tables, used, wait, refused>>
    BY DEF LeaveUser, Returned
  <1>2. \A p \in Pages :
           upt'[p] = IF \/ p \in StackLo..(StackTop - 1)
                       \/ p \in img_lo..(img_hi - 1)
                     THEN None ELSE upt[p]
    BY DEF LeaveUser, WindowCleared, Unmapped
  <1>3. upt' = [p \in Pages |-> upt'[p]]
    BY DEF LeaveUser, WindowCleared
  <1>4. TypeOK'
    <2>1. upt' \in [Pages -> Entry \cup {None}]
      BY <1>2, <1>3 DEF IInv, TypeOK
    <2> QED  BY <1>1, <2>1 DEF IInv, TypeOK
  <1>5. Owned'
    <2> SUFFICES ASSUME NEW p \in Pages, upt'[p] # None
                 PROVE  upt'[p].by \in refused'
      BY DEF Owned
    <2>1. /\ upt'[p] = upt[p] /\ p \notin StackLo..(StackTop - 1)
          /\ p \notin img_lo..(img_hi - 1)
      BY <1>2
    <2>2. p \in Int /\ img_lo \in Int /\ img_hi \in Int
      BY Window DEF IInv, TypeOK
    <2>3. ~Held(p)
      BY <1>1, <2>1, <2>2, Window DEF Held
    <2> QED  BY <1>1, <2>1, <2>3 DEF IInv, Owned
  <1>6. UserWriteXorExecute' /\ GuardUnmapped'
    BY <1>2, Window DEF IInv, UserWriteXorExecute, GuardUnmapped
  <1>7. Loading' /\ NoKernelFault'
    BY <1>1 DEF Loading, NoKernelFault
  <1> QED  BY <1>4, <1>5, <1>6, <1>7 DEF IInv

\* Every step of the shell, the loader, the program and the kernel keeps it.
LEMMA NextIInv == IInv /\ [Next]_vars => IInv'
  <1> SUFFICES ASSUME IInv, [Next]_vars PROVE IInv'
    OBVIOUS
  <1>1. /\ code \in 0..415 /\ wait \in 0..MaxTicks /\ intr \in BOOLEAN
        /\ cursor \in BOOLEAN
    BY DEF IInv, TypeOK
  <1>2. ASSUME NEW p \in Programs, Exec(p) PROVE IInv'
    <2>1. TypeOK'
      BY <1>2, Window, ProgramAssumption DEF Exec, memory, IInv, TypeOK
    <2>2. Loading' /\ UserWriteXorExecute' /\ GuardUnmapped' /\ NoKernelFault'
      BY <1>2 DEF Exec, memory, IInv, Loading, UserWriteXorExecute, GuardUnmapped,
                  NoKernelFault
    <2>3. Owned'
      BY <1>2 DEF Exec, memory, IInv, Owned
    <2> QED  BY <2>1, <2>2, <2>3 DEF IInv
  <1>3. CASE PageFault \/ OtherFault
    <2>1. PICK vec \in Vectors : pc = "user" /\ Killed(vec)
      BY <1>3 DEF PageFault, OtherFault
    <2>2. 384 + vec \in 0..415
      BY WindowAssumption
    <2> QED  BY <1>1, <2>1, <2>2, RunKeeps DEF Killed
  <1>4. CASE Syscall
    BY <1>1, <1>4, RunKeeps DEF Syscall
  <1>5. CASE SyscallSti
    BY <1>1, <1>5, RunKeeps DEF SyscallSti
  <1>6. CASE Tick
    <2>1. wait' \in 0..MaxTicks
      BY <1>1, <1>6, WindowAssumption DEF Tick
    <2> QED  BY <1>1, <1>6, <2>1, RunKeeps DEF Tick
  <1>7. CASE WakeUp
    BY <1>1, <1>7, RunKeeps DEF WakeUp, Sysret
  <1>8. CASE GotKey
    BY <1>1, <1>8, RunKeeps DEF GotKey, Sysret
  <1>9. CASE UNCHANGED vars
    BY <1>9 DEF vars, IInv, TypeOK, Loading, Owned, Held, Segments, UserWriteXorExecute,
                GuardUnmapped, NoKernelFault
  <1> QED
    BY <1>2, <1>3, <1>4, <1>5, <1>6, <1>7, <1>8, <1>9, LoadKeeps, DispatchKeeps, LeaveKeeps
       DEF Next
-----------------------------------------------------------------------------
\* What the theorems rest on, for every behaviour.
LEMMA AlwaysIInv == Spec => []IInv
  BY InitIInv, NextIInv, PTL DEF Spec

\* Every variable stays in its type (proc.c, paging.c).
THEOREM UserTypes == Spec => []TypeOK
  <1>1. IInv => TypeOK
    BY DEF IInv
  <1> QED  BY <1>1, AlwaysIInv, PTL

\* No page of user space is ever writable and executable, whatever headers
\* elf_run is given and in whatever order their pages overlap.
THEOREM UserWX == Spec => []UserWriteXorExecute
  <1>1. IInv => UserWriteXorExecute
    BY DEF IInv
  <1> QED  BY <1>1, AlwaysIInv, PTL

\* The pages below and above the stack are never mapped (elf_run's bounds,
\* load_segment's rounding up).
THEOREM GuardStays == Spec => []GuardUnmapped
  <1>1. IInv => GuardUnmapped
    BY DEF IInv
  <1> QED  BY <1>1, AlwaysIInv, PTL

\* What vm_user_ok accepts, SYS_WRITE can read: for every pointer and length.
THEOREM PointersSafe == Spec => []NoKernelFault
  <1>1. IInv => NoKernelFault
    BY DEF IInv
  <1> QED  BY <1>1, AlwaysIInv, PTL

\* After any sequence of programs, the shell finds pages of refused ones only
\* (user_abort and the unmapping after user_enter).
THEOREM LeftoversRefused == Spec => []OnlyRefusedLeftovers
  <1>1. IInv => OnlyRefusedLeftovers
    BY DEF IInv, Owned, OnlyRefusedLeftovers
  <1> QED  BY <1>1, AlwaysIInv, PTL

-----------------------------------------------------------------------------
(* The image.                                                              *)

PagesOf(s) == FirstPage(s)..(EndPage(s) - 1)

\* load_segment's loop maps exactly the pages that bytes of the segment are on.
LEMMA TouchedPages ==
    ASSUME NEW s \in Segment, Accepts(s), ~Skipped(s)
    PROVE  Touched(s.va, s.memsz) = PagesOf(s)
  <1> DEFINE n == PageUnits
             first == s.va \div n
             end == (s.va + s.memsz + n - 1) \div n
  <1>1. n \in Nat \ {0} /\ s.va \in Nat /\ s.memsz \in Nat \ {0}
    BY WindowAssumption DEF Segment, Accepts, Skipped
  <1>2. /\ first \in Int /\ first * n <= s.va /\ s.va < first * n + n
        /\ end \in Int /\ end * n <= s.va + s.memsz + n - 1
        /\ s.va + s.memsz + n - 1 < end * n + n
    <2> DEFINE m == s.va + s.memsz + n - 1
    <2>1. m \in Int /\ s.va \in Int
      BY <1>1
    <2> HIDE DEF n, m
    <2>2. first \in Int /\ first * n <= s.va /\ s.va < first * n + n
      BY <1>1, <2>1, Quotient
    <2>3. m \div n \in Int /\ (m \div n) * n <= m /\ m < (m \div n) * n + n
      BY <1>1, <2>1, Quotient
    <2>4. end = m \div n
      BY DEF m
    <2> QED  BY <2>2, <2>3, <2>4 DEF m
  <1>3. PagesOf(s) = first..(end - 1)
    BY DEF PagesOf, FirstPage, EndPage
  <1> HIDE DEF n, first, end
  <1>4. ASSUME NEW p \in Touched(s.va, s.memsz) PROVE p \in first..(end - 1)
    <2>1. PICK i \in 0..(s.memsz - 1) : p = (s.va + i) \div n
      BY DEF Touched, n
    <2>2. p \in Int /\ p * n <= s.va + i /\ s.va \div n <= p
      <3> DEFINE c == s.va + i
      <3>1. c \in Int /\ s.va <= c /\ s.va \in Int /\ p = c \div n
        BY <1>1, <2>1
      <3> HIDE DEF c
      <3>2. c \div n \in Int /\ (c \div n) * n <= c /\ s.va \div n <= c \div n
        BY <1>1, <3>1, Quotient, Monotone
      <3> QED  BY <3>1, <3>2 DEF c
    <2>3. first <= p
      BY <2>2 DEF first
    <2>4. (p + 1) * n < (end + 1) * n
      <3>1. (p + 1) * n = p * n + n /\ (end + 1) * n = end * n + n
            /\ p * n \in Int /\ end * n \in Int
        BY <1>1, <1>2, <2>2
      <3> QED  BY <1>1, <1>2, <2>1, <2>2, <3>1
    <2>5. p + 1 < end + 1
      BY <1>1, <1>2, <2>2, <2>4, Earlier
    <2> QED  BY <1>2, <2>2, <2>3, <2>5
  <1>5. ASSUME NEW p \in first..(end - 1) PROVE p \in Touched(s.va, s.memsz)
    <2> DEFINE b == IF s.va < p * n THEN p * n ELSE s.va
    <2>1. p \in Int /\ p * n \in Int /\ (p + 1) * n = p * n + n
          /\ first * n \in Int /\ (first + 1) * n = first * n + n /\ end * n \in Int
      BY <1>1, <1>2
    <2>2. b \in Int /\ s.va <= b
      BY <1>1, <2>1
    <2>3. b < s.va + s.memsz
      <3>1. p * n <= end * n - n
        <4>1. PICK d \in Nat : end = p + 1 + d
          <5>1. end - (p + 1) \in Nat /\ end = p + 1 + (end - (p + 1))
            BY <1>2
          <5> QED  BY <5>1
        <4>2. end * n = p * n + n + d * n /\ d * n >= 0
          BY <1>1, <2>1, <4>1
        <4> QED  BY <1>1, <2>1, <4>2
      <3> QED  BY <1>1, <1>2, <2>1, <3>1
    <2>4. b \div n = p
      <3> DEFINE q == b \div n
      <3>1. q \in Int /\ q * n <= b /\ b < q * n + n
        BY <1>1, <2>2, Quotient
      <3> HIDE DEF q
      <3>2. q * n \in Int /\ (q + 1) * n = q * n + n
        BY <1>1, <3>1
      <3>3. p * n <= b
        BY <1>1, <2>1
      <3>4. p * n < (q + 1) * n
        BY <1>1, <2>1, <2>2, <3>1, <3>2, <3>3
      <3>5. p < q + 1
        BY <1>1, <2>1, <3>1, <3>4, Earlier
      <3>6. q < p + 1
        <4>1. CASE s.va < p * n
          <5>1. q * n < (p + 1) * n
            BY <1>1, <2>1, <3>1, <3>2, <4>1
          <5> QED  BY <1>1, <2>1, <3>1, <5>1, Earlier
        <4>2. CASE ~(s.va < p * n)
          <5>1. q * n < (first + 1) * n
            BY <1>1, <1>2, <2>1, <3>1, <3>2, <4>2
          <5>2. q < first + 1
            BY <1>1, <1>2, <3>1, <5>1, Earlier
          <5> QED  BY <1>2, <2>1, <3>1, <5>2
        <4> QED  BY <4>1, <4>2
      <3> QED  BY <2>1, <3>1, <3>5, <3>6 DEF q
    <2> HIDE DEF b
    <2>5. b - s.va \in 0..(s.memsz - 1) /\ s.va + (b - s.va) = b
      BY <1>1, <2>2, <2>3
    <2> QED  BY <2>4, <2>5 DEF Touched, n
  <1> QED  BY <1>3, <1>4, <1>5
-----------------------------------------------------------------------------
(* The inductive invariant, on top of that of UserProcProofs.              *)

\* The pages mapped so far for header j of the program being loaded or run.
Mapped(j) ==
    IF Skipped(Segments[j]) THEN {}
    ELSE IF j < seg THEN PagesOf(Segments[j])
    ELSE IF j = seg /\ pc = "segment" THEN FirstPage(Segments[j])..(page - 1)
    ELSE {}

\* They are this program's, and the last header to map one set what it allows.
InPlace(j) ==
    \A p \in Mapped(j) :
        /\ upt[p] # None /\ upt[p].by = prog
        /\ (\A k \in (j + 1)..Len(Segments) : p \notin Mapped(k))
             => upt[p].w = Segments[j].w /\ upt[p].x = Segments[j].x

ImageSoFar ==
    pc # "shell" => \A j \in 1..Len(Segments) :
        /\ j < seg /\ ~Skipped(Segments[j]) => Accepts(Segments[j])
        /\ InPlace(j)

StackSoFar ==
    pc = "stack" \/ Running =>
        /\ seg > Len(Segments)
        /\ \A p \in StackLo..(StackTop - 1) :
              (pc = "stack" => p < page)
              => upt[p] # None /\ upt[p].by = prog /\ upt[p].w

CInv == ImageSoFar /\ StackSoFar
\* The shell runs no program.
LEMMA InitCInv == Init => CInv
  BY DEF Init, CInv, ImageSoFar, StackSoFar, Running

\* A step that maps nothing and keeps the place of every header.
LEMMA SameImage ==
    ASSUME IInv, ImageSoFar, pc # "shell", UNCHANGED <<prog, upt>>,
           \A j \in 1..Len(Segments) :
               /\ Mapped(j)' = Mapped(j)
               /\ j < seg' /\ ~Skipped(Segments[j]) => Accepts(Segments[j])
    PROVE  ImageSoFar'
  <1>1. Segments' = Segments
    BY DEF Segments
  <1>2. Len(Segments) \in Nat
    BY ProgramAssumption DEF IInv, TypeOK, Segments
  <1>3. ASSUME NEW j \in 1..Len(Segments) PROVE InPlace(j)'
    <2>1. \A k \in (j + 1)..Len(Segments) : k \in 1..Len(Segments)
      BY <1>2
    <2>2. InPlace(j)
      BY DEF ImageSoFar
    <2> QED  BY <1>1, <2>1, <2>2 DEF InPlace
  <1> QED  BY <1>1, <1>3 DEF ImageSoFar

\* Refusing a program and leaving one end the claim.
LEMMA ShellCInv == pc' = "shell" => CInv'
  BY DEF CInv, ImageSoFar, StackSoFar, Running

\* Mapping a page of the segment at seg: earlier headers lose it, no later one
\* has it.
LEMMA LoadPageImage ==
    ASSUME IInv, CInv, pc = "segment", page < EndPage(Segments[seg]),
           MapFresh(page, Segments[seg].w, Segments[seg].x), page' = page + 1,
           UNCHANGED <<pc, prog, seg>>
    PROVE  ImageSoFar'
  <1> DEFINE s == Segments[seg]
  <1>1. /\ seg \in 1..Len(Segments) /\ s \in Segment /\ ~Skipped(s) /\ Accepts(s)
        /\ page \in FirstPage(s)..EndPage(s) /\ Len(Segments) \in Nat
    BY SegmentOf, ProgramAssumption DEF IInv, Loading, TypeOK, Segments
  <1>2. /\ FirstPage(s) \in Nat /\ EndPage(s) \in Nat /\ EndPage(s) <= GuardPage
        /\ ~(s.w /\ s.x) /\ s.w \in BOOLEAN /\ s.x \in BOOLEAN
    BY <1>1, SegmentPages
  <1>3. page \in Pages /\ page # GuardPage /\ page # StackTop
    BY <1>1, <1>2, Window
  <1>4. /\ \A q \in Pages : q # page => upt'[q] = upt[q]
        /\ upt'[page].by = prog /\ upt'[page] # None
        /\ upt'[page].w = s.w /\ upt'[page].x = s.x
    BY <1>1, <1>2, <1>3, MapKeeps
  <1>5. Segments' = Segments
    BY DEF Segments
  <1>6. ASSUME NEW j \in 1..Len(Segments)
        PROVE  Mapped(j)' = IF j = seg THEN Mapped(j) \cup {page} ELSE Mapped(j)
    <2>1. CASE j = seg
      <3>1. /\ Mapped(j) = FirstPage(s)..(page - 1)
            /\ Mapped(j)' = FirstPage(s)..(page + 1 - 1)
        BY <1>1, <1>5, <2>1 DEF Mapped
      <3>2. FirstPage(s)..(page + 1 - 1) = (FirstPage(s)..(page - 1)) \cup {page}
        BY <1>1, <1>2
      <3> QED  BY <2>1, <3>1, <3>2
    <2>2. CASE j # seg
      BY <1>5, <2>2 DEF Mapped
    <2> QED  BY <2>1, <2>2
  <1>7. ASSUME NEW j \in 1..Len(Segments) PROVE Mapped(j) \subseteq Pages
    <2>1. CASE j < seg /\ ~Skipped(Segments[j])
      <3>1. Segments[j] \in Segment /\ Accepts(Segments[j])
        BY <2>1, SegmentOf DEF IInv, CInv, ImageSoFar
      <3>2. /\ FirstPage(Segments[j]) \in Nat /\ EndPage(Segments[j]) \in Nat
            /\ EndPage(Segments[j]) <= GuardPage
        BY <3>1, SegmentPages
      <3> QED  BY <2>1, <3>2, Window DEF Mapped, PagesOf
    <2>2. CASE ~(j < seg /\ ~Skipped(Segments[j]))
      BY <1>1, <1>2, <2>2, Window DEF Mapped
    <2> QED  BY <2>1, <2>2
  <1> HIDE DEF s
  <1>8. ASSUME NEW j \in 1..Len(Segments) PROVE InPlace(j)'
    <2> SUFFICES ASSUME NEW p \in Mapped(j)'
                 PROVE  /\ upt'[p] # None /\ upt'[p].by = prog
                        /\ (\A k \in (j + 1)..Len(Segments) : p \notin Mapped(k)')
                             => upt'[p].w = Segments[j].w /\ upt'[p].x = Segments[j].x
      BY <1>5 DEF InPlace
    <2>1. CASE p = page
      <3>1. CASE j = seg
        BY <1>4, <2>1, <3>1 DEF s
      <3>2. CASE j # seg
        <4>1. p \in Mapped(j)
          BY <1>6, <3>2
        <4>2. j < seg
          BY <1>1, <3>2, <4>1 DEF Mapped
        <4>3. seg \in (j + 1)..Len(Segments) /\ p \in Mapped(seg)'
          BY <1>1, <1>6, <2>1, <4>2
        <4> QED  BY <1>4, <2>1, <4>3
      <3> QED  BY <3>1, <3>2
    <2>2. CASE p # page
      <3>1. p \in Mapped(j) /\ p \in Pages
        BY <1>6, <1>7, <2>2
      <3>2. upt'[p] = upt[p]
        BY <1>4, <2>2, <3>1
      <3>3. \A k \in (j + 1)..Len(Segments) : p \notin Mapped(k)' => p \notin Mapped(k)
        <4>1. \A k \in (j + 1)..Len(Segments) : k \in 1..Len(Segments)
          BY <1>1
        <4> QED  BY <1>6, <4>1
      <3>4. InPlace(j)
        BY DEF CInv, ImageSoFar
      <3> QED  BY <3>1, <3>2, <3>3, <3>4 DEF InPlace
    <2> QED  BY <2>1, <2>2
  <1> QED  BY <1>5, <1>8 DEF CInv, ImageSoFar
\* The loader's steps.
LEMMA LoadCInv == IInv /\ CInv /\ Load => CInv'
  <1> SUFFICES ASSUME IInv, CInv, Load PROVE CInv'
    OBVIOUS
  <1> USE DEF memory
  <1>1. CASE SkipHeader
    <2>1. /\ pc = "header" /\ pc' = "header" /\ seg' = seg + 1 /\ Skipped(Segments[seg])
          /\ UNCHANGED <<prog, page, upt>> /\ seg \in Nat
      BY <1>1 DEF SkipHeader, Segments, IInv, TypeOK
    <2>2. Segments' = Segments
      BY <2>1 DEF Segments
    <2>3. ASSUME NEW j \in 1..Len(Segments)
          PROVE  /\ Mapped(j)' = Mapped(j)
                 /\ j < seg' /\ ~Skipped(Segments[j]) => Accepts(Segments[j])
      BY <2>1, <2>2 DEF Mapped, CInv, ImageSoFar
    <2> QED  BY <2>1, <2>3, SameImage DEF CInv, StackSoFar, Running
  <1>2. CASE RejectHeader
    BY <1>2, ShellCInv DEF RejectHeader, Refuse
  <1>3. CASE StartSegment
    <2>1. /\ pc = "header" /\ pc' = "segment" /\ page' = FirstPage(Segments[seg])
          /\ UNCHANGED <<prog, seg, upt>> /\ seg \in Nat
      BY <1>3 DEF StartSegment, Segments, IInv, TypeOK
    <2>2. Segments' = Segments
      BY <2>1 DEF Segments
    <2>3. FirstPage(Segments[seg]) \in Int
      <3>1. Segments \in Seq(Segment) /\ seg \in 1..Len(Segments)
        BY <1>3, ProgramAssumption DEF StartSegment, IInv, TypeOK, Loading, Segments
      <3>2. Segments[seg] \in Segment /\ Accepts(Segments[seg])
        BY <1>3, <3>1 DEF StartSegment, Segments
      <3> QED  BY <3>2, SegmentPages
    <2>4. ASSUME NEW j \in 1..Len(Segments)
          PROVE  /\ Mapped(j)' = Mapped(j)
                 /\ j < seg' /\ ~Skipped(Segments[j]) => Accepts(Segments[j])
      BY <2>1, <2>2, <2>3 DEF Mapped, CInv, ImageSoFar
    <2> QED  BY <2>1, <2>4, SameImage DEF CInv, StackSoFar, Running
  <1>4. CASE LoadPage
    <2>1. CASE OutOfPages(page)
      BY <2>1, ShellCInv DEF OutOfPages, Refuse
    <2>2. CASE ~OutOfPages(page)
      BY <1>4, <2>2, LoadPageImage DEF LoadPage, Segments, CInv, StackSoFar, Running
    <2> QED  BY <2>1, <2>2
  <1>5. CASE EndSegment
    <2>1. /\ pc = "segment" /\ pc' = "header" /\ page = EndPage(Segments[seg])
          /\ seg' = seg + 1 /\ UNCHANGED <<prog, page, upt>> /\ seg \in Nat
          /\ Accepts(Segments[seg])
      BY <1>5 DEF EndSegment, Segments, IInv, TypeOK, Loading
    <2>2. Segments' = Segments
      BY <2>1 DEF Segments
    <2>3. ASSUME NEW j \in 1..Len(Segments)
          PROVE  /\ Mapped(j)' = Mapped(j)
                 /\ j < seg' /\ ~Skipped(Segments[j]) => Accepts(Segments[j])
      BY <2>1, <2>2 DEF Mapped, PagesOf, CInv, ImageSoFar
    <2> QED  BY <2>1, <2>3, SameImage DEF CInv, StackSoFar, Running
  <1>6. CASE HeadersDone
    <2>1. CASE pc' = "shell"
      BY <2>1, ShellCInv
    <2>2. CASE pc' # "shell"
      <3>1. /\ pc = "header" /\ pc' = "stack" /\ page' = StackLo /\ seg > Len(Segments)
            /\ UNCHANGED <<prog, seg, upt>>
        BY <1>6, <2>2 DEF HeadersDone, Refuse, Segments
      <3>2. Segments' = Segments
        BY <3>1 DEF Segments
      <3>3. ASSUME NEW j \in 1..Len(Segments)
            PROVE  /\ Mapped(j)' = Mapped(j)
                   /\ j < seg' /\ ~Skipped(Segments[j]) => Accepts(Segments[j])
        BY <3>1, <3>2 DEF Mapped, CInv, ImageSoFar
      <3>4. StackSoFar'
        BY <3>1, <3>2, Window DEF StackSoFar
      <3> QED  BY <3>1, <3>3, <3>4, SameImage DEF CInv
    <2> QED  BY <2>1, <2>2
  <1>7. CASE StackPage
    <2>1. CASE OutOfPages(page)
      BY <2>1, ShellCInv DEF OutOfPages, Refuse
    <2>2. CASE ~OutOfPages(page)
      <3>1. /\ pc = "stack" /\ pc' = "stack" /\ page \in StackLo..(StackTop - 1)
            /\ MapFresh(page, TRUE, FALSE) /\ page' = page + 1
            /\ UNCHANGED <<prog, seg, img_lo, img_hi>>
        <4>1. pc = "stack" /\ page < StackTop /\ page \in StackLo..StackTop
          BY <1>7 DEF StackPage, IInv, Loading
        <4>2. page \in StackLo..(StackTop - 1)
          BY <4>1, Window
        <4>3. /\ MapFresh(page, TRUE, FALSE) /\ page' = page + 1
              /\ UNCHANGED <<pc, prog, seg, img_lo, img_hi>>
          BY <1>7, <2>2 DEF StackPage
        <4> QED  BY <4>1, <4>2, <4>3
      <3>2. page \in Pages /\ page # GuardPage /\ page # StackTop
        BY <3>1, Window
      <3>3. /\ \A q \in Pages : q # page => upt'[q] = upt[q]
            /\ upt'[page].by = prog /\ upt'[page] # None /\ upt'[page].w = TRUE
        BY <3>1, <3>2, MapKeeps
      <3>4. Segments' = Segments
        BY <3>1 DEF Segments
      <3>5. StackSoFar'
        BY <3>1, <3>3, <3>4, Window DEF CInv, StackSoFar
      <3>6. ASSUME NEW j \in 1..Len(Segments) PROVE Mapped(j)' = Mapped(j) /\ InPlace(j)'
        <4>1. Mapped(j)' = Mapped(j) /\ \A k \in Nat : Mapped(k)' = Mapped(k)
          BY <3>1, <3>4 DEF Mapped
        <4>2. \A p \in Mapped(j) : p \in Pages /\ p # page
          <5>1. CASE j < seg /\ ~Skipped(Segments[j])
            <6>1. Segments[j] \in Segment /\ Accepts(Segments[j])
              BY <3>1, <5>1, SegmentOf DEF IInv, CInv, ImageSoFar
            <6>2. /\ FirstPage(Segments[j]) \in Nat /\ EndPage(Segments[j]) \in Nat
                  /\ EndPage(Segments[j]) <= GuardPage
              BY <6>1, SegmentPages
            <6> QED  BY <3>1, <5>1, <6>2, Window DEF Mapped, PagesOf
          <5>2. CASE ~(j < seg /\ ~Skipped(Segments[j]))
            BY <3>1, <5>2 DEF Mapped
          <5> QED  BY <5>1, <5>2
        <4>3. \A p \in Mapped(j) : upt'[p] = upt[p]
          BY <3>3, <4>2
        <4>4. InPlace(j) /\ Len(Segments) \in Nat
          BY <3>1, ProgramAssumption DEF CInv, ImageSoFar, IInv, TypeOK, Segments
        <4>5. \A k \in (j + 1)..Len(Segments) : Mapped(k)' = Mapped(k)
          BY <4>1, <4>4
        <4> QED  BY <3>1, <3>4, <4>1, <4>3, <4>4, <4>5 DEF InPlace
      <3>7. ImageSoFar'
        BY <3>1, <3>4, <3>6 DEF CInv, ImageSoFar
      <3> QED  BY <3>5, <3>7 DEF CInv
    <2> QED  BY <2>1, <2>2
  <1>8. CASE EnterUser
    <2>1. /\ pc = "stack" /\ pc' = "user" /\ page = StackTop
          /\ UNCHANGED <<prog, seg, page, upt>>
      BY <1>8 DEF EnterUser, loader
    <2>2. Segments' = Segments
      BY <2>1 DEF Segments
    <2>3. ASSUME NEW j \in 1..Len(Segments)
          PROVE  /\ Mapped(j)' = Mapped(j)
                 /\ j < seg' /\ ~Skipped(Segments[j]) => Accepts(Segments[j])
      BY <2>1, <2>2 DEF Mapped, CInv, ImageSoFar
    <2>4. StackSoFar'
      BY <2>1, <2>2, Window DEF CInv, StackSoFar
    <2> QED  BY <2>1, <2>3, <2>4, SameImage DEF CInv
  <1> QED
    BY <1>1, <1>2, <1>3, <1>4, <1>5, <1>6, <1>7, <1>8 DEF Load
\* What a running program and its system calls do leaves the image in place.
LEMMA RunCInv ==
    ASSUME IInv, CInv, Running, Running', UNCHANGED <<loader, memory>>
    PROVE  CInv'
  <1>1. UNCHANGED <<prog, seg, page, upt>> /\ Segments' = Segments
    BY DEF loader, memory, Segments
  <1>2. ASSUME NEW j \in 1..Len(Segments)
        PROVE  /\ Mapped(j)' = Mapped(j)
               /\ j < seg' /\ ~Skipped(Segments[j]) => Accepts(Segments[j])
    BY <1>1 DEF Mapped, Running, CInv, ImageSoFar
  <1>3. StackSoFar'
    BY <1>1 DEF CInv, StackSoFar, Running
  <1> QED  BY <1>1, <1>2, <1>3, SameImage DEF CInv, Running

\* Every step keeps what is in place of the image and of the stack.
LEMMA NextCInv == IInv /\ IInv' /\ CInv /\ [Next]_vars => CInv'
  <1> SUFFICES ASSUME IInv, IInv', CInv, [Next]_vars PROVE CInv'
    OBVIOUS
  <1>1. ASSUME NEW p \in Programs, Exec(p) PROVE CInv'
    <2>1. CASE p.header
      <3>1. pc' = "header" /\ seg' = 1
        BY <1>1, <2>1 DEF Exec
      <3>2. ASSUME NEW j \in 1..Len(Segments') PROVE Mapped(j)' = {}
        BY <3>1 DEF Mapped
      <3> QED  BY <3>1, <3>2 DEF CInv, ImageSoFar, InPlace, StackSoFar, Running
    <2>2. CASE ~p.header
      BY <1>1, <2>2, ShellCInv DEF Exec
    <2> QED  BY <2>1, <2>2
  <1>2. CASE PageFault \/ OtherFault \/ Syscall \/ SyscallSti \/ Tick \/ WakeUp \/ GotKey
    BY <1>2, RunCInv DEF PageFault, OtherFault, Killed, Syscall, SyscallSti, Tick, WakeUp,
                         GotKey, Sysret, Running
  <1>3. CASE Dispatch
    BY <1>3, RunCInv DEF Dispatch, SysExit, SysWrite, SysCursor, SysSleep, SysGetkey,
                         SysOther, Sysret, Running
  <1>4. CASE LeaveUser
    BY <1>4, ShellCInv DEF LeaveUser, Returned
  <1>5. CASE UNCHANGED vars
    BY <1>5 DEF vars, CInv, ImageSoFar, StackSoFar, InPlace, Mapped, Segments, Running
  <1> QED
    BY <1>1, <1>2, <1>3, <1>4, <1>5, LoadCInv DEF Next

\* Whatever headers a program has, elf_run and load_segment enter ring 3 only
\* with every page of it, and of the stack, in place.
THEOREM ImageSafe == Spec => []ImageComplete
  <1>1. IInv /\ CInv => ImageComplete
    <2> SUFFICES ASSUME IInv, CInv, Running PROVE ImageComplete
      BY DEF ImageComplete
    <2>1. pc # "shell" /\ pc # "stack" /\ pc # "segment"
      BY DEF Running
    <2>2. Segments = prog.segs /\ Segments \in Seq(Segment) /\ Len(Segments) \in Nat
      BY <2>1, ProgramAssumption DEF IInv, TypeOK, Segments
    <2>3. seg > Len(Segments) /\ seg \in Nat
      BY DEF CInv, StackSoFar, IInv, TypeOK
    <2>4. ASSUME NEW j \in 1..Len(Segments), ~Skipped(Segments[j])
          PROVE  /\ Mapped(j) = Touched(Segments[j].va, Segments[j].memsz)
                 /\ InPlace(j)
      <3>1. Segments[j] \in Segment /\ Accepts(Segments[j]) /\ j < seg /\ InPlace(j)
        BY <2>1, <2>2, <2>3, <2>4 DEF CInv, ImageSoFar
      <3>2. Touched(Segments[j].va, Segments[j].memsz) = PagesOf(Segments[j])
        BY <2>4, <3>1, TouchedPages
      <3> QED  BY <2>4, <3>1, <3>2 DEF Mapped
    <2>5. ASSUME NEW i \in 1..Len(Segments), ~Skipped(Segments[i]),
                 NEW p \in Touched(Segments[i].va, Segments[i].memsz)
          PROVE  /\ upt[p] # None /\ upt[p].by = prog
                 /\ (\A j \in (i + 1)..Len(Segments) :
                        \/ Skipped(Segments[j])
                        \/ p \notin Touched(Segments[j].va, Segments[j].memsz))
                    => upt[p].w = Segments[i].w /\ upt[p].x = Segments[i].x
      <3>1. p \in Mapped(i) /\ InPlace(i)
        BY <2>4, <2>5
      <3>2. ASSUME \A j \in (i + 1)..Len(Segments) :
                     \/ Skipped(Segments[j])
                     \/ p \notin Touched(Segments[j].va, Segments[j].memsz)
            PROVE  \A k \in (i + 1)..Len(Segments) : p \notin Mapped(k)
        <4> SUFFICES ASSUME NEW k \in (i + 1)..Len(Segments) PROVE p \notin Mapped(k)
          OBVIOUS
        <4>1. k \in 1..Len(Segments)
          BY <2>2
        <4>2. CASE Skipped(Segments[k])
          BY <4>2 DEF Mapped
        <4>3. CASE ~Skipped(Segments[k])
          BY <2>4, <3>2, <4>1, <4>3
        <4> QED  BY <4>2, <4>3
      <3> QED  BY <3>1, <3>2 DEF InPlace
    <2>6. \A p \in StackLo..(StackTop - 1) : upt[p] # None /\ upt[p].by = prog /\ upt[p].w
      BY <2>1 DEF CInv, StackSoFar
    <2> QED  BY <2>2, <2>5, <2>6 DEF ImageComplete
  <1> QED  BY <1>1, AlwaysIInv, InitCInv, NextCInv, PTL DEF Spec
=============================================================================
