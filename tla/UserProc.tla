------------------------------ MODULE UserProc ------------------------------
(***************************************************************************)
(* One foreground ring-3 process (proc.c, the ring-3 part of entry.S, the  *)
(* vm_user_* functions of paging.c): proc_exec loads an ELF program page   *)
(* by page into the user window, user_enter drops to ring 3, the program   *)
(* makes syscalls and ends by the exit syscall or by a fault, and control  *)
(* is back in the shell.  Physical pages come from the bump heap and are   *)
(* never given back, so a long session runs out of them.                   *)
(*                                                                         *)
(* Addresses count units of 1/PageUnits page from USER_BASE.  The window   *)
(* is the image area, a guard page, the stack, and one more unmapped page. *)
(***************************************************************************)
EXTENDS Integers, Sequences, FiniteSets

CONSTANTS
    PageUnits,    \* 4096
    GuardPage,    \* the page below USTACK_LO: the image area is 0..GuardPage-1
    StackPages,   \* USTACK_PAGES: 64
    TableOf(_),   \* which page table holds a page's entry
    HeapPages,    \* pages the bump heap still has
    Programs,     \* what BIN.PAK holds
    WriteLens,    \* lengths passed to SYS_WRITE
    MaxWrite,     \* 65536
    ExitArgs,     \* arguments of SYS_EXIT
    MaxTicks,     \* bound on the ticks a SYS_SLEEP asks for
    Vectors,      \* exceptions ring 3 can raise
    None

StackLo  == GuardPage + 1
StackTop == StackLo + StackPages       \* USER_STACK_TOP
UserTop  == StackTop + 1               \* the last page is never mapped
Pages    == 0 .. (UserTop - 1)
ImageEnd == GuardPage * PageUnits      \* USTACK_LO - 4096

\* A program header: type and flags, the file-range checks abstracted to one bit.
Segment == [load : BOOLEAN, va : Int, memsz : Nat, w : BOOLEAN, x : BOOLEAN,
            inFile : BOOLEAN]

ASSUME WindowAssumption ==
    /\ PageUnits \in Nat \ {0} /\ GuardPage \in Nat \ {0}
    /\ StackPages \in Nat \ {0} /\ HeapPages \in Nat
    /\ Vectors \subseteq 0 .. 31
    /\ ExitArgs \subseteq Nat /\ WriteLens \subseteq Nat /\ MaxTicks \in Nat
    /\ None \notin Pages

ASSUME ProgramAssumption ==
    /\ None \notin Programs
    /\ None \notin [frame : Nat, w : BOOLEAN, x : BOOLEAN, by : Programs]
    /\ \A p \in Programs : p.header \in BOOLEAN /\ p.segs \in Seq(Segment)

VARIABLES
    pc,                   \* where the kernel, or the program, is
    prog, seg, page,      \* the program being run; the loader's position
    img_lo, img_hi,       \* pages, as the statics of the same name
    upt,                  \* the window's page table entries
    tables,               \* page tables that exist
    used,                 \* pages taken from the heap
    code,                 \* user_enter's result
    wait,                 \* ticks SYS_SLEEP still has to see
    intr,                 \* the interrupt flag
    cursor,               \* the console's cell cursor
    refused               \* programs elf_run gave up loading

vars == <<pc, prog, seg, page, img_lo, img_hi, upt, tables, used, code,
          wait, intr, cursor, refused>>

loader == <<prog, seg, page, img_lo, img_hi>>
memory == <<upt, tables, used>>

Init ==
    /\ pc = "shell" /\ prog = None /\ seg = 0 /\ page = 0
    /\ img_lo = UserTop /\ img_hi = 0
    /\ upt = [p \in Pages |-> None] /\ tables = {} /\ used = 0
    /\ code = 0
    /\ wait = 0 /\ intr = TRUE
    /\ cursor = TRUE
    /\ refused = {}

-----------------------------------------------------------------------------
FirstPage(s) == s.va \div PageUnits
EndPageShort(s) == (s.va + s.memsz) \div PageUnits
EndPage(s)   == (s.va + s.memsz + PageUnits - 1) \div PageUnits

\* Headers the loader skips: not PT_LOAD, or an empty one.
Skipped(s) == ~s.load \/ s.memsz = 0

AcceptsNoGuard(s) ==
    /\ 0 <= s.va /\ s.va < StackLo * PageUnits
    /\ s.memsz <= StackLo * PageUnits - s.va
    /\ s.inFile
    /\ ~(s.w /\ s.x)

AcceptsWX(s) ==
    /\ 0 <= s.va /\ s.va < ImageEnd
    /\ s.memsz <= ImageEnd - s.va
    /\ s.inFile

\* elf_run's checks on one header: in the image area, off the guard page,
\* inside the file, never writable and executable.
Accepts(s) ==
    /\ 0 <= s.va /\ s.va < ImageEnd
    /\ s.memsz <= ImageEnd - s.va
    /\ s.inFile
    /\ ~(s.w /\ s.x)

Refuse ==                    \* -1 or -2: the message, and back to the shell
    /\ pc' = "shell" /\ prog' = None
    /\ refused' = refused \cup {prog}
    /\ UNCHANGED <<seg, page, img_lo, img_hi, code, wait, intr, cursor>>

(* proc_exec and elf_run up to the program headers: pak_find, the archive  *)
(* bounds, the ELF header.  A bad header is refused before anything is     *)
(* mapped.                                                                 *)
Exec(p) ==
    /\ pc = "shell"
    /\ IF p.header
       THEN pc' = "header" /\ prog' = p /\ seg' = 1 /\ img_lo' = UserTop /\ img_hi' = 0
       ELSE UNCHANGED <<pc, prog, seg, img_lo, img_hi>>
    /\ UNCHANGED <<page, memory, code, wait, intr, cursor, refused>>

SkipHeader ==
    /\ pc = "header" /\ seg <= Len(prog.segs)
    /\ Skipped(prog.segs[seg])
    /\ seg' = seg + 1
    /\ UNCHANGED <<pc, prog, page, img_lo, img_hi, memory, code, wait, intr,
                   cursor, refused>>

RejectHeader ==
    /\ pc = "header" /\ seg <= Len(prog.segs)
    /\ ~Skipped(prog.segs[seg]) /\ ~Accepts(prog.segs[seg])
    /\ Refuse
    /\ UNCHANGED memory

StartSegment ==
    /\ pc = "header" /\ seg <= Len(prog.segs)
    /\ ~Skipped(prog.segs[seg]) /\ Accepts(prog.segs[seg])
    /\ pc' = "segment" /\ page' = FirstPage(prog.segs[seg])
    /\ UNCHANGED <<prog, seg, img_lo, img_hi, memory, code, wait, intr, cursor,
                   refused>>

-----------------------------------------------------------------------------
(* One fresh page and vm_user_map, which may first need a page table       *)
(* (kalloc_page through next_level).  Running dry in between still spends  *)
(* the page.                                                               *)
Needs(p) == IF TableOf(p) \in tables THEN 1 ELSE 2

MapFresh(p, w, x) ==
    /\ used + Needs(p) <= HeapPages
    /\ used' = used + Needs(p)
    /\ tables' = tables \cup {TableOf(p)}
    /\ upt' = [upt EXCEPT ![p] = [frame |-> used + 1, w |-> w, x |-> x, by |-> prog]]

OutOfPages(p) ==
    /\ used + Needs(p) > HeapPages
    /\ used' = HeapPages
    /\ UNCHANGED <<upt, tables>>
    /\ Refuse

LoadPage ==                                        \* load_segment's loop
    /\ pc = "segment" /\ page < EndPage(prog.segs[seg])
    /\ \/ /\ MapFresh(page, prog.segs[seg].w, prog.segs[seg].x)
          /\ page' = page + 1
          /\ UNCHANGED <<pc, prog, seg, img_lo, img_hi, code, wait, intr, cursor,
                         refused>>
       \/ OutOfPages(page)

EndSegmentNoSpan ==
    /\ pc = "segment" /\ page = EndPage(prog.segs[seg])
    /\ LET first == FirstPage(prog.segs[seg])
       IN img_lo' = first /\ img_hi' = page
    /\ pc' = "header" /\ seg' = seg + 1
    /\ UNCHANGED <<prog, page, memory, code, wait, intr, cursor, refused>>

EndSegment ==                                      \* its end: the image span
    /\ pc = "segment" /\ page = EndPage(prog.segs[seg])
    /\ LET first == FirstPage(prog.segs[seg])
       IN /\ img_lo' = IF first < img_lo THEN first ELSE img_lo
          /\ img_hi' = IF page > img_hi THEN page ELSE img_hi
    /\ pc' = "header" /\ seg' = seg + 1
    /\ UNCHANGED <<prog, page, memory, code, wait, intr, cursor, refused>>

HeadersDone ==
    /\ pc = "header" /\ seg > Len(prog.segs)
    /\ IF img_hi = 0
       THEN Refuse /\ UNCHANGED memory             \* no PT_LOAD at all
       ELSE /\ pc' = "stack" /\ page' = StackLo
            /\ UNCHANGED <<prog, seg, img_lo, img_hi, memory, code, wait, intr,
                           cursor, refused>>

StackPage ==
    /\ pc = "stack" /\ page < StackTop
    /\ \/ /\ MapFresh(page, TRUE, FALSE)
          /\ page' = page + 1
          /\ UNCHANGED <<pc, prog, seg, img_lo, img_hi, code, wait, intr, cursor,
                         refused>>
       \/ OutOfPages(page)

EnterUser ==                                       \* con_cursor(0); user_enter
    /\ pc = "stack" /\ page = StackTop
    /\ pc' = "user" /\ cursor' = FALSE /\ intr' = TRUE
    /\ UNCHANGED <<loader, memory, code, wait, refused>>

-----------------------------------------------------------------------------
(* Ring 3.  A program may touch any page in any way; what the page table   *)
(* does not allow is a fault, and the processor enters with IF clear.      *)
Allowed(p, kind) ==
    /\ upt[p] # None
    /\ kind = "write" => upt[p].w
    /\ kind = "fetch" => upt[p].x

Killed(vec) ==               \* isr_common, proc_fault, user_abort(0x180 + vec)
    /\ pc' = "killed" /\ intr' = FALSE
    /\ code' = 384 + vec
    /\ UNCHANGED <<loader, memory, wait, cursor, refused>>

PageFault ==
    /\ pc = "user" /\ 14 \in Vectors
    /\ \E p \in Pages, kind \in {"read", "write", "fetch"} : ~Allowed(p, kind)
    /\ Killed(14)

OtherFault ==
    /\ pc = "user"
    /\ \E v \in Vectors \ {14} : Killed(v)

(* The syscall instruction masks IF (FMASK); syscall_entry switches stacks *)
(* and turns it on again before it dispatches.                             *)
Syscall ==
    /\ pc = "user"
    /\ pc' = "entry" /\ intr' = FALSE
    /\ UNCHANGED <<loader, memory, code, wait, cursor, refused>>

SyscallMasked ==
    /\ pc = "entry"
    /\ pc' = "dispatch"
    /\ UNCHANGED <<intr, loader, memory, code, wait, cursor, refused>>

SyscallSti ==
    /\ pc = "entry"
    /\ pc' = "dispatch" /\ intr' = TRUE
    /\ UNCHANGED <<loader, memory, code, wait, cursor, refused>>

\* cli, restore, sysret: IF comes back with the program's flags.
Sysret == pc' = "user" /\ intr' = TRUE

SysExit(a) ==                                      \* user_abort(a & 0xFF)
    /\ pc = "dispatch"
    /\ pc' = "killed" /\ code' = a % 256
    /\ UNCHANGED <<loader, memory, wait, intr, cursor, refused>>

FloorPage(va) == (va \div PageUnits) * PageUnits

\* vm_user_ok: every page from the one va is in to the last one below va+len.
vm_user_ok_first(va, len) ==
    \/ len = 0
    \/ /\ 0 <= va /\ va < UserTop * PageUnits /\ len <= UserTop * PageUnits - va
       /\ upt[va \div PageUnits] # None

vm_user_ok(va, len) ==
    \/ len = 0
    \/ /\ 0 <= va /\ va < UserTop * PageUnits /\ len <= UserTop * PageUnits - va
       /\ \A p \in Pages : FloorPage(va) <= p * PageUnits /\ p * PageUnits < va + len
                             => upt[p] # None

\* The pages the copy loop of SYS_WRITE reads.
Touched(va, len) == {(va + i) \div PageUnits : i \in 0 .. (len - 1)}

(* SYS_WRITE: refused, or every byte is read by the kernel, in ring 0,     *)
(* where a fault is a panic.                                               *)
SysWrite(va, len) ==
    /\ pc = "dispatch"
    /\ IF /\ len <= MaxWrite /\ vm_user_ok(va, len)
          /\ \E p \in Touched(va, len) : p \notin Pages \/ upt[p] = None
       THEN pc' = "panic" /\ UNCHANGED intr
       ELSE Sysret
    /\ UNCHANGED <<loader, memory, code, wait, cursor, refused>>

SysCursor(on) ==
    /\ pc = "dispatch" /\ Sysret
    /\ cursor' = on
    /\ UNCHANGED <<loader, memory, code, wait, refused>>

(* SYS_GETKEY with block set: kbd_getc hlts until an interrupt brought a   *)
(* key (Ps2Keyboard, UsbKeyboard).  The other syscalls touch nothing here. *)
SysGetkey ==
    /\ pc = "dispatch"
    /\ pc' = "getkey"
    /\ UNCHANGED <<loader, memory, code, wait, intr, cursor, refused>>

GotKey ==
    /\ pc = "getkey" /\ intr /\ Sysret
    /\ UNCHANGED <<loader, memory, code, wait, cursor, refused>>

SysOther ==
    /\ pc = "dispatch" /\ Sysret
    /\ UNCHANGED <<loader, memory, code, wait, cursor, refused>>

(* SYS_SLEEP: hlt until the ticks have passed; the timer interrupt only    *)
(* comes in while IF is set.                                               *)
SysSleep(n) ==
    /\ pc = "dispatch"
    /\ pc' = "sleep" /\ wait' = n
    /\ UNCHANGED <<loader, memory, code, intr, cursor, refused>>

Tick ==
    /\ intr /\ pc = "sleep" /\ wait > 0
    /\ wait' = wait - 1
    /\ UNCHANGED <<pc, loader, memory, code, intr, cursor, refused>>

WakeUp ==
    /\ pc = "sleep" /\ wait = 0 /\ Sysret
    /\ UNCHANGED <<loader, memory, code, wait, cursor, refused>>

-----------------------------------------------------------------------------
Unmapped(lo, hi) == [p \in Pages |-> IF p \in lo .. (hi - 1) THEN None ELSE upt[p]]

(* user_abort longjmps into elf_run (sti on the way), which shows the      *)
(* cursor again and takes the image and the stack out of the window;       *)
(* proc_exec resets the foreground (con_fg) and reports the exit code.     *)
Returned ==
    /\ pc = "killed"
    /\ pc' = "shell" /\ prog' = None
    /\ code' = 0
    /\ UNCHANGED <<seg, page, img_lo, img_hi, tables, used, wait, refused>>

WindowCleared == [p \in Pages |-> IF p \in StackLo .. (StackTop - 1) THEN None
                                  ELSE Unmapped(img_lo, img_hi)[p]]

LeaveUserImageOnly ==
    Returned /\ intr' = TRUE /\ cursor' = TRUE /\ upt' = Unmapped(img_lo, img_hi)

LeaveUserNoSti ==
    Returned /\ UNCHANGED intr /\ cursor' = TRUE /\ upt' = WindowCleared

LeaveUser ==
    Returned /\ intr' = TRUE /\ cursor' = TRUE /\ upt' = WindowCleared

Load == SkipHeader \/ RejectHeader \/ StartSegment \/ LoadPage \/ EndSegment
        \/ HeadersDone \/ StackPage \/ EnterUser

Addresses == 0 .. (UserTop * PageUnits)

Dispatch ==
    \/ \E a \in ExitArgs : SysExit(a)
    \/ \E va \in Addresses, len \in WriteLens : SysWrite(va, len)
    \/ \E on \in BOOLEAN : SysCursor(on)
    \/ \E n \in 0 .. MaxTicks : SysSleep(n)
    \/ SysGetkey \/ SysOther

Next ==
    \/ \E p \in Programs : Exec(p)
    \/ Load
    \/ PageFault \/ OtherFault \/ Syscall
    \/ SyscallSti \/ Dispatch
    \/ Tick \/ WakeUp \/ GotKey
    \/ LeaveUser

(* The kernel runs on one processor and does not stop by itself; the PIT   *)
(* keeps interrupting as long as IF lets it.                               *)
Fairness ==
    /\ WF_vars(Load) /\ WF_vars(SyscallSti) /\ WF_vars(LeaveUser)
    /\ WF_vars(Tick) /\ WF_vars(WakeUp)

Spec == Init /\ [][Next]_vars /\ Fairness

-----------------------------------------------------------------------------
Running == pc \in {"user", "entry", "dispatch", "sleep", "getkey", "killed", "panic"}

Entry == [frame : 1 .. HeapPages, w : BOOLEAN, x : BOOLEAN, by : Programs]

(* Every variable stays in its type.                                       *)
TypeOK ==
    /\ pc \in {"shell", "header", "segment", "stack", "user", "entry",
               "dispatch", "sleep", "getkey", "killed", "panic"}
    /\ prog \in Programs \cup {None} /\ (prog = None <=> pc = "shell")
    /\ seg \in Nat /\ page \in 0 .. UserTop
    /\ img_lo \in 0 .. UserTop /\ img_hi \in 0 .. UserTop
    /\ upt \in [Pages -> Entry \cup {None}]
    /\ tables \subseteq {TableOf(p) : p \in Pages}
    /\ used \in 0 .. HeapPages
    /\ code \in 0 .. 415
    /\ wait \in 0 .. MaxTicks /\ intr \in BOOLEAN
    /\ cursor \in BOOLEAN
    /\ refused \subseteq Programs

(* W^X in user space, over every sequence of programs, also where a        *)
(* segment was mapped over another one's page (elf_run: "W^X, no           *)
(* exceptions").                                                           *)
UserWriteXorExecute == \A p \in Pages : upt[p] # None => ~(upt[p].w /\ upt[p].x)

(* The page below the stack and the one above it are never mapped,         *)
(* whatever a program's headers ask for: running off either end of the     *)
(* stack is always a fault (kernel.h, "grows down, guard below").          *)
GuardUnmapped == upt[GuardPage] = None /\ upt[StackTop] = None

(* Ring 3 is entered only with the whole program and the whole stack in    *)
(* place: every page a byte of a segment is in is this program's, a page   *)
(* two segments share has the later one's permissions, and the stack is    *)
(* writable.                                                               *)
ImageComplete ==
    Running =>
      /\ \A p \in StackLo .. (StackTop - 1) :
            upt[p] # None /\ upt[p].by = prog /\ upt[p].w
      /\ \A i \in 1 .. Len(prog.segs) :
            LET s == prog.segs[i]
            IN ~Skipped(s) =>
                 \A p \in Touched(s.va, s.memsz) :
                    /\ upt[p] # None /\ upt[p].by = prog
                    /\ (\A j \in (i + 1) .. Len(prog.segs) :
                           LET r == prog.segs[j]
                           IN Skipped(r) \/ p \notin Touched(r.va, r.memsz))
                       => upt[p].w = s.w /\ upt[p].x = s.x

(* A program that ran leaves nothing in the window.  What is still mapped  *)
(* in the shell comes from a program elf_run gave up on after it had begun *)
(* to map it: those paths return without unmapping.                        *)
OnlyRefusedLeftovers ==
    pc = "shell" => \A p \in Pages : upt[p] # None => upt[p].by \in refused

(* The kernel never faults on a program's pointer: what vm_user_ok accepts *)
(* is mapped to the last byte SYS_WRITE reads (paging.c, "a bad pointer    *)
(* becomes an error code instead of a kernel page fault").                 *)
NoKernelFault == pc # "panic"

(* SYS_SLEEP returns to the program.                                       *)
SleepReturns == pc = "sleep" ~> pc = "user"

(* A program that has been killed or has exited gives the shell back, with *)
(* the cursor on and interrupts enabled, so that its hlt can end.          *)
ShellComesBack == pc = "killed" ~> (pc = "shell" /\ cursor /\ intr)
=============================================================================
