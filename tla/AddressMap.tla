----------------------------- MODULE AddressMap -----------------------------
(***************************************************************************)
(* What paging.c's callers may rely on, with no table in sight: one flat   *)
(* map from pages to translations.  Building it gives what the boot info   *)
(* asks for; after that a call changes the pages it was asked for, in      *)
(* order, up to where the memory ran out, and no other page.               *)
(***************************************************************************)
EXTENDS Integers, Sequences

CONSTANTS
    Pages,        \* the pages of the address space
    Large,        \* pages in a large page
    Size,         \* bytes in a page
    Bars,         \* device ranges, each [base, len]
    Programs,     \* what elf_run is given: sequences of segments
    Stack         \* the segment of the stack

VARIABLES map,    \* page -> [frame, w, u, x], where mapped
          start,  \* the map the boot info asks for
          nx      \* whether the processor can forbid execution

Identity(a) == [frame |-> a, w |-> TRUE, u |-> FALSE, x |-> ~nx]

\* what is mapped at S after the step, and everything else as it was
Remaps(S) == /\ S \subseteq DOMAIN map'
             /\ DOMAIN map' \ S = DOMAIN map \ S
             /\ \A a \in DOMAIN map \ S : map'[a] = map[a]

Init == map = <<>>

Build == map = <<>> /\ map' = start'

\* A device's range in large pages, as far as it was not mapped.
Widen(r) ==
    LET unit  == Large * Size
        first == r.base \div unit
        last  == (r.base + r.len - 1) \div unit
    IN \E n \in first .. last :
          LET new == {a \in Pages : first <= a \div unit /\ a \div unit <= n} \ DOMAIN map
          IN map' = [a \in new \cup DOMAIN map |->
                        IF a \in new THEN Identity(a) ELSE map[a]]

Count(s)    == (s.hi - s.lo) \div Size
First(s, n) == {a \in Pages : s.lo <= a /\ a < s.lo + n * Size}

(* The segments of a program one by one, the stack last, up to page n of   *)
(* segment k.  A page is as the last segment that has it says, on a frame  *)
(* of its own that no program has now.                                     *)
Load(prog) ==
    LET segs == Append(prog, Stack)
    IN \E k \in DOMAIN segs : \E n \in 0 .. Count(segs[k]) :
          LET Had(i) == First(segs[i], IF i < k THEN Count(segs[i]) ELSE n)
              pages  == UNION {Had(i) : i \in 1 .. k}
          IN /\ Remaps(pages)
             /\ \A i \in 1 .. k : ~(segs[i].w /\ segs[i].x)
             /\ \A a \in pages : \E i \in 1 .. k :
                   /\ a \in Had(i) /\ \A j \in (i + 1) .. k : a \notin Had(j)
                   /\ map'[a] = [frame |-> map'[a].frame, w |-> segs[i].w,
                                 u |-> TRUE, x |-> segs[i].x \/ ~nx]
             /\ \A a \in pages : \A b \in DOMAIN map : map[b].u => map[b].frame # map'[a].frame
             /\ \A a, b \in pages : a # b => map'[a].frame # map'[b].frame

Spans(s, t, a) == s.lo <= a /\ a < t.hi

\* From the start of the lowest segment to the end of the highest.
Unload(prog) ==
    LET gone == {a \in DOMAIN map : \/ \E i, j \in DOMAIN prog : Spans(prog[i], prog[j], a)
                                    \/ Spans(Stack, Stack, a)}
    IN map' = [a \in DOMAIN map \ gone |-> map[a]]

Next == \/ Build
        \/ \E r \in Bars : Widen(r)
        \/ \E prog \in Programs : Load(prog) \/ Unload(prog)

Spec == Init /\ [][Next]_map
=============================================================================
