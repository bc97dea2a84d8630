---------------------------- MODULE MCUserProc ----------------------------
(* A window of three image pages, the guard page and two stack pages; the  *)
(* heap holds enough for one program and part of the next.                 *)
EXTENDS UserProc

MCTableOf(p) == IF p < GuardPage THEN "image" ELSE "stack"

S(va, memsz, w, x) ==
    [load |-> TRUE, va |-> va, memsz |-> memsz, w |-> w, x |-> x, inFile |-> TRUE]

Program(segs) == [header |-> TRUE, segs |-> segs]

\* text and data that share page 1, a gap, an empty header as ld emits them
Good   == Program(<<S(0, 3, FALSE, TRUE), S(3, 0, TRUE, FALSE), S(3, 1, TRUE, FALSE)>>)
\* up to the last unit below the guard page, then data across two pages
Edge   == Program(<<S(4, 2, FALSE, TRUE), S(1, 2, TRUE, FALSE)>>)
\* one unit into the guard page, after a segment that is fine
IntoGuard == Program(<<S(0, 1, FALSE, TRUE), S(4, 3, TRUE, FALSE)>>)
WandX  == Program(<<S(2, 2, TRUE, TRUE)>>)
NoLoad == Program(<<[S(0, 2, FALSE, TRUE) EXCEPT !.load = FALSE]>>)
BadElf == [header |-> FALSE, segs |-> <<>>]

Below  == Program(<<S(-2, 1, FALSE, TRUE)>>)

MCPrograms == {Below, Good, Edge, IntoGuard, WandX, NoLoad, BadElf}
=============================================================================
