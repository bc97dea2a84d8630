----------------------------- MODULE LineEditor -----------------------------
(***************************************************************************)
(* The shell's line editor, shell.c: the buffer, the edit position, the    *)
(* history, the row of the console it draws on, and the commands it runs.  *)
(* The prompt is on the bottom row, where a wrap scrolls, and ends in any  *)
(* column: what ran before may have left the cursor anywhere.              *)
(***************************************************************************)
EXTENDS Naturals, Sequences

CONSTANTS Letters,    \* characters that are neither a space nor a quote
          Builtins,   \* command names, of letters
          Programs,   \* the names in BIN.PAK
          LineMax,    \* LINE_MAX, the terminator included
          HistMax,    \* HIST_MAX
          MaxArgs,    \* the words argv[] has room for, 16 in the code
          ConCols,    \* con_cols()
          Prompts     \* the columns where a prompt may end

ASSUME LineAssumption ==
    /\ {LineMax, HistMax, MaxArgs} \subseteq Nat \ {0}
    /\ ConCols \in Nat /\ Prompts \subseteq 0 .. ConCols - 1
    /\ Builtins \cup Programs \subseteq Seq(Letters) \ {<<>>}

VARIABLES b,          \* the line, b[0..len-1]
          cur,        \* the edit position
          hist,       \* hist[0..hist_n-1], the oldest first
          hist_at,
          px,         \* the column after the prompt
          row,        \* what the console shows on the row: [ch, hue]
          wide        \* ghost: a recalled line went beyond the row
lineVars == <<b, cur, hist, hist_at, px, row, wide>>

Space == " "
Quote == "quote"
Typed == Letters \cup {Space, Quote}
Bare == [ch |-> Space, hue |-> "grey"]
len   == Len(b)

-----------------------------------------------------------------------------
(* Words.  Positions run from 1.                                           *)

\* The first position of s at or after i that stop names, or Len(s) + 1.
Scan(s, i, stop) ==
    CHOOSE j \in i..Len(s) + 1 :
        /\ j = Len(s) + 1 \/ s[j] \in stop
        /\ \A k \in i..j - 1 : s[k] \notin stop

DrawnEndAtQuote(s, i) == Scan(s, i + 1, {Space, Quote}) - 1

\* The last position of the word that begins at i, as render_line sees it: a
\* quoted one ends with its quote.
DrawnEnd(s, i) ==
    IF s[i] = Quote THEN LET q == Scan(s, i + 1, {Quote})
                         IN IF q <= Len(s) THEN q ELSE Len(s)
    ELSE Scan(s, i, {Space}) - 1

\* The words of shell_run_line, a quoted one without its quotes; argv[] holds the
\* first MaxArgs of them.
Argv(s) ==
    LET from[i \in 1..Len(s) + 1] ==
            LET p == Scan(s, i, Typed \ {Space})
            IN IF p > Len(s) THEN <<>>
               ELSE LET start == IF s[p] = Quote THEN p + 1 ELSE p
                        end   == Scan(s, start, IF s[p] = Quote THEN {Quote} ELSE {Space})
                    IN <<SubSeq(s, start, end - 1)>>
                       \o (IF end > Len(s) THEN <<>> ELSE from[end + 1])
    IN from[1]

find_cmd(name) == name \in Builtins
proc_has(name) == name \in Programs

\* There is a command of the first word's name.
Found(s) == find_cmd(Argv(s)[1]) \/ proc_has(Argv(s)[1])

\* overflow: one more word begins when argv[] is full.
TooMany(s) == Len(Argv(s)) > MaxArgs

\* shell_run_line runs the line; otherwise it says that there are too many
\* arguments, or no such command.
Runs(s) == ~TooMany(s) /\ Found(s)

-----------------------------------------------------------------------------
(* render_line.                                                            *)

\* The hue of position i of s.
Hue(s, i) ==
    LET starts[k \in 1..Len(s) + 1] ==      \* where the words from k on begin
            LET p == Scan(s, k, Typed \ {Space})
            IN IF p > Len(s) THEN {} ELSE {p} \cup starts[DrawnEnd(s, p) + 1]
        mine == {p \in starts[1] : p <= i /\ i <= DrawnEnd(s, p)}
    IN IF mine = {} THEN "grey"
       ELSE LET p == CHOOSE p \in mine : TRUE
                w == SubSeq(s, p, DrawnEnd(s, p))
            IN IF \A q \in starts[1] : p <= q
               THEN IF find_cmd(w) \/ proc_has(w) THEN "green" ELSE "red"
               ELSE IF s[p] = Quote THEN "yellow" ELSE "white"

Columns == 0 .. ConCols - 1

\* The row once s and pad spaces are drawn after the prompt; a text that runs
\* over the last column goes on in a fresh row, on which px and py then point.
render_line(s, pad) ==
    LET end  == px + Len(s) + pad
        over == end - (end % ConCols)
    IN [x \in Columns |->
          LET i == over + x - px + 1
          IN IF 1 <= i /\ i <= Len(s) THEN [ch |-> s[i], hue |-> Hue(s, i)]
             ELSE IF over > 0 \/ (px <= x /\ x < end) THEN Bare
             ELSE row[x]]

LineInit ==
    /\ b = <<>> /\ cur = 0 /\ hist = <<>> /\ hist_at = 0
    /\ px \in Prompts /\ row = [x \in Columns |-> Bare] /\ wide = FALSE

-----------------------------------------------------------------------------
(* read_line, one action per key.                                          *)

history == <<hist, hist_at, px, wide>>

\* b without its position i.
Without(i) == SubSeq(b, 1, i - 1) \o SubSeq(b, i + 1, len)

Type(c) ==
    /\ px + len + 2 < ConCols /\ len + 1 < LineMax
    /\ b' = SubSeq(b, 1, cur) \o <<c>> \o SubSeq(b, cur + 1, len)
    /\ cur' = cur + 1 /\ row' = render_line(b', 0)
    /\ UNCHANGED history

BackspaceUnpadded ==
    /\ cur > 0 /\ b' = Without(cur) /\ cur' = cur - 1
    /\ row' = render_line(b', 0) /\ UNCHANGED history
Backspace ==
    /\ cur > 0 /\ b' = Without(cur) /\ cur' = cur - 1
    /\ row' = render_line(b', 1) /\ UNCHANGED history

Del == /\ cur < len /\ b' = Without(cur + 1)
       /\ row' = render_line(b', 1) /\ UNCHANGED <<cur, history>>

\* Left, Right, Home and End.
Move == /\ cur' \in {0, len} \cup {c \in 0..len : c + 1 = cur \/ c = cur + 1}
        /\ UNCHANGED <<b, row, history>>

\* The keys up and down; below the last entry there is an empty line.
Recall(want) ==
    /\ want \in 0..Len(hist)
    /\ b' = IF want = Len(hist) THEN <<>> ELSE hist[want + 1]
    /\ hist_at' = want /\ cur' = Len(b')
    /\ row' = render_line(b', IF len > Len(b') THEN len - Len(b') ELSE 0)
    /\ wide' = (wide \/ px + Len(b') >= ConCols)
    /\ UNCHANGED <<hist, px>>
KEY_UP   == hist_at > 0 /\ Recall(hist_at - 1)
KEY_DOWN == Recall(hist_at + 1)

-----------------------------------------------------------------------------
(* shell_main: the line is stored and run, and a new one begins.           *)

\* When the history is full its oldest entry makes room.
Stored == IF Len(hist) = HistMax THEN Append(SubSeq(hist, 2, HistMax), b) ELSE Append(hist, b)

NewLine ==
    /\ b' = <<>> /\ cur' = 0 /\ hist_at' = Len(hist')
    /\ px' \in Prompts /\ row' = [x \in Columns |-> Bare] /\ wide' = FALSE

EnterEmpty == b = <<>> /\ hist' = hist /\ NewLine
Enter      == b # <<>> /\ hist' = Stored /\ NewLine

LineNext == \/ \E c \in Typed : Type(c)
            \/ Backspace \/ Del \/ Move \/ KEY_UP \/ KEY_DOWN
            \/ EnterEmpty \/ Enter

LineSpec == LineInit /\ [][LineNext]_lineVars

-----------------------------------------------------------------------------
(* Properties.                                                             *)

\* The row shows exactly the line, with a column left for the cursor, after any
\* mix of edits and recalls: nothing of a longer line is left over and nothing
\* wraps ("stay on one row").  Only a recalled line may be too long for what the
\* prompt left of the row; typing is not.
RowShowsLineUnlessWide ==
    ~wide =>
        /\ px + len < ConCols
        /\ \A x \in Columns : px <= x =>
              row[x].ch = IF x - px < len THEN b[x - px + 1] ELSE Space

\* "valid command green, unknown red": the first word, unless it is quoted, is
\* drawn green just when shell_run_line, which splits the line once more, runs
\* it.  A line of too many words is an exception: shell_run_line turns it down
\* before it looks for the command (shell.c:279, 285), and render_line, which
\* counts no words, draws the name as if it ran.
GreenRuns ==
    LET p == Scan(b, 1, Typed \ {Space})
    IN ~wide /\ p <= len /\ b[p] # Quote =>
        (row[px + p - 1].hue = "green" <=> Runs(b) \/ (TooMany(b) /\ Found(b)))
=============================================================================
