------------------------- MODULE Ps2KeyboardProofs -------------------------
(***************************************************************************)
(* For every set of keys, every ring size and every interleaving of the    *)
(* keyboard, the interrupt, the poll and the reader: unless a byte was     *)
(* dropped or taken for another, the program reads what was typed.         *)
(*                                                                         *)
(* The invariant looks at the codes on their way, from the ring over the   *)
(* output buffer to the keyboard, as one sequence.  Decoding them one by   *)
(* one, from what decode remembers and what was returned, leads to what    *)
(* the keyboard holds and to all that was typed.  The codes of a stroke    *)
(* make that run longer, decode makes it shorter, and no other step may    *)
(* touch the sequence.  The states of the run are a function, and each     *)
(* pair of them is in order: so no fact about it needs an induction.       *)
(***************************************************************************)
EXTENDS Ps2Keyboard, Integers, SequenceTheorems, TLAPS

Glyphs  == {"a", "A", "UP", "8", "?"}
CodeSet == {Code(k, b) : k \in Keys \cup {"48", "E0", "ack", "cmd", "none"}, b \in BOOLEAN}
ByteSet == [kind : {"key", "reply", "aux"}, code : CodeSet]

\* What decode remembers between two codes, and the keys it gave so far.
DState == [mode : {"e0", "plain"}, shift : SUBSET Shifts, lock : {"on", "off"},
           ret : Seq(Glyphs)]

State(mode, sh, lock, keys) == [mode |-> mode, shift |-> sh, lock |-> lock, ret |-> keys]
Mode(e) == IF e THEN "e0" ELSE "plain"
Lock(c) == IF c THEN "on" ELSE "off"

Remembered == State(Mode(ext), shift, Lock(caps), returned)
Intended   == State("plain", down \cap Shifts, Lock(capsled), typed)

\* One call of decode, as a function of what it remembers.
Glyph(s, c) ==
    IF c.brk THEN <<>>
    ELSE IF s.mode = "e0" THEN (IF c.k = "48" THEN <<"UP">> ELSE <<>>)
    ELSE CASE c.k = "a"   -> <<Letter(s.shift # {}, s.lock = "on")>>
           [] c.k = "48"  -> <<"8">>
           [] c.k = "cmd" -> <<"?">>
           [] OTHER       -> <<>>

ModeAfter(c) == IF c = E0 THEN "e0" ELSE "plain"

ShiftsAfter(s, c) ==
    IF s.mode = "e0" \/ c.k \notin Shifts THEN s.shift
    ELSE IF c.brk THEN s.shift \ {c.k} ELSE s.shift \cup {c.k}

LockAfter(s, c) ==
    IF s.mode = "plain" /\ c = Code("caps", FALSE)
    THEN (IF s.lock = "on" THEN "off" ELSE "on") ELSE s.lock

Decoded(s, c) == State(ModeAfter(c), ShiftsAfter(s, c), LockAfter(s, c), s.ret \o Glyph(s, c))

Before(s, t) == Len(s) <= Len(t) /\ \A j \in 1 .. Len(s) : s[j] = t[j]

\* run holds the states between from and to, one per code.
Run(run, from, codes, to) ==
    /\ run \in [0 .. Len(codes) -> DState]
    /\ run[0] = from /\ run[Len(codes)] = to
    /\ \A j \in 1 .. Len(codes) : run[j] = Decoded(run[j - 1], codes[j])
    /\ \A j, k \in 0 .. Len(codes) : j <= k => Before(run[j].ret, run[k].ret)

Leads(from, codes, to) == \E run : Run(run, from, codes, to)

\* The codes that were typed and not decoded, oldest first.
Held    == IF obuf # <<>> /\ obuf[1].kind = "key" THEN <<obuf[1].code>> ELSE <<>>
Pending == (buf \o Held) \o fifo

Types ==
    /\ buf \in Seq(CodeSet) /\ fifo \in Seq(CodeSet) /\ obuf \in Seq(ByteSet)
    /\ returned \in Seq(Glyphs) /\ typed \in Seq(Glyphs)
    /\ shift \in SUBSET Shifts /\ ext \in BOOLEAN /\ caps \in BOOLEAN
    /\ capsled \in BOOLEAN /\ disturbed \in BOOLEAN

IInv ==
    /\ Types
    /\ ~disturbed => Leads(Remembered, Pending, Intended)

-----------------------------------------------------------------------------
(* Runs.                                                                   *)

\* decode gives at most one key for a code.
LEMMA GlyphType ==
    ASSUME NEW s, NEW c
    PROVE  Glyph(s, c) \in Seq(Glyphs)
<1> DEFINE l == Letter(s.shift # {}, s.lock = "on")
<1>1. l \in Glyphs
  BY DEF Letter, Glyphs
<1> HIDE DEF l
<1>2. /\ \A g \in Glyphs : <<g>> \in Seq(Glyphs)
      /\ {"UP", "8", "?"} \subseteq Glyphs /\ <<>> \in Seq(Glyphs)
  BY DEF Glyphs
<1>3. Glyph(s, c) \in {<<>>, <<"UP">>, <<l>>, <<"8">>, <<"?">>}
  <2>1. CASE c.k = "a"
    BY <2>1 DEF Glyph, l
  <2>2. CASE c.k = "48"
    BY <2>2 DEF Glyph
  <2>3. CASE c.k = "cmd"
    BY <2>3 DEF Glyph
  <2>4. CASE c.k \notin {"a", "48", "cmd"}
    BY <2>4 DEF Glyph
  <2> QED
    BY <2>1, <2>2, <2>3, <2>4
<1> QED
  BY <1>1, <1>2, <1>3

\* decode stays in its states and never takes a key back.
LEMMA DecodedFacts ==
    ASSUME NEW s \in DState, NEW c
    PROVE  /\ Decoded(s, c) \in DState
           /\ Before(s.ret, Decoded(s, c).ret)
<1> DEFINE g == Glyph(s, c)
<1>1. g \in Seq(Glyphs) /\ s.ret \in Seq(Glyphs)
  BY GlyphType DEF DState
<1> HIDE DEF g
<1>2. /\ s.ret \o g \in Seq(Glyphs)
      /\ Len(s.ret \o g) = Len(s.ret) + Len(g)
      /\ \A j \in 1 .. Len(s.ret) : (s.ret \o g)[j] = s.ret[j]
      /\ Len(s.ret) \in Nat /\ Len(g) \in Nat
  BY <1>1
<1>3. ShiftsAfter(s, c) \in SUBSET Shifts
  BY DEF ShiftsAfter, DState
<1>4. LockAfter(s, c) \in {"on", "off"} /\ ModeAfter(c) \in {"e0", "plain"}
  BY DEF LockAfter, ModeAfter, DState
<1>5. Decoded(s, c) = State(ModeAfter(c), ShiftsAfter(s, c), LockAfter(s, c), s.ret \o g)
  BY DEF Decoded, g
<1>6. Decoded(s, c) \in DState
  BY <1>2, <1>3, <1>4, <1>5 DEF State, DState
<1>7. Decoded(s, c).ret = s.ret \o g
  BY <1>5 DEF State
<1>8. Before(s.ret, s.ret \o g)
  BY <1>2 DEF Before
<1> QED
  BY <1>6, <1>7, <1>8

\* The order of two readings is transitive and reflexive.
LEMMA BeforeOrder ==
    ASSUME NEW s \in Seq(Glyphs), NEW t \in Seq(Glyphs), NEW u \in Seq(Glyphs)
    PROVE  /\ Before(s, s)
           /\ Before(s, t) /\ Before(t, u) => Before(s, u)
<1>1. Len(s) \in Nat /\ Len(t) \in Nat /\ Len(u) \in Nat
  OBVIOUS
<1> QED
  BY <1>1 DEF Before

\* No code, no difference.
LEMMA LeadsNowhere ==
    ASSUME NEW from \in DState, NEW to
    PROVE  Leads(from, <<>>, to) <=> from = to
<1>1. Leads(from, <<>>, to) => from = to
  BY DEF Leads, Run
<1>2. ASSUME from = to PROVE Leads(from, <<>>, to)
  <2> DEFINE run == [j \in {0} |-> from]
  <2>1. 0 .. Len(<<>>) = {0} /\ 1 .. Len(<<>>) = {} /\ Len(<<>>) = 0
    OBVIOUS
  <2>2. run \in [{0} -> DState] /\ run[0] = from
    OBVIOUS
  <2>3. Before(from.ret, from.ret)
    BY BeforeOrder DEF DState
  <2> HIDE DEF run
  <2>4. Run(run, from, <<>>, to)
    BY <1>2, <2>1, <2>2, <2>3 DEF Run
  <2> QED
    BY <2>4 DEF Leads
<1> QED
  BY <1>1, <1>2

\* One more code at the end of a run.
LEMMA Extend ==
    ASSUME NEW from, NEW codes \in Seq(CodeSet), NEW to, NEW c \in CodeSet,
           Leads(from, codes, to)
    PROVE  Leads(from, Append(codes, c), Decoded(to, c))
<1>1. PICK run : Run(run, from, codes, to)
  BY DEF Leads
<1> DEFINE n == Len(codes)
           last == Decoded(to, c)
           more == Append(codes, c)
           longer == [j \in 0 .. (n + 1) |-> IF j = n + 1 THEN last ELSE run[j]]
<1>2. /\ n \in Nat /\ Len(more) = n + 1 /\ more[n + 1] = c
      /\ \A j \in 1 .. n : more[j] = codes[j]
  BY AppendProperties
<1>3. /\ run \in [0 .. n -> DState] /\ run[0] = from /\ run[n] = to
      /\ \A j \in 1 .. n : run[j] = Decoded(run[j - 1], codes[j])
      /\ \A j, k \in 0 .. n : j <= k => Before(run[j].ret, run[k].ret)
  BY <1>1 DEF Run
<1> HIDE DEF n, more
<1>4. to \in DState /\ last \in DState /\ Before(to.ret, last.ret)
  <2>1. n \in 0 .. n
    BY <1>2
  <2>2. to \in DState
    BY <1>3, <2>1
  <2> QED
    BY <2>2, DecodedFacts
<1> HIDE DEF last
<1>5. /\ longer \in [0 .. (n + 1) -> DState]
      /\ longer[n + 1] = last
      /\ \A j \in 0 .. n : longer[j] = run[j]
  BY <1>2, <1>3, <1>4
<1> HIDE DEF longer
<1>6. \A j \in 0 .. (n + 1) : j \in 0 .. n \/ j = n + 1
  BY <1>2
<1>7. \A j \in 1 .. (n + 1) : longer[j] = Decoded(longer[j - 1], more[j])
  <2>1. ASSUME NEW j \in 1 .. n PROVE longer[j] = Decoded(longer[j - 1], more[j])
    <3>1. j \in 0 .. n /\ j - 1 \in 0 .. n
      BY <1>2
    <3> QED
      BY <1>2, <1>3, <1>5, <3>1
  <2>2. longer[n + 1] = Decoded(longer[n], more[n + 1])
    BY <1>2, <1>3, <1>5 DEF last
  <2>3. \A j \in 1 .. (n + 1) : j \in 1 .. n \/ j = n + 1
    BY <1>2
  <2>4. (n + 1) - 1 = n
    BY <1>2
  <2> QED
    BY <2>1, <2>2, <2>3, <2>4
<1>8. ASSUME NEW j \in 0 .. (n + 1), NEW k \in 0 .. (n + 1), j <= k
      PROVE  Before(longer[j].ret, longer[k].ret)
  <2>1. CASE k \in 0 .. n
    <3>1. j \in 0 .. n
      BY <1>2, <1>8, <2>1
    <3> QED
      BY <1>3, <1>5, <1>8, <2>1, <3>1
  <2>2. CASE j \in 0 .. n /\ k = n + 1
    <3>1. Before(run[j].ret, to.ret)
      <4>1. n \in 0 .. n /\ j <= n
        BY <1>2, <2>2
      <4> QED
        BY <1>3, <2>2, <4>1
    <3>2. run[j] \in DState
      BY <1>3, <2>2
    <3>3. run[j].ret \in Seq(Glyphs) /\ to.ret \in Seq(Glyphs) /\ last.ret \in Seq(Glyphs)
      BY <1>4, <3>2 DEF DState
    <3>4. Before(run[j].ret, last.ret)
      BY <1>4, <3>1, <3>3, BeforeOrder
    <3> QED
      BY <1>5, <2>2, <3>4
  <2>3. CASE j = n + 1 /\ k = n + 1
    <3>1. last.ret \in Seq(Glyphs)
      BY <1>4 DEF DState
    <3> QED
      BY <1>5, <2>3, <3>1, BeforeOrder
  <2>4. ~(j = n + 1 /\ k \in 0 .. n)
    BY <1>2, <1>8
  <2> QED
    BY <1>6, <2>1, <2>2, <2>3, <2>4
<1>9. Run(longer, from, more, last)
  <2>1. longer[0] = from
    BY <1>2, <1>3, <1>5
  <2> QED
    BY <1>2, <1>5, <1>7, <1>8, <2>1 DEF Run
<1> QED
  BY <1>9 DEF Leads, last, more

\* The first code of a run is decoded.
LEMMA Advance ==
    ASSUME NEW from, NEW codes \in Seq(CodeSet), NEW to, codes # <<>>,
           Leads(from, codes, to)
    PROVE  Leads(Decoded(from, Head(codes)), Tail(codes), to)
<1>1. PICK run : Run(run, from, codes, to)
  BY DEF Leads
<1> DEFINE n == Len(codes) - 1
           rest == Tail(codes)
           shorter == [j \in 0 .. n |-> run[j + 1]]
<1>2. /\ n \in Nat /\ Len(codes) = n + 1 /\ Len(rest) = n /\ Head(codes) = codes[1]
      /\ \A j \in 1 .. n : rest[j] = codes[j + 1]
  <2>1. Len(codes) \in Nat \ {0}
    BY EmptySeq
  <2> QED
    BY <2>1, HeadTailProperties
<1>3. /\ run \in [0 .. (n + 1) -> DState] /\ run[0] = from /\ run[n + 1] = to
      /\ \A j \in 1 .. (n + 1) : run[j] = Decoded(run[j - 1], codes[j])
      /\ \A j, k \in 0 .. (n + 1) : j <= k => Before(run[j].ret, run[k].ret)
  BY <1>1, <1>2 DEF Run
<1> HIDE DEF n, rest
<1>4. /\ shorter \in [0 .. n -> DState]
      /\ \A j \in 0 .. n : shorter[j] = run[j + 1] /\ j + 1 \in 0 .. (n + 1)
  BY <1>2, <1>3
<1> HIDE DEF shorter
<1>5. shorter[0] = Decoded(from, Head(codes))
  <2>1. 1 \in 1 .. (n + 1) /\ 0 \in 0 .. n /\ 1 - 1 = 0 /\ 0 + 1 = 1
    BY <1>2
  <2> QED
    BY <1>2, <1>3, <1>4, <2>1
<1>6. shorter[n] = to
  BY <1>2, <1>3, <1>4
<1>7. ASSUME NEW j \in 1 .. n PROVE shorter[j] = Decoded(shorter[j - 1], rest[j])
  <2>1. /\ j \in 0 .. n /\ j - 1 \in 0 .. n /\ j + 1 \in 1 .. (n + 1)
        /\ (j + 1) - 1 = j /\ (j - 1) + 1 = j
    BY <1>2
  <2> QED
    BY <1>2, <1>3, <1>4, <2>1
<1>8. ASSUME NEW j \in 0 .. n, NEW k \in 0 .. n, j <= k
      PROVE  Before(shorter[j].ret, shorter[k].ret)
  <2>1. j + 1 <= k + 1
    BY <1>2, <1>8
  <2> QED
    BY <1>3, <1>4, <2>1
<1>9. Run(shorter, Decoded(from, Head(codes)), rest, to)
  BY <1>2, <1>4, <1>5, <1>6, <1>7, <1>8 DEF Run
<1> QED
  BY <1>9 DEF Leads, rest

\* What is at the end of a run begins with what was there at its start.
LEMMA LeadsBefore ==
    ASSUME NEW from, NEW codes \in Seq(CodeSet), NEW to, Leads(from, codes, to)
    PROVE  Before(from.ret, to.ret)
<1>1. PICK run : Run(run, from, codes, to)
  BY DEF Leads
<1>2. Len(codes) \in Nat
  OBVIOUS
<1>3. 0 \in 0 .. Len(codes) /\ Len(codes) \in 0 .. Len(codes) /\ 0 <= Len(codes)
  BY <1>2
<1> QED
  BY <1>1, <1>3 DEF Run


-----------------------------------------------------------------------------
(* Steps.                                                                  *)

\* What the code of any key but a cursor key does outside an E0.
PlainShift(s, k, b) ==
    IF k \in Shifts THEN (IF b THEN s.shift \ {k} ELSE s.shift \cup {k}) ELSE s.shift
PlainLock(s, k, b) ==
    IF k = "caps" /\ ~b THEN (IF s.lock = "on" THEN "off" ELSE "on") ELSE s.lock
PlainKeys(s, k, b) ==
    IF k = "a" /\ ~b THEN s.ret \o <<Letter(s.shift # {}, s.lock = "on")>> ELSE s.ret

\* Decoding the codes of a stroke leads from what the keyboard meant before
\* it to what it means after it.
LEMMA PlainCode ==
    ASSUME NEW s \in DState, NEW k, NEW b \in BOOLEAN, s.mode = "plain",
           k \notin {"E0", "48", "cmd"}
    PROVE  Decoded(s, Code(k, b)) =
             State("plain", PlainShift(s, k, b), PlainLock(s, k, b), PlainKeys(s, k, b))
<1> DEFINE c == Code(k, b)
<1>1. c.k = k /\ c.brk = b
  BY DEF Code
<1>2. ModeAfter(c) = "plain"
  BY DEF ModeAfter, Code, E0
<1>3. (c = Code("caps", FALSE)) <=> (k = "caps" /\ ~b)
  BY DEF Code
<1>4. LockAfter(s, c) = PlainLock(s, k, b)
  BY <1>3 DEF LockAfter, PlainLock
<1> HIDE DEF c
<1>5. ShiftsAfter(s, c) = PlainShift(s, k, b)
  BY <1>1 DEF ShiftsAfter, PlainShift
<1>6. s.ret \o Glyph(s, c) = PlainKeys(s, k, b)
  <2>1. s.ret \o <<>> = s.ret
    BY DEF DState
  <2> DEFINE l == Letter(s.shift # {}, s.lock = "on")
  <2>2. CASE b
    BY <1>1, <2>1, <2>2 DEF Glyph, PlainKeys
  <2>3. CASE ~b /\ k = "a"
    <3>1. Glyph(s, c) = <<l>>
      BY <1>1, <2>3 DEF Glyph
    <3> QED
      BY <2>3, <3>1 DEF PlainKeys
  <2>4. CASE ~b /\ k # "a"
    <3>1. Glyph(s, c) = <<>>
      BY <1>1, <2>4 DEF Glyph
    <3> QED
      BY <2>1, <2>4, <3>1 DEF PlainKeys
  <2> QED
    BY <2>2, <2>3, <2>4
<1> QED
  BY <1>2, <1>4, <1>5, <1>6 DEF Decoded, c

\* The two codes of a cursor key.
LEMMA CursorCodes ==
    ASSUME NEW s \in DState, NEW b \in BOOLEAN, s.mode = "plain"
    PROVE  Decoded(Decoded(s, E0), Code("48", b)) =
             State("plain", s.shift, s.lock, IF b THEN s.ret ELSE s.ret \o <<"UP">>)
<1> DEFINE e == Decoded(s, E0)
           c == Code("48", b)
<1>0. s.ret \o <<>> = s.ret
  BY DEF DState
<1>1. e = State("e0", s.shift, s.lock, s.ret)
  <2>1. E0.k = "E0" /\ E0.brk = FALSE /\ E0 # Code("caps", FALSE)
    BY DEF E0, Code
  <2>2. ModeAfter(E0) = "e0" /\ LockAfter(s, E0) = s.lock
    BY <2>1 DEF ModeAfter, LockAfter
  <2>3. ShiftsAfter(s, E0) = s.shift
    BY <2>1 DEF ShiftsAfter, Shifts
  <2>4. Glyph(s, E0) = <<>>
    BY <2>1 DEF Glyph
  <2> QED
    BY <1>0, <2>2, <2>3, <2>4 DEF Decoded
<1>2. e.mode = "e0" /\ e.shift = s.shift /\ e.lock = s.lock /\ e.ret = s.ret
  BY <1>1 DEF State
<1> HIDE DEF e
<1>3. c.k = "48" /\ c.brk = b
  BY DEF Code
<1>4. ModeAfter(c) = "plain"
  BY DEF ModeAfter, Code, E0
<1> HIDE DEF c
<1>5. ShiftsAfter(e, c) = s.shift /\ LockAfter(e, c) = s.lock
  BY <1>2 DEF ShiftsAfter, LockAfter
<1>6. Glyph(e, c) = IF b THEN <<>> ELSE <<"UP">>
  BY <1>2, <1>3 DEF Glyph
<1>7. e.ret \o Glyph(e, c) = IF b THEN s.ret ELSE s.ret \o <<"UP">>
  BY <1>0, <1>2, <1>6
<1> QED
  BY <1>4, <1>5, <1>7 DEF Decoded, e, c


\* The two ends of the run are states of decode.
LEMMA EndStates ==
    ASSUME Types
    PROVE  /\ Remembered \in DState /\ Intended \in DState
           /\ Pending \in Seq(CodeSet) /\ Held \in Seq(CodeSet)
           /\ buf \o Held \in Seq(CodeSet)
<1>1. Held \in Seq(CodeSet)
  <2>1. CASE obuf = <<>>
    BY <2>1 DEF Held
  <2>2. CASE obuf # <<>>
    <3>1. Len(obuf) \in Nat \ {0}
      BY <2>2, EmptySeq DEF Types
    <3>2. obuf[1] \in ByteSet
      BY <3>1, ElementOfSeq DEF Types
    <3>3. obuf[1].code \in CodeSet
      BY <3>2 DEF ByteSet
    <3> QED
      BY <3>3 DEF Held
  <2> QED
    BY <2>1, <2>2
<1>2. buf \o Held \in Seq(CodeSet)
  BY <1>1, ConcatProperties DEF Types
<1>3. Pending \in Seq(CodeSet)
  BY <1>2, ConcatProperties DEF Types, Pending
<1>4. Remembered \in DState /\ Intended \in DState
  BY DEF Types, Remembered, Intended, State, DState, Mode, Lock
<1> QED
  BY <1>1, <1>2, <1>3, <1>4

\* A step that leaves both ends of the run alone, and the codes on their way
\* unless it owns up to a disturbance.
LEMMA SameRun ==
    ASSUME IInv, Types', Remembered' = Remembered, Intended' = Intended,
           ~disturbed' => ~disturbed /\ Pending' = Pending
    PROVE  IInv'
<1>1. ~disturbed' => Leads(Remembered', Pending', Intended')
  BY DEF IInv
<1> QED
  BY <1>1 DEF IInv

\* The codes of a stroke come last.
LEMMA OneMore ==
    ASSUME Types, NEW c \in CodeSet, fifo' = fifo \o <<c>>, buf' = buf, obuf' = obuf
    PROVE  Pending' = Append(Pending, c) /\ fifo' \in Seq(CodeSet)
<1>1. Held' = Held
  BY DEF Held
<1>2. <<c>> \in Seq(CodeSet) /\ fifo \in Seq(CodeSet)
  BY DEF Types
<1>3. (buf \o Held) \o (fifo \o <<c>>) = ((buf \o Held) \o fifo) \o <<c>>
  BY <1>2, EndStates, ConcatAssociative
<1>4. Append(Pending, c) = Pending \o <<c>>
  BY EndStates, AppendIsConcat
<1> QED
  BY <1>1, <1>2, <1>3, <1>4, ConcatProperties DEF Pending

\* The two of a cursor key do.
LEMMA TwoMore ==
    ASSUME Types, NEW c \in CodeSet, E0 \in CodeSet,
           fifo' = fifo \o <<E0, c>>, buf' = buf, obuf' = obuf
    PROVE  Pending' = Append(Append(Pending, E0), c) /\ fifo' \in Seq(CodeSet)
<1>1. Held' = Held
  BY DEF Held
<1>2. <<c>> \in Seq(CodeSet) /\ <<E0>> \in Seq(CodeSet) /\ fifo \in Seq(CodeSet)
  BY DEF Types
<1>3. <<E0, c>> = <<E0>> \o <<c>> /\ <<E0, c>> \in Seq(CodeSet)
  BY <1>2
<1>4. (buf \o Held) \o (fifo \o <<E0, c>>) = Pending \o <<E0, c>>
  BY <1>2, <1>3, EndStates, ConcatAssociative DEF Pending
<1>5. Pending \o (<<E0>> \o <<c>>) = (Pending \o <<E0>>) \o <<c>>
  BY <1>2, EndStates, ConcatAssociative
<1>6. Append(Pending, E0) = Pending \o <<E0>> /\ Append(Pending, E0) \in Seq(CodeSet)
  BY EndStates, AppendIsConcat, AppendProperties
<1>7. Append(Append(Pending, E0), c) = (Pending \o <<E0>>) \o <<c>>
  BY <1>6, AppendIsConcat
<1> QED
  BY <1>1, <1>2, <1>3, <1>4, <1>5, <1>7, ConcatProperties DEF Pending

\* The codes in use.
LEMMA CodesInUse ==
    /\ E0 \in CodeSet /\ Ack \in CodeSet /\ Odd \in CodeSet /\ NoCode \in CodeSet
    /\ \A k \in Keys : \A b \in BOOLEAN : Code(k, b) \in CodeSet
    /\ \A b \in BOOLEAN : Code("48", b) \in CodeSet
<1>1. \A k \in Keys \cup {"48", "E0", "ack", "cmd", "none"} : \A b \in BOOLEAN :
         Code(k, b) \in CodeSet
  BY DEF CodeSet
<1>2. TRUE \in BOOLEAN /\ FALSE \in BOOLEAN
  OBVIOUS
<1> QED
  BY <1>1, <1>2 DEF E0, Ack, Odd, NoCode

\* What the keyboard means before and after a stroke.
LEMMA StrokeMeans ==
    ASSUME Types, NEW k \in Keys, NEW b \in BOOLEAN,
           down' \cap Shifts = IF k \notin Shifts THEN down \cap Shifts
                               ELSE IF b THEN (down \cap Shifts) \ {k}
                               ELSE (down \cap Shifts) \cup {k},
           capsled' = IF k = "caps" /\ ~b THEN ~capsled ELSE capsled,
           typed' = IF k = "a" /\ ~b
                    THEN typed \o <<Letter(down \cap Shifts # {}, capsled)>>
                    ELSE IF k = "up" /\ ~b THEN typed \o <<"UP">> ELSE typed
    PROVE  Intended' = IF k = "up" THEN Decoded(Decoded(Intended, E0), Code("48", b))
                                   ELSE Decoded(Intended, Code(k, b))
<1> DEFINE s == Intended
<1>1. /\ s \in DState /\ s.mode = "plain" /\ s.shift = down \cap Shifts
      /\ s.lock = Lock(capsled) /\ s.ret = typed
  BY EndStates DEF Intended, State
<1>2. capsled \in BOOLEAN /\ (Lock(capsled) = "on" <=> capsled)
  BY DEF Types, Lock
<1>3. Letter(s.shift # {}, s.lock = "on") = Letter(down \cap Shifts # {}, capsled)
  <2>1. (s.lock = "on") = capsled
    BY <1>1, <1>2
  <2> QED
    BY <1>1, <2>1
<1>4. Intended' = State("plain", down' \cap Shifts, Lock(capsled'), typed')
  BY DEF Intended
<1>5. Lock(capsled') = IF k = "caps" /\ ~b THEN (IF s.lock = "on" THEN "off" ELSE "on")
                                           ELSE s.lock
  BY <1>1, <1>2 DEF Lock
<1> HIDE DEF s
<1>6. CASE k = "up"
  <2>1. /\ down' \cap Shifts = s.shift /\ Lock(capsled') = s.lock
        /\ typed' = IF b THEN s.ret ELSE s.ret \o <<"UP">>
    BY <1>1, <1>5, <1>6 DEF Shifts
  <2>2. Decoded(Decoded(s, E0), Code("48", b)) = Intended'
    BY <1>1, <1>4, <2>1, CursorCodes
  <2> QED
    BY <1>6, <2>2 DEF s
<1>7. CASE k # "up"
  <2>1. k \notin {"E0", "48", "cmd"}
    BY Ps2Assumption DEF Ps2Assumption
  <2>2. typed' = PlainKeys(s, k, b)
    BY <1>1, <1>3, <1>7 DEF PlainKeys
  <2>3. down' \cap Shifts = PlainShift(s, k, b)
    BY <1>1 DEF PlainShift
  <2>4. Lock(capsled') = PlainLock(s, k, b)
    BY <1>5 DEF PlainLock
  <2>5. Decoded(s, Code(k, b)) =
          State("plain", PlainShift(s, k, b), PlainLock(s, k, b), PlainKeys(s, k, b))
    BY <1>1, <2>1, PlainCode
  <2> QED
    BY <1>4, <1>7, <2>2, <2>3, <2>4, <2>5 DEF s
<1> QED
  BY <1>6, <1>7


\* A stroke that sends its codes and means what they mean keeps the run.
LEMMA StrokeStep ==
    ASSUME IInv, NEW k \in Keys, NEW b \in BOOLEAN,
           fifo' = fifo \o Codes(k, b), buf' = buf, obuf' = obuf,
           Remembered' = Remembered, disturbed' = disturbed,
           Intended' = IF k = "up" THEN Decoded(Decoded(Intended, E0), Code("48", b))
                                   ELSE Decoded(Intended, Code(k, b))
    PROVE  /\ fifo' \in Seq(CodeSet)
           /\ ~disturbed' => Leads(Remembered', Pending', Intended')
<1>0. Types
  BY DEF IInv
<1>1. CASE k = "up"
  <2> DEFINE c == Code("48", b)
  <2>1. E0 \in CodeSet /\ c \in CodeSet
    BY CodesInUse
  <2>2. fifo' = fifo \o <<E0, c>> /\ Intended' = Decoded(Decoded(Intended, E0), c)
    BY <1>1 DEF Codes
  <2> HIDE DEF c
  <2>3. Pending' = Append(Append(Pending, E0), c) /\ fifo' \in Seq(CodeSet)
    BY <1>0, <2>1, <2>2, TwoMore
  <2>4. ASSUME ~disturbed PROVE Leads(Remembered, Pending', Intended')
    <3>1. Leads(Remembered, Append(Pending, E0), Decoded(Intended, E0))
      BY <1>0, <2>1, <2>4, EndStates, Extend DEF IInv
    <3>2. Append(Pending, E0) \in Seq(CodeSet)
      BY <1>0, <2>1, EndStates, AppendProperties
    <3>3. Leads(Remembered, Append(Append(Pending, E0), c), Decoded(Decoded(Intended, E0), c))
      BY <2>1, <3>1, <3>2, Extend
    <3> QED
      BY <2>2, <2>3, <3>3
  <2> QED
    BY <2>3, <2>4
<1>2. CASE k # "up"
  <2> DEFINE c == Code(k, b)
  <2>1. c \in CodeSet
    BY CodesInUse
  <2>2. fifo' = fifo \o <<c>> /\ Intended' = Decoded(Intended, c)
    BY <1>2 DEF Codes
  <2> HIDE DEF c
  <2>3. Pending' = Append(Pending, c) /\ fifo' \in Seq(CodeSet)
    BY <1>0, <2>1, <2>2, OneMore
  <2>4. ASSUME ~disturbed PROVE Leads(Remembered, Append(Pending, c), Decoded(Intended, c))
    BY <1>0, <2>1, <2>4, EndStates, Extend DEF IInv
  <2> QED
    BY <2>2, <2>3, <2>4
<1> QED
  BY <1>1, <1>2

LEMMA PressStep ==
    ASSUME IInv, NEW k \in Keys, Press(k) PROVE IInv'
<1>1. /\ down' = down \cup {k}
      /\ capsled' = IF k = "caps" THEN ~capsled ELSE capsled
      /\ fifo' = fifo \o Codes(k, FALSE)
      /\ buf' = buf /\ obuf' = obuf /\ disturbed' = disturbed
      /\ ext' = ext /\ shift' = shift /\ caps' = caps /\ returned' = returned
  BY DEF Press, state
<1>2. Types
  BY DEF IInv
<1>3. typed' = IF k = "a" THEN typed \o <<Letter(down \cap Shifts # {}, capsled)>>
               ELSE IF k = "up" THEN typed \o <<"UP">> ELSE typed
  <2> DEFINE l == Letter(down \cap Shifts # {}, capsled)
  <2>1. l \in Glyphs /\ "UP" \in Glyphs
    BY DEF Letter, Glyphs
  <2>2. /\ k = "a" => typed' = Append(typed, l)
        /\ k = "up" => typed' = Append(typed, "UP")
        /\ k \notin {"a", "up"} => typed' = typed
    BY DEF Press
  <2> HIDE DEF l
  <2>3. Append(typed, l) = typed \o <<l>> /\ Append(typed, "UP") = typed \o <<"UP">>
    BY <1>2, <2>1, AppendIsConcat DEF Types
  <2> QED
    BY <2>2, <2>3 DEF l
<1>4. typed' \in Seq(Glyphs)
  <2> DEFINE l == Letter(down \cap Shifts # {}, capsled)
  <2>1. <<l>> \in Seq(Glyphs) /\ <<"UP">> \in Seq(Glyphs)
    BY DEF Letter, Glyphs
  <2> HIDE DEF l
  <2>2. typed \o <<l>> \in Seq(Glyphs) /\ typed \o <<"UP">> \in Seq(Glyphs) /\ typed \in Seq(Glyphs)
    BY <1>2, <2>1, ConcatProperties DEF Types
  <2> QED
    BY <1>3, <2>2 DEF l
<1>5. Intended' = IF k = "up" THEN Decoded(Decoded(Intended, E0), Code("48", FALSE))
                              ELSE Decoded(Intended, Code(k, FALSE))
  <2>1. down' \cap Shifts = IF k \notin Shifts THEN down \cap Shifts
                            ELSE (down \cap Shifts) \cup {k}
    BY <1>1
  <2> QED
    BY <1>1, <1>2, <1>3, <2>1, StrokeMeans
<1>6. Remembered' = Remembered
  BY <1>1 DEF Remembered
<1>7. fifo' \in Seq(CodeSet) /\ (~disturbed' => Leads(Remembered', Pending', Intended'))
  BY <1>1, <1>5, <1>6, StrokeStep
<1>8. Types'
  BY <1>1, <1>2, <1>4, <1>7 DEF Types
<1> QED
  BY <1>7, <1>8 DEF IInv

LEMMA ReleaseStep ==
    ASSUME IInv, NEW k \in Keys, Release(k) PROVE IInv'
<1>1. /\ down' = down \ {k} /\ capsled' = capsled /\ typed' = typed
      /\ fifo' = fifo \o Codes(k, TRUE)
      /\ buf' = buf /\ obuf' = obuf /\ disturbed' = disturbed
      /\ ext' = ext /\ shift' = shift /\ caps' = caps /\ returned' = returned
  BY DEF Release, state
<1>2. Types
  BY DEF IInv
<1>5. Intended' = IF k = "up" THEN Decoded(Decoded(Intended, E0), Code("48", TRUE))
                              ELSE Decoded(Intended, Code(k, TRUE))
  <2>1. down' \cap Shifts = IF k \notin Shifts THEN down \cap Shifts
                            ELSE (down \cap Shifts) \ {k}
    BY <1>1
  <2> QED
    BY <1>1, <1>2, <2>1, StrokeMeans
<1>6. Remembered' = Remembered
  BY <1>1 DEF Remembered
<1>7. fifo' \in Seq(CodeSet) /\ (~disturbed' => Leads(Remembered', Pending', Intended'))
  BY <1>1, <1>5, <1>6, StrokeStep
<1>8. Types'
  BY <1>1, <1>2, <1>7 DEF Types
<1> QED
  BY <1>7, <1>8 DEF IInv


LEMMA InitInv == Init => IInv
<1> SUFFICES ASSUME Init PROVE IInv
  OBVIOUS
<1>1. Types
  <2>1. <<>> \in Seq(CodeSet) /\ <<>> \in Seq(ByteSet) /\ <<>> \in Seq(Glyphs)
    BY EmptySeq
  <2> QED
    BY <2>1 DEF Init, Types
<1>2. Pending = <<>>
  BY DEF Init, Pending, Held
<1>3. Remembered = Intended
  BY DEF Init, Remembered, Intended, State, Mode, Lock
<1>4. Leads(Remembered, <<>>, Intended)
  BY <1>1, <1>3, EndStates, LeadsNowhere
<1> QED
  BY <1>1, <1>2, <1>4 DEF IInv

\* The byte the controller holds.
LEMMA HeldByte ==
    ASSUME Types
    PROVE  /\ obuf = <<>> => Held = <<>>
           /\ obuf # <<>> => /\ obuf[1].code \in CodeSet
                             /\ obuf[1].kind \in {"key", "reply", "aux"}
                             /\ Held = IF obuf[1].kind = "key" THEN <<obuf[1].code>> ELSE <<>>
<1>1. ASSUME obuf # <<>> PROVE obuf[1] \in ByteSet
  <2>1. Len(obuf) \in Nat \ {0}
    BY <1>1, EmptySeq DEF Types
  <2> QED
    BY <2>1, ElementOfSeq DEF Types
<1>2. \A x \in ByteSet : x.code \in CodeSet /\ x.kind \in {"key", "reply", "aux"}
  BY DEF ByteSet
<1> QED
  BY <1>1, <1>2 DEF Held

\* The controller presents a code, or something that is none.
LEMMA PresentStep ==
    ASSUME IInv, Present PROVE IInv'
<1>1. /\ obuf = <<>> /\ buf' = buf /\ disturbed' = disturbed
      /\ ext' = ext /\ shift' = shift /\ caps' = caps /\ returned' = returned
      /\ down' = down /\ capsled' = capsled /\ typed' = typed
  BY DEF Present, state, user
<1>2. Types /\ Held = <<>>
  BY <1>1 DEF IInv, Held
<1>3. Remembered' = Remembered /\ Intended' = Intended
  BY <1>1 DEF Remembered, Intended
<1>4. ASSUME NEW kind \in {"key", "reply", "aux"}, NEW c \in CodeSet, obuf' = <<Byte(kind, c)>>
      PROVE  /\ obuf' \in Seq(ByteSet)
             /\ Held' = IF kind = "key" THEN <<c>> ELSE <<>>
  <2> DEFINE x == Byte(kind, c)
  <2>1. x \in ByteSet /\ x.kind = kind /\ x.code = c
    BY DEF Byte, ByteSet
  <2> HIDE DEF x
  <2>2. obuf' = <<x>> /\ <<x>> \in Seq(ByteSet) /\ <<x>> # <<>> /\ <<x>>[1] = x
    BY <1>4, <2>1 DEF x
  <2> QED
    BY <2>1, <2>2 DEF Held
<1>5. CASE fifo # <<>> /\ obuf' = <<Byte("key", Head(fifo))>> /\ fifo' = Tail(fifo)
  <2> DEFINE h == Head(fifo)
             t == Tail(fifo)
  <2>1. fifo \in Seq(CodeSet) /\ buf \in Seq(CodeSet)
    BY <1>2 DEF Types
  <2>2. h \in CodeSet /\ t \in Seq(CodeSet) /\ fifo = <<h>> \o t
    BY <1>5, <2>1, HeadTailProperties
  <2>3. obuf' \in Seq(ByteSet) /\ Held' = <<h>>
    BY <1>4, <1>5, <2>2
  <2>4. fifo' = t
    BY <1>5
  <2> HIDE DEF h, t
  <2>5. Pending = buf \o (<<h>> \o t)
    <3>1. buf \o <<>> = buf
      BY <2>1
    <3> QED
      BY <1>2, <2>2, <3>1 DEF Pending
  <2>6. Pending' = (buf \o <<h>>) \o t
    BY <1>1, <2>3, <2>4 DEF Pending
  <2>7. <<h>> \in Seq(CodeSet)
    BY <2>2
  <2>8. Pending' = Pending
    BY <2>1, <2>2, <2>5, <2>6, <2>7, ConcatAssociative
  <2>9. Types'
    BY <1>1, <1>2, <2>2, <2>3, <2>4 DEF Types
  <2> QED
    BY <1>1, <1>3, <2>8, <2>9, SameRun
<1>6. CASE fifo' = fifo /\ (obuf' = <<Byte("reply", Odd)>> \/ obuf' = <<Byte("aux", NoCode)>>)
  <2>1. obuf' \in Seq(ByteSet) /\ Held' = <<>>
    BY <1>4, <1>6, CodesInUse
  <2>2. Pending' = Pending
    BY <1>1, <1>2, <1>6, <2>1 DEF Pending
  <2>3. Types'
    BY <1>1, <1>2, <1>6, <2>1 DEF Types
  <2> QED
    BY <1>1, <1>3, <2>2, <2>3, SameRun
<1> QED
  BY <1>5, <1>6 DEF Present

\* A step that takes a byte which is no key's off the controller, or admits
\* that a byte was lost, and leaves the rest.
LEMMA TakeStep ==
    ASSUME IInv, obuf' \in {obuf, <<>>}, buf' = buf, fifo' = fifo, disturbed' \in BOOLEAN,
           ~disturbed' => ~disturbed /\ (obuf' = obuf \/ obuf[1].kind # "key"),
           UNCHANGED <<user, state, returned>>
    PROVE  IInv'
<1>1. /\ ext' = ext /\ shift' = shift /\ caps' = caps /\ returned' = returned
      /\ down' = down /\ capsled' = capsled /\ typed' = typed
  BY DEF user, state
<1>2. Remembered' = Remembered /\ Intended' = Intended
  BY <1>1 DEF Remembered, Intended
<1>3. Types
  BY DEF IInv
<1>4. Types'
  <2>1. obuf' \in Seq(ByteSet)
    BY <1>3, EmptySeq DEF Types
  <2> QED
    BY <1>1, <1>3, <2>1 DEF Types
<1>5. ASSUME ~disturbed' PROVE Pending' = Pending
  <2>1. CASE obuf' = obuf
    BY <2>1 DEF Pending, Held
  <2>2. CASE obuf' = <<>> /\ obuf[1].kind # "key"
    <3>1. Held = <<>> /\ Held' = <<>>
      BY <2>2 DEF Held
    <3> QED
      BY <3>1 DEF Pending
  <2> QED
    BY <1>5, <2>1, <2>2
<1> QED
  BY <1>2, <1>4, <1>5, SameRun

\* kbd_init takes the odd byte.
LEMMA SetupStep ==
    ASSUME IInv, Drain \/ Ask \/ Answer \/ Arm PROVE IInv'
<1>0. Types
  BY DEF IInv
<1>1. CASE Drain
  <2>1. /\ buf' = buf /\ fifo' = fifo /\ UNCHANGED <<user, state, returned>>
        /\ \/ obuf' = <<>> /\ disturbed' = (disturbed \/ obuf[1].kind # "aux")
           \/ obuf' = obuf /\ disturbed' = disturbed
    BY <1>1 DEF Drain, Take
  <2>2. disturbed' \in BOOLEAN /\ obuf' \in {obuf, <<>>}
    BY <1>0, <2>1 DEF Types
  <2>3. ~disturbed' => ~disturbed /\ (obuf' = obuf \/ obuf[1].kind # "key")
    BY <2>1
  <2> QED
    BY <2>1, <2>2, <2>3, TakeStep
<1>2. CASE Ask
  <2>1. /\ buf' = buf /\ fifo' = fifo /\ UNCHANGED <<user, state, returned>>
        /\ obuf' = obuf /\ disturbed' = disturbed
    BY <1>2 DEF Ask
  <2>2. disturbed' \in BOOLEAN
    BY <1>0, <2>1 DEF Types
  <2> QED
    BY <2>1, <2>2, TakeStep
<1>3. CASE Answer
  <2>1. /\ buf' = buf /\ fifo' = fifo /\ UNCHANGED <<user, state, returned>>
        /\ \/ obuf' = <<>> /\ disturbed' = (disturbed \/ obuf[1].kind # "reply")
           \/ obuf' = obuf /\ disturbed' = TRUE
    BY <1>3 DEF Answer
  <2>2. disturbed' \in BOOLEAN /\ obuf' \in {obuf, <<>>}
    BY <1>0, <2>1 DEF Types
  <2>3. ~disturbed' => ~disturbed /\ (obuf' = obuf \/ obuf[1].kind # "key")
    BY <2>1
  <2> QED
    BY <2>1, <2>2, <2>3, TakeStep
<1>4. CASE Arm
  <2>1. /\ buf' = buf /\ obuf' = obuf /\ disturbed' = disturbed
        /\ UNCHANGED <<user, state, returned>>
        /\ \/ fifo' = fifo
           \/ fifo' = Append(fifo, Ack)
    BY <1>4 DEF Arm
  <2>2. CASE fifo' = fifo
    <3>1. disturbed' \in BOOLEAN
      BY <1>0, <2>1 DEF Types
    <3> QED
      BY <2>1, <2>2, <3>1, TakeStep
  <2>3. CASE fifo' = Append(fifo, Ack)
    <3>1. /\ ext' = ext /\ shift' = shift /\ caps' = caps /\ returned' = returned
          /\ down' = down /\ capsled' = capsled /\ typed' = typed
      BY <2>1 DEF user, state
    <3>2. Remembered' = Remembered /\ Intended' = Intended
      BY <3>1 DEF Remembered, Intended
    <3>3. Ack \in CodeSet /\ fifo' = fifo \o <<Ack>>
      BY <1>0, <2>3, CodesInUse, AppendIsConcat DEF Types
    <3>4. Pending' = Append(Pending, Ack) /\ fifo' \in Seq(CodeSet)
      BY <1>0, <2>1, <3>3, OneMore
    <3>5. Intended = Decoded(Intended, Ack)
      <4>1. Intended \in DState /\ Intended.mode = "plain"
        BY <1>0, EndStates DEF Intended, State
      <4>2. Decoded(Intended, Ack) =
              State("plain", PlainShift(Intended, "ack", TRUE), PlainLock(Intended, "ack", TRUE),
                    PlainKeys(Intended, "ack", TRUE))
        BY <4>1, PlainCode DEF Ack
      <4>3. /\ PlainShift(Intended, "ack", TRUE) = Intended.shift
            /\ PlainLock(Intended, "ack", TRUE) = Intended.lock
            /\ PlainKeys(Intended, "ack", TRUE) = Intended.ret
        BY DEF PlainShift, PlainLock, PlainKeys, Shifts
      <4> QED
        BY <4>2, <4>3 DEF Intended, State
    <3>6. ASSUME ~disturbed' PROVE Leads(Remembered', Pending', Intended')
      <4>1. Leads(Remembered, Append(Pending, Ack), Decoded(Intended, Ack))
        BY <1>0, <2>1, <3>3, <3>6, EndStates, Extend DEF IInv
      <4> QED
        BY <3>2, <3>4, <3>5, <4>1
    <3>7. Types'
      BY <1>0, <2>1, <3>1, <3>4 DEF Types
    <3> QED
      BY <3>6, <3>7 DEF IInv
  <2> QED
    BY <2>1, <2>2, <2>3
<1> QED
  BY <1>1, <1>2, <1>3, <1>4

\* The poll moves a code from the controller to the end of the ring.
LEMMA PollStep ==
    ASSUME IInv, kbd_poll PROVE IInv'
<1>0. Types
  BY DEF IInv
<1>1. /\ fifo' = fifo /\ UNCHANGED <<user, state, returned>>
      /\ ext' = ext /\ shift' = shift /\ caps' = caps /\ returned' = returned
      /\ down' = down /\ capsled' = capsled /\ typed' = typed
  BY DEF kbd_poll, user, state
<1>2. Remembered' = Remembered /\ Intended' = Intended
  BY <1>1 DEF Remembered, Intended
<1>3. CASE obuf' = obuf /\ buf' = buf /\ disturbed' = disturbed
  <2>1. disturbed' \in BOOLEAN
    BY <1>0, <1>3 DEF Types
  <2> QED
    BY <1>1, <1>3, <2>1, TakeStep
<1>4. CASE /\ obuf # <<>> /\ obuf' = <<>> /\ obuf[1].kind = "aux"
           /\ buf' = buf /\ disturbed' = disturbed
  <2>1. disturbed' \in BOOLEAN
    BY <1>0, <1>4 DEF Types
  <2> QED
    BY <1>1, <1>4, <2>1, TakeStep
<1>5. CASE /\ obuf # <<>> /\ obuf' = <<>> /\ obuf[1].kind # "aux"
           /\ buf' = IF Room THEN Append(buf, obuf[1].code) ELSE buf
           /\ disturbed' = (disturbed \/ ~Room \/ obuf[1].kind = "reply")
  <2> DEFINE c == obuf[1].code
  <2>1. /\ c \in CodeSet /\ obuf[1].kind \in {"key", "reply", "aux"}
        /\ Held = IF obuf[1].kind = "key" THEN <<obuf[1].code>> ELSE <<>>
    BY <1>0, <1>5, HeldByte
  <2>2. buf \in Seq(CodeSet) /\ Append(buf, c) \in Seq(CodeSet) /\ Append(buf, c) = buf \o <<c>>
    BY <1>0, <2>1, AppendProperties, AppendIsConcat DEF Types
  <2>3. buf' \in Seq(CodeSet)
    BY <1>5, <2>2
  <2>4. obuf' \in Seq(ByteSet) /\ Held' = <<>>
    BY <1>5 DEF Held
  <2>5. disturbed' \in BOOLEAN
    BY <1>0, <1>5 DEF Types
  <2>6. Types'
    BY <1>0, <1>1, <2>3, <2>4, <2>5 DEF Types
  <2>7. ASSUME ~disturbed' PROVE Pending' = Pending
    <3>1. Room /\ obuf[1].kind = "key"
      BY <1>5, <2>1, <2>7
    <3>2. buf' = buf \o <<c>>
      BY <1>5, <2>2, <3>1
    <3>3. Held = <<c>>
      BY <2>1, <3>1
    <3> HIDE DEF c
    <3>4. (buf \o <<c>>) \o <<>> = buf \o <<c>>
      BY <2>2
    <3> QED
      BY <1>1, <2>4, <3>2, <3>3, <3>4 DEF Pending
  <2>8. ~disturbed' => ~disturbed
    BY <1>5
  <2> QED
    BY <1>2, <2>6, <2>7, <2>8, SameRun
<1>6. \/ obuf' = obuf /\ buf' = buf /\ disturbed' = disturbed
      \/ /\ obuf # <<>> /\ obuf' = <<>> /\ obuf[1].kind = "aux"
         /\ buf' = buf /\ disturbed' = disturbed
      \/ /\ obuf # <<>> /\ obuf' = <<>> /\ obuf[1].kind # "aux"
         /\ buf' = IF Room THEN Append(buf, obuf[1].code) ELSE buf
         /\ disturbed' = (disturbed \/ ~Room \/ obuf[1].kind = "reply")
  BY DEF kbd_poll
<1> QED
  BY <1>3, <1>4, <1>5, <1>6

\* The key a code gives is that of decode as a function.
LEMMA KeyIsGlyph ==
    ASSUME Types, NEW c
    PROVE  KeyOf(c) = Glyph(Remembered, c)
<1>1. /\ (Remembered.mode = "e0") = ext /\ Remembered.shift = shift
      /\ (Remembered.lock = "on") = caps
  BY DEF Types, Remembered, State, Mode, Lock
<1> DEFINE l == Letter(Remembered.shift # {}, Remembered.lock = "on")
<1>2. l = Letter(shift # {}, caps)
  BY <1>1
<1> HIDE DEF l
<1>3. CASE c.brk
  BY <1>3 DEF KeyOf, Glyph
<1>4. CASE ~c.brk /\ ext
  BY <1>1, <1>4 DEF KeyOf, Glyph
<1>5. CASE ~c.brk /\ ~ext /\ c.k = "a"
  <2>1. KeyOf(c) = <<Letter(shift # {}, caps)>>
    BY <1>5 DEF KeyOf
  <2>2. Glyph(Remembered, c) = <<l>>
    BY <1>1, <1>5 DEF Glyph, l
  <2> QED
    BY <1>2, <2>1, <2>2
<1>6. CASE ~c.brk /\ ~ext /\ c.k = "48"
  BY <1>1, <1>6 DEF KeyOf, Glyph
<1>7. CASE ~c.brk /\ ~ext /\ c.k = "cmd"
  BY <1>1, <1>7 DEF KeyOf, Glyph
<1>8. CASE ~c.brk /\ ~ext /\ c.k \notin {"a", "48", "cmd"}
  BY <1>1, <1>8 DEF KeyOf, Glyph
<1>9. ext \in BOOLEAN
  BY DEF Types
<1> QED
  BY <1>3, <1>4, <1>5, <1>6, <1>7, <1>8, <1>9

\* The reader decodes the first of the codes on their way.
LEMMA PopStep ==
    ASSUME IInv, pop PROVE IInv'
<1>0. Types
  BY DEF IInv
<1>1. /\ fifo' = fifo /\ obuf' = obuf /\ disturbed' = disturbed /\ UNCHANGED user
      /\ down' = down /\ capsled' = capsled /\ typed' = typed
  BY DEF pop, user
<1>2. CASE buf = <<>>
  <2>1. buf' = buf /\ UNCHANGED <<user, state, returned>> /\ disturbed' \in BOOLEAN
    BY <1>0, <1>1, <1>2 DEF pop, Types
  <2> QED
    BY <1>1, <2>1, TakeStep
<1>3. CASE buf # <<>>
  <2> DEFINE h == Head(buf)
             t == Tail(buf)
  <2>1. /\ buf' = t /\ returned' = returned \o KeyOf(h)
        /\ ext' = Extended(h) /\ shift' = ShiftAfter(h)
        /\ caps' = IF ~ext /\ h = Code("caps", FALSE) THEN ~caps ELSE caps
    BY <1>3 DEF pop, decode
  <2>2. buf \in Seq(CodeSet) /\ fifo \in Seq(CodeSet)
    BY <1>0 DEF Types
  <2>3. h \in CodeSet /\ t \in Seq(CodeSet) /\ buf = <<h>> \o t
    BY <1>3, <2>2, HeadTailProperties
  <2> HIDE DEF h, t
  <2>4. Remembered' = Decoded(Remembered, h)
    <3>1. /\ (Remembered.mode = "e0") = ext /\ Remembered.shift = shift
          /\ (Remembered.lock = "on") = caps /\ Remembered.ret = returned
          /\ Remembered.mode \in {"e0", "plain"} /\ Remembered.lock \in {"on", "off"}
      BY <1>0 DEF Types, Remembered, State, Mode, Lock
    <3>2. Mode(ext') = ModeAfter(h)
      BY <2>1 DEF Mode, ModeAfter, Extended
    <3>3. shift' = ShiftsAfter(Remembered, h)
      BY <2>1, <3>1 DEF ShiftAfter, ShiftsAfter
    <3>4. Lock(caps') = LockAfter(Remembered, h)
      <4>1. Remembered.mode = "plain" <=> ~ext
        BY <3>1
      <4>2. CASE ~ext /\ h = Code("caps", FALSE)
        BY <2>1, <3>1, <4>1, <4>2 DEF Lock, LockAfter
      <4>3. CASE h # Code("caps", FALSE)
        BY <2>1, <3>1, <4>1, <4>3 DEF Lock, LockAfter
      <4>4. CASE ext
        BY <2>1, <3>1, <4>1, <4>4 DEF Lock, LockAfter
      <4>5. ext \in BOOLEAN
        BY <1>0 DEF Types
      <4> QED
        BY <4>2, <4>3, <4>4, <4>5
    <3>5. returned' = Remembered.ret \o Glyph(Remembered, h)
      BY <1>0, <2>1, <3>1, KeyIsGlyph
    <3>6. Remembered' = State(Mode(ext'), shift', Lock(caps'), returned')
      BY DEF Remembered
    <3> QED
      BY <3>2, <3>3, <3>4, <3>5, <3>6 DEF Decoded
  <2>5. Intended' = Intended
    BY <1>1 DEF Intended
  <2>6. Pending # <<>> /\ Head(Pending) = h /\ Tail(Pending) = Pending'
    <3>1. Held' = Held /\ Held \in Seq(CodeSet)
      BY <1>0, <1>1, EndStates DEF Held
    <3>2. Pending' = (t \o Held) \o fifo
      BY <1>1, <2>1, <3>1 DEF Pending
    <3>3. t \o Held \in Seq(CodeSet) /\ <<h>> \in Seq(CodeSet)
      BY <2>3, <3>1, ConcatProperties
    <3>4. (<<h>> \o t) \o Held = <<h>> \o (t \o Held)
      BY <2>3, <3>1, <3>3, ConcatAssociative
    <3>5. (<<h>> \o (t \o Held)) \o fifo = <<h>> \o ((t \o Held) \o fifo)
      BY <2>2, <3>3, ConcatAssociative
    <3>6. Pending = <<h>> \o Pending'
      BY <2>3, <3>2, <3>4, <3>5 DEF Pending
    <3>7. Pending' \in Seq(CodeSet)
      BY <2>2, <3>2, <3>3, ConcatProperties
    <3>8. \A q \in Seq(CodeSet) : /\ <<h>> \o q # <<>> /\ Head(<<h>> \o q) = h
                                  /\ Tail(<<h>> \o q) = q
      BY <2>3
    <3> QED
      BY <3>6, <3>7, <3>8
  <2>7. ASSUME ~disturbed' PROVE Leads(Remembered', Pending', Intended')
    <3>1. Leads(Remembered, Pending, Intended) /\ Pending \in Seq(CodeSet)
      BY <1>0, <1>1, <2>7, EndStates DEF IInv
    <3>2. Leads(Decoded(Remembered, Head(Pending)), Tail(Pending), Intended)
      BY <2>6, <3>1, Advance
    <3> QED
      BY <2>4, <2>5, <2>6, <3>2
  <2>8. Types'
    <3>1. returned' \in Seq(Glyphs)
      BY <1>0, <2>1, KeyIsGlyph, GlyphType, ConcatProperties DEF Types
    <3>2. shift' \in SUBSET Shifts
      BY <1>0, <2>1 DEF ShiftAfter, Types
    <3>3. ext' \in BOOLEAN /\ caps' \in BOOLEAN
      BY <1>0, <2>1 DEF Extended, Types
    <3> QED
      BY <1>0, <1>1, <2>1, <2>3, <3>1, <3>2, <3>3 DEF Types
  <2> QED
    BY <2>7, <2>8 DEF IInv
<1> QED
  BY <1>2, <1>3

LEMMA StepInv == IInv /\ [Next]_vars => IInv'
<1> SUFFICES ASSUME IInv, [Next]_vars PROVE IInv'
  OBVIOUS
<1>0. disturbed \in BOOLEAN
  BY DEF IInv, Types
<1>1. ASSUME NEW k \in Keys, Press(k) \/ Release(k) PROVE IInv'
  BY <1>1, PressStep, ReleaseStep
<1>2. CASE Present
  BY <1>2, PresentStep
<1>3. CASE Drain \/ Ask \/ Answer \/ Arm
  BY <1>3, SetupStep
<1>4. CASE kbd_poll
  BY <1>4, PollStep
<1>5. CASE pop
  BY <1>5, PopStep
<1>6. CASE kbd_irq \/ Tick \/ Trygetc \/ Empty \/ UNCHANGED vars
  <2>1. /\ buf' = buf /\ fifo' = fifo /\ obuf' = obuf /\ disturbed' = disturbed
        /\ UNCHANGED <<user, state, returned>>
    BY <1>6 DEF kbd_irq, Tick, Trygetc, Empty, vars
  <2> QED
    BY <1>0, <2>1, TakeStep
<1> QED
  BY <1>1, <1>2, <1>3, <1>4, <1>5, <1>6 DEF Next, kernel

-----------------------------------------------------------------------------
(* Theorems.                                                               *)

\* The run from what was read to what was typed exists in every state, unless
\* a byte was dropped or taken for another.
THEOREM Invariance == Spec => []IInv
<1>1. Init => IInv
  BY InitInv
<1>2. IInv /\ [Next]_vars => IInv'
  BY StepInv
<1> QED
  BY <1>1, <1>2, PTL DEF Spec

\* With no code on its way, decode remembers what the keyboard means.
LEMMA NothingPending ==
    ASSUME IInv, ~disturbed, Drained PROVE Remembered = Intended
<1>1. Pending = <<>>
  BY DEF Drained, Pending, Held
<1>2. Remembered \in DState
  BY EndStates DEF IInv
<1> QED
  BY <1>1, <1>2, LeadsNowhere DEF IInv

\* What a program reads is what was typed, in order, each key once, and all of
\* it when no code is left, whichever way each code came into the ring.
THEOREM WhatIsTypedIsRead == Spec => []KeysInOrder
<1>1. IInv => KeysInOrder
  <2> SUFFICES ASSUME IInv, ~disturbed
               PROVE  IsPrefix(returned, typed) /\ (Drained => returned = typed)
    BY DEF KeysInOrder
  <2>1. returned \in Seq(Glyphs) /\ typed \in Seq(Glyphs)
    BY DEF IInv, Types
  <2>2. Before(Remembered.ret, Intended.ret)
    BY EndStates, LeadsBefore DEF IInv
  <2>3. Before(returned, typed)
    BY <2>2 DEF Remembered, Intended, State
  <2>4. IsPrefix(returned, typed)
    BY <2>1, <2>3 DEF IsPrefix, Before
  <2>5. Drained => returned = typed
    <3>1. Remembered = Intended => Remembered.ret = Intended.ret
      OBVIOUS
    <3> QED
      BY <3>1, NothingPending DEF Remembered, Intended, State
  <2> QED
    BY <2>4, <2>5
<1> QED
  BY <1>1, Invariance, PTL

\* Once every code is decoded no E0 is pending, and shift and caps are those of
\* the keyboard, however the strokes and the polls interleaved.
THEOREM NothingSticks == Spec => []NoStuckModifier
<1>1. IInv => NoStuckModifier
  <2> SUFFICES ASSUME IInv, ~disturbed, Drained
               PROVE  ext = FALSE /\ shift = down \cap Shifts /\ caps = capsled
    BY DEF NoStuckModifier
  <2>1. Remembered = Intended
    BY NothingPending
  <2>2. /\ Remembered.mode = Intended.mode /\ Remembered.shift = Intended.shift
        /\ Remembered.lock = Intended.lock
    BY <2>1
  <2>3. Mode(ext) = "plain" /\ shift = down \cap Shifts /\ Lock(caps) = Lock(capsled)
    BY <2>2 DEF Remembered, Intended, State
  <2>4. ext \in BOOLEAN /\ caps \in BOOLEAN /\ capsled \in BOOLEAN
    BY DEF IInv, Types
  <2> QED
    BY <2>3, <2>4 DEF Mode, Lock
<1> QED
  BY <1>1, Invariance, PTL
=============================================================================
