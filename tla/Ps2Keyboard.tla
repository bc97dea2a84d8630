---------------------------- MODULE Ps2Keyboard ----------------------------
(***************************************************************************)
(* The PS/2 keyboard driver (kbd.c) between a keyboard behind an 8042      *)
(* controller and the program that reads keys.                             *)
(*                                                                         *)
(* Scan codes reach the ring buf[] two ways: the IRQ1 handler, and the     *)
(* poll of kbd_trygetc under cli.  The handler may run wherever interrupts *)
(* are on, the controller may present a byte between any two steps, and    *)
(* on some boards IRQ1 never comes ("wired" is FALSE there); kbd_getc then *)
(* depends on the PIT tick that ends every hlt.  decode turns the popped   *)
(* codes into keys one at a time, and keeps ext, shift and caps from one   *)
(* code to the next.  usbkbd_poll and its queue are UsbKeyboard's.         *)
(***************************************************************************)
EXTENDS Naturals, SequencesExt

CONSTANTS
    Keys,         \* the keys in use, of "a", "up", "caps", "lshift", "rshift"
    BUFSZ,        \* size of the ring: 256
    PollMax,      \* iterations of one kbd_poll: 16
    DrainMax,     \* iterations of kbd_init's drain: 64
    MaxStrokes,   \* how often the user presses or releases a key
    MaxMouse      \* bytes from a PS/2 mouse behind the same controller

ASSUME Ps2Assumption ==
    /\ Keys \subseteq {"a", "up", "caps", "lshift", "rshift"}
    /\ BUFSZ \in Nat /\ BUFSZ >= 2
    /\ PollMax \in Nat \ {0} /\ DrainMax \in Nat
    /\ MaxStrokes \in Nat /\ MaxMouse \in Nat

Shifts == {"lshift", "rshift"}

VARIABLES
    \* the user and the keyboard
    down, capsled, fifo, typed, strokes, mouse,
    \* the 8042: output buffer, its IRQ1, the reply to command 0x20
    obuf, irqen, wired, irqpend, reply,
    \* the driver
    buf,                     \* buf[rd..wr)
    ext, shift, caps,        \* decode
    pc, ret, i,          \* control: place, return place, loop count
    returned,                \* the keys kbd_getc and kbd_trygetc returned
    disturbed                \* ghost: a byte was dropped, or read as another

user   == <<down, capsled, typed, strokes>>
kbc    == <<irqen, wired, reply>>
state  == <<ext, shift, caps>>
vars   == <<user, fifo, mouse, obuf, irqpend, kbc, buf, state,
            pc, ret, i, returned, disturbed>>

(* A code of set 1: "48" is cursor up after E0 and keypad 8 otherwise.     *)
Code(k, brk) == [k |-> k, brk |-> brk]
E0   == Code("E0", FALSE)
Ack  == Code("ack", TRUE)
Odd  == Code("cmd", FALSE)          \* the command byte, taken for a code
NoCode == Code("none", FALSE)

Codes(k, brk) == IF k = "up" THEN <<E0, Code("48", brk)>> ELSE <<Code(k, brk)>>

Letter(shifted, locked) == IF shifted = locked THEN "a" ELSE "A"

Init ==
    /\ down = {} /\ capsled = FALSE /\ fifo = <<>> /\ typed = <<>>
    /\ strokes = 0 /\ mouse = 0
    /\ obuf = <<>> /\ irqen = FALSE /\ wired \in BOOLEAN
    /\ irqpend = FALSE /\ reply = FALSE
    /\ buf = <<>> /\ ext = FALSE /\ shift = {} /\ caps = FALSE
    /\ pc = "drain" /\ ret = "none" /\ i = 0
    /\ returned = <<>> /\ disturbed = FALSE

-----------------------------------------------------------------------------
(* The user: what a stroke should give is known when it is made.           *)
Press(k) ==
    /\ strokes < MaxStrokes /\ strokes' = strokes + 1
    /\ down' = down \cup {k}
    /\ capsled' = IF k = "caps" THEN ~capsled ELSE capsled
    /\ typed' = CASE k = "a"  -> Append(typed, Letter(down \cap Shifts # {}, capsled))
                  [] k = "up" -> Append(typed, "UP")
                  [] OTHER    -> typed
    /\ fifo' = fifo \o Codes(k, FALSE)
    /\ UNCHANGED <<mouse, obuf, irqpend, kbc, buf, state, pc, ret, i, returned, disturbed>>

Release(k) ==
    /\ k \in down
    /\ strokes < MaxStrokes /\ strokes' = strokes + 1
    /\ down' = down \ {k}
    /\ fifo' = fifo \o Codes(k, TRUE)
    /\ UNCHANGED <<capsled, typed, mouse, obuf, irqpend, kbc, buf, state,
                   pc, ret, i, returned, disturbed>>

(* The controller presents one byte at a time.                             *)
Byte(kind, c) == [kind |-> kind, code |-> c]

Present ==
    /\ obuf = <<>>
    /\ \/ /\ fifo # <<>>
          /\ obuf' = <<Byte("key", Head(fifo))>> /\ fifo' = Tail(fifo)
          /\ irqpend' = (irqpend \/ (irqen /\ wired))
          /\ UNCHANGED <<mouse, reply>>
       \/ /\ reply
          /\ obuf' = <<Byte("reply", Odd)>> /\ reply' = FALSE
          /\ UNCHANGED <<fifo, mouse, irqpend>>
       \/ /\ mouse < MaxMouse
          /\ obuf' = <<Byte("aux", NoCode)>> /\ mouse' = mouse + 1
          /\ UNCHANGED <<fifo, irqpend, reply>>
    /\ UNCHANGED <<user, irqen, wired, buf, state, pc, ret, i, returned, disturbed>>

-----------------------------------------------------------------------------
(* kbd_init, with interrupts off.  Whatever step fails, kmain goes on.     *)
Goto(label) == pc' = label /\ i' = 0

\* A byte read by kbd_init is lost to the reader of keys, whoever sent it.
Take == obuf' = <<>> /\ disturbed' = (disturbed \/ obuf[1].kind # "aux")

Drain ==
    /\ pc = "drain"
    /\ IF obuf # <<>> /\ i < DrainMax
       THEN Take /\ i' = i + 1 /\ UNCHANGED pc
       ELSE Goto("ask") /\ UNCHANGED <<obuf, disturbed>>
    /\ UNCHANGED <<user, fifo, mouse, irqpend, kbc, buf, state, ret, returned>>

\* kbc_wait_in may find the controller absent or wedged.
Ask ==
    /\ pc = "ask"
    /\ \/ reply' = TRUE /\ Goto("answer")
       \/ Goto("run") /\ UNCHANGED reply
    /\ UNCHANGED <<user, fifo, mouse, obuf, irqpend, irqen, wired, buf, state,
                   ret, returned, disturbed>>

\* The first byte that shows up is taken for the command byte; after 50000
\* looks a default is used, and the reply is still to come.
Answer ==
    /\ pc = "answer" /\ Goto("arm")
    /\ IF obuf # <<>>
       THEN /\ obuf' = <<>>
            /\ disturbed' = (disturbed \/ obuf[1].kind # "reply")
       ELSE disturbed' = TRUE /\ UNCHANGED obuf
    /\ UNCHANGED <<user, fifo, mouse, irqpend, kbc, buf, state, ret, returned>>

\* The command byte, written back with IRQ1 on, then 0xF4 and its Ack.
Arm ==
    /\ pc = "arm" /\ Goto("run")
    /\ \/ /\ irqen' = TRUE
          /\ irqpend' = (irqpend \/ (wired /\ obuf # <<>>))
          /\ fifo' \in {fifo, Append(fifo, Ack)}
       \/ UNCHANGED <<irqen, irqpend, fifo>>
    /\ UNCHANGED <<user, mouse, obuf, wired, reply, buf, state, ret, returned, disturbed>>

-----------------------------------------------------------------------------
(* kbd_poll: one iteration a step.  obuf is read only when it is full.     *)
Room == Len(buf) < BUFSZ - 1

kbd_poll ==
    /\ pc = "poll"
    /\ IF i = PollMax \/ obuf = <<>>
       THEN /\ pc' = ret /\ ret' = "none" /\ i' = 0
            /\ UNCHANGED <<obuf, buf, disturbed>>
       ELSE /\ i' = i + 1 /\ obuf' = <<>>
            /\ IF obuf[1].kind = "aux"
               THEN UNCHANGED <<buf, disturbed>>
               ELSE /\ buf' = IF Room THEN Append(buf, obuf[1].code) ELSE buf
                    /\ disturbed' = (disturbed \/ ~Room \/ obuf[1].kind = "reply")
            /\ UNCHANGED <<pc, ret>>
    /\ UNCHANGED <<user, fifo, mouse, irqpend, kbc, state, returned>>

\* IRQ1, wherever interrupts are on; a hlt it ends goes on with the next try.
kbd_irq ==
    /\ irqpend /\ pc \in {"run", "empty", "hlt"}
    /\ irqpend' = FALSE
    /\ pc' = "poll" /\ i' = 0
    /\ ret' = IF pc = "hlt" THEN "run" ELSE pc
    /\ UNCHANGED <<user, fifo, mouse, obuf, kbc, buf, state, returned, disturbed>>

\* IRQ0: the PIT ends a hlt.
Tick ==
    /\ pc = "hlt" /\ pc' = "run"
    /\ UNCHANGED <<user, fifo, mouse, obuf, irqpend, kbc, buf, state, ret, i, returned, disturbed>>

-----------------------------------------------------------------------------
(* decode, one code at a time.                                             *)
ExtendedLate(c) == c = E0 \/ (ext /\ c.brk)
Extended(c)     == c = E0

\* The key a code gives, or none: after E0 only cursor keys count.
KeyOf(c) ==
    IF c.brk THEN <<>>
    ELSE IF ext THEN (IF c.k = "48" THEN <<"UP">> ELSE <<>>)
    ELSE CASE c.k = "a"   -> <<Letter(shift # {}, caps)>>
           [] c.k = "48"  -> <<"8">>
           [] c.k = "cmd" -> <<"?">>
           [] OTHER       -> <<>>

ShiftKeptOnRelease(c) ==
    IF ext \/ c.brk \/ c.k \notin Shifts THEN shift ELSE shift \cup {c.k}

ShiftAfter(c) ==
    IF ext \/ c.k \notin Shifts THEN shift
    ELSE IF c.brk THEN shift \ {c.k} ELSE shift \cup {c.k}

decode(c) ==
    /\ ext' = Extended(c)
    /\ shift' = ShiftAfter(c)
    /\ caps' = IF ~ext /\ c = Code("caps", FALSE) THEN ~caps ELSE caps

(* kbd_trygetc, alone or from kbd_getc: cli and kbd_poll; then pop, sti and *)
(* decode, until a key comes out or the ring is empty.  decode runs after   *)
(* the sti, but only this reader sees what it keeps.                        *)
TrygetcNoPoll ==
    /\ pc = "run" /\ pc' = "pop"
    /\ UNCHANGED <<user, fifo, mouse, obuf, irqpend, kbc, buf, state, ret, i, returned, disturbed>>

Trygetc ==
    /\ pc = "run"
    /\ pc' = "poll" /\ ret' = "pop" /\ i' = 0
    /\ UNCHANGED <<user, fifo, mouse, obuf, irqpend, kbc, buf, state, returned, disturbed>>

pop ==
    /\ pc = "pop"
    /\ IF buf = <<>>
       THEN pc' = "empty" /\ UNCHANGED <<buf, state, returned>>
       ELSE /\ pc' = "run" /\ buf' = Tail(buf) /\ decode(Head(buf))
            /\ returned' = returned \o KeyOf(Head(buf))
    /\ UNCHANGED <<user, fifo, mouse, obuf, irqpend, kbc, ret, i, disturbed>>

\* -1: kbd_getc sleeps, kbd_trygetc returns it and is called again later.
Empty ==
    /\ pc = "empty" /\ pc' \in {"hlt", "run"}
    /\ UNCHANGED <<user, fifo, mouse, obuf, irqpend, kbc, buf, state, ret, i, returned, disturbed>>

-----------------------------------------------------------------------------
kernel == Drain \/ Ask \/ Answer \/ Arm \/ kbd_poll \/ Trygetc \/ pop \/ Empty

Next == \/ \E k \in Keys : Press(k) \/ Release(k)
        \/ Present \/ kbd_irq \/ Tick \/ kernel

\* The reader keeps reading, the controller presents what it has, IRQs that
\* are pending are taken, and the PIT ticks.
Fairness == WF_vars(kernel) /\ WF_vars(Present) /\ WF_vars(kbd_irq) /\ WF_vars(Tick)

Spec == Init /\ [][Next]_vars /\ Fairness

-----------------------------------------------------------------------------
(* Properties.                                                             *)

Drained == fifo = <<>> /\ obuf = <<>> /\ buf = <<>>

\* What the program reads is what was typed, in order, each key once, and all
\* of it once the ring is empty: the two paths into the ring never take a byte
\* twice or let one overtake another, and decode, fed code by code, sees each
\* under the shift, caps and E0 it was typed under.  Only a full ring or a byte
\* that kbd_init took for something else may disturb this.
KeysInOrder ==
    ~disturbed => IsPrefix(returned, typed) /\ (Drained => returned = typed)

\* Nothing is remembered wrong: once all codes are decoded, no E0 is pending,
\* and shift and caps are those of the keyboard.
NoStuckModifier ==
    ~disturbed /\ Drained =>
       ext = FALSE /\ shift = down \cap Shifts /\ caps = capsled

\* A key that was typed is read, even where IRQ1 never comes (kbd.c:11 "the
\* hlt in kbd_getc() wakes and re-polls at least every 10 ms even with IRQ1
\* completely dead").
KeysReturned == []<>(disturbed \/ Len(returned) = Len(typed))
=============================================================================
