-------------------------- MODULE XhciRingsProofs --------------------------
(***************************************************************************)
(* For every ring size, every runaway guard, every caller that keeps at    *)
(* most MaxInFlight TRBs outstanding and every interleaving of the         *)
(* kernel's and the controller's loads and stores, the command ring and    *)
(* the event ring are queues, alone and together.                          *)
(*                                                                         *)
(* The inductive invariant of the command ring says where its pointers     *)
(* stand.  The controller is either on the producer's lap, at or before    *)
(* its slot, or one lap behind, at or after it; the cycle bits of the      *)
(* slots before the producer differ from those after it, and every slot    *)
(* between the two pointers holds the TRB it should.                       *)
(*                                                                         *)
(* That of the event ring says the same with the parts exchanged.  What    *)
(* keeps the controller from a slot that is still unread is ERDP alone: it *)
(* lies the n events behind ev_deq that the running poll has handled, and  *)
(* the controller is never a whole lap ahead of it.                        *)
(***************************************************************************)
EXTENDS XhciRings, Integers, FiniteSetTheorems, TLAPS

Events == Commands \cup {PortChange}

USE RingAssumption DEF RingAssumption, C!Slots, C!LinkSlot, E!Slots, Events

-----------------------------------------------------------------------------
(* The command ring.                                                       *)

\* Slots the producer has committed on its lap; the one at Done is being
\* written while pc = "ctl".
CmdDone == IF pc = "ctl" THEN enq - 1 ELSE enq

\* TRBs pushed, and TRBs executed, before slot 0 of the current lap.
CmdBase   == Len(sent) - CmdDone
CmdHcBase == Len(got) - hc_deq

CmdSameLap   == hc_ccs = cyc /\ CmdHcBase = CmdBase /\ hc_deq <= CmdDone
CmdLapBehind == /\ hc_ccs = C!Other(cyc)
                /\ CmdHcBase + C!LinkSlot = CmdBase
                /\ enq <= hc_deq

CmdPcOK ==
    /\ pc \in {"link", "linkctl"} => enq = C!LinkSlot
    /\ pc = "body" => enq < C!LinkSlot
    /\ pc = "ctl" => enq > 0 /\ t[enq - 1].data = arg
    /\ pc # "idle" => arg \in Commands /\ C!InFlight < MaxInFlight

CmdHolds(i, k) == t[i].type = "trb" /\ t[i].data = sent[k]

CmdCellsOK ==
    /\ \A i \in C!Slots : i < CmdDone => t[i].cycle = cyc /\ CmdHolds(i, CmdBase + i + 1)
    /\ \A i \in C!Slots : CmdDone <= i => t[i].cycle = C!Other(cyc)
    /\ hc_ccs = C!Other(cyc) =>
         /\ \A i \in C!Slots : hc_deq <= i /\ i < C!LinkSlot => CmdHolds(i, CmdHcBase + i + 1)
         /\ t[C!LinkSlot].type = "link"

CmdAgree == Len(got) <= Len(sent) /\ \A k \in 1 .. Len(got) : got[k] = sent[k]

CmdInv ==
    /\ C!TypeOK
    /\ CmdPcOK
    /\ C!InFlight <= MaxInFlight
    /\ CmdSameLap \/ CmdLapBehind
    /\ 0 <= CmdHcBase
    /\ CmdCellsOK
    /\ CmdAgree


-----------------------------------------------------------------------------
\* Where the TRB at the controller's dequeue pointer comes from.
LEMMA CmdOwnedFacts ==
    ASSUME CmdInv, C!Owned
    PROVE  /\ t[hc_deq].type = "link" => CmdLapBehind /\ hc_deq = C!LinkSlot
           /\ t[hc_deq].type # "link" =>
                /\ hc_deq < C!LinkSlot
                /\ CmdSameLap => hc_deq < CmdDone
                /\ Len(got) < Len(sent)
                /\ t[hc_deq].data = sent[Len(got) + 1]
<1>1. /\ enq \in Nat /\ hc_deq \in Nat /\ hc_deq <= C!LinkSlot /\ enq <= C!LinkSlot
      /\ cyc \in {0, 1} /\ hc_ccs \in {0, 1}
      /\ Len(sent) \in Nat /\ Len(got) \in Nat
      /\ CmdDone \in Int /\ CmdDone <= enq /\ 0 <= CmdDone
  BY DEF CmdInv, C!TypeOK, CmdPcOK, CmdDone
<1>2. CASE CmdSameLap
  <2>1. hc_deq < CmdDone
    BY <1>1, <1>2 DEF CmdInv, CmdCellsOK, CmdSameLap, C!Owned, C!Other
  <2>2. CmdHolds(hc_deq, CmdBase + hc_deq + 1)
    BY <1>1, <2>1 DEF CmdInv, CmdCellsOK
  <2>3. CmdBase + hc_deq = Len(got) /\ Len(got) < Len(sent)
    BY <1>1, <1>2, <2>1 DEF CmdSameLap, CmdBase, CmdHcBase
  <2> QED
    BY <1>1, <2>1, <2>2, <2>3 DEF CmdHolds
<1>3. CASE CmdLapBehind
  <2>1. hc_deq = C!LinkSlot => t[hc_deq].type = "link"
    BY <1>3 DEF CmdInv, CmdCellsOK, CmdLapBehind
  <2>2. hc_deq < C!LinkSlot => CmdHolds(hc_deq, CmdHcBase + hc_deq + 1)
    BY <1>1, <1>3 DEF CmdInv, CmdCellsOK, CmdLapBehind
  <2>3. CmdHcBase + hc_deq = Len(got)
    BY <1>1 DEF CmdHcBase
  <2>4. hc_deq < C!LinkSlot => Len(got) < Len(sent)
    BY <1>1, <1>3 DEF CmdLapBehind, CmdBase, CmdHcBase
  <2>5. ~CmdSameLap
    BY <1>1, <1>3 DEF CmdLapBehind, CmdSameLap, C!Other
  <2> QED
    BY <1>1, <1>3, <2>1, <2>2, <2>3, <2>4, <2>5 DEF CmdHolds
<1> QED
  BY <1>2, <1>3 DEF CmdInv

\* ring_init leaves an empty ring with both pointers on slot 0.
LEMMA CmdInitInv == C!Init => CmdInv
  BY DEF C!Init, CmdInv, C!TypeOK, CmdPcOK, C!InFlight, CmdSameLap,
     CmdCellsOK, CmdAgree, CmdBase,
         CmdHcBase, CmdDone, C!Other, C!Trb

-----------------------------------------------------------------------------
\* The bounds every step lemma needs, from the type invariant.
LEMMA CmdRanges ==
    ASSUME CmdInv
    PROVE  /\ enq \in 0 .. C!LinkSlot /\ hc_deq \in 0 .. C!LinkSlot /\ C!LinkSlot \in Nat
           /\ cyc \in {0, 1} /\ hc_ccs \in {0, 1}
           /\ Len(sent) \in Nat /\ Len(got) \in Nat
           /\ CmdDone \in 0 .. C!LinkSlot
           /\ t \in [0 .. C!LinkSlot -> C!Trb]
  BY DEF CmdInv, C!TypeOK, CmdPcOK, CmdDone

\* A store into one slot: its body or its control word, nothing else.
LEMMA BodyStore ==
    ASSUME CmdInv, NEW k \in C!Slots, NEW d \in Commands \cup {"ring"},
           t' = [t EXCEPT ![k] = C!WithBody(@, d)]
    PROVE  /\ t' \in [C!Slots -> C!Trb]
           /\ t'[k].data = d /\ t'[k].type = t[k].type /\ t'[k].cycle = t[k].cycle
           /\ \A i \in C!Slots : i # k => t'[i] = t[i]
<1>1. t \in [C!Slots -> C!Trb] /\ t[k] \in C!Trb
  BY DEF CmdInv, C!TypeOK
<1>2. C!WithBody(t[k], d) \in C!Trb
  BY <1>1 DEF C!WithBody, C!Trb
<1>3. t'[k] = C!WithBody(t[k], d)
  BY <1>1
<1> QED
  BY <1>1, <1>2, <1>3 DEF C!WithBody

\* The same for the store of the control word.
LEMMA ControlStore ==
    ASSUME CmdInv, NEW k \in C!Slots, NEW ty \in {"trb", "link"},
           t' = [t EXCEPT ![k] = C!WithControl(@, ty)]
    PROVE  /\ t' \in [C!Slots -> C!Trb]
           /\ t'[k].data = t[k].data /\ t'[k].type = ty /\ t'[k].cycle = cyc
           /\ \A i \in C!Slots : i # k => t'[i] = t[i]
<1>1. t \in [C!Slots -> C!Trb] /\ t[k] \in C!Trb /\ cyc \in {0, 1}
  BY DEF CmdInv, C!TypeOK
<1>2. C!WithControl(t[k], ty) \in C!Trb
  BY <1>1 DEF C!WithControl, C!Trb
<1>3. t'[k] = C!WithControl(t[k], ty)
  BY <1>1
<1> QED
  BY <1>1, <1>2, <1>3 DEF C!WithControl

\* Entering ring_push changes no TRB.
LEMMA PushStep ==
    ASSUME CmdInv, NEW v \in Commands, C!Push(v) PROVE CmdInv'
<1> USE DEF C!Push
<1>1. C!TypeOK' /\ CmdPcOK'
  BY DEF CmdInv, C!TypeOK, CmdPcOK, C!InFlight
<1>2. CmdDone' = CmdDone
  BY DEF CmdDone
<1>3. (C!InFlight <= MaxInFlight)' /\ (CmdSameLap \/ CmdLapBehind)' /\ (0 <= CmdHcBase)' /\ CmdAgree'
  BY <1>2 DEF CmdInv, C!InFlight, CmdSameLap, CmdLapBehind, CmdBase,
     CmdHcBase, CmdAgree
<1>4. CmdCellsOK'
  BY <1>2 DEF CmdInv, CmdCellsOK, CmdHolds, CmdBase, CmdHcBase
<1> QED
  BY <1>1, <1>3, <1>4 DEF CmdInv

\* The body of the Link TRB is written while the slot is still not owned.
LEMMA WriteLinkStep ==
    ASSUME CmdInv, C!WriteLink PROVE CmdInv'
<1> USE DEF C!WriteLink
<1>1. enq = C!LinkSlot /\ t' = [t EXCEPT ![C!LinkSlot] = C!WithBody(@, "ring")]
  BY DEF CmdInv, CmdPcOK
<1>2. /\ t' \in [C!Slots -> C!Trb]
      /\ t'[C!LinkSlot].cycle = t[C!LinkSlot].cycle
      /\ t'[C!LinkSlot].type = t[C!LinkSlot].type
      /\ \A j \in C!Slots : j # C!LinkSlot => t'[j] = t[j]
  BY <1>1, CmdRanges, BodyStore
<1>3. C!TypeOK' /\ CmdPcOK' /\ CmdDone' = CmdDone
  BY <1>1, <1>2 DEF CmdInv, C!TypeOK, CmdPcOK, C!InFlight, CmdDone
<1>4. (C!InFlight <= MaxInFlight)' /\ (CmdSameLap \/ CmdLapBehind)' /\ (0 <= CmdHcBase)' /\ CmdAgree'
  BY <1>3 DEF CmdInv, C!InFlight, CmdSameLap, CmdLapBehind, CmdBase,
     CmdHcBase, CmdAgree
<1>5. \A i \in C!Slots : /\ t'[i].cycle = t[i].cycle /\ t'[i].type = t[i].type
                         /\ i # C!LinkSlot => t'[i] = t[i]
  BY <1>2
<1>6. CmdCellsOK'
  <2>1. CmdBase' = CmdBase /\ CmdHcBase' = CmdHcBase
    BY <1>3 DEF CmdBase, CmdHcBase
  <2>2. CmdDone = C!LinkSlot
    BY <1>1 DEF CmdDone
  <2> QED
    BY <1>3, <1>5, <2>1, <2>2, CmdRanges DEF CmdInv, CmdCellsOK, CmdHolds
<1> QED
  BY <1>3, <1>4, <1>6 DEF CmdInv

\* The Link TRB is handed over and the producer starts the next lap.
LEMMA CommitLinkStep ==
    ASSUME CmdInv, C!CommitLink PROVE CmdInv'
<1> USE DEF C!CommitLink
<1>1. /\ enq = C!LinkSlot /\ CmdDone = C!LinkSlot /\ enq' = 0 /\ CmdDone' = 0
      /\ t' = [t EXCEPT ![C!LinkSlot] = C!WithControl(@, "link")]
  BY DEF CmdInv, CmdPcOK, CmdDone
<1>2. t' \in [C!Slots -> C!Trb] /\ t'[C!LinkSlot].type = "link" /\ t'[C!LinkSlot].cycle = cyc
  BY <1>1, CmdRanges, ControlStore
<1>3. \A i \in C!Slots : i # C!LinkSlot => t'[i] = t[i]
  BY <1>1, CmdRanges, ControlStore
<1>4. cyc' = C!Other(cyc) /\ cyc' \in {0, 1} /\ C!Other(cyc') = cyc
  BY CmdRanges DEF C!Other
<1>5. C!TypeOK' /\ CmdPcOK'
  BY <1>1, <1>2, <1>4 DEF CmdInv, C!TypeOK, CmdPcOK, C!InFlight
<1>6. CmdSameLap
  <2>1. Len(sent) - Len(got) < C!LinkSlot
    BY CmdRanges DEF CmdInv, CmdPcOK, C!InFlight
  <2>2. ~CmdLapBehind
    BY <1>1, <2>1, CmdRanges DEF CmdLapBehind, CmdBase, CmdHcBase
  <2> QED
    BY <2>2 DEF CmdInv
<1>7. CmdLapBehind' /\ CmdHcBase' = CmdHcBase /\ CmdHcBase = CmdBase
  BY <1>1, <1>4, <1>6, CmdRanges DEF CmdSameLap, CmdLapBehind, CmdBase,
     CmdHcBase
<1>8. CmdCellsOK'
  <2>1. \A i \in C!Slots : i < C!LinkSlot => t[i].cycle = cyc /\ CmdHolds(i, CmdBase + i + 1)
    BY <1>1 DEF CmdInv, CmdCellsOK
  <2>2. \A i \in C!Slots : t'[i].cycle = C!Other(cyc')
    BY <1>2, <1>3, <1>4, <2>1
  <2>3. \A i \in C!Slots : i < C!LinkSlot =>
          t'[i].type = "trb" /\ t'[i].data = sent'[CmdBase + i + 1]
    BY <1>3, <2>1 DEF CmdHolds
  <2>4. CmdHcBase' = CmdBase
    BY <1>7
  <2> QED
    BY <1>1, <1>2, <1>4, <2>2, <2>3, <2>4 DEF CmdCellsOK, CmdHolds
<1> QED
  BY <1>5, <1>7, <1>8 DEF CmdInv, C!InFlight, CmdAgree

\* The body of a TRB is written while its slot is still not owned.
LEMMA WriteBodyStep ==
    ASSUME CmdInv, C!WriteBody PROVE CmdInv'
<1> USE DEF C!WriteBody
<1>1. /\ enq < C!LinkSlot /\ CmdDone = enq /\ CmdDone' = enq /\ enq' = enq + 1
      /\ t' = [t EXCEPT ![enq] = C!WithBody(@, arg)] /\ arg \in Commands
  BY CmdRanges DEF CmdInv, CmdPcOK, CmdDone
<1>2. /\ t' \in [C!Slots -> C!Trb] /\ t'[enq].data = arg
      /\ t'[enq].cycle = t[enq].cycle /\ t'[enq].type = t[enq].type
      /\ \A j \in C!Slots : j # enq => t'[j] = t[j]
  BY <1>1, CmdRanges, BodyStore
<1>3. \A i \in C!Slots : /\ t'[i].cycle = t[i].cycle /\ t'[i].type = t[i].type
                         /\ i # enq => t'[i] = t[i]
  BY <1>2
<1>4. C!TypeOK' /\ CmdPcOK'
  BY <1>1, <1>2, CmdRanges DEF CmdInv, C!TypeOK, CmdPcOK, C!InFlight
<1>5. CmdLapBehind => enq < hc_deq
  <2>1. Len(sent) - Len(got) < C!LinkSlot
    BY CmdRanges DEF CmdInv, CmdPcOK, C!InFlight
  <2> QED
    BY <1>1, <2>1, CmdRanges DEF CmdLapBehind, CmdBase, CmdHcBase
<1>6. (CmdSameLap \/ CmdLapBehind)' /\ (0 <= CmdHcBase)'
  BY <1>1, <1>5, CmdRanges DEF CmdInv, CmdSameLap, CmdLapBehind, CmdBase,
     CmdHcBase
<1>7. CmdCellsOK'
  <2>1. CmdBase' = CmdBase /\ CmdHcBase' = CmdHcBase
    BY <1>1 DEF CmdBase, CmdHcBase
  <2>2. hc_ccs = C!Other(cyc) => enq < hc_deq
    BY <1>5, CmdRanges DEF CmdInv, CmdSameLap, C!Other
  <2> QED
    BY <1>1, <1>3, <2>1, <2>2, CmdRanges DEF CmdInv, CmdCellsOK, CmdHolds
<1> QED
  BY <1>4, <1>6, <1>7 DEF CmdInv, C!InFlight, CmdAgree

\* The control word hands the TRB over, whole.
LEMMA CommitStep ==
    ASSUME CmdInv, C!Commit PROVE CmdInv'
<1> USE DEF C!Commit
<1>1. /\ enq > 0 /\ CmdDone = enq - 1 /\ CmdDone' = enq /\ arg \in Commands
      /\ t[CmdDone].data = arg
      /\ t' = [t EXCEPT ![CmdDone] = C!WithControl(@, "trb")]
  BY CmdRanges DEF CmdInv, CmdPcOK, CmdDone
<1>2. /\ t' \in [C!Slots -> C!Trb]
      /\ t'[CmdDone].type = "trb" /\ t'[CmdDone].cycle = cyc /\ t'[CmdDone].data = arg
      /\ \A i \in C!Slots : i # CmdDone => t'[i] = t[i]
  BY <1>1, CmdRanges, ControlStore
<1>3. \A i \in C!Slots : i # CmdDone => t'[i] = t[i]
  BY <1>2
<1>4. /\ sent \in Seq(Commands) /\ sent' \in Seq(Commands)
      /\ Len(sent') = Len(sent) + 1 /\ sent'[Len(sent) + 1] = arg
      /\ \A k \in 1 .. Len(sent) : sent'[k] = sent[k]
  BY <1>1 DEF CmdInv, C!TypeOK
<1>5. C!TypeOK' /\ CmdPcOK'
  BY <1>2, <1>4 DEF CmdInv, C!TypeOK, CmdPcOK, C!InFlight
<1>6. CmdBase' = CmdBase /\ CmdHcBase' = CmdHcBase
  BY <1>1, <1>4, CmdRanges DEF CmdBase, CmdHcBase
<1>7. (CmdSameLap \/ CmdLapBehind)' /\ (0 <= CmdHcBase)'
  BY <1>1, <1>6, CmdRanges DEF CmdInv, CmdSameLap, CmdLapBehind
<1>8. /\ CmdBase \in Int /\ CmdHcBase \in Int /\ 0 <= CmdHcBase /\ 0 <= CmdBase
      /\ CmdBase + CmdDone = Len(sent)
      /\ hc_ccs = C!Other(cyc) =>
           CmdLapBehind /\ CmdHcBase + C!LinkSlot = CmdBase /\ CmdDone < hc_deq
  <2>1. CmdBase \in Int /\ CmdHcBase \in Int /\ 0 <= CmdHcBase /\ CmdBase + CmdDone = Len(sent)
    <3>1. /\ CmdDone \in Int /\ hc_deq \in Int
          /\ Len(sent) \in Int /\ Len(got) \in Int
      BY CmdRanges
    <3>2. 0 <= CmdHcBase
      BY DEF CmdInv
    <3> QED
      BY <3>1, <3>2 DEF CmdHcBase, CmdBase
  <2>2. CASE CmdSameLap
    BY <2>1, <2>2, CmdRanges DEF CmdSameLap, C!Other
  <2>3. CASE CmdLapBehind
    BY <1>1, <2>1, <2>3, CmdRanges DEF CmdLapBehind
  <2> QED
    BY <2>2, <2>3 DEF CmdInv
<1>9. /\ \A i \in C!Slots : i < CmdDone =>
           /\ t[i].cycle = cyc /\ t[i].type = "trb"
           /\ t[i].data = sent[CmdBase + i + 1] /\ CmdBase + i + 1 \in 1 .. Len(sent)
      /\ hc_ccs = C!Other(cyc) =>
           /\ \A i \in C!Slots : hc_deq <= i /\ i < C!LinkSlot =>
                /\ t[i].type = "trb" /\ t[i].data = sent[CmdHcBase + i + 1]
                /\ CmdHcBase + i + 1 \in 1 .. Len(sent)
           /\ t[C!LinkSlot].type = "link"
  <2>1. \A i \in C!Slots : i < CmdDone => CmdBase + i + 1 \in 1 .. Len(sent)
    BY <1>8, CmdRanges
  <2>2. hc_ccs = C!Other(cyc) =>
          \A i \in C!Slots : i < C!LinkSlot => CmdHcBase + i + 1 \in 1 .. Len(sent)
    BY <1>8, CmdRanges
  <2> QED
    BY <2>1, <2>2 DEF CmdInv, CmdCellsOK, CmdHolds
<1>10. CmdCellsOK'
  <2>1. ASSUME NEW i \in C!Slots, i < CmdDone'
        PROVE  t'[i].cycle = cyc /\ t'[i].type = "trb" /\ t'[i].data = sent'[CmdBase + i + 1]
    <3>1. CASE i = CmdDone
      <4>1. CmdBase + i + 1 = Len(sent) + 1
        BY <1>8, <3>1, CmdRanges
      <4>2. sent'[CmdBase + i + 1] = arg
        BY <1>4, <4>1
      <4> QED
        BY <1>2, <3>1, <4>2
    <3>2. CASE i < CmdDone
      <4>1. t'[i] = t[i] /\ sent'[CmdBase + i + 1] = sent[CmdBase + i + 1]
        BY <1>3, <1>4, <1>9, <3>2, CmdRanges
      <4> QED
        BY <1>9, <3>2, <4>1
    <3>3. i = CmdDone \/ i < CmdDone
      BY <1>1, <2>1, CmdRanges
    <3> QED
      BY <3>1, <3>2, <3>3
  <2>2. \A i \in C!Slots : CmdDone' <= i => t'[i].cycle = C!Other(cyc)
    <3>1. \A i \in C!Slots : CmdDone <= i => t[i].cycle = C!Other(cyc)
      BY DEF CmdInv, CmdCellsOK
    <3> QED
      BY <1>1, <1>3, <3>1, CmdRanges
  <2>3. ASSUME hc_ccs = C!Other(cyc)
        PROVE  /\ \A i \in C!Slots : hc_deq <= i /\ i < C!LinkSlot =>
                    t'[i].type = "trb" /\ t'[i].data = sent'[CmdHcBase + i + 1]
               /\ t'[C!LinkSlot].type = "link"
    <3>1. ASSUME NEW i \in C!Slots, hc_deq <= i
          PROVE  t'[i] = t[i]
      BY <1>3, <1>8, <2>3, <3>1, CmdRanges
    <3>2. \A i \in C!Slots : hc_deq <= i /\ i < C!LinkSlot =>
             sent'[CmdHcBase + i + 1] = sent[CmdHcBase + i + 1]
      BY <1>4, <1>9, <2>3
    <3>3. hc_deq <= C!LinkSlot /\ C!LinkSlot \in C!Slots
      BY CmdRanges
    <3> QED
      BY <1>9, <2>3, <3>1, <3>2, <3>3
  <2> QED
    BY <1>6, <2>1, <2>2, <2>3 DEF CmdCellsOK, CmdHolds
<1>11. (C!InFlight <= MaxInFlight)' /\ CmdAgree'
  <2>1. C!InFlight' = C!InFlight + 1 /\ C!InFlight < MaxInFlight
    BY <1>4, CmdRanges DEF C!InFlight, CmdInv, CmdPcOK
  <2>2. CmdAgree'
    BY <1>4, CmdRanges DEF CmdInv, CmdAgree
  <2> QED
    BY <2>1, <2>2, CmdRanges DEF C!InFlight
<1> QED
  BY <1>5, <1>7, <1>10, <1>11 DEF CmdInv

\* The controller follows the Link TRB to slot 0 of the lap it is behind.
LEMMA FollowLinkStep ==
    ASSUME CmdInv, C!HcFollowLink PROVE CmdInv'
<1> USE DEF C!HcFollowLink
<1>1. CmdLapBehind /\ hc_deq = C!LinkSlot /\ hc_deq' = 0 /\ hc_ccs' = cyc
  BY CmdOwnedFacts, CmdRanges DEF CmdLapBehind, C!Other
<1>2. CmdDone' = CmdDone /\ CmdBase' = CmdBase /\ CmdHcBase' = CmdBase /\ 0 <= CmdHcBase'
  BY <1>1, CmdRanges DEF CmdDone, CmdBase, CmdHcBase, CmdLapBehind, CmdInv
<1>3. C!TypeOK' /\ CmdPcOK'
  BY <1>1, CmdRanges DEF CmdInv, C!TypeOK, CmdPcOK, C!InFlight
<1>4. CmdSameLap'
  BY <1>1, <1>2, CmdRanges DEF CmdSameLap
<1>5. CmdCellsOK'
  BY <1>1, <1>2, CmdRanges DEF CmdInv, CmdCellsOK, CmdHolds, C!Other
<1> QED
  BY <1>2, <1>3, <1>4, <1>5 DEF CmdInv, C!InFlight, CmdAgree

\* What the controller executes is the next TRB that was sent.
LEMMA ExecuteStep ==
    ASSUME CmdInv, C!HcExecute PROVE CmdInv' /\ C!Queue!Get
<1>a. t' = t /\ enq' = enq /\ cyc' = cyc /\ pc' = pc /\ arg' = arg
      /\ hc_ccs' = hc_ccs /\ sent' = sent
  BY DEF C!HcExecute
<1>0. /\ hc_deq \in Int /\ enq \in Int /\ CmdDone \in Int
      /\ Len(sent) \in Int /\ Len(got) \in Int /\ 0 <= Len(got)
  BY CmdRanges
<1>1. /\ hc_deq < C!LinkSlot /\ hc_deq' = hc_deq + 1
      /\ CmdSameLap => hc_deq < CmdDone
      /\ Len(got) < Len(sent) /\ got' = Append(got, sent[Len(got) + 1])
  BY CmdOwnedFacts DEF C!HcExecute
<1>2. C!Queue!Get
  BY <1>1, <1>a DEF C!Queue!Get
<1>3. sent[Len(got) + 1] \in Commands /\ got \in Seq(Commands)
  BY <1>1, CmdRanges DEF CmdInv, C!TypeOK
<1>4. /\ got' \in Seq(Commands) /\ Len(got') = Len(got) + 1
      /\ got'[Len(got) + 1] = sent[Len(got) + 1]
      /\ \A k \in 1 .. Len(got) : got'[k] = got[k]
  BY <1>1, <1>3
<1>b. Len(got') = Len(got) + 1
  BY <1>4
<1>5. CmdDone' = CmdDone /\ CmdBase' = CmdBase /\ CmdHcBase' = CmdHcBase
  BY <1>0, <1>1, <1>a, <1>b DEF CmdDone, CmdBase, CmdHcBase
<1>6. C!TypeOK' /\ CmdPcOK' /\ (C!InFlight <= MaxInFlight)'
  <2>1. C!TypeOK'
    BY <1>1, <1>4, <1>a, CmdRanges DEF CmdInv, C!TypeOK
  <2>2. C!InFlight \in Int /\ C!InFlight' = C!InFlight - 1
    BY <1>0, <1>a, <1>b DEF C!InFlight
  <2> QED
    BY <1>a, <2>1, <2>2 DEF CmdInv, CmdPcOK
<1>7. (CmdSameLap \/ CmdLapBehind)' /\ (0 <= CmdHcBase)'
  <2>1. CmdSameLap => CmdSameLap'
    BY <1>0, <1>1, <1>5, <1>a DEF CmdSameLap
  <2>2. CmdLapBehind => CmdLapBehind'
    BY <1>0, <1>1, <1>5, <1>a DEF CmdLapBehind, C!Other
  <2> QED
    BY <1>5, <2>1, <2>2 DEF CmdInv
<1>8. CmdCellsOK'
  BY <1>1, <1>5, <1>a, CmdRanges DEF CmdInv, CmdCellsOK, CmdHolds
<1>9. CmdAgree'
  <2>1. \A k \in 1 .. Len(got) : got'[k] = sent[k]
    BY <1>4 DEF CmdInv, CmdAgree
  <2>2. \A k \in 1 .. (Len(got) + 1) : k \in 1 .. Len(got) \/ k = Len(got) + 1
    BY <1>0
  <2>3. \A k \in 1 .. (Len(got) + 1) : got'[k] = sent[k]
    BY <1>4, <2>1, <2>2
  <2> QED
    BY <1>0, <1>1, <1>a, <1>b, <2>3 DEF CmdAgree
<1> QED
  BY <1>2, <1>6, <1>7, <1>8, <1>9 DEF CmdInv

\* Every step of the kernel and of the controller keeps the invariant.
LEMMA CmdStepInv == CmdInv /\ [C!Next]_(C!vars) => CmdInv'
<1> SUFFICES ASSUME CmdInv, [C!Next]_(C!vars) PROVE CmdInv'
  OBVIOUS
<1>1. CASE UNCHANGED C!vars
  BY <1>1 DEF C!vars, CmdInv, C!TypeOK, CmdPcOK, C!InFlight, CmdSameLap,
     CmdLapBehind, CmdCellsOK,
              CmdAgree, CmdBase, CmdHcBase, CmdDone, CmdHolds
<1>2. CASE C!KernelStep
  BY <1>2, WriteLinkStep, CommitLinkStep, WriteBodyStep, CommitStep
  DEF C!KernelStep
<1> QED
  BY <1>1, <1>2, FollowLinkStep, ExecuteStep, PushStep DEF C!Next

\* Types of the ring's state (ring_init, ring_push).
THEOREM RingTypes == C!Spec => []C!TypeOK
<1>1. CmdInv => C!TypeOK
  BY DEF CmdInv
<1> QED
  BY CmdInitInv, CmdStepInv, <1>1, PTL DEF C!Spec

\* ring_push against a reading controller implements a queue: every TRB
\* executed once, in order, whole.
THEOREM RingIsFifo == C!Spec => C!ImplementsFifo
<1>1. C!Init => C!Queue!Init
  BY DEF C!Init, C!Queue!Init
<1>2. CmdInv /\ [C!Next]_(C!vars) => [C!Queue!Next]_(C!Queue!vars)
  <2> SUFFICES ASSUME CmdInv, [C!Next]_(C!vars)
               PROVE  [C!Queue!Next]_(C!Queue!vars)
    OBVIOUS
  <2>1. CASE C!HcExecute
    BY <2>1, ExecuteStep DEF C!Queue!Next
  <2>2. CASE C!Commit
    <3>1. arg \in Commands
      BY <2>2 DEF CmdInv, CmdPcOK, C!Commit
    <3> QED
      BY <2>2, <3>1 DEF C!Queue!Next, C!Queue!Put, C!Commit
  <2>3. ASSUME UNCHANGED <<sent, got>> PROVE UNCHANGED C!Queue!vars
    BY <2>3 DEF C!Queue!vars
  <2> QED
    BY <2>1, <2>2, <2>3
    DEF C!Next, C!vars, C!KernelStep, C!Push, C!WriteLink, C!CommitLink,
       C!WriteBody, C!HcFollowLink
<1> QED
  BY CmdInitInv, CmdStepInv, <1>1, <1>2, PTL DEF C!Spec, C!ImplementsFifo,
     C!Queue!Spec

-----------------------------------------------------------------------------
(* The event ring.                                                         *)

\* Events posted, and events handled, before slot 0 of the current lap.
EvBase   == Len(posted) - hc_enq
EvKBase  == Len(handled) - ev_deq

\* Posted events the controller does not know to be handled.
EvUnacked == Len(posted) - (Len(handled) - n)

EvTypes ==
    /\ ev \in [E!Slots -> [data : Events \cup {NoData}, cycle : {0, 1}]]
    /\ hc_enq \in E!Slots /\ hc_pcs \in {0, 1}
    /\ posting \in Events \cup {NoData}
    /\ erdp \in E!Slots /\ ev_deq \in E!Slots /\ ev_cyc \in {0, 1}
    /\ kpc \in {"idle", "look", "read"} /\ n \in Nat
    /\ posted \in Seq(Events) /\ handled \in Seq(Events)

EvSameLap   == ev_cyc = hc_pcs /\ EvKBase = EvBase /\ ev_deq <= hc_enq
EvLapBehind == ev_cyc = 1 - hc_pcs /\ EvKBase + RingTrbs = EvBase /\ hc_enq < ev_deq

EvErdpOK ==
    /\ erdp + n = ev_deq \/ erdp + n = ev_deq + RingTrbs
    /\ n <= Len(handled)
    /\ EvUnacked < RingTrbs
    /\ posting # NoData => EvUnacked + 1 < RingTrbs
    /\ kpc = "idle" => n = 0

EvCellsOK ==
    /\ \A i \in E!Slots : i < hc_enq => /\ ev[i].cycle = hc_pcs
                                        /\ ev[i].data = posted[EvBase + i + 1]
    /\ \A i \in E!Slots : hc_enq <= i => ev[i].cycle = 1 - hc_pcs
    /\ ev_cyc = 1 - hc_pcs =>
         \A i \in E!Slots : ev_deq <= i => ev[i].data = posted[EvKBase + i + 1]
    /\ posting # NoData => ev[hc_enq].data = posting
    /\ kpc = "read" => ev[ev_deq].cycle = ev_cyc

EvAgree == /\ Len(handled) <= Len(posted)
           /\ \A k \in 1 .. Len(handled) : handled[k] = posted[k]

EvInv ==
    /\ EvTypes
    /\ EvSameLap \/ EvLapBehind
    /\ 0 <= EvKBase
    /\ EvErdpOK
    /\ EvCellsOK
    /\ EvAgree


-----------------------------------------------------------------------------
\* The numbers the steps compute with.
LEMMA EvRanges ==
    ASSUME EvInv
    PROVE  /\ RingTrbs \in Int /\ hc_enq \in Int /\ ev_deq \in Int /\ erdp \in Int
           /\ n \in Int /\ Len(posted) \in Int /\ Len(handled) \in Int
           /\ 2 <= RingTrbs /\ 0 <= n
           /\ 0 <= hc_enq /\ hc_enq < RingTrbs /\ 0 <= ev_deq /\ ev_deq < RingTrbs
           /\ 0 <= erdp /\ erdp < RingTrbs
           /\ hc_pcs \in {0, 1} /\ ev_cyc \in {0, 1}
  BY DEF EvInv, EvTypes

\* A controller that is not stopped by ERDP has a free slot to itself: the
\* kernel has read all but RingTrbs - 2 of what was posted.
LEMMA Room ==
    ASSUME EvInv, ~E!Full
    PROVE  EvUnacked + 1 < RingTrbs
<1>0. /\ RingTrbs \in Int /\ hc_enq \in Int /\ ev_deq \in Int /\ erdp \in Int /\ n \in Int
      /\ Len(posted) \in Int /\ Len(handled) \in Int
      /\ 0 <= hc_enq /\ hc_enq < RingTrbs /\ 0 <= ev_deq /\ ev_deq < RingTrbs
      /\ 0 <= erdp /\ erdp < RingTrbs /\ 0 <= n
  BY EvRanges
<1>1. CASE EvSameLap
  <2>1. EvUnacked = hc_enq - ev_deq + n
    BY <1>1, <1>0 DEF EvSameLap, EvBase, EvKBase, EvUnacked
  <2>2. EvUnacked = hc_enq - erdp \/ EvUnacked = hc_enq - erdp + RingTrbs
    BY <2>1, <1>0 DEF EvInv, EvErdpOK
  <2>3. EvUnacked # RingTrbs - 1
    BY <2>2, <1>0 DEF E!Full, E!After
  <2> QED
    BY <2>1, <2>3, <1>0 DEF EvInv, EvErdpOK
<1>2. CASE EvLapBehind
  <2>1. EvUnacked = RingTrbs + hc_enq - ev_deq + n
    BY <1>2, <1>0 DEF EvLapBehind, EvBase, EvKBase, EvUnacked
  <2>2. EvUnacked = hc_enq - erdp + RingTrbs
    BY <2>1, <1>0 DEF EvInv, EvErdpOK
  <2>3. EvUnacked # RingTrbs - 1
    BY <2>2, <1>0 DEF E!Full, E!After
  <2> QED
    BY <2>1, <2>3, <1>0 DEF EvInv, EvErdpOK
<1> QED
  BY <1>1, <1>2 DEF EvInv

\* An event the cycle bit gives to the kernel is the next one that was posted.
LEMMA EvOwnedFacts ==
    ASSUME EvInv, ev[ev_deq].cycle = ev_cyc
    PROVE  /\ EvSameLap => ev_deq < hc_enq
           /\ Len(handled) < Len(posted)
           /\ ev[ev_deq].data = posted[Len(handled) + 1]
<1>0. /\ RingTrbs \in Int /\ hc_enq \in Int /\ ev_deq \in Int /\ 2 <= RingTrbs
      /\ Len(posted) \in Int /\ Len(handled) \in Int
      /\ 0 <= hc_enq /\ hc_enq < RingTrbs /\ 0 <= ev_deq /\ ev_deq < RingTrbs
      /\ hc_pcs \in {0, 1} /\ ev_cyc \in {0, 1}
  BY EvRanges
<1>1. CASE EvSameLap
  <2>1. ev_deq < hc_enq
    BY <1>1, <1>0 DEF EvInv, EvCellsOK, EvSameLap
  <2>2. ev[ev_deq].data = posted[EvBase + ev_deq + 1]
    BY <2>1, <1>0 DEF EvInv, EvCellsOK
  <2>3. EvBase + ev_deq = Len(handled) /\ Len(handled) < Len(posted)
    BY <1>1, <2>1, <1>0 DEF EvSameLap, EvBase, EvKBase
  <2> QED
    BY <2>1, <2>2, <2>3
<1>2. CASE EvLapBehind
  <2>1. ev[ev_deq].data = posted[EvKBase + ev_deq + 1]
    BY <1>2, <1>0 DEF EvInv, EvCellsOK, EvLapBehind
  <2>2. EvKBase + ev_deq = Len(handled) /\ Len(handled) < Len(posted)
    BY <1>0, <1>2 DEF EvLapBehind, EvBase, EvKBase
  <2>3. ~EvSameLap
    BY <1>2, <1>0 DEF EvLapBehind, EvSameLap
  <2> QED
    BY <2>1, <2>2, <2>3
<1> QED
  BY <1>1, <1>2 DEF EvInv

\* The ring starts empty, zeroed, with the kernel's cycle bit at 1.
LEMMA EvInitInv == E!Init => EvInv
  BY DEF E!Init, EvInv, EvTypes, EvSameLap, EvErdpOK, EvCellsOK, EvAgree,
     EvBase, EvKBase, EvUnacked

\* The body of an event goes to a slot the kernel does not own.
LEMMA WriteStep ==
    ASSUME EvInv, NEW v \in Events, E!HcWriteEvent(v) PROVE EvInv'
<1> USE DEF E!HcWriteEvent, E!kvars
<1>1. ev \in [E!Slots -> [data : Events \cup {NoData}, cycle : {0, 1}]] /\ hc_enq \in E!Slots
  BY DEF EvInv, EvTypes
<1>2. /\ ev' \in [E!Slots -> [data : Events \cup {NoData}, cycle : {0, 1}]]
      /\ ev'[hc_enq].data = v
      /\ \A i \in E!Slots : ev'[i].cycle = ev[i].cycle
      /\ \A i \in E!Slots : i # hc_enq => ev'[i] = ev[i]
  BY <1>1
<1>3. EvUnacked' = EvUnacked /\ EvBase' = EvBase /\ EvKBase' = EvKBase
  BY DEF EvUnacked, EvBase, EvKBase
<1>4. EvTypes'
  BY <1>2 DEF EvInv, EvTypes
<1>5. EvErdpOK'
  BY <1>3, Room DEF EvInv, EvErdpOK
<1>6. ev_cyc = 1 - hc_pcs => hc_enq < ev_deq
  BY EvRanges DEF EvInv, EvSameLap, EvLapBehind
<1>7. EvCellsOK'
  <2>1. \A i \in E!Slots : i < hc_enq => i # hc_enq
    BY EvRanges
  <2>2. ev_cyc = 1 - hc_pcs => \A i \in E!Slots : ev_deq <= i => i # hc_enq
    BY <1>6, EvRanges
  <2>3. ev_deq \in E!Slots
    BY DEF EvInv, EvTypes
  <2> QED
    BY <1>2, <1>3, <2>1, <2>2, <2>3 DEF EvInv, EvCellsOK
<1> QED
  BY <1>3, <1>4, <1>5, <1>7 DEF EvInv, EvSameLap, EvLapBehind, EvAgree


\* The control word hands the event over; the controller goes on to the next
\* slot, after the last one on its next lap.
LEMMA PublishStep ==
    ASSUME EvInv, E!HcPublish PROVE EvInv'
<1>a. /\ hc_enq' = E!After(hc_enq) /\ hc_pcs' = E!Flip(hc_enq, hc_pcs)
      /\ erdp' = erdp /\ ev_deq' = ev_deq /\ ev_cyc' = ev_cyc /\ kpc' = kpc
      /\ n' = n /\ handled' = handled /\ posting' = NoData
  BY DEF E!HcPublish, E!kvars
<1>0. /\ RingTrbs \in Int /\ hc_enq \in Int /\ ev_deq \in Int /\ n \in Int
      /\ Len(posted) \in Int /\ Len(handled) \in Int
      /\ 2 <= RingTrbs /\ 0 <= hc_enq /\ hc_enq < RingTrbs
      /\ 0 <= ev_deq /\ ev_deq < RingTrbs /\ 0 <= n
      /\ hc_pcs \in {0, 1} /\ ev_cyc \in {0, 1}
  BY EvRanges
<1>1. /\ ev \in [E!Slots -> [data : Events \cup {NoData}, cycle : {0, 1}]]
      /\ hc_enq \in E!Slots /\ hc_pcs \in {0, 1} /\ posting \in Events
      /\ ev[hc_enq].data = posting /\ EvUnacked + 1 < RingTrbs
  BY DEF E!HcPublish, EvInv, EvTypes, EvErdpOK, EvCellsOK
<1>2. /\ ev' \in [E!Slots -> [data : Events \cup {NoData}, cycle : {0, 1}]]
      /\ ev'[hc_enq].data = posting /\ ev'[hc_enq].cycle = hc_pcs
      /\ \A i \in E!Slots : i # hc_enq => ev'[i] = ev[i]
  BY <1>1 DEF E!HcPublish
<1>3. /\ posted' \in Seq(Events) /\ Len(posted') = Len(posted) + 1
      /\ posted'[Len(posted) + 1] = posting
      /\ \A k \in 1 .. Len(posted) : posted'[k] = posted[k]
  BY <1>1 DEF E!HcPublish, EvInv, EvTypes
<1>b. /\ EvBase \in Int /\ EvKBase \in Int /\ 0 <= EvKBase
      /\ EvBase + hc_enq = Len(posted) /\ EvKBase + ev_deq = Len(handled)
  BY <1>0 DEF EvInv, EvBase, EvKBase
<1>4. EvUnacked' = EvUnacked + 1 /\ EvKBase' = EvKBase
  BY <1>a, <1>0, <1>3 DEF EvUnacked, EvKBase
<1>5. EvTypes'
  BY <1>a, <1>0, <1>2, <1>3 DEF EvInv, EvTypes, E!After, E!Flip
<1>6. EvErdpOK'
  BY <1>a, <1>1, <1>4, <1>3 DEF EvInv, EvErdpOK
<1>7. EvAgree'
  BY <1>a, <1>0, <1>3 DEF EvInv, EvAgree
<1>8. EvUnacked = Len(posted) - Len(handled) + n
  BY <1>0 DEF EvUnacked
<1>9. CASE EvSameLap
  <2>1. /\ ev_cyc = hc_pcs /\ EvKBase = EvBase /\ ev_deq <= hc_enq
        /\ EvBase \in Int /\ 0 <= EvBase /\ EvBase + hc_enq = Len(posted)
    BY <1>0, <1>9, <1>b DEF EvSameLap
  <2>2. ev_deq \in E!Slots
    BY <1>0
  <2>3. \A i \in E!Slots : i <= hc_enq => /\ ev'[i].cycle = hc_pcs
                                          /\ ev'[i].data = posted'[EvBase + i + 1]
    <3>1. ASSUME NEW i \in E!Slots, i < hc_enq
          PROVE  ev'[i].cycle = hc_pcs /\ ev'[i].data = posted'[EvBase + i + 1]
      <4>1. ev'[i] = ev[i]
        BY <1>0, <1>2, <3>1
      <4>2. EvBase + i + 1 \in 1 .. Len(posted)
        BY <1>0, <2>1, <3>1
      <4> QED
        BY <1>3, <3>1, <4>1, <4>2 DEF EvInv, EvCellsOK
    <3>2. ev'[hc_enq].data = posted'[EvBase + hc_enq + 1]
      BY <1>2, <1>3, <2>1
    <3>3. \A i \in E!Slots : i <= hc_enq => i < hc_enq \/ i = hc_enq
      BY <1>0
    <3> QED
      BY <1>2, <3>1, <3>2, <3>3
  <2>4. \A i \in E!Slots : hc_enq < i => ev'[i].cycle = 1 - hc_pcs
    BY <1>0, <1>2 DEF EvInv, EvCellsOK
  <2>5. kpc = "read" => ev_deq < hc_enq
    BY <1>0, <1>9, EvOwnedFacts DEF EvInv, EvCellsOK
  <2>6. kpc' = "read" => ev'[ev_deq].cycle = ev_cyc
    BY <1>a, <1>0, <1>2, <2>2, <2>5 DEF EvInv, EvCellsOK
  <2>7. CASE hc_enq + 1 = RingTrbs
    <3>1. hc_enq' = 0 /\ hc_pcs' = 1 - hc_pcs
      BY <1>a, <2>7 DEF E!After, E!Flip
    <3>2. 0 < ev_deq
      BY <1>0, <1>1, <1>8, <1>b, <2>1, <2>7
    <3>3. EvBase' = EvBase + RingTrbs
      BY <1>0, <1>3, <2>7, <3>1 DEF EvBase
    <3>4. EvLapBehind'
      BY <1>a, <1>0, <1>4, <2>1, <3>1, <3>2, <3>3 DEF EvLapBehind
    <3>5. EvCellsOK'
      <4>1. \A i \in E!Slots : i <= hc_enq
        BY <1>0, <2>7
      <4>2. \A i \in E!Slots : ~(i < 0)
        BY <1>0
      <4>3. hc_pcs = 1 - hc_pcs'
        BY <1>0, <3>1
      <4>4. \A i \in E!Slots : ev'[i].cycle = 1 - hc_pcs' /\ ev'[i].data = posted'[EvKBase' + i + 1]
        BY <1>a, <1>4, <2>1, <2>3, <4>1, <4>3
      <4> QED
        BY <1>a, <2>6, <3>1, <4>2, <4>4 DEF EvCellsOK
    <3> QED
      BY <1>4, <1>5, <1>6, <1>7, <3>4, <3>5 DEF EvInv
  <2>8. CASE hc_enq + 1 # RingTrbs
    <3>1. hc_enq' = hc_enq + 1 /\ hc_pcs' = hc_pcs
      BY <1>a, <2>8 DEF E!After, E!Flip
    <3>2. EvBase' = EvBase
      BY <1>0, <1>3, <3>1 DEF EvBase
    <3>3. EvSameLap'
      BY <1>a, <1>0, <1>4, <2>1, <3>1, <3>2 DEF EvSameLap
    <3>4. EvCellsOK'
      <4>1. \A i \in E!Slots : (i < hc_enq + 1 <=> i <= hc_enq) /\ (hc_enq + 1 <= i <=> hc_enq < i)
        BY <1>0
      <4>2. ~(ev_cyc' = 1 - hc_pcs')
        BY <1>0, <1>a, <2>1, <3>1
      <4> QED
        BY <1>a, <2>3, <2>4, <2>6, <3>1, <3>2, <4>1, <4>2 DEF EvCellsOK
    <3> QED
      BY <1>4, <1>5, <1>6, <1>7, <3>3, <3>4 DEF EvInv
  <2> QED
    BY <2>7, <2>8
<1>10. CASE EvLapBehind
  <2>1. /\ ev_cyc = 1 - hc_pcs /\ EvKBase + RingTrbs = EvBase /\ hc_enq < ev_deq
        /\ EvBase \in Int /\ EvKBase \in Int /\ 0 <= EvKBase /\ EvBase + hc_enq = Len(posted)
    BY <1>0, <1>10, <1>b DEF EvLapBehind
  <2>2. hc_enq + 1 < ev_deq
    BY <1>0, <1>1, <1>8, <1>b, <2>1
  <2>3. hc_enq' = hc_enq + 1 /\ hc_pcs' = hc_pcs
    BY <1>a, <1>0, <2>2 DEF E!After, E!Flip
  <2>4. EvBase' = EvBase
    BY <1>0, <1>3, <2>3 DEF EvBase
  <2>5. EvLapBehind'
    BY <1>a, <1>0, <1>4, <2>1, <2>2, <2>3, <2>4 DEF EvLapBehind
  <2>6. \A i \in E!Slots : i < hc_enq' => /\ ev'[i].cycle = hc_pcs
                                          /\ ev'[i].data = posted'[EvBase + i + 1]
    <3>1. ASSUME NEW i \in E!Slots, i < hc_enq
          PROVE  ev'[i].cycle = hc_pcs /\ ev'[i].data = posted'[EvBase + i + 1]
      <4>1. ev'[i] = ev[i]
        BY <1>0, <1>2, <3>1
      <4>2. EvBase + i + 1 \in 1 .. Len(posted)
        BY <1>0, <2>1, <3>1
      <4> QED
        BY <1>3, <3>1, <4>1, <4>2 DEF EvInv, EvCellsOK
    <3>2. ev'[hc_enq].data = posted'[EvBase + hc_enq + 1]
      BY <1>2, <1>3, <2>1
    <3>3. \A i \in E!Slots : i < hc_enq' => i < hc_enq \/ i = hc_enq
      BY <1>0, <2>3
    <3> QED
      BY <1>2, <3>1, <3>2, <3>3
  <2>7. \A i \in E!Slots : hc_enq' <= i => ev'[i].cycle = 1 - hc_pcs
    BY <1>0, <1>2, <2>3 DEF EvInv, EvCellsOK
  <2>8. ASSUME NEW i \in E!Slots, ev_deq <= i
        PROVE  ev'[i].data = posted'[EvKBase + i + 1]
    <3>1. ev'[i] = ev[i]
      BY <1>0, <1>2, <2>1, <2>8
    <3>2. EvKBase + i + 1 \in 1 .. Len(posted)
      BY <1>0, <2>1, <2>8
    <3> QED
      BY <1>3, <2>1, <2>8, <3>1, <3>2 DEF EvInv, EvCellsOK
  <2>9. kpc' = "read" => ev'[ev_deq].cycle = ev_cyc
    BY <1>a, <1>0, <1>2, <2>1 DEF EvInv, EvCellsOK
  <2>10. EvCellsOK'
    BY <1>a, <1>4, <2>3, <2>4, <2>6, <2>7, <2>8, <2>9 DEF EvCellsOK
  <2> QED
    BY <1>4, <1>5, <1>6, <1>7, <2>5, <2>10 DEF EvInv
<1> QED
  BY <1>9, <1>10 DEF EvInv


\* Entering the loop, and seeing that the next event is the kernel's.
LEMMA LookStep ==
    ASSUME EvInv, E!PollStart \/ E!PollLook PROVE EvInv'
<1>1. /\ ev' = ev /\ erdp' = erdp /\ ev_deq' = ev_deq /\ ev_cyc' = ev_cyc
      /\ handled' = handled /\ hc_enq' = hc_enq /\ hc_pcs' = hc_pcs
      /\ posting' = posting /\ posted' = posted /\ n' = n
      /\ kpc' \in {"look", "read"}
      /\ kpc' = "read" => ev[ev_deq].cycle = ev_cyc
  BY DEF E!PollStart, E!PollLook, E!hcvars, EvInv, EvErdpOK
<1>2. EvBase' = EvBase /\ EvKBase' = EvKBase /\ EvUnacked' = EvUnacked
  BY <1>1 DEF EvBase, EvKBase, EvUnacked
<1>3. EvTypes' /\ EvErdpOK'
  BY <1>1, <1>2 DEF EvInv, EvTypes, EvErdpOK
<1>4. EvCellsOK'
  BY <1>1, <1>2 DEF EvInv, EvCellsOK
<1> QED
  BY <1>1, <1>2, <1>3, <1>4 DEF EvInv, EvSameLap, EvLapBehind, EvAgree

\* Telling the controller: ERDP catches up with ev_deq, n starts again.
LEMMA DoneStep ==
    ASSUME EvInv, E!PollDone PROVE EvInv'
<1>0. /\ RingTrbs \in Int /\ ev_deq \in Int /\ erdp \in Int /\ n \in Int
      /\ Len(posted) \in Int /\ Len(handled) \in Int
      /\ 0 <= ev_deq /\ ev_deq < RingTrbs /\ 0 <= n
      /\ 0 <= erdp /\ erdp < RingTrbs
  BY EvRanges
<1>1. /\ ev' = ev /\ ev_deq' = ev_deq /\ ev_cyc' = ev_cyc
      /\ handled' = handled /\ hc_enq' = hc_enq /\ hc_pcs' = hc_pcs
      /\ posting' = posting /\ posted' = posted /\ n' = 0 /\ kpc' = "idle"
      /\ erdp' = IF n > 0 THEN ev_deq ELSE erdp
  BY DEF E!PollDone, E!hcvars
<1>2. EvBase' = EvBase /\ EvKBase' = EvKBase
  BY <1>1 DEF EvBase, EvKBase
<1>3. EvUnacked \in Int /\ EvUnacked' = EvUnacked - n
  BY <1>0, <1>1 DEF EvUnacked
<1>4. erdp' = ev_deq
  BY <1>0, <1>1 DEF EvInv, EvErdpOK
<1>5. EvTypes'
  BY <1>1, <1>4 DEF EvInv, EvTypes
<1>6. EvErdpOK'
  BY <1>0, <1>1, <1>3, <1>4 DEF EvInv, EvErdpOK
<1>7. EvCellsOK'
  BY <1>1, <1>2 DEF EvInv, EvCellsOK
<1> QED
  BY <1>1, <1>2, <1>5, <1>6, <1>7 DEF EvInv, EvSameLap, EvLapBehind, EvAgree

\* handle_event gets the event that was posted next, and the pointer goes on,
\* after the last slot with the other cycle bit.
LEMMA HandleStep ==
    ASSUME EvInv, E!PollHandle PROVE EvInv' /\ E!Queue!Get
<1>0. /\ RingTrbs \in Int /\ hc_enq \in Int /\ ev_deq \in Int /\ n \in Int
      /\ Len(posted) \in Int /\ Len(handled) \in Int /\ erdp \in Int
      /\ 2 <= RingTrbs /\ 0 <= hc_enq /\ hc_enq < RingTrbs
      /\ 0 <= ev_deq /\ ev_deq < RingTrbs /\ 0 <= n
      /\ 0 <= erdp /\ erdp < RingTrbs
      /\ hc_pcs \in {0, 1} /\ ev_cyc \in {0, 1}
  BY EvRanges
<1>a. /\ ev' = ev /\ hc_enq' = hc_enq /\ hc_pcs' = hc_pcs
      /\ posting' = posting /\ posted' = posted
      /\ ev_deq' = E!After(ev_deq) /\ ev_cyc' = E!Flip(ev_deq, ev_cyc)
      /\ kpc' \in {"idle", "look"} /\ kpc = "read"
      /\ \/ n' = 0 /\ erdp' = ev_deq'
         \/ kpc' = "look" /\ n' = n + 1 /\ erdp' = erdp
  BY DEF E!PollHandle, E!hcvars
<1>1. /\ EvSameLap => ev_deq < hc_enq
      /\ Len(handled) < Len(posted)
      /\ ev[ev_deq].data = posted[Len(handled) + 1]
  BY <1>a, EvOwnedFacts DEF EvInv, EvCellsOK
<1>2. handled' = Append(handled, posted[Len(handled) + 1])
  BY <1>1 DEF E!PollHandle
<1>3. E!Queue!Get
  BY <1>1, <1>2, <1>a DEF E!Queue!Get
<1>4. posted[Len(handled) + 1] \in Events /\ handled \in Seq(Events)
  BY <1>0, <1>1 DEF EvInv, EvTypes
<1>5. /\ handled' \in Seq(Events) /\ Len(handled') = Len(handled) + 1
      /\ handled'[Len(handled) + 1] = posted[Len(handled) + 1]
      /\ \A k \in 1 .. Len(handled) : handled'[k] = handled[k]
  BY <1>2, <1>4
<1>b. /\ EvBase \in Int /\ EvKBase \in Int /\ 0 <= EvKBase
      /\ EvBase + hc_enq = Len(posted) /\ EvKBase + ev_deq = Len(handled)
  BY <1>0 DEF EvInv, EvBase, EvKBase
<1>7. EvTypes'
  BY <1>0, <1>5, <1>a DEF EvInv, EvTypes, E!After, E!Flip
<1>c. /\ Len(handled') = Len(handled) + 1 /\ posted' = posted /\ hc_enq' = hc_enq
      /\ ev_deq' \in Int /\ n' \in Int
  BY <1>5, <1>7, <1>a DEF EvTypes
<1>6. EvBase' = EvBase /\ EvKBase' = Len(handled) + 1 - ev_deq'
  BY <1>0, <1>c DEF EvBase, EvKBase
<1>8. EvAgree'
  <2>1. \A k \in 1 .. (Len(handled) + 1) : handled'[k] = posted[k]
    <3>1. \A k \in 1 .. Len(handled) : handled'[k] = posted[k]
      BY <1>5 DEF EvInv, EvAgree
    <3>2. \A k \in 1 .. (Len(handled) + 1) : k \in 1 .. Len(handled) \/ k = Len(handled) + 1
      BY <1>0
    <3> QED
      BY <1>5, <3>1, <3>2
  <2>2. Len(handled') <= Len(posted')
    BY <1>0, <1>1, <1>c
  <2> QED
    BY <1>c, <2>1, <2>2 DEF EvAgree
<1>9. EvErdpOK'
  <2>1. EvUnacked' = Len(posted) - (Len(handled) + 1 - n') /\ EvUnacked = Len(posted) - (Len(handled) - n)
    BY <1>0, <1>c DEF EvUnacked
  <2>2. \/ ev_deq' = ev_deq + 1
        \/ ev_deq' = 0 /\ ev_deq = RingTrbs - 1
    BY <1>0, <1>a DEF E!After
  <2>3. CASE n' = 0 /\ erdp' = ev_deq'
    <3>1. EvUnacked' = Len(posted) - (Len(handled) + 1)
      BY <1>0, <2>1, <2>3
    <3>2. ASSUME posting # NoData PROVE EvUnacked' + 1 < RingTrbs
      <4>1. EvUnacked + 1 < RingTrbs
        BY <3>2 DEF EvInv, EvErdpOK
      <4> QED
        BY <1>0, <2>1, <3>1, <4>1
    <3>3. EvUnacked' < RingTrbs
      BY <1>0, <2>1, <3>1 DEF EvInv, EvErdpOK
    <3>4. erdp' + n' = ev_deq'
      BY <1>0, <2>2, <2>3
    <3> QED
      BY <1>0, <1>5, <1>a, <2>3, <3>2, <3>3, <3>4 DEF EvErdpOK
  <2>4. CASE kpc' = "look" /\ n' = n + 1 /\ erdp' = erdp
    <3>1. EvUnacked' = EvUnacked
      BY <1>0, <2>1, <2>4
    <3>2. n' <= Len(handled')
      BY <1>0, <1>5, <2>4 DEF EvInv, EvErdpOK
    <3>3. n < RingTrbs - 1
      BY <1>0, <1>1, <2>1 DEF EvInv, EvErdpOK
    <3>4. erdp' + n' = ev_deq' \/ erdp' + n' = ev_deq' + RingTrbs
      BY <1>0, <2>2, <2>4, <3>3 DEF EvInv, EvErdpOK
    <3> QED
      BY <1>a, <2>4, <3>1, <3>2, <3>4 DEF EvInv, EvErdpOK
  <2> QED
    BY <1>a, <2>3, <2>4
<1>10. \A i \in E!Slots : /\ i < hc_enq' => /\ ev'[i].cycle = hc_pcs'
                                            /\ ev'[i].data = posted'[EvBase' + i + 1]
                          /\ hc_enq' <= i => ev'[i].cycle = 1 - hc_pcs'
  BY <1>6, <1>a DEF EvInv, EvCellsOK
<1>11. posting' # NoData => ev'[hc_enq'].data = posting'
  BY <1>a DEF EvInv, EvCellsOK
<1>12. CASE EvSameLap
  <2>1. ev_deq + 1 # RingTrbs
    BY <1>0, <1>1, <1>12
  <2>2. ev_deq' = ev_deq + 1 /\ ev_cyc' = ev_cyc
    BY <1>a, <2>1 DEF E!After, E!Flip
  <2>3. EvKBase' = EvKBase
    BY <1>0, <1>6, <1>b, <2>2
  <2>4. EvSameLap' /\ ~(ev_cyc' = 1 - hc_pcs')
    BY <1>0, <1>1, <1>6, <1>12, <1>a, <2>2, <2>3 DEF EvSameLap
  <2>5. EvCellsOK'
    BY <1>10, <1>11, <1>a, <2>4 DEF EvCellsOK
  <2> QED
    BY <1>3, <1>7, <1>8, <1>9, <1>b, <2>3, <2>4, <2>5 DEF EvInv
<1>13. CASE EvLapBehind
  <2>1. ev_cyc = 1 - hc_pcs /\ EvKBase + RingTrbs = EvBase /\ hc_enq < ev_deq
    BY <1>13 DEF EvLapBehind
  <2>2. CASE ev_deq + 1 = RingTrbs
    <3>1. ev_deq' = 0 /\ ev_cyc' = 1 - ev_cyc
      BY <1>a, <2>2 DEF E!After, E!Flip
    <3>2. EvKBase' = EvBase
      BY <1>0, <1>6, <1>b, <2>1, <2>2, <3>1
    <3>3. EvSameLap' /\ ~(ev_cyc' = 1 - hc_pcs')
      BY <1>0, <1>6, <1>a, <2>1, <3>1, <3>2 DEF EvSameLap
    <3>4. EvCellsOK'
      BY <1>10, <1>11, <1>a, <3>3 DEF EvCellsOK
    <3>5. 0 <= EvKBase'
      BY <1>0, <1>b, <2>1, <3>2
    <3> QED
      BY <1>3, <1>7, <1>8, <1>9, <3>3, <3>4, <3>5 DEF EvInv
  <2>3. CASE ev_deq + 1 # RingTrbs
    <3>1. ev_deq' = ev_deq + 1 /\ ev_cyc' = ev_cyc
      BY <1>a, <2>3 DEF E!After, E!Flip
    <3>2. EvKBase' = EvKBase
      BY <1>0, <1>6, <1>b, <3>1
    <3>3. EvLapBehind'
      BY <1>0, <1>6, <1>a, <2>1, <3>1, <3>2 DEF EvLapBehind
    <3>4. \A i \in E!Slots : ev_deq' <= i => ev'[i].data = posted'[EvKBase' + i + 1]
      <4>1. \A i \in E!Slots : ev_deq + 1 <= i => ev_deq <= i
        BY <1>0
      <4> QED
        BY <1>a, <2>1, <3>1, <3>2, <4>1 DEF EvInv, EvCellsOK
    <3>5. EvCellsOK'
      BY <1>10, <1>11, <1>a, <3>4 DEF EvCellsOK
    <3> QED
      BY <1>3, <1>7, <1>8, <1>9, <1>b, <3>2, <3>3, <3>5 DEF EvInv
  <2> QED
    BY <2>2, <2>3
<1> QED
  BY <1>12, <1>13 DEF EvInv

\* Every step of the controller and of the poll keeps the invariant.
LEMMA EvStepInv == EvInv /\ [E!Next]_(E!vars) => EvInv'
<1> SUFFICES ASSUME EvInv, [E!Next]_(E!vars) PROVE EvInv'
  OBVIOUS
<1>1. CASE UNCHANGED E!vars
  BY <1>1 DEF E!vars, EvInv, EvTypes, EvSameLap, EvLapBehind, EvErdpOK,
     EvCellsOK, EvAgree,
              EvBase, EvKBase, EvUnacked
<1> QED
  BY <1>1, WriteStep, PublishStep, LookStep, DoneStep, HandleStep DEF E!Next,
     E!Poll

\* poll_events against a posting controller implements a queue: every event
\* handled once, in the order it was posted, whatever the size of the ring.
THEOREM EventRingIsFifo == E!Spec => E!ImplementsFifo
<1>1. E!Init => E!Queue!Init
  BY DEF E!Init, E!Queue!Init
<1>2. EvInv /\ [E!Next]_(E!vars) => [E!Queue!Next]_(E!Queue!vars)
  <2> SUFFICES ASSUME EvInv, [E!Next]_(E!vars)
               PROVE  [E!Queue!Next]_(E!Queue!vars)
    OBVIOUS
  <2>1. CASE E!PollHandle
    BY <2>1, HandleStep DEF E!Queue!Next
  <2>2. CASE E!HcPublish
    <3>1. posting \in Events
      BY <2>2 DEF EvInv, EvTypes, E!HcPublish
    <3> QED
      BY <2>2, <3>1 DEF E!Queue!Next, E!Queue!Put, E!HcPublish, E!kvars
  <2>3. ASSUME UNCHANGED <<posted, handled>> PROVE UNCHANGED E!Queue!vars
    BY <2>3 DEF E!Queue!vars
  <2> QED
    BY <2>1, <2>2, <2>3
    DEF E!Next, E!vars, E!Poll, E!PollStart, E!PollLook, E!PollDone,
       E!HcWriteEvent, E!hcvars, E!kvars
<1> QED
  BY EvInitInv, EvStepInv, <1>1, <1>2, PTL DEF E!Spec, E!ImplementsFifo,
     E!Queue!Spec

-----------------------------------------------------------------------------
(* Both rings of one controller.                                           *)

IInv == CmdInv /\ EvInv

\* A completion is of a command the controller has executed.
LEMMA CompletionIsCommand ==
    ASSUME IInv, Reported < Len(got)
    PROVE  got[Reported + 1] \in Commands
<1> DEFINE Done == {k \in 1 .. Len(posted) : posted[k] \in Commands}
<1>1. got \in Seq(Commands) /\ Len(posted) \in Int
  BY DEF IInv, CmdInv, C!TypeOK, EvInv, EvTypes
<1>2. Cardinality(Done) \in Nat
  <2>1. IsFiniteSet(1 .. Len(posted))
    BY <1>1, FS_Interval
  <2>2. Done \in SUBSET (1 .. Len(posted))
    OBVIOUS
  <2> QED
    BY <2>1, <2>2, FS_Subset, FS_CardinalityType
<1> HIDE DEF Done
<1>3. Reported = Cardinality(Done) \/ Reported = Cardinality(Done) + 1
  <2>1. Reported = Cardinality(Done) + (IF posting \in Commands THEN 1 ELSE 0)
    BY Zenon DEF Reported, Done
  <2> QED
    BY <1>2, <2>1
<1> QED
  BY <1>1, <1>2, <1>3

\* A step of the system is a step or a stutter of each of its rings.
LEMMA RingSteps ==
    ASSUME IInv, [Next]_vars
    PROVE  [C!Next]_(C!vars) /\ [E!Next]_(E!vars)
<1>1. CASE CommandRing
  BY <1>1 DEF CommandRing, evars, E!vars
<1>2. CASE HcComplete
  <2>1. PICK v \in Events : E!HcWriteEvent(v)
    BY <1>2, CompletionIsCommand DEF HcComplete
  <2> QED
    BY <1>2, <2>1 DEF HcComplete, E!Next, cvars, C!vars
<1>3. CASE HcPortChange
  BY <1>3 DEF HcPortChange, E!Next, cvars, C!vars
<1>4. CASE HcPublish \/ Poll
  BY <1>4 DEF HcPublish, Poll, E!Next, cvars, C!vars
<1>5. CASE UNCHANGED vars
  BY <1>5 DEF vars, cvars, evars, C!vars, E!vars
<1> QED
  BY <1>1, <1>2, <1>3, <1>4, <1>5 DEF Next

\* Both invariants hold at the start, and every step keeps them: the
\* controller posts the completion only of what it executed.
LEMMA Inductive == (Init => IInv) /\ (IInv /\ [Next]_vars => IInv')
<1>1. Init => IInv
  BY CmdInitInv, EvInitInv DEF Init, IInv
<1>2. IInv /\ [Next]_vars => IInv'
  BY RingSteps, CmdStepInv, EvStepInv DEF IInv
<1> QED
  BY <1>1, <1>2

\* The command ring of a controller that also posts events, and is polled, is
\* a queue (cmd_exec, ring_push).
THEOREM CommandsInOrder == Spec => CommandFifo
<1>1. Init => C!Init
  BY DEF Init
<1>2. IInv /\ [Next]_vars => [C!Next]_(C!vars)
  BY RingSteps
<1>3. Spec => C!Spec
  BY <1>1, <1>2, Inductive, PTL DEF Spec, C!Spec
<1> QED
  BY <1>3, RingIsFifo, PTL DEF CommandFifo

\* The event ring, fed with the completions of the command ring and with port
\* changes, is a queue (poll_events, handle_event).
THEOREM EventsInOrder == Spec => EventFifo
<1>1. Init => E!Init
  BY DEF Init
<1>2. IInv /\ [Next]_vars => [E!Next]_(E!vars)
  BY RingSteps
<1>3. Spec => E!Spec
  BY <1>1, <1>2, Inductive, PTL DEF Spec, E!Spec
<1> QED
  BY <1>3, EventRingIsFifo, PTL DEF EventFifo
=============================================================================
