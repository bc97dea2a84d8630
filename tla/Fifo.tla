-------------------------------- MODULE Fifo --------------------------------
(***************************************************************************)
(* What a TRB ring promises: the consumer gets what the producer sent, in  *)
(* order, nothing twice, nothing lost, nothing invented.  The command and  *)
(* transfer rings (kernel to controller) and the event ring (controller to *)
(* kernel) are both shown to implement it.                                 *)
(***************************************************************************)
EXTENDS Sequences, Naturals

CONSTANT Values

VARIABLES sent,   \* everything ever sent
          got     \* everything the consumer took

vars == <<sent, got>>

Init == sent = <<>> /\ got = <<>>

Put(v) == sent' = Append(sent, v) /\ UNCHANGED got

Get == /\ Len(got) < Len(sent)
       /\ got' = Append(got, sent[Len(got) + 1])
       /\ UNCHANGED sent

Next == Get \/ \E v \in Values : Put(v)

Spec == Init /\ [][Next]_vars
=============================================================================
