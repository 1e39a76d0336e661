---------------------------- MODULE RecordStream ----------------------------
(***************************************************************************)
(* What the record buffer promises, without counters, slots or flags: each *)
(* producer sends its records one after the other, and the reader takes a  *)
(* record that was sent and not yet taken -- in the order of its producer  *)
(* when the reader is the host.                                            *)
(***************************************************************************)
EXTENDS Naturals

CONSTANTS Producers, Length, InOrder

VARIABLES
  sent,   \* how many records each producer has sent
  taken   \* how often each record was taken

Item == Producers \X (1 .. Length)

Init ==
  /\ sent = [p \in Producers |-> 0]
  /\ taken = [r \in Item |-> 0]

Send(p) ==
  /\ sent[p] < Length
  /\ sent' = [sent EXCEPT ![p] = @ + 1]
  /\ UNCHANGED taken

Take(p, k) ==
  /\ k <= sent[p]
  /\ taken[<<p, k>>] = 0
  /\ InOrder => \A j \in 1 .. k - 1 : taken[<<p, j>>] = 1
  /\ taken' = [taken EXCEPT ![<<p, k>>] = 1]
  /\ UNCHANGED sent

Next == \E p \in Producers : Send(p) \/ \E k \in 1 .. Length : Take(p, k)

Spec == Init /\ [][Next]_<<sent, taken>>
=============================================================================
