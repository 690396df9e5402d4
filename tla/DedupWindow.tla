---------------------------- MODULE DedupWindow ----------------------------
(***************************************************************************)
(* What the per-device dedup promises, without saying how: a sequence      *)
(* number is admitted exactly when it is not among the last Window ones    *)
(* admitted for its device.                                                *)
(***************************************************************************)
EXTENDS Naturals, Sequences

CONSTANTS Devices, SeqNos, Window

VARIABLES
  log,       \* log[d]: every sequence number admitted for d, oldest first
  answer     \* the last answer given to a caller

vars == <<log, answer>>

NoAnswer == [asked |-> FALSE]
Answer(d, s, ok) == [asked |-> TRUE, dev |-> d, seq |-> s, admitted |-> ok]

\* The numbers a repetition of which is recognised.
Recent(l) == {l[i] : i \in {j \in DOMAIN l : j > Len(l) - Window}}

Init ==
  /\ log = [d \in Devices |-> <<>>]
  /\ answer = NoAnswer

Accept(d, s) ==
  /\ s \notin Recent(log[d])
  /\ log' = [log EXCEPT ![d] = Append(@, s)]
  /\ answer' = Answer(d, s, TRUE)

Refuse(d, s) ==
  /\ s \in Recent(log[d])
  /\ answer' = Answer(d, s, FALSE)
  /\ UNCHANGED log

Next == \E d \in Devices, s \in SeqNos : Accept(d, s) \/ Refuse(d, s)

Spec == Init /\ [][Next]_vars

=============================================================================
