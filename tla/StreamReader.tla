----------------------------- MODULE StreamReader -----------------------------
(***************************************************************************)
(* The stream readers of internal/kafkaclient, one goroutine per partition *)
(* and all of them behind one channel.  StorefrontStreamReader and         *)
(* DeliveryStreamReader are the same code.                                 *)
(***************************************************************************)
EXTENDS Topic

CONSTANT ChanCap   \* capacity of the channel of Messages; 4096 in the code

ASSUME StreamAssumption == ChanCap \in Nat \ {0}

VARIABLES
  offset,      \* offset[p]: messages the reader of p has taken
  hand,        \* hand[p]: what it holds before the channel has room, or << >>
  alive,       \* alive[p]: its goroutine has not returned
  chan         \* the channel

readerVars == <<offset, hand, alive, chan>>

\* Deviation: readers start behind the last message.
FromLast == [p \in Partitions |-> Len(part[p])]

\* SetOffset(FirstOffset).
FromFirst == [p \in Partitions |-> 0]

NoneInHand == [p \in Partitions |-> << >>]

StreamInit ==
  /\ offset = FromFirst
  /\ hand = NoneInHand
  /\ alive = [p \in Partitions |-> TRUE]
  /\ chan = << >>

ReadMessage(p) ==
  /\ alive[p]
  /\ hand[p] = << >>
  /\ offset[p] < Len(part[p])
  /\ hand' = [hand EXCEPT ![p] = <<part[p][offset[p] + 1]>>]
  /\ offset' = [offset EXCEPT ![p] = @ + 1]
  /\ UNCHANGED <<alive, chan>>

\* ReadMessage returns an error once the broker was away for some attempts;
\* the goroutine returns, and nobody starts it again.
ReaderReturns(p) ==
  /\ alive[p]
  /\ hand[p] = << >>
  /\ alive' = [alive EXCEPT ![p] = FALSE]
  /\ UNCHANGED <<offset, hand, chan>>

\* The goroutine is blocked until the channel has room.
Send(p) ==
  /\ hand[p] # << >>
  /\ Len(chan) < ChanCap
  /\ chan' = chan \o hand[p]
  /\ hand' = [hand EXCEPT ![p] = << >>]
  /\ UNCHANGED <<offset, alive>>

\* The context ends, in ReadMessage or in the send: what the goroutine holds
\* is dropped.  Nothing closes the channel.
ReaderCancelled(p) ==
  /\ alive[p]
  /\ alive' = [alive EXCEPT ![p] = FALSE]
  /\ hand' = [hand EXCEPT ![p] = << >>]
  /\ UNCHANGED <<offset, chan>>

StreamTypes ==
  /\ \A p \in Partitions : offset[p] \in 0 .. Len(part[p])
  /\ hand \in [Partitions -> {<< >>} \cup {<<i>> : i \in Ids}]
  /\ alive \in [Partitions -> BOOLEAN]
  /\ chan \in Seq(Ids) /\ Len(chan) <= ChanCap

=============================================================================
