-------------------------------- MODULE Topic ---------------------------------
(* A topic of Kafka: a log per partition, messages placed by their key. *)
EXTENDS Naturals, Sequences, FiniteSets

CONSTANTS
  Ids,         \* the ids of webhooks or events; a message is its id
  Partitions,
  Home         \* the partition of an id's message

ASSUME TopicAssumption == Home \in [Ids -> Partitions]

VARIABLE part  \* part[p]: the messages of a partition

EnsureTopic == part = [p \in Partitions |-> << >>]

\* Positions of the copies of i in the topic.
CopiesOf(i) == {n \in DOMAIN part[Home[i]] : part[Home[i]][n] = i}
InTopic(i) == Cardinality(CopiesOf(i))
Landed(i) == CopiesOf(i) # {}

CountIn(q, i) == Cardinality({n \in DOMAIN q : q[n] = i})

=============================================================================
