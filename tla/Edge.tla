--------------------------------- MODULE Edge ---------------------------------
(***************************************************************************)
(* An edge without a spool: a bounded set of ids in front of a Kafka       *)
(* producer.  internal/deliverystats (webhooks, behind the HTTP handler of *)
(* cmd/deliverygateway) has this shape, and internal/eventingest           *)
(* (storefront events) has it word for word.                               *)
(***************************************************************************)
EXTENDS Topic

CONSTANTS
  Senders,        \* concurrent requests of the providers
  MaxWebhookIDs,  \* 4,000,000 in the code
  EdgeLimit       \* bound of the model: requests and resends of the writer

ASSUME EdgeAssumption ==
  /\ MaxWebhookIDs \in Nat \ {0}
  /\ EdgeLimit \in Nat

VARIABLES
  seen,      \* WebhookDedup.seen and .order
  call,      \* call[s]: the ids in the Produce of the request s, one or none
  answers,   \* answers[i]: what senders of i have been told
  late,      \* late[i]: copies the writer holds after Produce returned an error
  used       \* requests and resends so far

edgeVars == <<seen, call, answers, late, part, used>>

Memory == INSTANCE SeenSet WITH MaxSequencesPerDevice <- MaxWebhookIDs

NoIds == Memory!NewDeviceSeen

EdgeSpend ==
  /\ used < EdgeLimit
  /\ used' = used + 1

NewPipeline ==
  /\ seen = NoIds
  /\ call = [s \in Senders |-> {}]
  /\ answers = [i \in Ids |-> {}]
  /\ late = [i \in Ids |-> 0]

EdgeInit == NewPipeline /\ EnsureTopic /\ used = 0

Told(i, answer) == answers' = [answers EXCEPT ![i] = @ \cup {answer}]

\* The writer sends a message again when the answer to its first attempt is
\* lost, and then both attempts may be in the topic.
Stored(i) ==
  \/ /\ part' = [part EXCEPT ![Home[i]] = Append(@, i)]
     /\ UNCHANGED used
  \/ /\ EdgeSpend
     /\ part' = [part EXCEPT ![Home[i]] = @ \o <<i, i>>]

-----------------------------------------------------------------------------

\* Admit knows the id: the sender gets 200 with accepted = false.
PostDuplicate(s, i) ==
  /\ call[s] = {}
  /\ EdgeSpend
  /\ i \in seen.set
  /\ Told(i, "duplicate")
  /\ UNCHANGED <<seen, call, late, part>>

\* The id is remembered before it is produced.
PostNew(s, i) ==
  /\ call[s] = {}
  /\ EdgeSpend
  /\ i \notin seen.set
  /\ seen' = Memory!Remember(seen, i)
  /\ call' = [call EXCEPT ![s] = {i}]
  /\ UNCHANGED <<answers, late, part>>

ProduceAcked(s) ==
  \E i \in call[s] :
    /\ Stored(i)
    /\ Told(i, "accepted")
    /\ call' = [call EXCEPT ![s] = {}]
    /\ UNCHANGED <<seen, late>>

\* Deviation: the error of Produce is not passed on.
ProduceFailsSilently(s) ==
  \E i \in call[s] :
    /\ late' \in {late, [late EXCEPT ![i] = @ + 1]}
    /\ Told(i, "accepted")
    /\ call' = [call EXCEPT ![s] = {}]
    /\ UNCHANGED <<seen, part, used>>

\* The broker refuses, or the request's context ends while the writer holds
\* the message: the sender gets 502.  The id stays in the set.
ProduceFails(s) ==
  \E i \in call[s] :
    /\ late' \in {late, [late EXCEPT ![i] = @ + 1]}
    /\ Told(i, "failed")
    /\ call' = [call EXCEPT ![s] = {}]
    /\ UNCHANGED <<seen, part, used>>

\* What the writer does later with a message whose caller is gone.
LateWrite(i) ==
  /\ late[i] > 0
  /\ Stored(i)
  /\ late' = [late EXCEPT ![i] = @ - 1]
  /\ UNCHANGED <<seen, call, answers>>

LateDrop(i) ==
  /\ late[i] > 0
  /\ late' = [late EXCEPT ![i] = @ - 1]
  /\ UNCHANGED <<seen, call, answers, part, used>>

\* The process dies: the senders that wait for an answer see their connection
\* break, and nothing but the topic lasts.
EdgeRestart ==
  /\ seen' = NoIds
  /\ call' = [s \in Senders |-> {}]
  /\ answers' = [i \in Ids |->
       IF \E s \in Senders : i \in call[s] THEN answers[i] \cup {"failed"} ELSE answers[i]]
  /\ late' = [i \in Ids |-> 0]
  /\ UNCHANGED <<part, used>>

EdgeNext ==
  \/ \E s \in Senders, i \in Ids : PostDuplicate(s, i) \/ PostNew(s, i)
  \/ \E s \in Senders : ProduceAcked(s) \/ ProduceFails(s)
  \/ \E i \in Ids : LateWrite(i) \/ LateDrop(i)

-----------------------------------------------------------------------------

InCall(i) == \E s \in Senders : i \in call[s]
OnItsWay(i) == Landed(i) \/ InCall(i) \/ late[i] > 0

EdgeTypes ==
  /\ seen \in [set : SUBSET Ids, order : Seq(Ids)]
  /\ Cardinality(seen.set) <= MaxWebhookIDs
  /\ call \in [Senders -> {{}} \cup {{i} : i \in Ids}]
  /\ answers \in [Ids -> SUBSET {"accepted", "duplicate", "failed"}]
  /\ late \in [Ids -> Nat]
  /\ part \in [Partitions -> Seq(Ids)]
  /\ used \in Nat

\* A sender of i that was told "accepted" or "duplicate" can rely on it,
\* unless another request for i failed or broke off: nothing disappears
\* without some sender being told.
NoSilentLoss ==
  \A i \in Ids :
    answers[i] \cap {"accepted", "duplicate"} # {} =>
      Landed(i) \/ InCall(i) \/ "failed" \in answers[i]

\* "(accepted=false, err=nil) for an exact duplicate webhook_id, which the
\* caller treats as a success (the webhook is already on its way, or already
\* landed, from an earlier delivery attempt)."
DuplicateIsOnItsWay ==
  [][\A s \in Senders, i \in Ids : PostDuplicate(s, i) => OnItsWay(i)]_edgeVars

=============================================================================
