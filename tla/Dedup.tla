------------------------------- MODULE Dedup -------------------------------
(***************************************************************************)
(* The dedup of the ingest path (internal/ingest/dedup.go).  Admit runs    *)
(* under one mutex, so each call, whichever of the device connections      *)
(* makes it, is one step.  A device that is absent from the map d.seen is  *)
(* a device whose record is NewDeviceSeen: Admit creates it on first use   *)
(* and always leaves a number in it.                                       *)
(***************************************************************************)
EXTENDS SeenSet, FiniteSetsExt

CONSTANTS
  Devices,      \* device ids
  SeqNos,       \* sequence numbers (uint64 in the code; only compared)
  MaxAdmits     \* bound of the model: numbers admitted per device

ASSUME DedupAssumption == MaxAdmits \in Nat

VARIABLES
  seen,         \* seen[d]: the deviceSeen record of d
  history,      \* auxiliary: every number admitted for d, oldest first
  answer        \* auxiliary: what the last call returned

vars == <<seen, history, answer>>

Window == INSTANCE DedupWindow
            WITH log <- history, Window <- MaxSequencesPerDevice

Init ==
  /\ seen = [d \in Devices |-> NewDeviceSeen]
  /\ history = [d \in Devices |-> <<>>]
  /\ answer = Window!NoAnswer

\* Admit returns false: the number is in the set.
AdmitDuplicate(d, s) ==
  /\ s \in seen[d].set
  /\ answer' = Window!Answer(d, s, FALSE)
  /\ UNCHANGED <<seen, history>>

\* Admit returns true: the number is recorded, the oldest one may go.
AdmitNew(d, s) ==
  /\ Len(history[d]) < MaxAdmits
  /\ s \notin seen[d].set
  /\ seen' = [seen EXCEPT ![d] = Remember(@, s)]
  /\ history' = [history EXCEPT ![d] = Append(@, s)]
  /\ answer' = Window!Answer(d, s, TRUE)

Admit(d, s) == AdmitDuplicate(d, s) \/ AdmitNew(d, s)

Next == \E d \in Devices, s \in SeqNos : Admit(d, s)

Spec == Init /\ [][Next]_vars

-----------------------------------------------------------------------------

\* The types, and the bound the eviction keeps.
TypeOK ==
  /\ seen \in [Devices -> [set : SUBSET SeqNos, order : Seq(SeqNos)]]
  /\ history \in [Devices -> Seq(SeqNos)]
  /\ \A d \in Devices : Len(seen[d].order) <= MaxSequencesPerDevice

\* The set and the eviction queue of a device describe the same numbers: the
\* queue holds each member of the set once.  If they drift apart a number is
\* remembered for ever, or forgotten while it is still queued.
SetMatchesOrder ==
  \A d \in Devices :
    LET ds == seen[d] IN
    /\ ds.set = {ds.order[i] : i \in DOMAIN ds.order}
    /\ \A i, j \in DOMAIN ds.order : ds.order[i] = ds.order[j] => i = j

\* A number that was admitted twice for a device was pushed out by at least
\* MaxSequencesPerDevice other admissions in between: inside the documented
\* duplication window nothing is ever forwarded twice.
NoEarlyReadmission ==
  \A d \in Devices : \A i, j \in DOMAIN history[d] :
    i < j /\ history[d][i] = history[d][j] => j - i > MaxSequencesPerDevice

\* Admit answers exactly as the sliding window of the last
\* MaxSequencesPerDevice admissions does.
ImplementsWindow == Window!Spec

=============================================================================
