------------------------------ MODULE SeenSet ------------------------------
(***************************************************************************)
(* The bounded FIFO record of the sequence numbers admitted for one device *)
(* (type deviceSeen of internal/ingest/dedup.go): a set for membership and *)
(* the insertion order for eviction.                                       *)
(***************************************************************************)
EXTENDS Naturals, Sequences

CONSTANT MaxSequencesPerDevice    \* 4096 in the code

ASSUME CapAssumption == MaxSequencesPerDevice \in Nat \ {0}

\* The record of a device that was never heard of.
NewDeviceSeen == [set |-> {}, order |-> <<>>]

\* Deviation: one entry more than the cap is kept.
EvictOneLate(ds) ==
  IF Len(ds.order) > MaxSequencesPerDevice + 1
  THEN [set |-> ds.set \ {Head(ds.order)}, order |-> Tail(ds.order)]
  ELSE ds

\* Deviation: one entry less than the cap is kept.
EvictOneEarly(ds) ==
  IF Len(ds.order) >= MaxSequencesPerDevice
  THEN [set |-> ds.set \ {Head(ds.order)}, order |-> Tail(ds.order)]
  ELSE ds

\* Deviation: the number leaves the queue but not the set.
EvictFromOrderOnly(ds) ==
  IF Len(ds.order) > MaxSequencesPerDevice
  THEN [ds EXCEPT !.order = Tail(@)]
  ELSE ds

\* Deviation: the number to delete is taken from the queue after the cut.
EvictSecondOldest(ds) ==
  IF Len(ds.order) > MaxSequencesPerDevice
  THEN [set |-> ds.set \ {ds.order[2]}, order |-> Tail(ds.order)]
  ELSE ds

\* Drops the oldest entry of a record that has outgrown the cap.
EvictOldest(ds) ==
  IF Len(ds.order) > MaxSequencesPerDevice
  THEN [set |-> ds.set \ {Head(ds.order)}, order |-> Tail(ds.order)]
  ELSE ds

\* The record after a new sequence number was admitted.
Remember(ds, s) ==
  EvictOldest([set |-> ds.set \cup {s}, order |-> Append(ds.order, s)])

=============================================================================
