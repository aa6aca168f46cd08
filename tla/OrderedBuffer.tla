---------------------------- MODULE OrderedBuffer ----------------------------
(***************************************************************************)
(* The resequencing buffer of cai/utils/event_buffer.py, as operators on   *)
(* its two fields: `store`, a partial function from indices to events, and *)
(* `next_idx_to_release`.  EventRouter keeps one per session; the Master   *)
(* keeps one per event source (MultiSourceBuffer).                         *)
(***************************************************************************)
EXTENDS Naturals

(***************************************************************************)
(* The assertion of OrderedBuffer.ingest fails: a live index is filled     *)
(* with a different event.                                                 *)
(***************************************************************************)
Conflicts(store, next, idx, t) ==
    /\ idx >= next
    /\ idx \in DOMAIN store
    /\ store[idx] # t

(***************************************************************************)
(* OrderedBuffer.ingest, when its assertion holds: an index already        *)
(* released, or already stored, leaves the store as it was.                *)
(***************************************************************************)
Ingest(store, next, idx, t) ==
    IF idx < next \/ idx \in DOMAIN store
    THEN store
    ELSE [i \in DOMAIN store \cup {idx} |-> IF i = idx THEN t ELSE store[i]]

(***************************************************************************)
(* The loop of drain and drain_indexed stops at k: every index from next   *)
(* up to k - 1 is in the store, and k is not.                              *)
(***************************************************************************)
DrainStops(store, next, k) ==
    /\ k \notin DOMAIN store
    /\ \A i \in next .. k - 1 : i \in DOMAIN store

(***************************************************************************)
(* The indices at which that loop can stop: where it starts, or right      *)
(* after an entry it popped.                                               *)
(***************************************************************************)
DrainRange(store, next) ==
    {next} \cup {i + 1 : i \in {j \in DOMAIN store : j >= next}}

(***************************************************************************)
(* What the loop returns, and what it leaves in the store.                 *)
(***************************************************************************)
Drained(store, next, k) == [i \in 1 .. k - next |-> store[next + i - 1]]

Remaining(store, next, k) ==
    [i \in DOMAIN store \ (next .. k - 1) |-> store[i]]
=============================================================================
