------------------------------ MODULE FdpEvents ------------------------------
(***************************************************************************)
(* FDP events (fdp_ftl.c): the ring of records in fdp_ctx, the enable mask *)
(* that Set Features 0x1E changes, and the events log page that the host   *)
(* reads.  All of it runs on the dispatcher thread.                        *)
(*                                                                         *)
(* Abstractions.  A record is its type and placement identifier; flags,    *)
(* namespace and timestamp follow from where it is emitted.  Type "other"  *)
(* stands for every type the device does not support.                      *)
(***************************************************************************)
EXTENDS Integers, Sequences

CONSTANTS FDP_NR_EVENTS,  \* records in the ring
          Pids,           \* placement identifiers in records
          NOET_MAX,       \* most descriptors in a Set Features command
          NO_RECORD       \* the zeroed record

Types     == {"RU_NOT_FULLY_WRITTEN", "INVALID_PID", "IMPLICIT_MODIFIED_RU"}
Records   == [type : Types, pid : Pids]
EventDesc == [evt : Types \cup {"other"}, evta : {0, 1}]

ASSUME EventsAssumption ==
    /\ FDP_NR_EVENTS \in Nat \ {0}
    /\ NOET_MAX \in Nat
    /\ NO_RECORD \notin Records

VARIABLES ring,       \* the records
          ring_head,  \* next slot to write
          nr_events,  \* valid records
          enabled     \* the enabled types

vars == <<ring, ring_head, nr_events, enabled>>

Init ==
    /\ ring = [i \in 0 .. (FDP_NR_EVENTS - 1) |-> NO_RECORD]
    /\ ring_head = 0 /\ nr_events = 0
    /\ enabled = {}

\* Mutant: nr_events counts on past the size of the ring.
count_on(n)     == n + 1
count_events(n) == IF n < FDP_NR_EVENTS THEN n + 1 ELSE n

fdp_emit_event(type, pid) ==
    IF type \in enabled
    THEN /\ ring' = [ring EXCEPT ![ring_head] = [type |-> type, pid |-> pid]]
         /\ ring_head' = (ring_head + 1) % FDP_NR_EVENTS
         /\ nr_events' = count_events(nr_events)
         /\ UNCHANGED enabled
    ELSE UNCHANGED vars

\* The mask after a Set Features command: the descriptors are applied in
\* order, so that the last one that names a type decides, and a type that
\* none of them names stays as it was.
fdp_set_feature_events(descs) ==
    /\ enabled' = {type \in Types :
                     \/ \E i \in DOMAIN descs :
                          /\ descs[i] = [evt |-> type, evta |-> 1]
                          /\ \A j \in (i + 1) .. Len(descs) : descs[j].evt # type
                     \/ type \in enabled /\ \A i \in DOMAIN descs : descs[i].evt # type}
    /\ UNCHANGED <<ring, ring_head, nr_events>>

\* The events log page.  Mutant: the walk starts at the slot to be written.
slot_at_head(i) == (ring_head + FDP_NR_EVENTS - i) % FDP_NR_EVENTS
slot(i)         == (ring_head + FDP_NR_EVENTS - 1 - i) % FDP_NR_EVENTS

fdp_get_log_page == [i \in 1 .. nr_events |-> ring[slot(i - 1)]]

Descs == UNION {[1 .. n -> EventDesc] : n \in 0 .. NOET_MAX}

\* fdp_write emits INVALID_PID and do_gc IMPLICIT_MODIFIED_RU.
Next ==
    \/ \E pid \in Pids : fdp_emit_event("INVALID_PID", pid)
    \/ \E pid \in Pids : fdp_emit_event("IMPLICIT_MODIFIED_RU", pid)
    \/ \E descs \in Descs : fdp_set_feature_events(descs)

Spec == Init /\ [][Next]_vars

(***************************************************************************)
(* Properties                                                              *)
(***************************************************************************)
\* Counters, mask and records have their types: nr_events, which the log
\* page uses as its length, never exceeds the ring.
TypeOK ==
    /\ ring \in [0 .. (FDP_NR_EVENTS - 1) -> Records \cup {NO_RECORD}]
    /\ ring_head \in 0 .. (FDP_NR_EVENTS - 1)
    /\ nr_events \in 0 .. FDP_NR_EVENTS
    /\ enabled \subseteq Types

Abstract == INSTANCE EventLog WITH log <- fdp_get_log_page, on <- enabled

\* The page the host would read at any moment is the log it was promised:
\* the ring, its head and its count together behave as a bounded list of the
\* enabled events, latest first, before and after the ring wraps round.
LogKept == Abstract!Spec
=============================================================================
