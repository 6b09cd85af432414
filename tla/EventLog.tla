------------------------------ MODULE EventLog ------------------------------
(***************************************************************************)
(* What the FDP events log promises the host: the most recent events of    *)
(* the types it has enabled, latest first, at most FDP_NR_EVENTS of them.  *)
(* FdpEvents implements this specification.                                *)
(***************************************************************************)
EXTENDS Naturals, Sequences

CONSTANTS FDP_NR_EVENTS, Types, Pids

VARIABLES log, on

Latest(s) == SubSeq(s, 1, IF Len(s) < FDP_NR_EVENTS THEN Len(s) ELSE FDP_NR_EVENTS)

Init == log = <<>> /\ on = {}

Report(type, pid) ==
    /\ type \in on
    /\ log' = Latest(<<[type |-> type, pid |-> pid]>> \o log)
    /\ UNCHANGED on

Select == on' \in SUBSET Types /\ UNCHANGED log

Next == Select \/ \E type \in Types, pid \in Pids : Report(type, pid)

Spec == Init /\ [][Next]_<<log, on>>
=============================================================================
