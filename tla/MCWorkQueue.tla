---------------------------- MODULE MCWorkQueue ----------------------------
(***************************************************************************)
(* Model checking of WorkQueue under three loads, chosen at the start:     *)
(*   reuse  the constants of the configuration: few commands at a time and *)
(*          a small buffer, so that entries and buffer pages are reused    *)
(*          while the worker still walks;                                  *)
(*   depth  a backlog of several requests, so that insertions happen at    *)
(*          the head, in the middle and at the tail of the list;           *)
(*   full   so few entries that allocations fail and requests are dropped. *)
(* A dropped request never completes, and three entries turn over while    *)
(* the worker stands on one: the properties of commands are for the first  *)
(* two loads, those of the lists for all three.                            *)
(***************************************************************************)
EXTENDS WorkQueue

VARIABLE load

loadVars == <<vars, load>>

Depth == INSTANCE WorkQueue WITH NR_CMDS <- 3, MAX_BACKLOG <- 3, WB_SIZE <- 4
Full  == INSTANCE WorkQueue WITH NR_ENTRIES <- 3, NR_CMDS <- 3, MAX_BACKLOG <- 3

\* Two writes complete a wordline, so that there is an internal operation; a
\* third finds the buffer of the first load full.
Writes == Cardinality({c \in DOMAIN kind : kind[c] = "write"})

LoadInit ==
    \/ load = "reuse" /\ Init /\ Writes >= 3
    \/ load = "depth" /\ Depth!Init /\ Writes = 2
    \/ load = "full"  /\ Full!Init /\ Writes = 2

LoadDispatcher ==
    \/ load = "reuse" /\ Dispatcher
    \/ load = "depth" /\ Depth!Dispatcher
    \/ load = "full"  /\ Full!Dispatcher

LoadWorker ==
    \/ load = "reuse" /\ Worker
    \/ load = "depth" /\ Depth!Worker
    \/ load = "full"  /\ Full!Worker

LoadNext == (LoadDispatcher \/ LoadWorker \/ Tick) /\ UNCHANGED load

LoadSpec ==
    /\ LoadInit /\ [][LoadNext]_loadVars
    /\ WF_loadVars(LoadDispatcher /\ UNCHANGED load)
    /\ WF_loadVars(LoadWorker /\ UNCHANGED load)
    /\ WF_loadVars(Tick /\ UNCHANGED load)

\* WorkQueue!TypeOK: entries, links and thread states have their types under
\* every load.
LoadTypeOK ==
    CASE load = "reuse" -> TypeOK [] load = "depth" -> Depth!TypeOK [] load = "full" -> Full!TypeOK

\* WorkQueue!QueueIntact under every load: __insert_req_sorted and
\* __reclaim_completed_reqs keep both lists whole, even when allocations fail.
ListsIntact ==
    CASE load = "reuse" -> QueueIntact
      [] load = "depth" -> Depth!QueueIntact
      [] load = "full"  -> Full!QueueIntact

\* WorkQueue!CompletedProperly: no command is completed twice or before its
\* data have been copied, as long as the free list is not exhausted.
CompletedOnce ==
    CASE load = "reuse" -> CompletedProperly
      [] load = "depth" -> Depth!CompletedProperly
      [] load = "full"  -> TRUE

\* WorkQueue!BufferConserved, as long as no internal operation is dropped.
BufferKept ==
    CASE load = "reuse" -> BufferConserved
      [] load = "depth" -> Depth!BufferConserved
      [] load = "full"  -> TRUE

\* Every command the host has is accepted and completed unless an allocation
\* can fail: none is lost in the queue, and a write that finds the buffer full
\* gets its turn.
EveryoneServed ==
    <>(load = "full" \/ \A c \in DOMAIN completed : completed[c] = 1)
=============================================================================
