------------------------------ MODULE IoQueues ------------------------------
(***************************************************************************)
(* An I/O submission queue and its completion queue, from the doorbells    *)
(* (nvmev_proc_dbs in main.c, nvmev_proc_io_sq and nvmev_proc_io_cq in     *)
(* io.c) over several workers (__fill_cq_result and the interrupt loop of  *)
(* nvmev_io_worker) to the host, with the creation and deletion of both    *)
(* queues (admin.c).  What happens to a command inside one worker's list   *)
(* is the subject of WorkQueue; here a worker holds a set of due commands  *)
(* and takes them in any order.                                            *)
(*                                                                         *)
(* The host is external: it keeps fewer commands in flight than either     *)
(* ring has entries, reuses a submission slot when the command in it has   *)
(* been answered, looks at the completion queue only from its interrupt    *)
(* handler, and deletes queues that nobody works on (Quiet).               *)
(***************************************************************************)
EXTENDS Integers, FiniteSets

CONSTANTS
  SQ_SIZE, CQ_SIZE,  \* queue_size of the two queues
  NR_WORKERS,        \* I/O worker threads
  NR_CMDS,           \* commands the host submits
  NR_SESSIONS,       \* times the host creates the pair of queues
  NULL

ASSUME SizeAssumption ==
  /\ SQ_SIZE \in Nat \ {0, 1} /\ CQ_SIZE \in Nat \ {0, 1}
  /\ NR_WORKERS \in Nat \ {0}

\* NULL is no thread, no command identifier and no queue.
ASSUME NullAssumption ==
  /\ NULL \notin Nat
  /\ NULL \notin [nr_in_flight : Int]
  /\ NULL \notin [cq_head : Nat, phase : {0, 1}, interrupt_ready : BOOLEAN]

VARIABLES
  sq, cq,            \* sqes[qid] and cqes[qid], or NULL
  sqmem, cqmem,      \* the rings, in host memory
  dbs, old_dbs,      \* doorbells of the two queues, written and processed
  io_worker_turn,    \* the worker of the next command
  turn,              \* which doorbells nvmev_proc_dbs comes to next
  work,              \* of each worker: enqueued commands not yet completed
  wpc, wreq,         \* of each worker: where it is, and the command it completes
  entry_lock,        \* holder of cq->entry_lock
  irq_lock,          \* holder of cq->irq_lock
  irq,               \* an interrupt is pending at the host
  host               \* the driver

dev == <<sq, cq, old_dbs, turn, io_worker_turn, work>>
wloc == <<wpc, wreq, entry_lock, irq_lock>>
ioVars == <<dev, sqmem, cqmem, dbs, wloc, irq, host>>

Workers == 0 .. NR_WORKERS - 1
SqSlots == 0 .. SQ_SIZE - 1
CqSlots == 0 .. CQ_SIZE - 1
EmptyCq == [s \in CqSlots |-> [command_id |-> NULL, phase |-> 0]]
Bump(s, size) == IF s + 1 = size THEN 0 ELSE s + 1

IoInit ==
  /\ sq = NULL /\ cq = NULL
  /\ sqmem = [s \in SqSlots |-> NULL] /\ cqmem = EmptyCq
  /\ dbs = [sq |-> 0, cq |-> 0] /\ old_dbs = dbs /\ turn = "sq" /\ io_worker_turn = 0
  /\ work = [w \in Workers |-> {}]
  /\ wpc = [w \in Workers |-> "pass"] /\ wreq = [w \in Workers |-> NULL]
  /\ entry_lock = NULL /\ irq_lock = NULL
  /\ irq = FALSE
  /\ host = [isr |-> FALSE, tail |-> 0, head |-> 0, phase |-> 1, sent |-> 0,
             flying |-> {}, sessions |-> 0]

-----------------------------------------------------------------------------
(* Queue management, on the dispatcher's thread (admin.c).                 *)

CreateCq ==
  /\ cq = NULL /\ sq = NULL
  /\ host.sessions < NR_SESSIONS
  /\ cq' = [cq_head |-> 0, phase |-> 1, interrupt_ready |-> FALSE]
  /\ dbs' = [dbs EXCEPT !.cq = 0] /\ old_dbs' = [old_dbs EXCEPT !.cq = 0]
  /\ cqmem' = EmptyCq
  /\ host' = [host EXCEPT !.head = 0, !.phase = 1, !.sessions = @ + 1]
  /\ UNCHANGED <<turn, io_worker_turn, sq, work, sqmem, wloc, irq>>

CreateSq ==
  /\ sq = NULL /\ cq # NULL
  /\ host.tail = 0 /\ host.flying = {}
  /\ sq' = [nr_in_flight |-> 0]
  /\ dbs' = [dbs EXCEPT !.sq = 0] /\ old_dbs' = [old_dbs EXCEPT !.sq = 0]
  /\ UNCHANGED <<turn, io_worker_turn, cq, work, sqmem, cqmem, wloc, irq, host>>

\* No command of the queue is with the device and no worker is inside it.
Quiet ==
  /\ \A w \in Workers : work[w] = {} /\ wpc[w] = "pass"
  /\ dbs.sq = old_dbs.sq

\* SPDK deletes the submission queue before it has processed the last
\* completions; the completion queue goes only after that.
DeleteSq ==
  /\ sq # NULL /\ Quiet
  /\ host.sessions < NR_SESSIONS
  /\ sq' = NULL
  /\ host' = [host EXCEPT !.tail = SQ_SIZE]   \* no more submissions
  /\ UNCHANGED <<turn, io_worker_turn, cq, old_dbs, work, sqmem, cqmem, dbs, wloc, irq>>

DeleteCq ==
  /\ cq # NULL /\ sq = NULL /\ Quiet
  /\ host.tail = SQ_SIZE /\ host.flying = {} /\ ~host.isr /\ ~irq
  /\ ~cq.interrupt_ready
  /\ cq' = NULL
  /\ host' = [host EXCEPT !.tail = 0]
  /\ UNCHANGED <<turn, io_worker_turn, sq, old_dbs, work, sqmem, cqmem, dbs, wloc, irq>>

-----------------------------------------------------------------------------
(* The dispatcher's doorbells.                                             *)

\* nvmev_proc_io_sq up to the n-th command; the rest is refused by the
\* translation layer (no buffer) and retried.  Workers take turns
\* (__allocate_work_queue_entry).  A pass of nvmev_proc_dbs comes
\* to the completion queue after it, so that no second round of commands is
\* taken while a completion doorbell waits.
num_proc == LET n == dbs.sq - old_dbs.sq IN IF n < 0 THEN n + SQ_SIZE ELSE n
entry_at(i) == (old_dbs.sq + i) % SQ_SIZE
worker_at(i) == (io_worker_turn + i) % NR_WORKERS

ProcIoSq(n) ==
  /\ sq # NULL /\ dbs.sq # old_dbs.sq
  /\ turn = "sq" \/ dbs.cq = old_dbs.cq
  /\ turn' = "cq"
  /\ work' = [w \in Workers |-> work[w] \cup
                {[entry |-> entry_at(i), command_id |-> sqmem[entry_at(i)], copied |-> NULL] :
                   i \in {j \in 0 .. n - 1 : worker_at(j) = w}}]
  /\ io_worker_turn' = worker_at(n)
  /\ sq' = [sq EXCEPT !.nr_in_flight = @ + n]
  /\ old_dbs' = [old_dbs EXCEPT !.sq = entry_at(n)]
  /\ UNCHANGED <<cq, sqmem, cqmem, dbs, wloc, irq, host>>

\* nvmev_proc_io_cq: the loop from the old to the new doorbell, around the
\* end of the ring; entries of a deleted queue are skipped.
\* Mutant: the loop runs over the wrap-around without starting again at 0.
acknowledged_flat(old, new) == IF new < old THEN CQ_SIZE - old ELSE new - old

acknowledged(old, new) == (new - old) % CQ_SIZE

ProcIoCq ==
  /\ cq # NULL /\ dbs.cq # old_dbs.cq
  /\ sq' = IF sq = NULL THEN NULL
           ELSE [sq EXCEPT !.nr_in_flight = @ - acknowledged(old_dbs.cq, dbs.cq)]
  /\ old_dbs' = [old_dbs EXCEPT !.cq = dbs.cq]
  /\ turn' = "sq"
  /\ UNCHANGED <<io_worker_turn, cq, work, sqmem, cqmem, dbs, wloc, irq, host>>

-----------------------------------------------------------------------------
(* A worker: copy the data of a due command, complete it, raise interrupts.*)

goto(w, pc) == wpc' = [wpc EXCEPT ![w] = pc]

\* __do_perform_io reads the submission entry again, where it is now.
PerformIo(w, r) ==
  /\ wpc[w] = "pass" /\ r.copied = NULL
  /\ work' = [work EXCEPT ![w] = (@ \ {r}) \cup {[r EXCEPT !.copied = sqmem[r.entry]]}]
  /\ UNCHANGED <<turn, io_worker_turn, sq, cq, old_dbs, sqmem, cqmem, dbs, wloc, irq, host>>

\* __fill_cq_result under entry_lock, store by store.
\* Mutant: completions are filled in without the lock.
TakeNoLock(w, r) ==
  /\ wpc[w] = "pass" /\ r.copied # NULL
  /\ wreq' = [wreq EXCEPT ![w] = r]
  /\ goto(w, "ids")
  /\ UNCHANGED <<dev, sqmem, cqmem, dbs, entry_lock, irq_lock, irq, host>>

TakeEntryLock(w, r) ==
  /\ wpc[w] = "pass" /\ r.copied # NULL
  /\ entry_lock = NULL
  /\ entry_lock' = w
  /\ wreq' = [wreq EXCEPT ![w] = r]
  /\ goto(w, "ids")
  /\ UNCHANGED <<dev, sqmem, cqmem, dbs, irq_lock, irq, host>>

\* Mutant: the status, with the phase, is stored first.
StoreStatusFirst(w) ==
  /\ wpc[w] = "ids"
  /\ cqmem' = [cqmem EXCEPT ![cq.cq_head].phase = cq.phase]
  /\ goto(w, "status")
  /\ UNCHANGED <<dev, sqmem, dbs, wreq, entry_lock, irq_lock, irq, host>>

StoreIds(w) ==
  /\ wpc[w] = "ids"
  /\ cqmem' = [cqmem EXCEPT ![cq.cq_head].command_id = wreq[w].command_id]
  /\ goto(w, "status")
  /\ UNCHANGED <<dev, sqmem, dbs, wreq, entry_lock, irq_lock, irq, host>>

StoreStatus(w) ==
  /\ wpc[w] = "status"
  /\ cqmem' = [cqmem EXCEPT ![cq.cq_head].phase = cq.phase]
  /\ goto(w, "advance")
  /\ UNCHANGED <<dev, sqmem, dbs, wreq, entry_lock, irq_lock, irq, host>>

next_phase == IF cq.cq_head + 1 = CQ_SIZE THEN 1 - cq.phase ELSE cq.phase

\* Mutant: interrupt_ready is left as it is.
AdvanceCqSilent(w) ==
  /\ wpc[w] = "advance"
  /\ cq' = [cq EXCEPT !.cq_head = Bump(@, CQ_SIZE), !.phase = next_phase]
  /\ entry_lock' = NULL
  /\ work' = [work EXCEPT ![w] = @ \ {wreq[w]}]
  /\ wreq' = [wreq EXCEPT ![w] = NULL]
  /\ goto(w, "pass")
  /\ UNCHANGED <<turn, io_worker_turn, sq, old_dbs, sqmem, cqmem, dbs, irq_lock, irq, host>>

AdvanceCq(w) ==
  /\ wpc[w] = "advance"
  /\ cq' = [cq_head |-> Bump(cq.cq_head, CQ_SIZE), phase |-> next_phase,
            interrupt_ready |-> TRUE]
  /\ entry_lock' = NULL
  /\ work' = [work EXCEPT ![w] = @ \ {wreq[w]}]
  /\ wreq' = [wreq EXCEPT ![w] = NULL]
  /\ goto(w, "pass")
  /\ UNCHANGED <<turn, io_worker_turn, sq, old_dbs, sqmem, cqmem, dbs, irq_lock, irq, host>>

\* The interrupt loop at the end of a pass: trylock, test, clear, signal.
SeeReady(w) ==
  /\ wpc[w] = "pass" /\ cq # NULL
  /\ irq_lock = NULL /\ cq.interrupt_ready
  /\ irq_lock' = w
  /\ goto(w, "clear")
  /\ UNCHANGED <<dev, sqmem, cqmem, dbs, wreq, entry_lock, irq, host>>

ClearReady(w) ==
  /\ wpc[w] = "clear"
  /\ cq' = [cq EXCEPT !.interrupt_ready = FALSE]
  /\ goto(w, "signal")
  /\ UNCHANGED <<turn, io_worker_turn, sq, old_dbs, work, sqmem, cqmem, dbs, wreq, entry_lock, irq_lock, irq, host>>

SignalIrq(w) ==
  /\ wpc[w] = "signal"
  /\ irq' = TRUE
  /\ irq_lock' = NULL
  /\ goto(w, "pass")
  /\ UNCHANGED <<dev, sqmem, cqmem, dbs, wreq, entry_lock, host>>

Worker(w) ==
  \/ \E r \in work[w] : PerformIo(w, r) \/ TakeEntryLock(w, r)
  \/ StoreIds(w) \/ StoreStatus(w) \/ AdvanceCq(w)
  \/ SeeReady(w) \/ ClearReady(w) \/ SignalIrq(w)

-----------------------------------------------------------------------------
(* The host driver (external).                                             *)

room ==
  /\ Cardinality(host.flying) < SQ_SIZE - 1
  /\ Cardinality(host.flying) + ((host.head - dbs.cq) % CQ_SIZE) < CQ_SIZE - 1

HostSubmit ==
  /\ sq # NULL /\ host.sent < NR_CMDS /\ room
  /\ sqmem[host.tail] \notin host.flying
  /\ sqmem' = [sqmem EXCEPT ![host.tail] = host.sent + 1]
  /\ dbs' = [dbs EXCEPT !.sq = Bump(host.tail, SQ_SIZE)]
  /\ host' = [host EXCEPT !.sent = @ + 1, !.tail = dbs'.sq, !.flying = @ \cup {host.sent + 1}]
  /\ UNCHANGED <<dev, cqmem, wloc, irq>>

HostIrq ==
  /\ irq /\ ~host.isr
  /\ irq' = FALSE
  /\ host' = [host EXCEPT !.isr = TRUE]
  /\ UNCHANGED <<dev, sqmem, cqmem, dbs, wloc>>

fresh == cqmem[host.head].phase = host.phase

HostSee ==
  /\ host.isr /\ fresh
  /\ host' = [host EXCEPT !.flying = @ \ {cqmem[host.head].command_id},
                          !.head = Bump(@, CQ_SIZE),
                          !.phase = IF host.head + 1 = CQ_SIZE THEN 1 - @ ELSE @]
  /\ UNCHANGED <<dev, sqmem, cqmem, dbs, wloc, irq>>

HostIrqEnd ==
  /\ host.isr /\ ~fresh
  /\ dbs' = [dbs EXCEPT !.cq = host.head]
  /\ host' = [host EXCEPT !.isr = FALSE]
  /\ UNCHANGED <<dev, sqmem, cqmem, wloc, irq>>

Dispatch ==
  \/ \E n \in 1 .. num_proc : ProcIoSq(n)
  \/ ProcIoCq
HostIsr == HostIrq \/ HostSee \/ HostIrqEnd

IoNext ==
  \/ CreateCq \/ CreateSq \/ DeleteSq \/ DeleteCq
  \/ Dispatch
  \/ \E w \in Workers : Worker(w)
  \/ HostSubmit \/ HostIsr

IoSpec ==
  /\ IoInit /\ [][IoNext]_ioVars
  /\ WF_ioVars(Dispatch) /\ WF_ioVars(HostIsr)
  /\ \A w \in Workers : WF_ioVars(Worker(w))

-----------------------------------------------------------------------------
(* Properties.                                                             *)

\* A completion the host accepts in its interrupt handler belongs to a
\* command in flight whose own data has been transferred: with several
\* workers posting, over the wrap-around of the ring and the flip of the
\* phase, and after the queues have been created again, no entry is taken
\* twice, half written or stale.
CompletionOwn ==
  host.isr /\ fresh =>
    LET c == cqmem[host.head].command_id IN
      /\ c \in host.flying
      /\ \A w \in Workers : \A r \in work[w] : r.command_id = c => r.copied = c

\* nr_in_flight of the submission queue counts the commands dispatched and
\* not acknowledged: those the host still waits for less the ones not
\* dispatched yet, plus the completions seen whose doorbell is not written,
\* or written and not processed.  It never counts fewer.  It counts more by
\* whole rounds of the completion ring, one for each time the host's doorbell
\* goes all the way round between two looks of the dispatcher: to it
\* the doorbell has not moved.
in_flight ==
  Cardinality(host.flying) - num_proc
    + ((host.head - dbs.cq) % CQ_SIZE) + ((dbs.cq - old_dbs.cq) % CQ_SIZE)

InFlightExact ==
  sq # NULL =>
    /\ sq.nr_in_flight >= in_flight
    /\ (sq.nr_in_flight - in_flight) % CQ_SIZE = 0

\* The entries posted and not seen lie between the host's and the device's
\* position, all of the phase the host expects when it gets there, and the
\* entry after them is not: the host neither misses a completion nor runs
\* into the previous lap.
pending == LET n == (cq.cq_head - host.head) % CQ_SIZE IN
             {(host.head + i) % CQ_SIZE : i \in 0 .. n - 1}
expected(s) == IF s >= host.head THEN host.phase ELSE 1 - host.phase

RingReadable ==
  (cq # NULL /\ \A w \in Workers : wpc[w] \notin {"status", "advance"}) =>
    \A s \in CqSlots : (s \in pending) <=> (cqmem[s].phase = expected(s))

\* Every command submitted (NR_CMDS bounds them) is eventually seen complete by the host's
\* interrupt handler: no interrupt is lost between the workers that set and
\* the one that clears interrupt_ready.
EveryCommandSeen == (host.flying # {}) ~> (host.flying = {})

=============================================================================
