----------------------------- MODULE WorkQueue -----------------------------
(***************************************************************************)
(* The work queue of one I/O worker (io.c) and the write buffer behind it. *)
(* The dispatcher thread allocates entries, fills them, links them into    *)
(* the list that starts at io_seq and gives completed ones back; the       *)
(* worker thread walks that list, copies data and posts completions.  No   *)
(* lock protects the list, so every load or store that the other thread    *)
(* can see is a step of its own, in program order.  Pointers that only the *)
(* dispatcher reads (prev, io_seq_end, free_seq, free_seq_end) move along  *)
(* with the neighbouring step.                                             *)
(*                                                                         *)
(* Abstractions.  Queues of different workers share nothing, so there is   *)
(* one.  Time is a small counter.  A write fills one page of the open      *)
(* wordline; the page that completes a wordline schedules the internal     *)
(* operation that ends when the NAND program does.                         *)
(***************************************************************************)
EXTENDS Integers, Sequences, FiniteSets

CONSTANTS NR_ENTRIES,   \* NR_MAX_PARALLEL_IO
          NR_CMDS,      \* commands the host submits in a behaviour
          MAX_BACKLOG,  \* entries it leaves unfinished in the queue
          WL_PAGES,     \* pages in a wordline
          WB_SIZE,      \* pages in the write buffer (GLOBAL_WB_SIZE)
          WB_RELEASED,  \* SUPPORTED_SSD_TYPE(CONV) || SUPPORTED_SSD_TYPE(ZNS)
          MAX_CLOCK     \* bound on the clock

NONE    == -1
Entries == 0 .. (NR_ENTRIES - 1)
Links   == Entries \cup {NONE}
Cmds    == 1 .. NR_CMDS
Clock   == 0 .. MAX_CLOCK

ASSUME QueueAssumption ==
    /\ NR_ENTRIES \in Nat \ {0, 1} /\ NR_CMDS \in Nat \ {0} /\ MAX_BACKLOG \in Nat \ {0}
    /\ WL_PAGES \in Nat \ {0} /\ WB_SIZE \in Nat /\ WL_PAGES <= WB_SIZE
    /\ WB_RELEASED \in BOOLEAN /\ MAX_CLOCK \in Nat

VARIABLES
    work,                  \* worker->work_queue
    io_seq, io_seq_end,    \* list of entries in use
    free_seq, free_seq_end,\* list of free entries
    latest_nsecs, clock,
    remaining,             \* write_buffer->remaining, in pages
    wl,                    \* pages in the open wordline
    dpc, jobs, ent, pos, first,  \* dispatcher: pc, requests to enqueue, locals
    wpc, curr,             \* worker: pc and current entry
    kind,                  \* the host's commands: reads and writes
    sent, copied, completed      \* what happened to each command

listVars  == <<io_seq, io_seq_end, free_seq, free_seq_end>>
bufVars   == <<remaining, wl>>
dispVars  == <<dpc, jobs, ent, pos, first>>
workVars  == <<wpc, curr, latest_nsecs>>
hostVars  == <<sent, copied, completed, kind>>

vars == <<work, listVars, clock, bufVars, dispVars, workVars, hostVars>>

Init ==
    /\ work = [e \in Entries |->
                 [cmd |-> 0, target |-> 0, is_completed |-> FALSE, is_copied |-> FALSE,
                  is_internal |-> FALSE, prev |-> e - 1,
                  next |-> IF e = NR_ENTRIES - 1 THEN NONE ELSE e + 1]]
    /\ io_seq = NONE /\ io_seq_end = NONE
    /\ free_seq = 0 /\ free_seq_end = NR_ENTRIES - 1
    /\ latest_nsecs = 0 /\ clock = 0
    /\ remaining = WB_SIZE /\ wl = 0
    /\ dpc = "poll" /\ jobs = <<>> /\ ent = 0 /\ pos = NONE /\ first = NONE
    /\ wpc = "pass" /\ curr = NONE
    /\ kind \in [Cmds -> {"read", "write"}]
    /\ sent = {} /\ copied = {} /\ completed = [c \in Cmds |-> 0]

(***************************************************************************)
(* Dispatcher: __nvmev_proc_io                                             *)
(***************************************************************************)
\* The entries reached from e along next, in order.
Chain[e \in Links, n \in 0 .. NR_ENTRIES] ==
    IF e = NONE \/ n = 0 THEN <<>> ELSE <<e>> \o Chain[work[e].next, n - 1]

List(e) == Chain[e, NR_ENTRIES]

\* An entry that __reclaim_completed_reqs would take, if it were first.
reclaimable(e) ==
    work[e].is_completed /\ work[e].is_copied /\ work[e].target <= latest_nsecs

\* Entries in the list from the first unfinished one on.
Backlog ==
    LET used == List(io_seq) IN
      Cardinality({i \in 1 .. Len(used) : \E j \in 1 .. i : ~reclaimable(used[j])})

IoReq(c, t)    == [cmd |-> c, target |-> t, is_internal |-> FALSE]
InternalReq(t) == [cmd |-> 0, target |-> t, is_internal |-> TRUE]

\* The host's next command reaches the head of the submission queue.
NextCmd(c) ==
    /\ dpc = "poll"
    /\ c = Cardinality(sent) + 1
    /\ Backlog < MAX_BACKLOG
    /\ sent' = sent \cup {c}
    /\ dpc' = "alloc"
    /\ UNCHANGED <<work, listVars, clock, ent, pos, first, workVars, copied, completed, kind>>

Read(c) ==
    /\ kind[c] = "read"
    /\ NextCmd(c)
    /\ \E t \in clock .. MAX_CLOCK : jobs' = <<IoReq(c, t)>>
    /\ UNCHANGED bufVars

\* buffer_allocate takes one page or nothing.  Mutant: the last page is never
\* handed out.
page_left_to_spare == remaining > 1
page_left == remaining >= 1

\* A write that finds no room in the buffer is left in the submission queue
\* and tried again.  One that completes a wordline queues the internal
\* operation first, and itself after it.
Write(c) ==
    /\ kind[c] = "write"
    /\ NextCmd(c)
    /\ page_left
    /\ remaining' = remaining - 1
    /\ wl' = (wl + 1) % WL_PAGES
    /\ \E t \in clock .. MAX_CLOCK :
         \/ wl' # 0 /\ jobs' = <<IoReq(c, t)>>
         \/ wl' = 0 /\ \E prog \in t .. MAX_CLOCK : jobs' = <<InternalReq(prog), IoReq(c, t)>>

\* The request at hand is dealt with; the reclaim follows the last one.
NextJob ==
    /\ jobs' = Tail(jobs)
    /\ dpc' = IF Tail(jobs) # <<>> THEN "alloc" ELSE "reclaim"

\* __allocate_work_queue_entry keeps the last free entry.  Mutant: it is
\* handed out as well.
alloc_fails_never == FALSE
alloc_fails == work[free_seq].next = NONE

Drop ==
    /\ dpc = "alloc"
    /\ alloc_fails
    /\ NextJob
    /\ UNCHANGED <<work, listVars, clock, bufVars, ent, pos, first, workVars, hostVars>>

Allocate ==
    /\ dpc = "alloc"
    /\ ~alloc_fails
    /\ ent' = free_seq
    /\ free_seq' = work[free_seq].next
    /\ dpc' = "fill_request"
    /\ UNCHANGED <<work, io_seq, io_seq_end, free_seq_end, clock, bufVars, jobs, pos, first,
                   workVars, hostVars>>

(***************************************************************************)
(* Filling the entry, store by store.  An internal operation leaves the    *)
(* command fields of the entry's last use in place.                        *)
(***************************************************************************)
Fill(from, w, to) ==
    /\ dpc = from
    /\ work' = [work EXCEPT ![ent] = w]
    /\ dpc' = to
    /\ UNCHANGED <<listVars, clock, bufVars, jobs, ent, pos, first, workVars, hostVars>>

FillRequest ==
    LET r == Head(jobs) IN
      Fill("fill_request",
           [work[ent] EXCEPT !.cmd = IF r.is_internal THEN @ ELSE r.cmd, !.target = r.target],
           "fill_completed")

FillCompleted == Fill("fill_completed", [work[ent] EXCEPT !.is_completed = FALSE], "fill_copied")

FillCopied ==
    Fill("fill_copied", [work[ent] EXCEPT !.is_copied = Head(jobs).is_internal], "fill_links")

FillLinks == Fill("fill_links", [work[ent] EXCEPT !.prev = NONE, !.next = NONE], "fill_internal")

FillInternal ==
    /\ dpc = "fill_internal"
    /\ work' = [work EXCEPT ![ent].is_internal = Head(jobs).is_internal]
    /\ pos' = io_seq_end
    /\ dpc' = IF io_seq = NONE THEN "link_first" ELSE "seek"
    /\ UNCHANGED <<listVars, clock, bufVars, jobs, ent, first, workVars, hostVars>>

(***************************************************************************)
(* __insert_req_sorted: back from the tail, past the requests that are due *)
(* later and not overdue already, then linked in with the pointer that     *)
(* makes the entry reachable stored last.                                  *)
(***************************************************************************)
keeps_place(e) == work[e].target <= latest_nsecs \/ work[e].target <= Head(jobs).target

Seek ==
    /\ dpc = "seek"
    /\ \/ /\ pos # NONE /\ ~keeps_place(pos)
          /\ pos' = work[pos].prev
          /\ UNCHANGED <<work, dpc>>
       \/ /\ pos # NONE /\ keeps_place(pos)
          /\ work' = [work EXCEPT ![ent].prev = pos, ![ent].next = work[pos].next]
          /\ dpc' = "link_after"
          /\ UNCHANGED pos
       \/ /\ pos = NONE
          /\ work' = [work EXCEPT ![ent].next = io_seq, ![io_seq].prev = ent]
          /\ dpc' = "link_head"
          /\ UNCHANGED pos
    /\ UNCHANGED <<listVars, clock, bufVars, jobs, ent, first, workVars, hostVars>>

LinkFirst ==
    /\ dpc = "link_first"
    /\ io_seq' = ent /\ io_seq_end' = ent
    /\ NextJob
    /\ UNCHANGED <<work, free_seq, free_seq_end, clock, bufVars, ent, pos, first, workVars, hostVars>>

LinkHead ==
    /\ dpc = "link_head"
    /\ io_seq' = ent
    /\ NextJob
    /\ UNCHANGED <<work, io_seq_end, free_seq, free_seq_end, clock, bufVars, ent, pos, first,
                   workVars, hostVars>>

LinkAfter ==
    /\ dpc = "link_after"
    /\ LET after == work[ent].next IN
         IF after = NONE
         THEN /\ work' = [work EXCEPT ![pos].next = ent]
              /\ io_seq_end' = ent
         ELSE /\ work' = [work EXCEPT ![pos].next = ent, ![after].prev = ent]
              /\ UNCHANGED io_seq_end
    /\ NextJob
    /\ UNCHANGED <<io_seq, free_seq, free_seq_end, clock, bufVars, ent, pos, first, workVars, hostVars>>

(***************************************************************************)
(* __reclaim_completed_reqs: the completed prefix of the list goes to the  *)
(* end of the free list.  ent is the last entry of the prefix found so far.*)
(***************************************************************************)
Reclaim ==
    /\ dpc = "reclaim"
    /\ first' = io_seq /\ pos' = io_seq /\ ent' = NONE
    /\ dpc' = "scan"
    /\ UNCHANGED <<work, listVars, clock, bufVars, jobs, workVars, hostVars>>

Scan ==
    /\ dpc = "scan"
    /\ IF pos # NONE /\ reclaimable(pos)
       THEN ent' = pos /\ pos' = work[pos].next /\ UNCHANGED dpc
       ELSE dpc' = (IF ent = NONE THEN "poll" ELSE "unlink") /\ UNCHANGED <<ent, pos>>
    /\ UNCHANGED <<work, listVars, clock, bufVars, jobs, first, workVars, hostVars>>

Unlink ==
    /\ dpc = "unlink"
    /\ io_seq' = work[ent].next
    /\ dpc' = "cut"
    /\ UNCHANGED <<work, io_seq_end, free_seq, free_seq_end, clock, bufVars, jobs, ent, pos, first,
                   workVars, hostVars>>

\* Mutant: the reclaimed chain stays linked to the rest of the list.
CutNothing ==
    /\ dpc = "cut"
    /\ dpc' = "give_back"
    /\ UNCHANGED <<work, listVars, clock, bufVars, jobs, ent, pos, first, workVars, hostVars>>

Cut ==
    /\ dpc = "cut"
    /\ work' = [e \in Entries |->
                  IF e = ent THEN [work[e] EXCEPT !.next = NONE]
                  ELSE IF e = io_seq THEN [work[e] EXCEPT !.prev = NONE] ELSE work[e]]
    /\ dpc' = "give_back"
    /\ UNCHANGED <<listVars, clock, bufVars, jobs, ent, pos, first, workVars, hostVars>>

GiveBack ==
    /\ dpc = "give_back"
    /\ work' = [work EXCEPT ![first].prev = free_seq_end, ![free_seq_end].next = first]
    /\ free_seq_end' = ent
    /\ dpc' = "poll"
    /\ UNCHANGED <<io_seq, io_seq_end, free_seq, clock, bufVars, jobs, ent, pos, first,
                   workVars, hostVars>>

(***************************************************************************)
(* Worker: nvmev_io_worker                                                 *)
(***************************************************************************)
StartPass ==
    /\ wpc = "pass"
    /\ io_seq # NONE
    /\ curr' = io_seq
    /\ wpc' = "visit"
    /\ UNCHANGED <<work, listVars, clock, bufVars, dispVars, latest_nsecs, hostVars>>

\* Mutant: the worker looks at is_copied and the target only.
VisitAll ==
    /\ wpc = "visit"
    /\ latest_nsecs' = clock
    /\ wpc' = IF work[curr].is_copied THEN "check_due" ELSE "copy"
    /\ UNCHANGED <<work, listVars, clock, bufVars, dispVars, curr, hostVars>>

Visit ==
    /\ wpc = "visit"
    /\ latest_nsecs' = clock
    /\ wpc' = IF work[curr].is_completed THEN "advance"
              ELSE IF work[curr].is_copied THEN "check_due" ELSE "copy"
    /\ UNCHANGED <<work, listVars, clock, bufVars, dispVars, curr, hostVars>>

Copy ==
    /\ wpc = "copy"
    /\ copied' = IF work[curr].is_internal THEN copied ELSE copied \cup {work[curr].cmd}
    /\ wpc' = "mark_copied"
    /\ UNCHANGED <<work, listVars, clock, bufVars, dispVars, curr, latest_nsecs, sent, completed, kind>>

MarkCopied ==
    /\ wpc = "mark_copied"
    /\ work' = [work EXCEPT ![curr].is_copied = TRUE]
    /\ wpc' = "check_due"
    /\ UNCHANGED <<listVars, clock, bufVars, dispVars, curr, latest_nsecs, hostVars>>

CheckDue ==
    /\ wpc = "check_due"
    /\ wpc' = IF work[curr].target <= latest_nsecs THEN "finish" ELSE "advance"
    /\ UNCHANGED <<work, listVars, clock, bufVars, dispVars, curr, latest_nsecs, hostVars>>

\* buffer_release is compiled in for CONV and ZNS devices only.  Mutant: one
\* page is released for a whole wordline.
FinishInternalPage ==
    /\ wpc = "finish"
    /\ work[curr].is_internal
    /\ remaining' = IF WB_RELEASED THEN remaining + 1 ELSE remaining
    /\ wpc' = "mark_completed"
    /\ UNCHANGED <<work, listVars, clock, wl, dispVars, curr, latest_nsecs, hostVars>>

FinishInternal ==
    /\ wpc = "finish"
    /\ work[curr].is_internal
    /\ remaining' = IF WB_RELEASED THEN remaining + WL_PAGES ELSE remaining
    /\ wpc' = "mark_completed"
    /\ UNCHANGED <<work, listVars, clock, wl, dispVars, curr, latest_nsecs, hostVars>>

\* __fill_cq_result
FinishIo ==
    /\ wpc = "finish"
    /\ ~work[curr].is_internal
    /\ completed' = [completed EXCEPT ![work[curr].cmd] = @ + 1]
    /\ wpc' = "mark_completed"
    /\ UNCHANGED <<work, listVars, clock, bufVars, dispVars, curr, latest_nsecs, sent, copied, kind>>

MarkCompleted ==
    /\ wpc = "mark_completed"
    /\ work' = [work EXCEPT ![curr].is_completed = TRUE]
    /\ wpc' = "advance"
    /\ UNCHANGED <<listVars, clock, bufVars, dispVars, curr, latest_nsecs, hostVars>>

Advance ==
    /\ wpc = "advance"
    /\ curr' = work[curr].next
    /\ wpc' = IF curr' = NONE THEN "pass" ELSE "visit"
    /\ UNCHANGED <<work, listVars, clock, bufVars, dispVars, latest_nsecs, hostVars>>

Tick ==
    /\ clock < MAX_CLOCK
    /\ clock' = clock + 1
    /\ UNCHANGED <<work, listVars, bufVars, dispVars, workVars, hostVars>>

Enqueue ==
    \/ Drop \/ Allocate
    \/ FillRequest \/ FillCompleted \/ FillCopied \/ FillLinks \/ FillInternal
    \/ Seek \/ LinkFirst \/ LinkHead \/ LinkAfter

__reclaim_completed_reqs == Reclaim \/ Scan \/ Unlink \/ Cut \/ GiveBack

Dispatcher == (\E c \in Cmds : Read(c) \/ Write(c)) \/ Enqueue \/ __reclaim_completed_reqs

Worker ==
    StartPass \/ Visit \/ Copy \/ MarkCopied \/ CheckDue \/ FinishInternal \/ FinishIo
      \/ MarkCompleted \/ Advance

Next == Dispatcher \/ Worker \/ Tick

\* Both threads are kernel threads that loop until they are stopped, and
\* the clock runs.
Fairness == WF_vars(Dispatcher) /\ WF_vars(Worker) /\ WF_vars(Tick)

Spec == Init /\ [][Next]_vars /\ Fairness

(***************************************************************************)
(* Properties                                                              *)
(***************************************************************************)
Work == [cmd : Cmds \cup {0}, target : Clock, is_completed : BOOLEAN, is_copied : BOOLEAN,
         is_internal : BOOLEAN, prev : Links, next : Links]

\* Entries, links and thread states have their types, and the links the
\* threads follow never leave the array.
TypeOK ==
    /\ work \in [Entries -> Work]
    /\ io_seq \in Links /\ io_seq_end \in Links
    /\ free_seq \in Entries /\ free_seq_end \in Entries
    /\ latest_nsecs \in Clock /\ clock \in Clock
    /\ remaining \in Nat /\ wl \in 0 .. (WL_PAGES - 1)
    /\ ent \in Links /\ pos \in Links /\ first \in Links /\ curr \in Links
    /\ sent \subseteq Cmds /\ copied \subseteq Cmds /\ completed \in [Cmds -> Nat]

\* Between two commands the entries are divided between the two lists, each
\* doubly linked and ended by its end pointer, whatever the worker does.
QueueIntact ==
    dpc = "poll" =>
      LET used == List(io_seq)
          free == List(free_seq)
      IN
        /\ Len(used) + Len(free) = NR_ENTRIES
        /\ \A e \in Entries : \E i \in 1 .. NR_ENTRIES : (used \o free)[i] = e
        /\ free[Len(free)] = free_seq_end
        /\ used # <<>> => used[Len(used)] = io_seq_end
        /\ \A i \in 2 .. Len(used) : work[used[i]].prev = used[i - 1]
        /\ used # <<>> => work[used[1]].prev = NONE

\* The host gets one completion per command, and not before the command's
\* data have been copied: entries are reused while the worker still stands
\* on them, and filled field by field.
CompletedProperly ==
    \A c \in Cmds : completed[c] <= 1 /\ (completed[c] = 1 => c \in sent /\ c \in copied)

\* The worker never works on an entry that the dispatcher has taken from the
\* free list and not linked into the list yet (mb() in __enqueue_io_req).
SeesWholeEntry ==
    wpc \in {"copy", "mark_copied", "check_due", "finish", "mark_completed"} =>
      ~(curr = ent /\ dpc \notin {"poll", "alloc", "reclaim", "scan", "unlink", "cut", "give_back"})

\* Between two commands every buffer page is free, in the open wordline, or
\* held by an internal operation that has not completed.
Draining == {e \in Entries : \E i \in 1 .. Len(List(io_seq)) :
                List(io_seq)[i] = e /\ work[e].is_internal /\ ~work[e].is_completed
                  /\ ~(wpc = "mark_completed" /\ curr = e)}

BufferConserved ==
    dpc = "poll" => remaining + wl + WL_PAGES * Cardinality(Draining) = WB_SIZE

\* Every command the host has is accepted and completed: none is lost in the
\* queue, and a write that finds the buffer full gets its turn.
AllComplete == <>(\A c \in Cmds : completed[c] = 1)
=============================================================================
