----------------------------- MODULE Controller -----------------------------
(***************************************************************************)
(* The controller registers and the admin queue: nvmev_proc_bars (pci.c),  *)
(* the admin half of nvmev_proc_dbs (main.c) and the admin command loop    *)
(* (admin.c).  One dispatcher thread polls the registers that the host     *)
(* writes, one change per call, and then the two admin doorbells.          *)
(*                                                                         *)
(* The host is external: a driver that programs AQA, ASQ and ACQ in any    *)
(* order, sets CC.EN, waits for CSTS.RDY, submits admin commands, and ends *)
(* the session with a shutdown or a plain reset.  Every session uses queue *)
(* memory other than the previous one's (AREAS), as a driver that frees    *)
(* and allocates its rings does; see the README for a driver that does not.*)
(***************************************************************************)
EXTENDS Integers, Sequences, FiniteSets

CONSTANTS
  AREAS,        \* host memory areas, each an admin SQ and an admin CQ
  DEPTHS,       \* queue depths the host may program (AQA.ASQS/ACQS + 1)
  NR_CMDS,      \* admin commands the host submits
  NR_SESSIONS,  \* times the host enables the controller
  NONE          \* a register that reads zero, a pointer that is NULL

ASSUME DepthAssumption == DEPTHS \subseteq Nat \ {0, 1}

VARIABLES
  bar,      \* struct nvme_ctrl_regs: what the host writes, and CSTS
  old_bar,  \* the values the dispatcher has processed
  admin_q,  \* nvmev_vdev->admin_q
  dbs,      \* admin doorbells
  old_dbs,  \* admin doorbells already processed
  sqmem,    \* admin submission queue memory of each area
  cqmem,    \* admin completion queue memory of each area
  disp,     \* the dispatcher: where it is, and the loop over the admin SQ
  host      \* the driver

vars == <<bar, old_bar, admin_q, dbs, old_dbs, sqmem, cqmem, disp, host>>

Slots == 0 .. (CHOOSE d \in DEPTHS : \A e \in DEPTHS : e <= d) - 1

\* nvme_admin_abort_cmd is the one opcode that gets no completion; every other
\* one, known or not, ends in __make_cq_entry.
Kinds == {"answered", "abort"}

Init ==
  /\ bar = [aqa |-> 0, asq |-> NONE, acq |-> NONE, en |-> 0, shn |-> 0,
            rdy |-> 0, shst |-> 0]
  /\ old_bar = [aqa |-> 0, asq |-> NONE, acq |-> NONE, cc |-> <<0, 0>>]
  /\ admin_q = NONE
  /\ dbs = [sq |-> 0, cq |-> 0]
  /\ old_dbs = dbs
  /\ sqmem = [a \in AREAS |-> [s \in Slots |-> NONE]]
  /\ cqmem = [a \in AREAS |-> [s \in Slots |-> [cid |-> 0, phase |-> 0]]]
  /\ disp = [pc |-> "bars", new |-> 0, curr |-> 0]
  /\ host = [pc |-> "off", area |-> NONE, depth |-> 0, todo |-> {}, tail |-> 0,
             head |-> 0, phase |-> 1, waiting |-> <<>>, sent |-> 0, sessions |-> 0]

-----------------------------------------------------------------------------
(* The dispatcher: one call of nvmev_proc_bars handles the first change in *)
(* the order AQA, ASQ, ACQ, CC and goes on to the doorbells.               *)

at(pc) == disp.pc = pc
goto(pc) == disp' = [disp EXCEPT !.pc = pc]
host_side == <<sqmem, cqmem, host>>
bars_same == <<bar, old_bar, admin_q>>

aqa_changed == old_bar.aqa # bar.aqa
asq_changed == old_bar.asq # bar.asq
acq_changed == old_bar.acq # bar.acq
cc_changed  == old_bar.cc # <<bar.en, bar.shn>>

new_admin_q ==
  IF admin_q = NONE
  THEN [cq_head |-> 0, phase |-> 1, sq_depth |-> bar.aqa, cq_depth |-> bar.aqa,
        nvme_sq |-> NONE, nvme_cq |-> NONE]
  ELSE [admin_q EXCEPT !.cq_head = 0, !.phase = 1,
                       !.sq_depth = bar.aqa, !.cq_depth = bar.aqa]

ProcAqa ==
  /\ at("bars") /\ aqa_changed
  /\ old_bar' = [old_bar EXCEPT !.aqa = bar.aqa]
  /\ admin_q' = new_admin_q
  /\ dbs' = [sq |-> 0, cq |-> 0]
  /\ old_dbs' = dbs'
  /\ goto("dbs")
  /\ UNCHANGED <<bar, host_side>>

\* "asq triggered before aqa, retrying": with no queue yet, nothing is done.
ProcBeforeAqa ==
  /\ at("bars") /\ ~aqa_changed /\ (asq_changed \/ acq_changed)
  /\ admin_q = NONE
  /\ goto("dbs")
  /\ UNCHANGED <<bars_same, dbs, old_dbs, host_side>>

ProcAsq ==
  /\ at("bars") /\ ~aqa_changed /\ asq_changed
  /\ admin_q # NONE
  /\ old_bar' = [old_bar EXCEPT !.asq = bar.asq]
  /\ admin_q' = [admin_q EXCEPT !.sq_depth = bar.aqa, !.nvme_sq = bar.asq]
  /\ dbs' = [dbs EXCEPT !.sq = 0]
  /\ old_dbs' = [old_dbs EXCEPT !.sq = 0]
  /\ goto("dbs")
  /\ UNCHANGED <<bar, host_side>>

ProcAcq ==
  /\ at("bars") /\ ~aqa_changed /\ ~asq_changed /\ acq_changed
  /\ admin_q # NONE
  /\ old_bar' = [old_bar EXCEPT !.acq = bar.acq]
  /\ admin_q' = [admin_q EXCEPT !.cq_depth = bar.aqa, !.nvme_cq = bar.acq,
                                !.cq_head = 0, !.phase = 1]
  /\ dbs' = [dbs EXCEPT !.cq = 0]
  /\ old_dbs' = [old_dbs EXCEPT !.cq = 0]
  /\ goto("dbs")
  /\ UNCHANGED <<bar, host_side>>

\* CC is read three times: for EN, for SHN, and to be saved as processed.
\* Mutant: CC is handled before the pending changes of the other registers.
cc_first == cc_changed /\ admin_q # NONE

cc_due == cc_changed /\ ~aqa_changed /\ ~asq_changed /\ ~acq_changed

ProcCcEn ==
  /\ at("bars") /\ cc_due
  /\ bar' = [bar EXCEPT !.rdy = IF bar.en = 0 THEN 0
                                ELSE IF admin_q # NONE THEN 1 ELSE @]
  /\ goto("cc_shn")
  /\ UNCHANGED <<old_bar, admin_q, dbs, old_dbs, host_side>>

ProcCcShn ==
  /\ at("cc_shn")
  /\ \/ /\ bar.shn = 1
        /\ bar' = [bar EXCEPT !.shst = 2]
        /\ dbs' = [sq |-> 0, cq |-> 0]
        /\ old_dbs' = dbs'
        /\ admin_q' = [admin_q EXCEPT !.cq_head = 0]
     \/ /\ bar.shn # 1
        /\ UNCHANGED <<bar, dbs, old_dbs, admin_q>>
  /\ goto("cc_save")
  /\ UNCHANGED <<old_bar, host_side>>

ProcCcSave ==
  /\ at("cc_save")
  /\ old_bar' = [old_bar EXCEPT !.cc = <<bar.en, bar.shn>>]
  /\ goto("dbs")
  /\ UNCHANGED <<bar, admin_q, dbs, old_dbs, host_side>>

NoBarChange ==
  /\ at("bars")
  /\ ~(aqa_changed \/ asq_changed \/ acq_changed \/ cc_changed)
  /\ dbs # old_dbs
  /\ goto("dbs")
  /\ UNCHANGED <<bars_same, dbs, old_dbs, host_side>>

-----------------------------------------------------------------------------
(* The admin doorbells: nvmev_proc_dbs and nvmev_proc_admin_sq.            *)

ReadSqDb ==
  /\ at("dbs")
  /\ disp' = IF dbs.sq # old_dbs.sq
             THEN [pc |-> "admin", new |-> dbs.sq, curr |-> old_dbs.sq]
             ELSE [disp EXCEPT !.pc = "acq"]
  /\ UNCHANGED <<bars_same, dbs, old_dbs, host_side>>

next_slot(s, depth) == IF s + 1 = depth THEN 0 ELSE s + 1

\* Mutant: the phase bit is always stored as in the first lap.
posted_first_lap(cid) ==
  [cqmem EXCEPT ![admin_q.nvme_cq][admin_q.cq_head] = [cid |-> cid, phase |-> 1]]

\* __make_cq_entry_results: the entry at cq_head, with the queue's phase.
posted_cqmem(cid) ==
  [cqmem EXCEPT ![admin_q.nvme_cq][admin_q.cq_head] =
                  [cid |-> cid, phase |-> admin_q.phase]]

advanced_cq ==
  [admin_q EXCEPT !.cq_head = next_slot(@, admin_q.cq_depth),
                  !.phase = IF admin_q.cq_head + 1 = admin_q.cq_depth THEN 1 - @ ELSE @]

next_curr == next_slot(disp.curr, admin_q.sq_depth)

\* Mutant: the unhandled abort falls through to the default completion.
ProcAdminReqAll ==
  /\ at("admin") /\ disp.curr # disp.new
  /\ cqmem' = posted_cqmem(sqmem[admin_q.nvme_sq][disp.curr].cid)
  /\ admin_q' = advanced_cq
  /\ disp' = [disp EXCEPT !.curr = next_curr]
  /\ UNCHANGED <<bar, old_bar, dbs, old_dbs, sqmem, host>>

ProcAdminReq ==
  /\ at("admin") /\ disp.curr # disp.new
  /\ LET sqe == sqmem[admin_q.nvme_sq][disp.curr] IN
       \/ /\ sqe.kind = "answered"
          /\ cqmem' = posted_cqmem(sqe.cid)
          /\ admin_q' = advanced_cq
       \/ /\ sqe.kind = "abort"
          /\ UNCHANGED <<cqmem, admin_q>>
  /\ disp' = [disp EXCEPT !.curr = next_curr]
  /\ UNCHANGED <<bar, old_bar, dbs, old_dbs, sqmem, host>>

AdminSqDone ==
  /\ at("admin") /\ disp.curr = disp.new
  /\ old_dbs' = [old_dbs EXCEPT !.sq = disp.new]
  /\ goto("acq")
  /\ UNCHANGED <<bars_same, dbs, host_side>>

ProcAdminCq ==
  /\ at("acq")
  /\ old_dbs' = [old_dbs EXCEPT !.cq = dbs.cq]
  /\ goto("bars")
  /\ UNCHANGED <<bars_same, dbs, host_side>>

ProcBars ==
  \/ ProcAqa \/ ProcBeforeAqa \/ ProcAsq \/ ProcAcq
  \/ ProcCcEn \/ ProcCcShn \/ ProcCcSave \/ NoBarChange

Dispatcher ==
  \/ ProcBars
  \/ ReadSqDb \/ ProcAdminReq \/ AdminSqDone \/ ProcAdminCq

-----------------------------------------------------------------------------
(* The host driver (external).                                             *)

device_side == <<old_bar, admin_q, old_dbs, disp>>

\* A new session: rings in another area, cleared, and the positions reset.
HostBegin(a, d) ==
  /\ host.pc = "off" /\ host.sessions < NR_SESSIONS
  /\ a # host.area
  /\ cqmem' = [cqmem EXCEPT ![a] = [s \in Slots |-> [cid |-> 0, phase |-> 0]]]
  /\ host' = [host EXCEPT !.pc = "config", !.area = a, !.depth = d, !.tail = 0,
                          !.head = 0, !.phase = 1, !.waiting = <<>>,
                          !.todo = {"aqa", "asq", "acq"}, !.sessions = @ + 1]
  /\ UNCHANGED <<device_side, bar, dbs, sqmem>>

HostWriteReg(r) ==
  /\ host.pc = "config" /\ r \in host.todo
  /\ bar' = [bar EXCEPT ![r] = IF r = "aqa" THEN host.depth ELSE host.area]
  /\ host' = [host EXCEPT !.todo = @ \ {r}]
  /\ UNCHANGED <<device_side, dbs, sqmem, cqmem>>

HostEnable ==
  /\ host.pc = "config" /\ host.todo = {}
  /\ bar' = [bar EXCEPT !.en = 1]
  /\ host' = [host EXCEPT !.pc = "enabling"]
  /\ UNCHANGED <<device_side, dbs, sqmem, cqmem>>

HostReady ==
  /\ host.pc = "enabling" /\ bar.rdy = 1
  /\ host' = [host EXCEPT !.pc = "ready"]
  /\ UNCHANGED <<device_side, bar, dbs, sqmem, cqmem>>

\* The slots from the dispatcher's position up to the host's tail.
position == IF at("admin") THEN disp.curr ELSE old_dbs.sq
Unprocessed ==
  LET n == (host.tail - position) % host.depth
  IN  {(position + i) % host.depth : i \in 0 .. n - 1}

HostSubmit(k) ==
  /\ host.pc = "ready" /\ host.sent < NR_CMDS
  /\ Len(host.waiting) < host.depth - 1      \* the completion ring has room
  /\ (host.tail + 1) % host.depth # position \* and so has the submission ring
  /\ sqmem' = [sqmem EXCEPT ![host.area][host.tail] =
                              [cid |-> host.sent + 1, kind |-> k]]
  /\ dbs' = [dbs EXCEPT !.sq = (host.tail + 1) % host.depth]
  /\ host' = [host EXCEPT !.sent = @ + 1, !.tail = dbs'.sq,
                          !.waiting = IF k = "abort" THEN @ ELSE Append(@, host.sent + 1)]
  /\ UNCHANGED <<device_side, bar, cqmem>>

cqe == cqmem[host.area][host.head]

HostSee ==
  /\ host.pc = "ready" /\ cqe.phase = host.phase
  /\ dbs' = [dbs EXCEPT !.cq = next_slot(host.head, host.depth)]
  /\ host' = [host EXCEPT !.head = dbs'.cq,
                          !.phase = IF dbs'.cq = 0 THEN 1 - @ ELSE @,
                          !.waiting = SelectSeq(@, LAMBDA c : c # cqe.cid)]
  /\ UNCHANGED <<device_side, bar, sqmem, cqmem>>

HostShutdown ==
  /\ host.pc = "ready" /\ host.waiting = <<>>
  /\ bar' = [bar EXCEPT !.shn = 1]
  /\ host' = [host EXCEPT !.pc = "stopping"]
  /\ UNCHANGED <<device_side, dbs, sqmem, cqmem>>

\* CC.EN := 0, with commands outstanding or after a completed shutdown.
HostReset ==
  /\ host.pc = "ready" \/ (host.pc = "stopping" /\ bar.shst = 2)
  /\ bar' = [bar EXCEPT !.en = 0, !.shn = 0]
  /\ host' = [host EXCEPT !.pc = "disabling"]
  /\ UNCHANGED <<device_side, dbs, sqmem, cqmem>>

HostDisabled ==
  /\ host.pc = "disabling" /\ bar.rdy = 0
  /\ host' = [host EXCEPT !.pc = "off"]
  /\ UNCHANGED <<device_side, bar, dbs, sqmem, cqmem>>

HostProgress ==
  \/ \E r \in {"aqa", "asq", "acq"} : HostWriteReg(r)
  \/ HostEnable \/ HostReady \/ HostSee \/ HostDisabled

Next ==
  \/ Dispatcher
  \/ HostProgress
  \/ \E a \in AREAS, d \in DEPTHS : HostBegin(a, d)
  \/ \E k \in Kinds : HostSubmit(k)
  \/ HostShutdown \/ HostReset

Spec == Init /\ [][Next]_vars /\ WF_vars(Dispatcher) /\ WF_vars(HostProgress)

-----------------------------------------------------------------------------
(* Properties.                                                             *)

\* While the host uses the admin queue, the device uses the same rings at the
\* same depth, and its completion position (cq_head with the phase, counted
\* around the ring twice) is the host's own position plus the completions
\* posted and not yet seen: whatever registers were written in whatever order,
\* nothing of an earlier session is left in admin_q or in the doorbells.
answered_left == {s \in Unprocessed : sqmem[host.area][s].kind = "answered"}
ring_position(head, phase) == head + (1 - phase) * host.depth
unseen == {i \in 1 .. Len(host.waiting) :
             \A s \in answered_left : sqmem[host.area][s].cid # host.waiting[i]}

InSync ==
  host.pc = "ready" =>
    /\ admin_q.nvme_sq = host.area /\ admin_q.nvme_cq = host.area
    /\ admin_q.sq_depth = host.depth /\ admin_q.cq_depth = host.depth
    /\ ring_position(admin_q.cq_head, admin_q.phase) =
         (ring_position(host.head, host.phase) + Cardinality(unseen)) % (2 * host.depth)

\* A completion the host accepts (its phase bit is the expected one) is that
\* of the oldest admin command still waiting: admin commands are answered
\* once each, in order, and no stale entry of an earlier lap or session is
\* taken for an answer.
AcceptsOwn ==
  (host.pc = "ready" /\ cqe.phase = host.phase) =>
    host.waiting # <<>> /\ cqe.cid = Head(host.waiting)

\* Every admin command other than an abort is answered and seen, unless the
\* host ends the session.
Answered ==
  (host.pc = "ready" /\ host.waiting # <<>>)
    ~> (host.pc # "ready" \/ host.waiting = <<>>)

\* A controller that the host enables becomes ready (pci.c:86-94: every change
\* the host makes in the BAR is processed, in the order of a real device).
EnableHonoured == (host.pc = "enabling") ~> (bar.rdy = 1)

=============================================================================
