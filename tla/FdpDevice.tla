------------------------------ MODULE FdpDevice ------------------------------
(***************************************************************************)
(* Write commands on an FDP namespace: fdp_write around the page loop of   *)
(* FdpFtl, the statistics, RUH usage and events it keeps in fdp_ctx (the   *)
(* ring is FdpEvents), and the copy into the namespace's storage that an   *)
(* I/O worker makes for every command the dispatcher enqueues.             *)
(*                                                                         *)
(* Abstractions.  One partition.  A command covers a set of LPNs, a number *)
(* of sectors per page, and a placement: a handle, an identifier that is   *)
(* none, or no directive.  The worker's copy happens with the enqueue.     *)
(* Room in the write buffer is a nondeterministic choice (see WorkQueue).  *)
(***************************************************************************)
EXTENDS FdpFtl

CONSTANTS FDP_NR_EVENTS, NOET_MAX, NO_RECORD,
          SECS_PER_PG,   \* sectors in a page
          Sectors,       \* sectors of each page a command may write
          BadPids,       \* out-of-range placement identifiers the host uses
          CMD_PAGES,     \* most pages in a command
          STAT_MOD       \* 2^64: the statistics are uint64_t

NoDirective == -1

ASSUME DeviceAssumption ==
    /\ FDP_NR_EVENTS \in Nat \ {0} /\ NOET_MAX \in Nat
    /\ SECS_PER_PG \in Nat \ {0}
    /\ Sectors \subseteq 1 .. SECS_PER_PG
    /\ BadPids \cap RUH = {} /\ NoDirective \notin BadPids
    /\ STAT_MOD \in Nat \ {0}

VARIABLES ring, ring_head, nr_events, enabled,   \* FdpEvents
          hbmw, mbmw, mbe,   \* fdp_ctx statistics, in sectors
          ruh_attr,          \* fdp_ctx usage attribute of each RUH
          cmd,               \* the write being processed
          stored             \* LPNs whose storage a worker has written

Events == INSTANCE FdpEvents WITH Pids <- RUH \cup BadPids

ASSUME RecordAssumption == NO_RECORD \notin Events!Records

evVars   == <<ring, ring_head, nr_events, enabled>>
statVars == <<hbmw, mbmw, mbe>>
devVars  == <<vars, evVars, statVars, ruh_attr, cmd, stored>>

\* stage: waiting for a command, in the page loop, or about to enqueue.
NoCmd == [stage |-> "poll", lpns |-> {}, left |-> {}, ruh |-> 0]

DeviceInit ==
    /\ Init /\ Events!Init
    /\ hbmw = 0 /\ mbmw = 0 /\ mbe = 0
    /\ ruh_attr = [r \in RUH |-> "UNUSED"]
    /\ cmd = NoCmd
    /\ stored = {}

(***************************************************************************)
(* fdp_write, up to the page loop                                          *)
(***************************************************************************)
\* A command at the head of the submission queue.
Submit(lpns) == cmd.stage = "poll" /\ lpns # {} /\ Cardinality(lpns) <= CMD_PAGES

\* The usage attributes once the directive has been parsed.
ruh_attr_after(dir) ==
    IF dir # NoDirective THEN [ruh_attr EXCEPT ![dir] = "HOST"]
    ELSE IF ruh_attr[0] = "UNUSED" THEN [ruh_attr EXCEPT ![0] = "CTRL"]
    ELSE ruh_attr

WriteInvalidPid(lpns, pid) ==
    /\ Submit(lpns)
    /\ Events!fdp_emit_event("INVALID_PID", pid)
    /\ cmd' = [NoCmd EXCEPT !.stage = "enqueue", !.lpns = lpns]
    /\ UNCHANGED <<vars, statVars, ruh_attr, stored>>

\* buffer_allocate finds too little room: the command stays queued.
WriteNoBuffer(lpns, dir) ==
    /\ Submit(lpns)
    /\ ruh_attr' = ruh_attr_after(dir)
    /\ UNCHANGED <<vars, evVars, statVars, cmd, stored>>

WriteAccepted(lpns, dir, secs) ==
    /\ Submit(lpns)
    /\ ruh_attr' = ruh_attr_after(dir)
    /\ hbmw' = (hbmw + secs * Cardinality(lpns)) % STAT_MOD
    /\ mbmw' = (mbmw + secs * Cardinality(lpns)) % STAT_MOD
    /\ cmd' = [stage |-> "loop", lpns |-> lpns, left |-> lpns,
               ruh |-> IF dir = NoDirective THEN 0 ELSE dir]
    /\ UNCHANGED <<vars, evVars, mbe, stored>>

(***************************************************************************)
(* The page loop: FdpFtl's steps, with what they do to fdp_ctx             *)
(***************************************************************************)
WritePage(n) ==
    /\ cmd.stage = "loop" /\ n \in cmd.left
    /\ WriteNew(n, cmd.ruh) \/ Overwrite(n, cmd.ruh)
    /\ cmd' = [cmd EXCEPT !.left = @ \ {n}]
    /\ UNCHANGED <<evVars, statVars, ruh_attr, stored>>

PlainStep ==
    /\ Rotate \/ RotateNull \/ consume_write_credit \/ RefillWithoutGc
    /\ UNCHANGED <<evVars, statVars, ruh_attr, cmd, stored>>

\* do_gc reports the victim before anything is relocated.  Mutant: the test
\* of the victim's tag is dropped, and -1 reported as a handle.
ReportAnyVictim(v) == Events!fdp_emit_event("IMPLICIT_MODIFIED_RU", ruh[v])

ReportVictim(v) ==
    IF ruh[v] >= 0 THEN Events!fdp_emit_event("IMPLICIT_MODIFIED_RU", ruh[v])
    ELSE UNCHANGED evVars

CollectVictim ==
    /\ StartGc
    /\ ReportVictim(gc_line')
    /\ UNCHANGED <<statVars, ruh_attr, cmd, stored>>

\* Mutant: relocations are not counted.
CountNothing == UNCHANGED mbmw
CountRelocation == mbmw' = (mbmw + SECS_PER_PG) % STAT_MOD

RelocatePage ==
    /\ \E old \in todo : GcWritePage(old)
    /\ CountRelocation
    /\ UNCHANGED <<evVars, hbmw, mbe, ruh_attr, cmd, stored>>

EraseVictim ==
    /\ EndGc
    /\ mbe' = (mbe + PGS_PER_LINE * SECS_PER_PG) % STAT_MOD
    /\ UNCHANGED <<evVars, hbmw, mbmw, ruh_attr, cmd, stored>>

LoopDone ==
    /\ cmd.stage = "loop" /\ cmd.left = {} /\ pc = "idle"
    /\ cmd' = [cmd EXCEPT !.stage = "enqueue"]
    /\ UNCHANGED <<vars, evVars, statVars, ruh_attr, stored>>

\* __enqueue_io_req, whatever the status, and the worker's __do_perform_io.
EnqueueAndCopy ==
    /\ cmd.stage = "enqueue"
    /\ stored' = stored \cup cmd.lpns
    /\ cmd' = NoCmd
    /\ UNCHANGED <<vars, evVars, statVars, ruh_attr>>

\* Set Features 0x1E, on the admin queue between two commands.
SetEvents(descs) ==
    /\ cmd.stage = "poll"
    /\ Events!fdp_set_feature_events(descs)
    /\ UNCHANGED <<vars, statVars, ruh_attr, cmd, stored>>

Directives == RUH \cup {NoDirective}

HostCommand ==
    \E lpns \in SUBSET LPNs :
      \/ \E pid \in BadPids : WriteInvalidPid(lpns, pid)
      \/ \E dir \in Directives : WriteNoBuffer(lpns, dir)
      \/ \E dir \in Directives, secs \in Sectors : WriteAccepted(lpns, dir, secs)

DeviceNext ==
    \/ HostCommand
    \/ \E n \in LPNs : WritePage(n)
    \/ PlainStep \/ CollectVictim \/ RelocatePage \/ EraseVictim
    \/ LoopDone \/ EnqueueAndCopy
    \/ \E descs \in Events!Descs : SetEvents(descs)

DeviceSpec == DeviceInit /\ [][DeviceNext]_devVars

(***************************************************************************)
(* Properties                                                              *)
(***************************************************************************)
\* The statistics log and the media agree: the media bytes written and not
\* erased are those of the pages that hold data, valid or not, plus those of
\* the pages the running command has still to program.
StatsBalance ==
    (mbmw - mbe) % STAT_MOD
      = (SECS_PER_PG * (Cardinality(Pages \ FreePages) + Cardinality(cmd.left))) % STAT_MOD

\* Every event in the log is the host's own doing: an implicitly modified
\* reclaim unit is reported for a handle the host has written through, and
\* an invalid identifier for one that is no handle.
EventsExplained ==
    \A i \in DOMAIN Events!fdp_get_log_page :
      LET e == Events!fdp_get_log_page[i] IN
        /\ e.type = "IMPLICIT_MODIFIED_RU" => e.pid \in RUH /\ ruh_attr[e.pid] # "UNUSED"
        /\ e.type = "INVALID_PID" => e.pid \notin RUH
        /\ e.type # "RU_NOT_FULLY_WRITTEN"

\* Storage is written only by writes that succeeded: a write that is rejected
\* leaves the namespace's data alone.
RejectedWriteKeepsData == stored \subseteq {n \in LPNs : mapped_ppa(maptbl[n])}
=============================================================================
