-------------------------------- MODULE Zns --------------------------------
(***************************************************************************)
(* The zoned-namespace backend: zone descriptors and their resource counts *)
(* (zns_ftl.[ch]), Zone Management Send (zns_mgmt_send.c) and Receive      *)
(* (zns_mgmt_recv.c), and the write paths with and without a random write  *)
(* area (zns_read_write.c).  The dispatcher runs one command at a time;    *)
(* workers give buffer space back later.                                   *)
(*                                                                         *)
(* Addresses are offsets from the start of the zone, a page is one block.  *)
(* Commands are functions from one value of struct zns_ftl to the next, as *)
(* select_all runs one of them over all zones.                             *)
(***************************************************************************)
EXTENDS Integers, Sequences, FiniteSets

CONSTANTS
  NR_ZONES,
  CAPACITY,          \* zone_capacity, in blocks
  MAX_OPEN, MAX_ACTIVE, MAX_ZRWA,  \* total_cnt of the resources (nr_zones each, as shipped)
  ONESHOT,           \* pgs_per_oneshotpg
  ZONE_WB,           \* zone_wb_size, in blocks
  LBAS_PER_ZRWA, LBAS_PER_ZRWAFG,
  ZRWA_BUFFER,       \* zrwa_buffer_size, in blocks
  WRITE_UNIT,        \* write_unit_size, in blocks
  MAX_NR_LBA,        \* blocks of one command
  MAX_ZDRAIN         \* bound: operations under way on one ZRWA buffer

ASSUME SizesAssumption ==
  /\ {NR_ZONES, CAPACITY, ONESHOT, ZONE_WB, WRITE_UNIT, MAX_NR_LBA} \subseteq Nat \ {0}
  /\ {MAX_OPEN, MAX_ACTIVE, MAX_ZRWA, LBAS_PER_ZRWA, LBAS_PER_ZRWAFG, ZRWA_BUFFER} \subseteq Nat
  /\ MAX_ZRWA = 0 \/ LBAS_PER_ZRWAFG \in 1 .. LBAS_PER_ZRWA

VARIABLES
  ftl,    \* struct zns_ftl: zone_descs, the acquired counts and the buffers
  drain,  \* internal operations under way, per zone and size of release
  zdrain  \* the same for the ZRWA buffers, all of one oneshot page

vars == <<ftl, drain, zdrain>>

Zones == 0 .. NR_ZONES - 1
Resources == {"OPEN", "ACTIVE", "ZRWA"}
total_cnt(r) == CASE r = "OPEN" -> MAX_OPEN [] r = "ACTIVE" -> MAX_ACTIVE [] r = "ZRWA" -> MAX_ZRWA

unaligned_space == CAPACITY % ONESHOT
Chunks == {ONESHOT, unaligned_space} \ {0}

Init ==
  /\ ftl = [zone |-> [z \in Zones |-> [state |-> "empty", wp |-> 0, zrwav |-> 0]],
            cnt  |-> [r \in Resources |-> 0],
            wb   |-> [z \in Zones |-> ZONE_WB],
            zbuf |-> [z \in Zones |-> ZRWA_BUFFER],
            bug  |-> FALSE]
  /\ drain = [z \in Zones |-> [c \in Chunks |-> 0]]
  /\ zdrain = [z \in Zones |-> 0]

-----------------------------------------------------------------------------
(* Resources and states (zns_ftl.h).                                       *)

is_full(f, r) == f.cnt[r] = total_cnt(r)
acquire(f, r) == [f EXCEPT !.cnt[r] = @ + 1]
release(f, r) == [f EXCEPT !.cnt[r] = @ - 1]
change_state(f, z, state) == [f EXCEPT !.zone[z].state = state]

Opened == {"impl", "expl"}

-----------------------------------------------------------------------------
(* Zone Management Send.  A refused transition leaves the zone as it is.   *)

\* Mutant: a closed zone keeps its OPEN resource.
close_zone_only(f, z) ==
  IF f.zone[z].state \in Opened THEN change_state(f, z, "closed") ELSE f

close_zone(f, z) ==
  IF f.zone[z].state \in Opened THEN release(change_state(f, z, "closed"), "OPEN") ELSE f

\* The fall-through of finish and reset: an open zone gives up OPEN, an open
\* or closed one ACTIVE and, if it has one, its ZRWA.
release_all(f, z) ==
  LET g == IF f.zone[z].state \in Opened THEN release(f, "OPEN") ELSE f
      h == IF f.zone[z].state \in Opened \cup {"closed"} THEN release(g, "ACTIVE") ELSE g
  IN  IF f.zone[z].state \in Opened \cup {"closed"} /\ f.zone[z].zrwav = 1
      THEN release(h, "ZRWA") ELSE h

finish_zone(f, z) == change_state(release_all(f, z), z, "full")

reset_zone(f, z) ==
  [release_all(f, z) EXCEPT
     !.zone[z] = [state |-> "empty", wp |-> 0, zrwav |-> 0],
     !.zbuf[z] = ZRWA_BUFFER]

\* Mutant: the limit on open zones is not looked at.
open_empty_any(f, z, zrwa) ==
  IF is_full(f, "ACTIVE") \/ (zrwa = 1 /\ is_full(f, "ZRWA")) THEN f
  ELSE LET g == IF zrwa = 1 THEN acquire([f EXCEPT !.zone[z].zrwav = 1], "ZRWA") ELSE f
       IN  change_state(acquire(acquire(g, "ACTIVE"), "OPEN"), z, "expl")

open_empty(f, z, zrwa) ==
  IF is_full(f, "ACTIVE") \/ is_full(f, "OPEN") \/ (zrwa = 1 /\ is_full(f, "ZRWA"))
  THEN f
  ELSE LET g == IF zrwa = 1 THEN acquire([f EXCEPT !.zone[z].zrwav = 1], "ZRWA") ELSE f
       IN  change_state(acquire(acquire(g, "ACTIVE"), "OPEN"), z, "expl")

open_zone(f, z, zrwa) ==
  CASE f.zone[z].state = "empty" -> open_empty(f, z, zrwa)
    [] f.zone[z].state = "closed" /\ ~is_full(f, "OPEN") ->
         change_state(acquire(f, "OPEN"), z, "expl")
    [] f.zone[z].state = "impl" -> change_state(f, z, "expl")
    [] OTHER -> f

\* Only a read-only zone can be taken offline, and no command makes one.
offline_zone(f, z) == f

\* Up to block last of the random write area, in flush granules.
flush_ok(f, z, last) ==
  /\ f.zone[z].zrwav = 1
  /\ last >= f.zone[z].wp
  /\ last < f.zone[z].wp + LBAS_PER_ZRWA /\ last < CAPACITY
  /\ (last - f.zone[z].wp + 1) % LBAS_PER_ZRWAFG = 0
  /\ f.zone[z].state \in Opened \cup {"closed"}

flush_explicit_zrwa(f, z, last) ==
  IF ~flush_ok(f, z, last) THEN f
  ELSE IF last + 1 < CAPACITY THEN [f EXCEPT !.zone[z].wp = last + 1]
  ELSE [change_state(release_all(f, z), z, "full") EXCEPT !.zone[z].wp = last + 1]

zmgmt_send(f, z, off, action, option) ==
  CASE action = "close"   -> close_zone(f, z)
    [] action = "finish"  -> finish_zone(f, z)
    [] action = "open"    -> open_zone(f, z, option)
    [] action = "reset"   -> reset_zone(f, z)
    [] action = "offline" -> offline_zone(f, z)
    [] action = "flush"   -> flush_explicit_zrwa(f, z, off)

\* select_all: every zone in turn, from its first block, errors ignored.
sent(f, action, option) ==
  LET upto[n \in 0 .. NR_ZONES] ==
        IF n = 0 THEN f ELSE zmgmt_send(upto[n - 1], n - 1, 0, action, option)
  IN  upto

send_all(f, action, option) == sent(f, action, option)[NR_ZONES]

Actions == {"close", "finish", "open", "reset", "offline", "flush"}

ZmgmtSend(z, off, action, option) ==
  /\ ~ftl.bug
  /\ ftl' = zmgmt_send(ftl, z, off, action, option)
  /\ UNCHANGED <<drain, zdrain>>

ZmgmtSendAll(action, option) ==
  /\ ~ftl.bug
  /\ ftl' = send_all(ftl, action, option)
  /\ UNCHANGED <<drain, zdrain>>

-----------------------------------------------------------------------------
(* Writes (zns_read_write.c).                                              *)

same_zone(off, n) == off \div CAPACITY = (off + n - 1) \div CAPACITY

\* Oneshot pages that the blocks from off on complete.
oneshots(off, n) == (off + n) \div ONESHOT - off \div ONESHOT

\* Mutant: a zone that fills up stays open.
increase_write_ptr_only(f, z, n) == [f EXCEPT !.zone[z].wp = @ + n]

\* ASSERT(0) of a ZRWA zone that fills up is compiled to nothing.
increase_write_ptr(f, z, n) ==
  LET g == [f EXCEPT !.zone[z].wp = @ + n]
  IN  IF g.zone[z].wp # CAPACITY THEN g
      ELSE change_state(release(release(g, "OPEN"), "ACTIVE"), z, "full")

may_open(f, z) ==
  CASE f.zone[z].state = "empty"  -> ~is_full(f, "ACTIVE") /\ ~is_full(f, "OPEN")
    [] f.zone[z].state = "closed" -> ~is_full(f, "OPEN")
    [] f.zone[z].state = "full"   -> FALSE
    [] OTHER -> TRUE

open_for_write(f, z) ==
  CASE f.zone[z].state = "empty"  ->
         change_state(acquire(acquire(f, "ACTIVE"), "OPEN"), z, "impl")
    [] f.zone[z].state = "closed" -> change_state(acquire(f, "OPEN"), z, "impl")
    [] OTHER -> f

write_ok(f, z, off, n) ==
  /\ n % WRITE_UNIT = 0 /\ same_zone(off, n)
  /\ off = f.zone[z].wp
  /\ may_open(f, z)

\* Mutant: the end of the zone releases a whole oneshot page.
scheduled_whole(off, n) ==
  [c \in Chunks |->
     IF c = ONESHOT THEN oneshots(off, n) + (IF off + n = CAPACITY THEN 1 ELSE 0) ELSE 0]

\* The releases that __zns_write schedules: whole oneshot pages, and the rest
\* of the last one when the zone ends within it.
scheduled(off, n) ==
  [c \in Chunks |->
     (IF c = ONESHOT THEN oneshots(off, n) ELSE 0)
       + (IF c = unaligned_space /\ off + n = CAPACITY THEN 1 ELSE 0)]

\* The buffer is allocated before the checks and not given back if one fails.
\* With no room the command stays in its submission queue, to be tried again.
Write(z, arg, n, append) ==
  LET off == IF append THEN ftl.zone[z].wp ELSE arg
      buffered == [ftl EXCEPT !.wb[z] = @ - n]
  IN
  /\ ~ftl.bug /\ ftl.zone[z].zrwav = 0
  /\ ftl.wb[z] >= n
  /\ \/ /\ write_ok(ftl, z, off, n)
        /\ ftl' = increase_write_ptr(open_for_write(buffered, z), z, n)
        /\ drain' = [drain EXCEPT ![z] = [c \in Chunks |-> @[c] + scheduled(off, n)[c]]]
     \/ /\ ~write_ok(ftl, z, off, n)
        /\ ftl' = buffered
        /\ UNCHANGED drain
  /\ UNCHANGED zdrain

zrwa_write_ok(f, z, off, n) ==
  /\ n % WRITE_UNIT = 0 /\ same_zone(off, n)
  /\ off >= f.zone[z].wp /\ off + n <= f.zone[z].wp + 2 * LBAS_PER_ZRWA
  /\ may_open(f, z)

\* Blocks to commit: those beyond the area, in flush granules, or up to the
\* end of the zone when the last block is written.
nr_lbas_flush(wp, end) ==
  IF end > wp + LBAS_PER_ZRWA
  THEN ((end - wp - LBAS_PER_ZRWA + LBAS_PER_ZRWAFG - 1) \div LBAS_PER_ZRWAFG) * LBAS_PER_ZRWAFG
  ELSE IF end = CAPACITY THEN end - wp ELSE 0

\* A closed zone takes its whole area from the ZRWA buffer when it is opened
\* again; NVMEV_ASSERT(0) if there is not enough.
reopened(f, z) ==
  IF f.zone[z].state # "closed" THEN f
  ELSE IF f.zbuf[z] < LBAS_PER_ZRWA THEN [f EXCEPT !.bug = TRUE]
  ELSE [open_for_write(f, z) EXCEPT !.zbuf[z] = @ - LBAS_PER_ZRWA]

WriteZrwa(z, off, n) ==
  LET wp == ftl.zone[z].wp
      f  == reopened(ftl, z)
      nf == nr_lbas_flush(wp, off + n)
  IN
  /\ ~ftl.bug /\ ftl.zone[z].zrwav = 1
  /\ ftl.zbuf[z] <= ZRWA_BUFFER /\ zdrain[z] < MAX_ZDRAIN
  /\ zrwa_write_ok(ftl, z, off, n)
  /\ \/ /\ f.bug \/ nf > f.zbuf[z]             \* no room: tried again
        /\ ftl' = f
        /\ UNCHANGED zdrain
     \/ /\ ~f.bug /\ nf <= f.zbuf[z]
        /\ ftl' = IF nf = 0 THEN f
                  ELSE increase_write_ptr([f EXCEPT !.zbuf[z] = @ - nf], z, nf)
        /\ zdrain' = [zdrain EXCEPT ![z] = @ + oneshots(wp, nf)]
  /\ UNCHANGED drain

\* An internal operation completes in a worker: buffer_release.
Drain(z, c) ==
  /\ drain[z][c] > 0
  /\ drain' = [drain EXCEPT ![z][c] = @ - 1]
  /\ ftl' = [ftl EXCEPT !.wb[z] = @ + c]
  /\ UNCHANGED zdrain

DrainZrwa(z) ==
  /\ zdrain[z] > 0
  /\ zdrain' = [zdrain EXCEPT ![z] = @ - 1]
  /\ ftl' = [ftl EXCEPT !.zbuf[z] = @ + ONESHOT]
  /\ UNCHANGED drain

-----------------------------------------------------------------------------
(* Zone Management Receive: the number of descriptors reported for a buffer*)
(* of so many descriptors' length (the header takes the first), computed   *)
(* with unsigned 64-bit arithmetic.                                        *)

CONSTANT U64   \* 2^64 or, for TLC, any modulus above the lengths asked for

ASSUME U64Assumption == U64 \in Nat /\ U64 > NR_ZONES + 2

\* Mutant: the header is not counted.
nr_zone_headless(start, partial, length) ==
  LET n == IF partial THEN length % U64 ELSE NR_ZONES - start
  IN  IF n > NR_ZONES - start THEN NR_ZONES - start ELSE n

nr_zone_to_report(start, partial, length) ==
  LET n == IF partial THEN (length - 1) % U64 ELSE NR_ZONES - start
  IN  IF n > NR_ZONES - start THEN NR_ZONES - start ELSE n

fill_zone_report(start, partial, length) ==
  [i \in 1 .. nr_zone_to_report(start, partial, length) |-> ftl.zone[start + i - 1]]

-----------------------------------------------------------------------------
Next ==
  \/ \E z \in Zones :
       \/ \E action \in Actions \ {"open", "flush"} : ZmgmtSend(z, 0, action, 0)
       \/ \E zrwa \in {0, 1} : ZmgmtSend(z, 0, "open", zrwa)
       \/ \E off \in 0 .. CAPACITY - 1 : ZmgmtSend(z, off, "flush", 0)
       \/ \E off \in 0 .. CAPACITY - 1, n \in 1 .. MAX_NR_LBA :
            Write(z, off, n, FALSE) \/ WriteZrwa(z, off, n)
       \/ \E n \in 1 .. MAX_NR_LBA : Write(z, 0, n, TRUE)
       \/ \E c \in Chunks : Drain(z, c)
       \/ DrainZrwa(z)
  \/ \E action \in Actions \ {"open"} : ZmgmtSendAll(action, 0)
  \/ \E zrwa \in {0, 1} : ZmgmtSendAll("open", zrwa)

Spec == Init /\ [][Next]_vars

-----------------------------------------------------------------------------
(* Properties.                                                             *)

InState(states) == {z \in Zones : ftl.zone[z].state \in states}

\* The counts that acquire_zone_resource and release_zone_resource keep are
\* the numbers of zones open and active, after any sequence of opens, closes,
\* finishes, resets, writes that fill a zone, and commands to all zones; so
\* the limits neither leak away nor are exceeded.
ResourcesExact ==
  /\ ftl.cnt["OPEN"] = Cardinality(InState(Opened))
  /\ ftl.cnt["ACTIVE"] = Cardinality(InState(Opened \cup {"closed"}))
  /\ ftl.cnt["ZRWA"] >= Cardinality({z \in InState(Opened \cup {"closed"}) :
                                       ftl.zone[z].zrwav = 1})

\* State and write pointer of a zone agree: an empty zone is at its start and
\* has no random write area, and one that reached its capacity is full, by
\* whichever of the four ways the pointer moved there; it never moves past.
WritePointerAgrees ==
  \A z \in Zones :
    LET d == ftl.zone[z] IN
      /\ d.state = "empty" => d.wp = 0 /\ d.zrwav = 0
      /\ d.wp \in 0 .. CAPACITY
      /\ d.wp = CAPACITY => d.state = "full"

\* A zone's write buffer never gets back more than was taken from it: what
\* remains and what the scheduled operations will release fit in its size,
\* across partial oneshot pages, the odd page at the end of the zone, errors
\* and resets.
to_drain(z) == ONESHOT * drain[z][ONESHOT]
                 + (IF unaligned_space \in Chunks \ {ONESHOT}
                    THEN unaligned_space * drain[z][unaligned_space] ELSE 0)
NoOverRelease == \A z \in Zones : ftl.wb[z] + to_drain(z) <= ZONE_WB

\* At any moment a full report shows every zone from the one asked for on, and
\* a partial one the first of these, as many as the host's buffer holds behind
\* the header: no descriptor beyond the last zone, none beyond the buffer, and
\* reports that go on where the last one stopped miss no zone.
ReportFits ==
  \A start \in Zones, length \in 1 .. NR_ZONES + 2 :
    LET all  == fill_zone_report(start, FALSE, length)
        part == fill_zone_report(start, TRUE, length)
    IN /\ Len(all) = NR_ZONES - start
       /\ part = IF length > Len(all) THEN all ELSE SubSeq(all, 1, length - 1)

\* The backend is a zone machine: each command moves each zone by a transition
\* that the command allows, with the limits counted on the zones themselves.
Machine == INSTANCE ZoneMachine WITH
  zone <- [z \in Zones |-> [state |-> ftl.zone[z].state, wp |-> ftl.zone[z].wp]]
IsZoneMachine == Machine!Spec

\* A write that a check rejects leaves the buffer as it was (the comment
\* "return boundary error", zns_read_write.c:114: the command is answered
\* with an error and nothing else): when no operation is under way and no
\* oneshot page is partly filled, a zone's buffer is whole.
BufferWhole ==
  \A z \in Zones :
    (to_drain(z) = 0 /\ ftl.zone[z].wp % ONESHOT = 0) => ftl.wb[z] = ZONE_WB

=============================================================================
