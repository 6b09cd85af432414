----------------------------- MODULE NandTiming -----------------------------
(***************************************************************************)
(* When operations end (ssd.c, and the read, write and flush handlers of   *)
(* the page-mapped FTLs): every LUN has the time at which it becomes free, *)
(* the channel and the PCIe link are ChannelModels, and a host read is cut *)
(* into one NAND read for each run of pages on the same flash page.  All   *)
(* of it runs on the dispatcher thread, whose clock is the variable clock. *)
(*                                                                         *)
(* Abstractions.  One partition with one channel.  Sizes are in pages, a   *)
(* page is a transfer unit, and latencies small numbers.  Where the FTL    *)
(* has put a page is a choice of the action.                               *)
(***************************************************************************)
EXTENDS Integers, Sequences, FiniteSets

CONSTANTS Luns, FLASHPGS,         \* LUNs of the channel; flash pages of a LUN
          PGS_PER_ONESHOTPG,
          RD_4KB_LAT, RD_LAT, WR_LAT, ER_LAT,
          WBUF_LAT0, WBUF_LAT1,   \* fw_wbuf_lat0, fw_wbuf_lat1
          FW_4KB_RD_LAT, FW_RD_LAT,
          MAX_CH_XFER_SIZE,
          NR_CREDIT_ENTRIES, UNIT_TIME_INTERVAL,
          CH_CREDITS, CH_XFER_LAT, PCIE_CREDITS, PCIE_XFER_LAT,
          MAX_READ,               \* bound: pages in a read command
          MAX_LEAD,               \* bound: how far ahead of it a LUN is booked
          UNMAPPED

VARIABLES clock,
          next_lun_avail_time,
          ch, pcie,               \* the links
          ch_book, pcie_book,     \* history: credits taken in each interval
          settled,                \* history: the latest end of a program or erase
          owed                    \* history: per LUN, pages asked for and not read

nandVars == <<clock, next_lun_avail_time, ch, pcie, ch_book, pcie_book, settled, owed>>

Channel == INSTANCE ChannelModel WITH MAX_CREDITS <- CH_CREDITS, XFER_LAT <- CH_XFER_LAT
Pcie    == INSTANCE ChannelModel WITH MAX_CREDITS <- PCIE_CREDITS, XFER_LAT <- PCIE_XFER_LAT

Later(s, t) == IF s > t THEN s ELSE t

\* A ledger gives the credits taken in the intervals that have any.
Entry(book, i) == IF i \in DOMAIN book THEN book[i] ELSE 0

\* The ledger once the link has gone from before to after: what has passed is
\* forgotten.
Booked(book, before, after) ==
    LET now      == Channel!Interval(after.cur_time)
        taken(i) == LET k == Channel!slot(after, i - now) IN before.avail[k] - after.avail[k]
        total(i) == Entry(book, i) + taken(i)
    IN [i \in {j \in now .. (now + NR_CREDIT_ENTRIES - 1) : total(j) > 0} |-> total(i)]

NandInit ==
    /\ clock = 0
    /\ next_lun_avail_time = [l \in Luns |-> 0]
    /\ ch = Channel!chmodel_init /\ pcie = Pcie!chmodel_init
    /\ ch_book = <<>> /\ pcie_book = <<>>
    /\ settled = 0
    /\ owed = [l \in Luns |-> 0]

\* The part of the state a NAND command works on, as a record.
Now == [avail |-> next_lun_avail_time, ch |-> ch, pcie |-> pcie]

\* The links' histories follow from the links.
Becomes(s) ==
    /\ next_lun_avail_time' = s.avail
    /\ ch' = s.ch /\ pcie' = s.pcie
    /\ ch_book' = Booked(ch_book, Channel!move_head(ch, s.ch.cur_time), s.ch)
    /\ pcie_book' = Booked(pcie_book, Pcie!move_head(pcie, s.pcie.cur_time), s.pcie)

(***************************************************************************)
(* ssd_advance_nand: the state after a command, and the time it ends at    *)
(***************************************************************************)
ssd_advance_pcie(s, t, units) ==
    LET r == Pcie!chmodel_request(s.pcie, clock, t, units) IN
      [s |-> [s EXCEPT !.pcie = r.ch], time |-> r.time]

ssd_advance_write_buffer(s, t, units) ==
    ssd_advance_pcie(s, t + WBUF_LAT0 + WBUF_LAT1 * units, units)

\* The transfer loop of a read, which overlaps the two links.
RECURSIVE read_xfer(_, _, _, _, _)
read_xfer(s, l, t, remaining, interleave) ==
    LET size == IF remaining < MAX_CH_XFER_SIZE THEN remaining ELSE MAX_CH_XFER_SIZE
        onch == Channel!chmodel_request(s.ch, clock, t, size)
        s1   == [s EXCEPT !.ch = onch.ch]
        dma  == IF interleave THEN ssd_advance_pcie(s1, onch.time, size)
                ELSE [s |-> s1, time |-> onch.time]
    IN IF remaining > size THEN read_xfer(dma.s, l, onch.time, remaining - size, interleave)
       ELSE [s |-> [dma.s EXCEPT !.avail[l] = onch.time], time |-> dma.time]

nand_read(s, l, stime, size, interleave) ==
    LET start == Later(s.avail[l], stime)
        lat   == IF size = 1 THEN RD_4KB_LAT ELSE RD_LAT
    IN read_xfer(s, l, start + lat, size, interleave)

nand_write(s, l, stime, size) ==
    LET onch == Channel!chmodel_request(s.ch, clock, Later(s.avail[l], stime), size)
        end  == onch.time + WR_LAT
    IN [s |-> [s EXCEPT !.ch = onch.ch, !.avail[l] = end], time |-> end]

nand_erase(s, l, stime) ==
    LET end == Later(s.avail[l], stime) + ER_LAT IN
      [s |-> [s EXCEPT !.avail[l] = end], time |-> end]

\* Mutant: the LUN is free as soon as the command arrives.
nand_nop_now(s, l, stime) == [s |-> [s EXCEPT !.avail[l] = stime], time |-> stime]

nand_nop(s, l, stime) ==
    LET end == Later(s.avail[l], stime) IN [s |-> [s EXCEPT !.avail[l] = end], time |-> end]

Max(f) == CHOOSE m \in {f[l] : l \in Luns} : \A l \in Luns : f[l] <= m

ssd_next_idle_time == Later(clock, Max(next_lun_avail_time))

(***************************************************************************)
(* The page loop of a read (conv_read, fdp_read): ppas are the pages of    *)
(* the command in LPN order, prev the page the open run started with.      *)
(***************************************************************************)
FlashPages == Luns \X (0 .. (FLASHPGS - 1))

\* Mutant: a run that another follows is dropped.
end_run_unissued(cmds, prev, xfer) == cmds

end_run(cmds, prev, xfer) ==
    IF xfer > 0 THEN Append(cmds, [ppa |-> prev, size |-> xfer]) ELSE cmds

\* A run whose first page has a different flash page than the one before it
\* starts with prev = cur; pages that are not mapped are passed over.
read_loop(ppas) ==
    LET loop[i \in 0 .. Len(ppas)] ==
          IF i = 0 THEN [cmds |-> <<>>, prev |-> ppas[1], xfer |-> 0]
          ELSE LET was == loop[i - 1]
                   cur == ppas[i]
               IN IF cur = UNMAPPED THEN was
                  ELSE IF cur = was.prev THEN [was EXCEPT !.xfer = @ + 1]
                  ELSE [cmds |-> end_run(was.cmds, was.prev, was.xfer), prev |-> cur, xfer |-> 1]
        last == loop[Len(ppas)]
    IN IF last.xfer > 0 THEN Append(last.cmds, [ppa |-> last.prev, size |-> last.xfer])
       ELSE last.cmds

\* The commands issued one after the other, all with the same start.
Issue(cmds, stime) ==
    LET after[i \in 0 .. Len(cmds)] ==
          IF i = 0 THEN Now
          ELSE nand_read(after[i - 1], cmds[i].ppa[1], stime, cmds[i].size, TRUE).s
    IN after[Len(cmds)]

RECURSIVE SumOf(_, _)
SumOf(cmds, l) ==
    IF cmds = <<>> THEN 0
    ELSE (IF Head(cmds).ppa[1] = l THEN Head(cmds).size ELSE 0) + SumOf(Tail(cmds), l)

(***************************************************************************)
(* Actions                                                                 *)
(***************************************************************************)
\* What a read command comes to, wherever the FTL has put its pages: whether
\* it is a single page, the NAND reads, and per LUN the pages they leave out.
Reads ==
    UNION {{LET cmds == read_loop(ppas)
                asked(l) == Cardinality({i \in 1 .. n : ppas[i] # UNMAPPED /\ ppas[i][1] = l})
            IN [single |-> n = 1, cmds |-> cmds,
                missed |-> [l \in Luns |-> asked(l) - SumOf(cmds, l)]] :
              ppas \in [1 .. n -> FlashPages \cup {UNMAPPED}]} : n \in 1 .. MAX_READ}

Bookable == \A l \in Luns : next_lun_avail_time[l] <= clock + MAX_LEAD

conv_read ==
    /\ Bookable
    /\ \E read \in Reads :
         /\ Becomes(Issue(read.cmds, clock + (IF read.single THEN FW_4KB_RD_LAT ELSE FW_RD_LAT)))
         /\ owed' = [l \in Luns |-> owed[l] + read.missed[l]]
    /\ UNCHANGED <<clock, settled>>

\* A page of a host write: it crosses PCIe into the write buffer, and the last
\* page of a wordline starts the program.
conv_write ==
    /\ Bookable
    /\ \E xfer \in {ssd_advance_write_buffer(Now, clock, 1)} :
         \/ Becomes(xfer.s) /\ UNCHANGED settled
         \/ \E l \in Luns : \E prog \in {nand_write(xfer.s, l, xfer.time, PGS_PER_ONESHOTPG)} :
              Becomes(prog.s) /\ settled' = Later(settled, prog.time)
    /\ UNCHANGED <<clock, owed>>

\* The NAND commands of a collection start when they are issued: stime is 0.
gc_read_page ==
    /\ Bookable
    /\ \E l \in Luns : Becomes(nand_read(Now, l, clock, 1, FALSE).s)
    /\ UNCHANGED <<clock, settled, owed>>

gc_write_page ==
    /\ Bookable
    /\ \E l \in Luns :
         \/ Becomes(nand_nop(Now, l, clock).s) /\ UNCHANGED settled
         \/ \E prog \in {nand_write(Now, l, clock, PGS_PER_ONESHOTPG)} :
              Becomes(prog.s) /\ settled' = Later(settled, prog.time)
    /\ UNCHANGED <<clock, owed>>

gc_erase ==
    /\ Bookable
    /\ \E l \in Luns : \E er \in {nand_erase(Now, l, clock)} :
         Becomes(er.s) /\ settled' = Later(settled, er.time)
    /\ UNCHANGED <<clock, owed>>

NandTick ==
    /\ clock' = clock + 1
    /\ UNCHANGED <<next_lun_avail_time, ch, pcie, ch_book, pcie_book, settled, owed>>

NandNext == conv_read \/ conv_write \/ gc_read_page \/ gc_write_page \/ gc_erase \/ NandTick

(***************************************************************************)
(* Properties                                                              *)
(***************************************************************************)
\* The ring of a link agrees with a ledger kept in absolute time, whatever
\* the clock skips and however often the ring wraps: an interval never gives
\* out more than its credits, and none is lost or given twice when the head
\* moves over it.
Agree(link, book, credits) ==
    \A k \in Channel!Slots :
      link.avail[Channel!slot(link, k)] = credits - Entry(book, Channel!Interval(link.cur_time) + k)

BookKept == Agree(ch, ch_book, CH_CREDITS) /\ Agree(pcie, pcie_book, PCIE_CREDITS)

\* A flush (conv_flush, fdp_flush) waits for every program and erase issued
\* before it: no later command on the LUN moves its time back.
FlushCovers == ssd_next_idle_time >= settled

\* A read asks the NAND for each mapped page of the command once, on the LUN
\* that holds it, however mapped, unmapped and shared flash pages alternate.
ReadsWhole == \A l \in Luns : owed[l] = 0
=============================================================================
