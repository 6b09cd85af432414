------------------------------ MODULE MCParts ------------------------------
(***************************************************************************)
(* Model checking of FdpEvents, NandTiming and VictimHeap, three parts of  *)
(* the firmware that share no state, in one run: in a behaviour only one   *)
(* of them moves.  Nothing in NandTiming depends on absolute time: the     *)
(* view keeps times relative to the clock, and of those that have passed   *)
(* only that.  The heap asks nothing of a line but its priority and place. *)
(***************************************************************************)
EXTENDS FdpEvents, NandTiming, VictimHeap

VARIABLE part

PartsInit == part \in {"events", "nand", "heap"} /\ Init /\ NandInit /\ HeapInit

PartsNext ==
    \/ part = "events" /\ Next /\ UNCHANGED <<nandVars, heapVars, part>>
    \/ part = "nand" /\ NandNext /\ UNCHANGED <<vars, heapVars, part>>
    \/ part = "heap" /\ HeapNext /\ UNCHANGED <<vars, nandVars, part>>

PartsSpec == PartsInit /\ [][PartsNext]_<<vars, nandVars, heapVars, part>>

\* A link and its ledger as seen from the clock: the next request fills up
\* the intervals that have passed before anything else.
LinkView(link, book) ==
    LET now  == Channel!Interval(clock)
        seen == Channel!move_head(link, clock)
    IN <<seen.head, seen.avail, seen.valid_len,
         {<<i - now, book[i]>> : i \in {j \in DOMAIN book : j >= now}}>>

\* As in MCFdpFtl: comparing a function with itself makes TLC tabulate it.
Tabulated == /\ ch = ch /\ pcie = pcie /\ ch_book = ch_book /\ pcie_book = pcie_book
             /\ owed = owed /\ next_lun_avail_time = next_lun_avail_time /\ ring = ring
             /\ heap = heap /\ prio = prio

HeapView ==
    <<[i \in DOMAIN heap.d |-> <<prio[heap.d[i]], heap.pos[heap.d[i]]>>],
      {heap.pos[l] : l \in HeapLines \ Members}>>

PartsView ==
    <<Tabulated, vars, part, clock % UNIT_TIME_INTERVAL, Later(settled - clock, 0), owed,
      [l \in Luns |-> Later(next_lun_avail_time[l] - clock, 0)],
      LinkView(ch, ch_book), LinkView(pcie, pcie_book), HeapView>>
=============================================================================
