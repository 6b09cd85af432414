------------------------------- MODULE ConvFtl -------------------------------
(***************************************************************************)
(* One partition of the conventional FTL (conv_ftl.c), with the structures *)
(* it works on: the free list is a FIFO, the victim lines are in the heap  *)
(* of PQueue, a write pointer walks the (pg, ch, lun) coordinates of its   *)
(* line, and a collection visits the victim flash page by flash page and   *)
(* erases each block as it leaves it.  The order of visits differs from    *)
(* the order of the writes.  Refines FdpFtl with a single handle.          *)
(*                                                                         *)
(* Abstractions.  Page contents, NAND timing (NandTiming) and the write    *)
(* buffer (WorkQueue) are not represented; a block's own vpc and ipc       *)
(* follow from the status of its pages.                                    *)
(***************************************************************************)
EXTENDS SsdParams, PQueue, FiniteSets, TLC

CONSTANTS PBA_PCENT,   \* physical space in percent of the logical space
          UINT_MOD,    \* 2^32: the credit counters are uint32_t
          NULL, UNMAPPED_PPA, INVALID_LPN

LPNs   == 0 .. (((CAPACITY * 100) \div PBA_PCENT) \div NR_PARTS - 1)
Lines  == 0 .. (spp.tt_lines - 1)
Coords == (0 .. (spp.nchs - 1)) \X (0 .. (spp.luns_per_ch - 1)) \X (0 .. (spp.pgs_per_blk - 1))
Pages  == Lines \X Coords      \* struct ppa: the line (blk), and <<ch, lun, pg>>

\* The two pointers, with the numbers FdpFtl gives them.
USER_IO == 0
GC_IO   == -1

VARIABLES
    pg, maptbl, rmap,
    free_line_list,            \* a FIFO
    full_lines,
    victim_line_pq,            \* the heap, with the pos of every line
    vpc, ipc,                  \* per line
    wp,                        \* both write pointers
    write_credits, credits_to_refill,
    pc, io,                    \* where the dispatcher stands
    gc_line, gc_at,            \* do_gc: the victim and the next step of GcPlan
    opened_by                  \* history: the pointer that opened each line

vars == <<pg, maptbl, rmap, free_line_list, full_lines, victim_line_pq, vpc, ipc, wp,
          write_credits, credits_to_refill, pc, io, gc_line, gc_at, opened_by>>

gcVars  == <<gc_line, gc_at>>
wfcVars == <<write_credits, credits_to_refill>>

gc_thres_lines_high == 2
should_gc_high      == Len(free_line_list) <= gc_thres_lines_high
mapped_ppa(ppa)     == ppa # UNMAPPED_PPA

set_rmap_ent(r, n, ppa) == [r EXCEPT ![ppa] = n]

\* prepare_write_pointer
At(line) == [line |-> line, ch |-> 0, lun |-> 0, pg |-> 0]

get_new_page(w) == <<wp[w].line, <<wp[w].ch, wp[w].lun, wp[w].pg>>>>

\* conv_init_ftl: the host's pointer takes the first line, the collection's
\* the second.
Init ==
    /\ pg = [p \in Pages |-> "free"]
    /\ maptbl = [n \in LPNs |-> UNMAPPED_PPA]
    /\ rmap = [p \in Pages |-> INVALID_LPN]
    /\ free_line_list = [i \in 1 .. (spp.tt_lines - 2) |-> i + 1]
    /\ full_lines = {} /\ victim_line_pq = pqueue_init(Lines)
    /\ vpc = [l \in Lines |-> 0] /\ ipc = [l \in Lines |-> 0]
    /\ wp = (USER_IO :> At(0) @@ GC_IO :> At(1))
    /\ write_credits = spp.pgs_per_line /\ credits_to_refill = spp.pgs_per_line
    /\ pc = "idle" /\ io = GC_IO
    /\ gc_line = NULL /\ gc_at = 1
    /\ opened_by = [l \in Lines |-> IF l = 0 THEN USER_IO ELSE GC_IO]

(***************************************************************************)
(* advance_write_pointer: the pages of a wordline, then the same wordline  *)
(* on the next channel, on the next LUN, then the next wordline.  A pg of  *)
(* pgs_per_blk is the end of the line, dealt with by Rotate.               *)
(***************************************************************************)
\* Mutant: the next channel is not started at the wordline's first page.
next_position_on(w) ==
    IF (w.pg + 1) % spp.pgs_per_oneshotpg # 0 THEN [w EXCEPT !.pg = @ + 1]
    ELSE IF w.ch + 1 # spp.nchs THEN [w EXCEPT !.pg = @ + 1, !.ch = @ + 1]
    ELSE IF w.lun + 1 # spp.luns_per_ch THEN [w EXCEPT !.pg = @ + 1, !.ch = 0, !.lun = @ + 1]
    ELSE [w EXCEPT !.pg = @ + 1, !.ch = 0, !.lun = 0]

next_position(w) ==
    IF (w.pg + 1) % spp.pgs_per_oneshotpg # 0 THEN [w EXCEPT !.pg = @ + 1]
    ELSE LET start == w.pg + 1 - spp.pgs_per_oneshotpg IN
      IF w.ch + 1 # spp.nchs THEN [w EXCEPT !.pg = start, !.ch = @ + 1]
      ELSE IF w.lun + 1 # spp.luns_per_ch THEN [w EXCEPT !.pg = start, !.ch = 0, !.lun = @ + 1]
      ELSE [w EXCEPT !.pg = start + spp.pgs_per_oneshotpg, !.ch = 0, !.lun = 0]

AdvanceInLine(w, next) ==
    /\ wp' = [wp EXCEPT ![w] = next_position(@)]
    /\ pc' = IF wp'[w].pg = spp.pgs_per_blk THEN "rotate" ELSE next
    /\ io' = w

CloseLine(l) ==
    IF vpc[l] = spp.pgs_per_line
    THEN full_lines' = full_lines \cup {l} /\ UNCHANGED victim_line_pq
    ELSE victim_line_pq' = pqueue_insert(victim_line_pq, vpc, l) /\ UNCHANGED full_lines

Rotate ==
    /\ pc = "rotate"
    /\ CloseLine(wp[io].line)
    /\ free_line_list # <<>>
    /\ free_line_list' = Tail(free_line_list)
    /\ wp' = [wp EXCEPT ![io] = At(Head(free_line_list))]
    /\ opened_by' = [opened_by EXCEPT ![Head(free_line_list)] = io]
    /\ pc' = IF io = GC_IO THEN "gc" ELSE "credit"
    /\ UNCHANGED <<pg, maptbl, rmap, vpc, ipc, wfcVars, io, gcVars>>

\* get_next_free_line returns NULL and curline->id is read.
RotateNull ==
    /\ pc = "rotate"
    /\ CloseLine(wp[io].line)
    /\ free_line_list = <<>>
    /\ wp' = [wp EXCEPT ![io] = At(NULL)]
    /\ pc' = "oops"
    /\ UNCHANGED <<pg, maptbl, rmap, free_line_list, vpc, ipc, wfcVars, io, gcVars, opened_by>>

(***************************************************************************)
(* The page loop of conv_write                                             *)
(***************************************************************************)
\* mark_page_invalid's effect on vpc and the heap: a line in the heap (pos is
\* not 0) moves in it, a full line enters it.
vpc_less(l) == [vpc EXCEPT ![l] = @ - 1]

\* Mutant: the heap is not told of the new priority.
victims_after_stale(l) ==
    IF vpc[l] = spp.pgs_per_line THEN pqueue_insert(victim_line_pq, vpc_less(l), l)
    ELSE victim_line_pq

victims_after(l) ==
    LET moved == IF victim_line_pq.pos[l] # 0
                 THEN pqueue_change_priority(victim_line_pq, vpc, vpc_less(l), l)
                 ELSE victim_line_pq
    IN IF vpc[l] = spp.pgs_per_line THEN pqueue_insert(moved, vpc_less(l), l) ELSE moved

WriteNew(n) ==
    /\ pc = "idle"
    /\ ~mapped_ppa(maptbl[n])
    /\ LET new == get_new_page(USER_IO) IN
         /\ maptbl' = [maptbl EXCEPT ![n] = new]
         /\ rmap' = set_rmap_ent(rmap, n, new)
         /\ pg' = [pg EXCEPT ![new] = "valid"]
         /\ vpc' = [vpc EXCEPT ![new[1]] = @ + 1]
    /\ AdvanceInLine(USER_IO, "credit")
    /\ UNCHANGED <<free_line_list, full_lines, victim_line_pq, ipc, wfcVars, gcVars, opened_by>>

Overwrite(n) ==
    /\ pc = "idle"
    /\ mapped_ppa(maptbl[n])
    /\ LET old == maptbl[n]
           new == get_new_page(USER_IO)
           l   == old[1]
       IN
         /\ pg' = [pg EXCEPT ![old] = "invalid", ![new] = "valid"]
         /\ ipc' = [ipc EXCEPT ![l] = @ + 1]
         /\ vpc' = [vpc_less(l) EXCEPT ![new[1]] = @ + 1]
         /\ full_lines' = IF vpc[l] = spp.pgs_per_line THEN full_lines \ {l} ELSE full_lines
         /\ victim_line_pq' = victims_after(l)
         /\ maptbl' = [maptbl EXCEPT ![n] = new]
         /\ rmap' = set_rmap_ent(set_rmap_ent(rmap, INVALID_LPN, old), n, new)
    /\ AdvanceInLine(USER_IO, "credit")
    /\ UNCHANGED <<free_line_list, wfcVars, gcVars, opened_by>>

consume_write_credit ==
    /\ pc = "credit"
    /\ write_credits' = (write_credits - 1) % UINT_MOD
    /\ pc' = IF write_credits' = 0 THEN "check" ELSE "idle"
    /\ UNCHANGED <<pg, maptbl, rmap, free_line_list, full_lines, victim_line_pq, vpc, ipc, wp,
                   credits_to_refill, io, gcVars, opened_by>>

RefillCredits == write_credits' = (write_credits + credits_to_refill) % UINT_MOD

(***************************************************************************)
(* foreground_gc and do_gc                                                 *)
(***************************************************************************)
RefillWithoutGc ==
    /\ pc = "check"
    /\ ~should_gc_high \/ victim_line_pq.d = <<>>
    /\ RefillCredits
    /\ pc' = "idle"
    /\ UNCHANGED <<pg, maptbl, rmap, free_line_list, full_lines, victim_line_pq, vpc, ipc, wp,
                   credits_to_refill, io, gcVars, opened_by>>

\* The loops of do_gc laid out: flash page by flash page over all channels
\* and LUNs, the pages one by one, and behind the last flash page of a block
\* its erase.
Flatten(k, sizes) == <<k \div (sizes[2] * sizes[3]), (k \div sizes[3]) % sizes[2], k % sizes[3]>>

GcPlan ==
    LET f     == spp.pgs_per_flashpg
        visit == [k \in 0 .. (spp.flashpgs_per_blk * spp.tt_luns - 1) |->
                    Flatten(k, <<spp.flashpgs_per_blk, spp.nchs, spp.luns_per_ch>>)]
        clean_one_flashpg(v) ==
          [i \in 1 .. f |-> [op |-> "clean", ch |-> v[2], lun |-> v[3], pg |-> v[1] * f + i - 1]]
        erase(v) == IF v[1] = spp.flashpgs_per_blk - 1
                    THEN <<[op |-> "erase", ch |-> v[2], lun |-> v[3], pg |-> 0]>> ELSE <<>>
        plan[k \in 0 .. Cardinality(DOMAIN visit)] ==
          IF k = 0 THEN <<>> ELSE plan[k - 1] \o clean_one_flashpg(visit[k - 1]) \o erase(visit[k - 1])
    IN plan[Cardinality(DOMAIN visit)]

GcStep == GcPlan[gc_at]
GcPageAt(l, i) == <<l, <<GcPlan[i].ch, GcPlan[i].lun, GcPlan[i].pg>>>>

\* The next step from k on that has something to do: clean_one_flashpg looks
\* at every page, and relocates the valid ones.
due(l, k) ==
    LET busy == {i \in k .. Len(GcPlan) : GcPlan[i].op = "clean" => pg[GcPageAt(l, i)] = "valid"}
    IN IF busy = {} THEN Len(GcPlan) + 1 ELSE CHOOSE i \in busy : \A j \in busy : i <= j

\* select_victim_line
popped(q, v) == [pqueue_pop(q, vpc) EXCEPT !.pos[v] = 0]

StartGc ==
    /\ pc = "check"
    /\ should_gc_high
    /\ victim_line_pq.d # <<>>
    /\ LET v == pqueue_peek(victim_line_pq) IN
         /\ victim_line_pq' = popped(victim_line_pq, v)
         /\ gc_line' = v
         /\ credits_to_refill' = ipc[v]
         /\ gc_at' = due(v, 1)
    /\ pc' = "gc"
    /\ UNCHANGED <<pg, maptbl, rmap, free_line_list, full_lines, vpc, ipc, wp, write_credits, io,
                   opened_by>>

InGc(op) == pc = "gc" /\ gc_at <= Len(GcPlan) /\ GcStep.op = op

gc_write_page ==
    /\ InGc("clean")
    /\ LET n   == rmap[GcPageAt(gc_line, gc_at)]
           new == get_new_page(GC_IO)
       IN
         /\ maptbl' = [maptbl EXCEPT ![n] = new]
         /\ rmap' = set_rmap_ent(rmap, n, new)
         /\ pg' = [pg EXCEPT ![new] = "valid"]
         /\ vpc' = [vpc EXCEPT ![new[1]] = @ + 1]
    /\ AdvanceInLine(GC_IO, "gc")
    /\ gc_at' = due(gc_line, gc_at + 1)
    /\ UNCHANGED <<free_line_list, full_lines, victim_line_pq, ipc, wfcVars, gc_line, opened_by>>

mark_block_free ==
    /\ InGc("erase")
    /\ pg' = [p \in Pages |->
                IF p[1] = gc_line /\ p[2][1] = GcStep.ch /\ p[2][2] = GcStep.lun
                THEN "free" ELSE pg[p]]
    /\ gc_at' = due(gc_line, gc_at + 1)
    /\ UNCHANGED <<maptbl, rmap, free_line_list, full_lines, victim_line_pq, vpc, ipc, wp,
                   wfcVars, pc, io, gc_line, opened_by>>

mark_line_free ==
    /\ pc = "gc" /\ gc_at > Len(GcPlan)
    /\ vpc' = [vpc EXCEPT ![gc_line] = 0]
    /\ ipc' = [ipc EXCEPT ![gc_line] = 0]
    /\ free_line_list' = Append(free_line_list, gc_line)
    /\ opened_by' = [opened_by EXCEPT ![gc_line] = GC_IO]
    /\ gc_line' = NULL /\ gc_at' = 1
    /\ RefillCredits
    /\ pc' = "idle"
    /\ UNCHANGED <<pg, maptbl, rmap, full_lines, victim_line_pq, wp, credits_to_refill, io>>

Next ==
    \/ \E n \in LPNs : WriteNew(n) \/ Overwrite(n)
    \/ Rotate \/ RotateNull \/ consume_write_credit \/ RefillWithoutGc
    \/ StartGc \/ gc_write_page \/ mark_block_free \/ mark_line_free

Spec == Init /\ [][Next]_vars

(***************************************************************************)
(* Properties                                                              *)
(***************************************************************************)
\* The victim heap is a heap at every step (pqueue_is_valid), its array and
\* the pos of the lines agree, and a line outside it has pos 0, which is what
\* mark_page_invalid goes by when it decides whether to move the line in it.
HeapSound ==
    /\ pqueue_is_valid(victim_line_pq, vpc)
    /\ \A i \in DOMAIN victim_line_pq.d : victim_line_pq.pos[victim_line_pq.d[i]] = i
    /\ \A l \in Lines : victim_line_pq.pos[l] # 0 =>
          \E i \in DOMAIN victim_line_pq.d : victim_line_pq.d[i] = l

\* The rank of a coordinate in the order of the writes, and its inverse.
Rank(ch, lun, p) ==
    LET o == spp.pgs_per_oneshotpg IN
      ((p \div o) * spp.luns_per_ch * spp.nchs + lun * spp.nchs + ch) * o + (p % o)

CoordAt == [k \in 0 .. (spp.pgs_per_line - 1) |-> CHOOSE c \in Coords : Rank(c[1], c[2], c[3]) = k]

RankOf  == [c \in Coords |-> Rank(c[1], c[2], c[3])]

Ranked(ppa) == IF mapped_ppa(ppa) THEN <<ppa[1], RankOf[ppa[2]]>> ELSE ppa

RankedPages == Lines \X (0 .. (spp.pgs_per_line - 1))
Unranked(p) == <<p[1], CoordAt[p[2]]>>

\* A page of the victim whose block is erased already counts with the status
\* it had, which its rmap entry still tells.
StatusOf(p) ==
    IF p[1] = gc_line THEN (IF rmap[p] = INVALID_LPN THEN "invalid" ELSE "valid") ELSE pg[p]

ToRelocate ==
    {i \in gc_at .. Len(GcPlan) :
       gc_line # NULL /\ GcPlan[i].op = "clean" /\ pg[GcPageAt(gc_line, i)] = "valid"}

Fdp == INSTANCE FdpFtl WITH
    PGS_PER_LINE <- spp.pgs_per_line,
    NR_RUH       <- 1,
    pg           <- [p \in RankedPages |-> StatusOf(Unranked(p))],
    maptbl       <- [n \in LPNs |-> Ranked(maptbl[n])],
    rmap         <- [p \in RankedPages |-> rmap[Unranked(p)]],
    free_lines   <- {free_line_list[i] : i \in DOMAIN free_line_list},
    victim_lines <- {victim_line_pq.d[i] : i \in DOMAIN victim_line_pq.d},
    ruh          <- opened_by,
    wp           <- [w \in {GC_IO, USER_IO} |->
                       [line |-> wp[w].line, off |-> Rank(wp[w].ch, wp[w].lun, wp[w].pg)]],
    todo         <- {Ranked(GcPageAt(gc_line, i)) : i \in ToRelocate}

\* The conventional FTL is the FDP one with a single handle: FIFO, heap, walk
\* and visiting order only resolve choices FdpFtl leaves open, the victim is
\* always one with the fewest valid pages, and every page of a line is
\* written once and relocated at most once before its block is erased.  So
\* what is proved of FdpFtl for every size holds here as well.
ImplementsFdpFtl == Fdp!Spec
=============================================================================
