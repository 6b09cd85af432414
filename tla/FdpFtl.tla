------------------------------- MODULE FdpFtl -------------------------------
(***************************************************************************)
(* One partition of the FDP flash translation layer (fdp_ftl.c): page      *)
(* states, the two mapping tables, the line lists, one write pointer per   *)
(* reclaim unit handle (RUH) plus one for garbage collection, and the      *)
(* write-credit flow control that decides when a foreground collection     *)
(* runs.  Everything here executes on the dispatcher thread; pc is the     *)
(* point that thread has reached inside the per-page loop of fdp_write.    *)
(*                                                                         *)
(* Abstractions.  A page is a line and its rank in the order in which      *)
(* advance_write_pointer visits the (pg, ch, lun) coordinates of a line.   *)
(* The free list and the victim heap are sets: any free line may be taken, *)
(* and any victim of minimal vpc.  The pages of a victim are relocated in  *)
(* any order.  Page contents and NAND timing are not represented.          *)
(***************************************************************************)
EXTENDS Integers, FiniteSets

CONSTANTS Lines,         \* the lines (superblocks) of the partition
          PGS_PER_LINE,  \* pages in a line
          LPNs,          \* logical pages the host may write
          NR_RUH,        \* FDP_NR_RUH
          UINT_MOD,      \* 2^32: the credit counters are uint32_t
          NULL, UNMAPPED_PPA, INVALID_LPN

RUH     == 0 .. (NR_RUH - 1)
GC_IO   == -1                    \* the GC write pointer, and the "no RUH" tag
WPs     == -1 .. (NR_RUH - 1)    \* every write pointer
Offsets == 0 .. (PGS_PER_LINE - 1)
Pages   == Lines \X Offsets

ASSUME SizesAssumption ==
    /\ IsFiniteSet(Lines)
    /\ IsFiniteSet(LPNs)
    /\ NR_RUH \in Nat \ {0}
    /\ PGS_PER_LINE \in Nat \ {0}
    /\ UINT_MOD \in Nat
    /\ PGS_PER_LINE < UINT_MOD

ASSUME MarkerAssumption ==
    /\ NULL \notin Lines
    /\ UNMAPPED_PPA \notin Pages
    /\ INVALID_LPN \notin LPNs

\* Room for an open line per write pointer (prepare_write_pointer asserts it).
ASSUME OpenLinesAssumption == Cardinality(Lines) > NR_RUH + 1

VARIABLES
    pg,                 \* status of each page
    maptbl, rmap,       \* logical-to-physical map and its reverse
    free_lines,         \* lm.free_line_list
    full_lines,         \* lm.full_line_list
    victim_lines,       \* lm.victim_line_pq
    vpc, ipc, ruh,      \* per line: valid pages, invalid pages, RUH tag
    wp,                 \* write pointers: current line and next page rank
    write_credits, credits_to_refill,
    pc,                 \* where the dispatcher stands
    io,                 \* the write pointer the running step uses
    gc_line,            \* the line do_gc is collecting, or NULL
    todo                \* its valid pages still to be relocated

vars == <<pg, maptbl, rmap, free_lines, full_lines, victim_lines, vpc, ipc, ruh,
          wp, write_credits, credits_to_refill, pc, io, gc_line, todo>>

gcVars   == <<gc_line, todo>>
wfcVars  == <<write_credits, credits_to_refill>>

(***************************************************************************)
(* Reading the state                                                       *)
(***************************************************************************)
\* Mutant: collections wait until the free list is empty.
gc_thres_none       == 0
gc_thres_lines_high == NR_RUH + 1
should_gc_high == Cardinality(free_lines) <= gc_thres_lines_high

mapped_ppa(ppa) == ppa # UNMAPPED_PPA

get_new_page(w) == <<wp[w].line, wp[w].off>>

\* Mutant: an entry left over from before an erase is kept.
set_rmap_once(r, n, p) == IF r[p] = INVALID_LPN THEN [r EXCEPT ![p] = n] ELSE r
set_rmap_ent(r, n, p)  == [r EXCEPT ![p] = n]

\* curline->ruh of a line opened by w.  Mutant: the ruh argument, which is 0
\* for the GC pointer, without the test of io_type.
line_tag_arg(w) == IF w = GC_IO THEN 0 ELSE w
line_tag(w)     == w

\* Mutant: an off-by-one test for a full line.
was_full_line_off(l) == vpc[l] >= PGS_PER_LINE - 1
was_full_line(l)     == vpc[l] = PGS_PER_LINE

LinePages(l)    == {l} \X Offsets
ValidPages(l)   == {p \in LinePages(l) : pg[p] = "valid"}
InvalidPages(l) == {p \in LinePages(l) : pg[p] = "invalid"}
FreePages       == {p \in Pages : pg[p] = "free"}
OpenLines       == {wp[w].line : w \in WPs}

\* The lines the heap may have at its root.
select_victim_line == {v \in victim_lines : \A o \in victim_lines : vpc[v] <= vpc[o]}

Init ==
    /\ pg = [p \in Pages |-> "free"]
    /\ maptbl = [n \in LPNs |-> UNMAPPED_PPA]
    /\ rmap = [p \in Pages |-> INVALID_LPN]
    /\ full_lines = {} /\ victim_lines = {}
    /\ vpc = [l \in Lines |-> 0] /\ ipc = [l \in Lines |-> 0]
    /\ \E first \in [WPs -> Lines] :
         /\ \A v, w \in WPs : v # w => first[v] # first[w]
         /\ free_lines = Lines \ {first[w] : w \in WPs}
         /\ wp = [w \in WPs |-> [line |-> first[w], off |-> 0]]
         /\ ruh = [l \in Lines |-> IF \E w \in WPs : first[w] = l
                                   THEN CHOOSE w \in WPs : first[w] = l ELSE GC_IO]
    /\ write_credits = PGS_PER_LINE /\ credits_to_refill = PGS_PER_LINE
    /\ pc = "idle" /\ io = GC_IO
    /\ gc_line = NULL /\ todo = {}

(***************************************************************************)
(* Page programming, shared by host writes and relocations: the new page   *)
(* becomes valid, both tables name it, and the write pointer moves on.     *)
(* The last page of a line leaves the pointer at PGS_PER_LINE, which is    *)
(* the rotation case of advance_write_pointer.                             *)
(***************************************************************************)
\* Mutant: the end of the line is noticed one page late.
AdvanceInLineLate(w, next) ==
    /\ wp' = [wp EXCEPT ![w].off = @ + 1]
    /\ pc' = IF wp[w].off = PGS_PER_LINE THEN "rotate" ELSE next
    /\ io' = w

AdvanceInLine(w, next) ==
    /\ wp' = [wp EXCEPT ![w].off = @ + 1]
    /\ pc' = IF wp[w].off + 1 = PGS_PER_LINE THEN "rotate" ELSE next
    /\ io' = w

\* One iteration of the loop of fdp_write for an LPN that holds no data yet.
WriteNew(n, r) ==
    /\ pc = "idle"
    /\ ~mapped_ppa(maptbl[n])
    /\ LET new == get_new_page(r) IN
         /\ maptbl' = [maptbl EXCEPT ![n] = new]
         /\ rmap' = set_rmap_ent(rmap, n, new)
         /\ pg' = [pg EXCEPT ![new] = "valid"]
         /\ vpc' = [vpc EXCEPT ![new[1]] = @ + 1]
    /\ AdvanceInLine(r, "credit")
    /\ UNCHANGED <<free_lines, full_lines, victim_lines, ipc, ruh, wfcVars, gcVars>>

\* The same for an LPN that is overwritten: mark_page_invalid comes first,
\* and takes a full line to the victim heap.
Overwrite(n, r) ==
    /\ pc = "idle"
    /\ mapped_ppa(maptbl[n])
    /\ LET old == maptbl[n]
           new == get_new_page(r)
           full == was_full_line(old[1])
           vpc1 == [vpc EXCEPT ![old[1]] = @ - 1]
       IN
         /\ maptbl' = [maptbl EXCEPT ![n] = new]
         /\ rmap' = set_rmap_ent(set_rmap_ent(rmap, INVALID_LPN, old), n, new)
         /\ pg' = [pg EXCEPT ![old] = "invalid", ![new] = "valid"]
         /\ ipc' = [ipc EXCEPT ![old[1]] = @ + 1]
         /\ vpc' = [vpc1 EXCEPT ![new[1]] = @ + 1]
         /\ full_lines' = IF full THEN full_lines \ {old[1]} ELSE full_lines
         /\ victim_lines' = IF full THEN victim_lines \cup {old[1]} ELSE victim_lines
    /\ AdvanceInLine(r, "credit")
    /\ UNCHANGED <<free_lines, ruh, wfcVars, gcVars>>

\* advance_write_pointer at the end of a line: the line is closed, and the
\* pointer opens the next free line.  Mutant: a closed line counts as full.
CloseLineFull(l) == full_lines' = full_lines \cup {l} /\ UNCHANGED victim_lines

CloseLine(l) ==
    IF was_full_line(l)
    THEN full_lines' = full_lines \cup {l} /\ UNCHANGED victim_lines
    ELSE victim_lines' = victim_lines \cup {l} /\ UNCHANGED full_lines

Rotate ==
    /\ pc = "rotate"
    /\ CloseLine(wp[io].line)
    /\ \E l \in free_lines :
         /\ free_lines' = free_lines \ {l}
         /\ ruh' = [ruh EXCEPT ![l] = line_tag(io)]
         /\ wp' = [wp EXCEPT ![io] = [line |-> l, off |-> 0]]
    /\ pc' = IF io = GC_IO THEN "gc" ELSE "credit"
    /\ UNCHANGED <<pg, maptbl, rmap, vpc, ipc, wfcVars, io, gcVars>>

\* The same with an empty free list: get_next_free_line returns NULL and
\* the next statement dereferences it.
RotateNull ==
    /\ pc = "rotate"
    /\ free_lines = {}
    /\ CloseLine(wp[io].line)
    /\ wp' = [wp EXCEPT ![io] = [line |-> NULL, off |-> 0]]
    /\ pc' = "oops"
    /\ UNCHANGED <<pg, maptbl, rmap, free_lines, vpc, ipc, ruh, wfcVars, io, gcVars>>

(***************************************************************************)
(* Write credits and foreground garbage collection                         *)
(***************************************************************************)
consume_write_credit ==
    /\ pc = "credit"
    /\ write_credits' = (write_credits - 1) % UINT_MOD
    /\ pc' = IF write_credits' = 0 THEN "check" ELSE "idle"
    /\ UNCHANGED <<pg, maptbl, rmap, free_lines, full_lines, victim_lines, vpc, ipc, ruh,
                   wp, credits_to_refill, io, gcVars>>

RefillCredits ==
    write_credits' = (write_credits + credits_to_refill) % UINT_MOD

\* check_and_refill_write_credit when foreground_gc has nothing to do, or
\* finds no victim.
RefillWithoutGc ==
    /\ pc = "check"
    /\ ~should_gc_high \/ victim_lines = {}
    /\ RefillCredits
    /\ pc' = "idle"
    /\ UNCHANGED <<pg, maptbl, rmap, free_lines, full_lines, victim_lines, vpc, ipc, ruh,
                   wp, credits_to_refill, io, gcVars>>

\* do_gc: the victim leaves the heap and its invalid pages set the refill.
StartGc ==
    /\ pc = "check"
    /\ should_gc_high
    /\ \E v \in select_victim_line :
         /\ victim_lines' = victim_lines \ {v}
         /\ gc_line' = v
         /\ todo' = ValidPages(v)
         /\ credits_to_refill' = ipc[v]
    /\ pc' = "gc"
    /\ UNCHANGED <<pg, maptbl, rmap, free_lines, full_lines, vpc, ipc, ruh, wp,
                   write_credits, io>>

\* gc_write_page: the victim's page keeps its status and its rmap entry.
GcWritePage(old) ==
    /\ pc = "gc"
    /\ old \in todo
    /\ LET n   == rmap[old]
           new == get_new_page(GC_IO)
       IN
         /\ maptbl' = [maptbl EXCEPT ![n] = new]
         /\ rmap' = set_rmap_ent(rmap, n, new)
         /\ pg' = [pg EXCEPT ![new] = "valid"]
         /\ vpc' = [vpc EXCEPT ![new[1]] = @ + 1]
    /\ AdvanceInLine(GC_IO, "gc")
    /\ todo' = todo \ {old}
    /\ UNCHANGED <<free_lines, full_lines, victim_lines, ipc, ruh, wfcVars, gc_line>>

\* mark_block_free on every block, mark_line_free, and the refill that
\* check_and_refill_write_credit does once foreground_gc returns.
EndGc ==
    /\ pc = "gc"
    /\ todo = {}
    /\ pg' = [p \in Pages |-> IF p[1] = gc_line THEN "free" ELSE pg[p]]
    /\ vpc' = [vpc EXCEPT ![gc_line] = 0]
    /\ ipc' = [ipc EXCEPT ![gc_line] = 0]
    /\ ruh' = [ruh EXCEPT ![gc_line] = GC_IO]
    /\ free_lines' = free_lines \cup {gc_line}
    /\ gc_line' = NULL
    /\ RefillCredits
    /\ pc' = "idle"
    /\ UNCHANGED <<maptbl, rmap, full_lines, victim_lines, wp, credits_to_refill, io, todo>>

HostWrite == \E n \in LPNs, r \in RUH : WriteNew(n, r) \/ Overwrite(n, r)

Firmware ==
    \/ Rotate
    \/ RotateNull
    \/ consume_write_credit
    \/ RefillWithoutGc
    \/ StartGc
    \/ \E old \in todo : GcWritePage(old)
    \/ EndGc

Next == HostWrite \/ Firmware

Spec == Init /\ [][Next]_vars

(***************************************************************************)
(* Properties                                                              *)
(***************************************************************************)

\* Every variable has the type its C declaration and its uses give it.
TypeOK ==
    /\ pg \in [Pages -> {"free", "valid", "invalid"}]
    /\ maptbl \in [LPNs -> Pages \cup {UNMAPPED_PPA}]
    /\ rmap \in [Pages -> LPNs \cup {INVALID_LPN}]
    /\ free_lines \in SUBSET Lines
    /\ full_lines \in SUBSET Lines
    /\ victim_lines \in SUBSET Lines
    /\ vpc \in [Lines -> 0 .. PGS_PER_LINE]
    /\ ipc \in [Lines -> 0 .. PGS_PER_LINE]
    /\ ruh \in [Lines -> WPs]
    /\ wp \in [WPs -> [line : Lines \cup {NULL}, off : 0 .. PGS_PER_LINE]]
    /\ write_credits \in 0 .. (UINT_MOD - 1)
    /\ credits_to_refill \in 0 .. PGS_PER_LINE
    /\ pc \in {"idle", "rotate", "credit", "check", "gc", "oops"}
    /\ io \in WPs
    /\ gc_line \in Lines \cup {NULL}
    /\ todo \in SUBSET Pages

\* maptbl and rmap are inverse to each other on the valid pages, at every
\* point of a write and of a collection: a mapped LPN names a valid page
\* whose reverse entry names it, and a valid page belongs to the LPN mapped
\* to it, except for the pages of the victim that gc_write_page has already
\* copied, which stay valid until the erase.
MapConsistent ==
    /\ \A n \in LPNs : mapped_ppa(maptbl[n]) =>
          pg[maptbl[n]] = "valid" /\ rmap[maptbl[n]] = n
    /\ \A p \in Pages : pg[p] = "valid" /\ (p[1] = gc_line => p \in todo) =>
          rmap[p] \in LPNs /\ maptbl[rmap[p]] = p

\* Every line is in exactly one place: the free list, open under exactly one
\* write pointer, the full list, the victim heap, or being collected.
LinesPartitioned ==
    pc # "oops" =>
      /\ \A v, w \in WPs : v # w => wp[v].line # wp[w].line
      /\ NULL \notin OpenLines
      /\ OpenLines \cap (free_lines \cup full_lines \cup victim_lines) = {}
      /\ free_lines \cap (full_lines \cup victim_lines) = {}
      /\ full_lines \cap victim_lines = {}
      /\ gc_line \notin OpenLines \cup free_lines \cup full_lines \cup victim_lines
      /\ Lines = (OpenLines \cup free_lines \cup full_lines \cup victim_lines
                    \cup {gc_line}) \ {NULL}

\* The counters the line lists and the victim choice rely on never drift
\* from the page states, and a line's list is the one its pages call for
\* (the NVMEV_ASSERTs of mark_page_invalid, mark_page_valid,
\* advance_write_pointer and clean_one_flashpg).  In particular a closed
\* line has no free page: a reclaim unit is rotated only when fully written.
LineAccounting ==
    /\ \A l \in Lines : vpc[l] = Cardinality(ValidPages(l))
    /\ \A l \in Lines : ipc[l] = Cardinality(InvalidPages(l))
    /\ \A l \in free_lines : vpc[l] = 0 /\ ipc[l] = 0
    /\ \A l \in full_lines : vpc[l] = PGS_PER_LINE
    /\ \A l \in victim_lines \cup ({gc_line} \ {NULL}) :
          ipc[l] > 0 /\ vpc[l] + ipc[l] = PGS_PER_LINE
    /\ pc # "oops" => \A w \in WPs : vpc[wp[w].line] + ipc[wp[w].line] = wp[w].off

\* The data stored fit into the lines that can be all valid, with no victim
\* among them, while the free list is at the collection threshold and every
\* write pointer has its line.
OverProvisioned ==
    Cardinality({n \in LPNs : mapped_ppa(maptbl[n])})
      < (Cardinality(Lines) - 2 * (NR_RUH + 1)) * PGS_PER_LINE

\* As long as the host has stored no more than that, free pages cover the
\* outstanding write credits and a whole line for every write pointer, so
\* that neither the writes the credits admit nor the copies of the next
\* collection can use up the free list.
ReserveCoversCredits ==
    LET reserve == (NR_RUH + 1) * PGS_PER_LINE
        left    == Cardinality(FreePages)
    IN OverProvisioned =>
      /\ pc # "oops"
      /\ pc = "idle" => write_credits > 0 /\ left >= reserve + write_credits
      /\ pc = "check" => write_credits = 0 /\ left >= reserve
      /\ pc = "gc" =>
           left - Cardinality(todo) >= reserve - PGS_PER_LINE + credits_to_refill

\* get_next_free_line never hands advance_write_pointer a NULL line.
NoNullLine == pc # "oops"

Tags == [n \in LPNs |-> IF mapped_ppa(maptbl[n]) THEN ruh[maptbl[n][1]] ELSE -2]

Abstract == INSTANCE Placement WITH tag <- Tags, collecting <- gc_line # NULL

\* The translation layer implements placement: whatever the lines are closed,
\* collected, erased and reopened for, the tag of the line that holds an LPN
\* changes only when that LPN is written, to the handle it is written
\* through, or when gc_write_page relocates it, to -1.
PlacementKept == Abstract!Spec
=============================================================================
