------------------------------ MODULE MCConvFtl ------------------------------
(***************************************************************************)
(* Model checking of ConvFtl.  No action asks which line or which LPN it   *)
(* deals with: the view tells a line by its place (under a write pointer,  *)
(* being collected, its turn in the free list, its slot in the heap) and   *)
(* keeps all that is known of it except the LPNs on its pages and the      *)
(* reverse entries nobody reads before they are written.                   *)
(***************************************************************************)
EXTENDS ConvFtl

\* As in MCFdpFtl: comparing a function with itself makes TLC tabulate it.
Tabulated ==
    /\ pg = pg /\ rmap = rmap /\ maptbl = maptbl /\ vpc = vpc /\ ipc = ipc /\ wp = wp
    /\ victim_line_pq = victim_line_pq /\ opened_by = opened_by /\ free_line_list = free_line_list

\* What is known of a page, given the set of pages that maptbl names.
PagePortrait(p, named) ==
    <<pg[p], p \in named,
      pg[p] = "valid" /\ rmap[p] # INVALID_LPN /\ maptbl[rmap[p]] = p,
      p[1] = gc_line /\ rmap[p] = INVALID_LPN>>

Portrait(l, named) ==
    IF l = NULL THEN NULL
    ELSE <<vpc[l], ipc[l], opened_by[l], victim_line_pq.pos[l],
           [c \in Coords |-> PagePortrait(<<l, c>>, named)]>>

PlaceView ==
    LET named == {maptbl[n] : n \in DOMAIN maptbl} IN
      <<Tabulated, Cardinality(named), UNMAPPED_PPA \in named,
        [w \in {USER_IO, GC_IO} |-> <<wp[w].ch, wp[w].lun, wp[w].pg, Portrait(wp[w].line, named)>>],
        Portrait(gc_line, named), gc_at, Len(free_line_list),
        [i \in DOMAIN victim_line_pq.d |-> Portrait(victim_line_pq.d[i], named)],
        {Portrait(l, named) : l \in full_lines}, Cardinality(full_lines),
        write_credits, credits_to_refill, pc, io>>
=============================================================================
