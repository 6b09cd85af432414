------------------------------ MODULE MCFdpFtl ------------------------------
(***************************************************************************)
(* Model checking of FdpFtl.  Lines and LPNs are interchangeable: no       *)
(* action and no property names one.  TLC's SYMMETRY would enumerate their *)
(* permutations; the VIEW below identifies the same states, and those that *)
(* differ in the reverse entries of pages that are not valid (which no     *)
(* action reads before writing them), by keeping all that is known of each *)
(* line and forgetting which line and which LPNs it is about.  Each of the *)
(* invariants is a function of the view.                                   *)
(***************************************************************************)
EXTENDS FdpFtl

LPNsOn(p) == {n \in LPNs : maptbl[n] = p}

PagePortrait(p) ==
    [status |-> pg[p],
     todo   |-> p \in todo,
     lpns   |-> Cardinality(LPNsOn(p)),
     linked |-> pg[p] = "valid" /\ LPNsOn(p) = {rmap[p]}]

Portrait(l) ==
    [open  |-> {<<w, wp[w].off>> : w \in {v \in WPs : wp[v].line = l}},
     place |-> <<l \in free_lines, l \in full_lines, l \in victim_lines, l = gc_line>>,
     tally |-> <<vpc[l], ipc[l], ruh[l]>>,
     pages |-> [k \in Offsets |-> PagePortrait(<<l, k>>)]]

\* TLC keeps a function it has not needed as a closure, and a view evaluates
\* such a closure piecemeal; comparing it with itself makes it a table first.
Tabulated == /\ pg = pg /\ rmap = rmap /\ maptbl = maptbl /\ wp = wp
             /\ vpc = vpc /\ ipc = ipc /\ ruh = ruh

\* How often each value of f occurs.
Census(f) ==
    {<<d, Cardinality({x \in DOMAIN f : f[x] = d})>> : d \in {f[x] : x \in DOMAIN f}}

AnonymousView ==
    <<Tabulated, Census([l \in Lines |-> Portrait(l)]),
      Cardinality(free_lines), Cardinality(full_lines), Cardinality(victim_lines),
      Cardinality(todo), write_credits, credits_to_refill, pc, io>>
=============================================================================
