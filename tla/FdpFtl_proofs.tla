---------------------------- MODULE FdpFtl_proofs ---------------------------
(***************************************************************************)
(* Proofs about FdpFtl, for every number of lines, pages per line, logical *)
(* pages and reclaim unit handles: write credits, collections, the         *)
(* rotation of a write pointer, and the theorems.                          *)
(***************************************************************************)
EXTENDS FdpFtlInv

\* The prover of the steps that name none.
USE SMTT(30)

(***************************************************************************)
(* Credits and the choice of a victim preserve the invariant               *)
(***************************************************************************)

\* uint32_t arithmetic stays in range.
LEMMA CreditRange ==
  ASSUME NEW c \in Int
  PROVE  c % UINT_MOD \in 0 .. (UINT_MOD - 1)
BY SizesAssumption

\* Steps that leave pages, maps, lines and pointers alone.
LEMMA CreditStepInv ==
  ASSUME IndInv, pc \in {"credit", "check"}, pc' \in {"check", "idle"},
         write_credits' \in 0 .. (UINT_MOD - 1),
         UNCHANGED <<pg, maptbl, rmap, free_lines, full_lines, victim_lines, vpc, ipc, ruh,
                     wp, credits_to_refill, io, gcVars>>
  PROVE  IndInv'
<1>1. TypeOK'
  BY DEF IndInv, TypeOK, gcVars
<1>2. MapConsistent'
  BY DEF IndInv, MapConsistent, mapped_ppa, gcVars
<1>3. LinesPartitioned'
  BY DEF IndInv, LinesPartitioned, OpenLines, gcVars
<1>4. PageStates'
  BY ZenonT(30) DEF IndInv, PageStates, gcVars
<1>5. WpStates'
  BY DEF IndInv, WpStates
<1>6. GcStates'
  BY DEF IndInv, GcStates, mapped_ppa, gcVars
<1>7. Counters'
  BY DEF IndInv, Counters, ValidPages, InvalidPages
<1> QED
  BY <1>1, <1>2, <1>3, <1>4, <1>5, <1>6, <1>7 DEF IndInv

\* Taking a write credit preserves the inductive invariant.
LEMMA ConsumeInv == IndInv /\ consume_write_credit => IndInv'
<1> SUFFICES ASSUME IndInv, consume_write_credit PROVE IndInv'
  OBVIOUS
<1>1. write_credits - 1 \in Int
  BY SizesAssumption DEF IndInv, TypeOK
<1>2. write_credits' \in 0 .. (UINT_MOD - 1)
  BY <1>1, CreditRange DEF consume_write_credit
<1> QED
  BY <1>2, CreditStepInv DEF consume_write_credit

\* A refill without a collection preserves the inductive invariant.
LEMMA RefillInv == IndInv /\ RefillWithoutGc => IndInv'
<1> SUFFICES ASSUME IndInv, RefillWithoutGc PROVE IndInv'
  OBVIOUS
<1>1. write_credits + credits_to_refill \in Int
  BY SizesAssumption DEF IndInv, TypeOK
<1>2. write_credits' \in 0 .. (UINT_MOD - 1)
  BY <1>1, CreditRange DEF RefillWithoutGc, RefillCredits
<1> QED
  BY <1>2, CreditStepInv DEF RefillWithoutGc

\* Taking a victim off the heap preserves the inductive invariant.
LEMMA StartGcInv == IndInv /\ StartGc => IndInv'
<1> SUFFICES ASSUME IndInv, StartGc PROVE IndInv'
  OBVIOUS
<1>1. PICK v \in select_victim_line :
        /\ victim_lines' = victim_lines \ {v} /\ gc_line' = v
        /\ todo' = ValidPages(v) /\ credits_to_refill' = ipc[v]
  BY DEF StartGc
<1>2. /\ pc = "check" /\ pc' = "gc"
      /\ UNCHANGED <<pg, maptbl, rmap, free_lines, full_lines, vpc, ipc, ruh, wp, write_credits, io>>
  BY DEF StartGc
<1>3. v \in victim_lines /\ v \in Lines /\ v # NULL /\ gc_line = NULL
  BY <1>1, <1>2, MarkerAssumption DEF select_victim_line, IndInv, TypeOK, GcStates
<1>4. TypeOK'
  <2>1. ValidPages(v) \subseteq Pages
    BY <1>3 DEF ValidPages, LinePages, Pages
  <2> QED
    BY <1>1, <1>2, <1>3, <2>1 DEF IndInv, TypeOK
<1>5. MapConsistent'
  <2>1. \A p \in Pages : pg[p] = "valid" => (p[1] = gc_line => p \in todo)
    BY <1>3, MarkerAssumption DEF Pages
  <2> QED
    BY <1>1, <1>2, <2>1 DEF IndInv, MapConsistent, mapped_ppa
<1>6. LinesPartitioned'
  BY <1>1, <1>2, <1>3 DEF IndInv, LinesPartitioned, OpenLines
<1>7. PageStates'
  <2>1. PageStates
    BY DEF IndInv
  <2>2. victim_lines' \subseteq victim_lines
    BY <1>1
  <2>3. /\ \A k \in Offsets : pg[<<v, k>>] # "free"
        /\ \E k \in Offsets : pg[<<v, k>>] = "invalid"
    BY <1>3, <2>1 DEF PageStates
  <2> QED
    BY <1>1, <1>2, <2>1, <2>2, <2>3 DEF PageStates
<1>8. WpStates'
  BY <1>2 DEF IndInv, WpStates
<1>9. GcStates'
  <2>1. \A p \in todo' : p[1] = gc_line' /\ pg'[p] = "valid"
    BY <1>1, <1>2 DEF ValidPages, LinePages
  <2>2. ASSUME NEW n \in LPNs, mapped_ppa(maptbl[n]), maptbl[n][1] = v
        PROVE  maptbl[n] \in ValidPages(v)
    <3>1. maptbl[n] \in Pages /\ pg[maptbl[n]] = "valid"
      BY <2>2 DEF IndInv, MapConsistent, TypeOK, mapped_ppa
    <3> QED
      BY <2>2, <3>1 DEF ValidPages, LinePages, Pages
  <2> QED
    BY <1>1, <1>2, <1>3, <2>1, <2>2 DEF GcStates, mapped_ppa
<1>10. Counters'
  BY <1>2 DEF IndInv, Counters, ValidPages, InvalidPages
<1> QED
  BY <1>4, <1>5, <1>6, <1>7, <1>8, <1>9, <1>10 DEF IndInv

(***************************************************************************)
(* A collection preserves the invariant                                    *)
(***************************************************************************)

\* Erasing the victim and freeing its line preserves the inductive invariant.
LEMMA EndGcInv == IndInv /\ EndGc => IndInv'
<1> SUFFICES ASSUME IndInv, EndGc PROVE IndInv'
  OBVIOUS
<1>t. TypeOK
  BY DEF IndInv
<1>1. /\ pc = "gc" /\ pc' = "idle" /\ todo = {} /\ todo' = {} /\ gc_line' = NULL
      /\ free_lines' = free_lines \cup {gc_line}
      /\ UNCHANGED <<maptbl, rmap, full_lines, victim_lines, wp, credits_to_refill, io>>
  BY DEF EndGc
<1>2. gc_line \in Lines /\ gc_line # NULL
  BY <1>1, <1>t DEF IndInv, GcStates, TypeOK
<1>3. \A p \in Pages : pg'[p] = IF p[1] = gc_line THEN "free" ELSE pg[p]
  BY DEF EndGc
<1>4. \A l \in Lines, k \in Offsets : pg'[<<l, k>>] = IF l = gc_line THEN "free" ELSE pg[<<l, k>>]
  BY <1>3 DEF Pages
<1>5. /\ vpc' = [vpc EXCEPT ![gc_line] = 0] /\ ipc' = [ipc EXCEPT ![gc_line] = 0]
      /\ ruh' = [ruh EXCEPT ![gc_line] = GC_IO]
  BY DEF EndGc
<1>6. ASSUME NEW l \in Lines
      PROVE  vpc'[l] = Count(pg', l, "valid") /\ ipc'[l] = Count(pg', l, "invalid")
  <2>1. CASE l = gc_line
    <3>1. \A k \in Offsets : pg'[<<l, k>>] # "valid" /\ pg'[<<l, k>>] # "invalid"
      BY <1>4, <2>1
    <3>2. Count(pg', l, "valid") = 0 /\ Count(pg', l, "invalid") = 0
      BY <3>1, CountBounds
    <3> QED
      BY <1>2, <1>5, <1>t, <2>1, <3>2 DEF TypeOK
  <2>2. CASE l # gc_line
    <3>1. \A p \in LinePages(l) : pg'[p] = pg[p]
      BY <1>3, <2>2 DEF LinePages, Pages
    <3>2. Count(pg', l, "valid") = Count(pg, l, "valid")
      BY <3>1, CountSame
    <3>3. Count(pg', l, "invalid") = Count(pg, l, "invalid")
      BY <3>1, CountSame
    <3>4. vpc[l] = Count(pg, l, "valid") /\ ipc[l] = Count(pg, l, "invalid")
      BY CountersRead DEF IndInv
    <3> QED
      BY <1>2, <1>5, <1>t, <2>2, <3>2, <3>3, <3>4 DEF TypeOK
  <2> QED
    BY <2>1, <2>2
<1>7. Counters' /\ vpc' \in [Lines -> 0 .. PGS_PER_LINE] /\ ipc' \in [Lines -> 0 .. PGS_PER_LINE]
  <2>1. vpc' = [l \in Lines |-> vpc'[l]] /\ ipc' = [l \in Lines |-> ipc'[l]]
    BY <1>5, <1>t, ZenonT(30) DEF TypeOK
  <2> QED
    BY <1>6, <2>1, CountersAfter
<1>8. TypeOK'
  <2>1. write_credits' \in 0 .. (UINT_MOD - 1)
    <3>1. write_credits + credits_to_refill \in Int
      BY <1>t, SizesAssumption DEF TypeOK
    <3> QED
      BY <3>1, CreditRange DEF EndGc, RefillCredits
  <2>2. GC_IO \in WPs
    BY SizesAssumption DEF GC_IO, WPs
  <2>3. pg' \in [Pages -> {"free", "valid", "invalid"}]
    BY <1>t DEF EndGc, TypeOK
  <2> QED
    BY <1>1, <1>2, <1>5, <1>7, <1>t, <2>1, <2>2, <2>3 DEF TypeOK
<1>9. MapConsistent'
  <2>1. ASSUME NEW n \in LPNs, mapped_ppa(maptbl[n])
        PROVE  pg'[maptbl[n]] = "valid" /\ rmap[maptbl[n]] = n
    <3>1. maptbl[n] \in Pages /\ pg[maptbl[n]] = "valid" /\ rmap[maptbl[n]] = n
      BY <1>t, <2>1 DEF IndInv, MapConsistent, TypeOK, mapped_ppa
    <3>2. maptbl[n][1] # gc_line
      BY <1>1, <2>1 DEF IndInv, GcStates
    <3> QED
      BY <1>3, <3>1, <3>2
  <2>2. ASSUME NEW p \in Pages, pg'[p] = "valid"
        PROVE  rmap[p] \in LPNs /\ maptbl[rmap[p]] = p
    <3>1. p[1] # gc_line /\ pg[p] = "valid"
      BY <1>3, <2>2
    <3> QED
      BY <3>1 DEF IndInv, MapConsistent
  <2> QED
    BY <1>1, <2>1, <2>2 DEF MapConsistent, mapped_ppa
<1>10. LinesPartitioned'
  <2>1. OpenLines' = OpenLines
    BY <1>1 DEF OpenLines
  <2>2. LinesPartitioned /\ pc # "oops"
    BY <1>1 DEF IndInv
  <2>3. NULL \notin OpenLines' \cup free_lines' \cup full_lines' \cup victim_lines'
    BY <1>1, <1>2, <1>t, <2>1, <2>2, MarkerAssumption DEF TypeOK, LinesPartitioned
  <2>4. Lines = (OpenLines' \cup free_lines' \cup full_lines' \cup victim_lines' \cup {gc_line'}) \ {NULL}
    BY <1>1, <1>2, <2>1, <2>2 DEF LinesPartitioned
  <2>5. /\ OpenLines' \cap (free_lines' \cup full_lines' \cup victim_lines') = {}
        /\ free_lines' \cap (full_lines' \cup victim_lines') = {}
        /\ full_lines' \cap victim_lines' = {}
    BY <1>1, <2>1, <2>2 DEF LinesPartitioned
  <2>6. \A v, w \in WPs : v # w => wp'[v].line # wp'[w].line
    BY <1>1, <2>2 DEF LinesPartitioned
  <2> QED
    BY <1>1, <2>3, <2>4, <2>5, <2>6 DEF LinesPartitioned
<1>11. gc_line \notin OpenLines \cup free_lines \cup full_lines \cup victim_lines
  BY <1>1 DEF IndInv, LinesPartitioned
<1>12. PageStates'
  <2>1. PageStates
    BY DEF IndInv
  <2>2. /\ \A l \in free_lines : l \in Lines /\ l # gc_line
        /\ \A l \in full_lines : l \in Lines /\ l # gc_line
        /\ \A l \in victim_lines : l \in Lines /\ l # gc_line
    BY <1>11, <1>t DEF TypeOK
  <2>3. /\ \A k \in Offsets : pg'[<<gc_line, k>>] = "free"
        /\ \A l \in Lines : l # gc_line => \A k \in Offsets : pg'[<<l, k>>] = pg[<<l, k>>]
    BY <1>2, <1>4
  <2>4. ASSUME NEW l \in free_lines, NEW k \in Offsets PROVE pg'[<<l, k>>] = "free"
    BY <2>1, <2>2, <2>3 DEF PageStates
  <2>5. ASSUME NEW l \in full_lines, NEW k \in Offsets PROVE pg'[<<l, k>>] = "valid"
    BY <2>1, <2>2, <2>3 DEF PageStates
  <2>6. ASSUME NEW l \in victim_lines, NEW k \in Offsets PROVE pg'[<<l, k>>] # "free"
    BY <2>1, <2>2, <2>3 DEF PageStates
  <2>7. ASSUME NEW l \in victim_lines PROVE \E k \in Offsets : pg'[<<l, k>>] = "invalid"
    BY <2>1, <2>2, <2>3 DEF PageStates
  <2> QED
    BY <1>1, <2>3, <2>4, <2>5, <2>6, <2>7 DEF PageStates
<1>13. WpStates'
  <2> SUFFICES ASSUME NEW w \in WPs
               PROVE  /\ \A k \in Offsets : pg'[<<wp[w].line, k>>] = "free" <=> wp[w].off <= k
                      /\ wp[w].off # PGS_PER_LINE
                      /\ ruh'[wp[w].line] = w
    BY <1>1 DEF WpStates
  <2>1. wp[w].line \in Lines /\ wp[w].line # gc_line
    BY <1>1, <1>11, NewPage DEF OpenLines
  <2>2. /\ \A k \in Offsets : pg[<<wp[w].line, k>>] = "free" <=> wp[w].off <= k
        /\ wp[w].off # PGS_PER_LINE
        /\ ruh[wp[w].line] = w
    BY <1>1 DEF IndInv, WpStates
  <2>3. \A k \in Offsets : pg'[<<wp[w].line, k>>] = pg[<<wp[w].line, k>>]
    BY <1>4, <2>1
  <2>4. ruh'[wp[w].line] = ruh[wp[w].line]
    BY <1>5, <1>t, <2>1 DEF TypeOK
  <2> QED
    BY <2>2, <2>3, <2>4
<1>14. GcStates'
  <2>1. \A n \in LPNs : mapped_ppa(maptbl[n]) => maptbl[n][1] # NULL
    BY <1>t, MarkerAssumption DEF TypeOK, Pages, mapped_ppa
  <2> QED
    BY <1>1, <2>1 DEF GcStates, mapped_ppa
<1> QED
  BY <1>7, <1>8, <1>9, <1>10, <1>12, <1>13, <1>14 DEF IndInv

\* Relocating a page of the victim: the page stays valid, its LPN moves.
LEMMA GcWritePageInv ==
  ASSUME IndInv, NEW old \in todo, GcWritePage(old)
  PROVE  IndInv'
<1> DEFINE n == rmap[old]
           new == get_new_page(GC_IO)
<1>0. GC_IO \in WPs
  BY SizesAssumption DEF WPs, GC_IO
<1>t. TypeOK
  BY DEF IndInv
<1>1. /\ new \in Pages /\ pg[new] = "free" /\ new = <<wp[GC_IO].line, wp[GC_IO].off>>
      /\ wp[GC_IO].line \in Lines
      /\ wp[GC_IO].line \notin free_lines \cup full_lines \cup victim_lines \cup {gc_line}
  BY <1>0, NewPage DEF GcWritePage
<1>n. new[1] = wp[GC_IO].line /\ new[1] # gc_line
  <2>1. new = <<wp[GC_IO].line, wp[GC_IO].off>> /\ wp[GC_IO].line # gc_line
    BY <1>1
  <2> HIDE DEF new
  <2> QED
    BY <2>1
<1>2. /\ pg' = [pg EXCEPT ![new] = "valid"]
      /\ maptbl' = [maptbl EXCEPT ![n] = new]
      /\ rmap' = [rmap EXCEPT ![new] = n]
      /\ vpc' = [vpc EXCEPT ![wp[GC_IO].line] = @ + 1]
      /\ todo' = todo \ {old}
      /\ UNCHANGED <<free_lines, full_lines, victim_lines, ipc, ruh, write_credits,
                     credits_to_refill, gc_line>>
      /\ pc = "gc" /\ AdvanceInLine(GC_IO, "gc")
  BY <1>n DEF GcWritePage, set_rmap_ent, wfcVars
<1>3. /\ wp' \in [WPs -> [line : Lines \cup {NULL}, off : 0 .. PGS_PER_LINE]]
      /\ \A v \in WPs : wp'[v].line = wp[v].line
      /\ OpenLines' = OpenLines
      /\ WpStates'
      /\ pc' \in {"rotate", "gc"} /\ io' = GC_IO
  <2>1. \A p \in Pages : pg'[p] = "free" <=> pg[p] = "free" /\ p # new
    BY <1>1, <1>2, <1>t DEF TypeOK
  <2> QED
    BY <1>0, <1>2, <2>1, ProgramWp
<1>4. /\ old \in Pages /\ old[1] = gc_line /\ pg[old] = "valid" /\ gc_line # NULL
      /\ n \in LPNs /\ maptbl[n] = old /\ old # new
  <2>1. old \in Pages /\ old[1] = gc_line /\ pg[old] = "valid" /\ gc_line # NULL
    BY <1>2, <1>t DEF IndInv, GcStates, TypeOK
  <2> QED
    BY <1>1, <2>1, ZenonT(30) DEF IndInv, MapConsistent
<1>5. ASSUME NEW l \in Lines
      PROVE  vpc'[l] = Count(pg', l, "valid") /\ ipc'[l] = Count(pg', l, "invalid")
  <2>1. vpc[l] = Count(pg, l, "valid") /\ ipc[l] = Count(pg, l, "invalid")
    BY CountersRead DEF IndInv
  <2>2. /\ pg \in [Pages -> {"free", "valid", "invalid"}]
        /\ vpc \in [Lines -> 0 .. PGS_PER_LINE] /\ ipc \in [Lines -> 0 .. PGS_PER_LINE]
    BY <1>t DEF TypeOK
  <2>3. new[1] = wp[GC_IO].line
    BY <1>n
  <2>4. /\ Count(pg', l, "valid") = Count(pg, l, "valid") + Hit(new, l)
        /\ Count(pg', l, "invalid") = Count(pg, l, "invalid")
    <3>1. \A p \in Pages : pg'[p] = IF p = new THEN "valid" ELSE pg[p]
      BY <1>1, <1>2, <2>2
    <3>2. new \in Pages /\ pg[new] = "free"
      BY <1>1
    <3> HIDE DEF new
    <3> QED
      BY <3>1, <3>2, CountProgram
  <2>6. vpc'[l] = vpc[l] + Hit(new, l)
    <3>1. vpc' = [vpc EXCEPT ![wp[GC_IO].line] = @ + 1]
      BY <1>2
    <3>2. vpc \in [Lines -> Int] /\ wp[GC_IO].line \in Lines
      BY <1>1, <2>2, SizesAssumption
    <3> HIDE DEF new
    <3> QED
      BY <2>3, <3>1, <3>2 DEF Hit
  <2>7. ipc'[l] = ipc[l]
    BY <1>2
  <2> QED
    BY <2>1, <2>4, <2>6, <2>7
<1>6. Counters' /\ vpc' \in [Lines -> 0 .. PGS_PER_LINE] /\ ipc' \in [Lines -> 0 .. PGS_PER_LINE]
  <2>1. vpc' = [l \in Lines |-> vpc'[l]] /\ ipc' = [l \in Lines |-> ipc'[l]]
    BY <1>2, <1>t, ZenonT(30) DEF TypeOK
  <2> QED
    BY <1>5, <2>1, CountersAfter
<1>7. TypeOK'
  BY <1>0, <1>1, <1>2, <1>3, <1>4, <1>6, <1>t DEF TypeOK
<1>m. \A m \in LPNs : maptbl'[m] = IF m = n THEN new ELSE maptbl[m]
  BY <1>2, <1>4, <1>t DEF TypeOK
<1>8. MapConsistent'
  <2>2. \A p \in Pages : /\ pg'[p] = IF p = new THEN "valid" ELSE pg[p]
                        /\ rmap'[p] = IF p = new THEN n ELSE rmap[p]
    BY <1>1, <1>2, <1>t DEF TypeOK
  <2>3. \A m \in LPNs : mapped_ppa(maptbl[m]) => maptbl[m] \in Pages /\ maptbl[m] # new
    <3>1. \A m \in LPNs : mapped_ppa(maptbl[m]) => maptbl[m] \in Pages
      BY <1>t DEF TypeOK, mapped_ppa
    <3>2. \A m \in LPNs : mapped_ppa(maptbl[m]) => pg[maptbl[m]] = "valid"
      BY ZenonT(30) DEF IndInv, MapConsistent
    <3> QED
      BY <1>1, <3>1, <3>2
  <2>5. ASSUME NEW m \in LPNs, mapped_ppa(maptbl'[m])
        PROVE  pg'[maptbl'[m]] = "valid" /\ rmap'[maptbl'[m]] = m
    <3>1. CASE m = n
      BY <1>1, <1>m, <2>2, <3>1
    <3>2. CASE m # n
      <4>1. maptbl'[m] = maptbl[m] /\ mapped_ppa(maptbl[m])
        BY <1>m, <2>5, <3>2
      <4>2. pg[maptbl[m]] = "valid" /\ rmap[maptbl[m]] = m
        BY <4>1 DEF IndInv, MapConsistent
      <4> QED
        BY <2>2, <2>3, <4>1, <4>2
    <3> QED
      BY <3>1, <3>2
  <2>6. ASSUME NEW p \in Pages, pg'[p] = "valid", p[1] = gc_line => p \in todo \ {old}
        PROVE  rmap'[p] \in LPNs /\ maptbl'[rmap'[p]] = p
    <3>1. CASE p = new
      BY <1>4, <1>m, <2>2, <3>1
    <3>2. CASE p # new
      <4>1. rmap[p] \in LPNs /\ maptbl[rmap[p]] = p
        BY <2>2, <2>6, <3>2 DEF IndInv, MapConsistent
      <4>2. p # old
        BY <1>4, <2>6
      <4>3. rmap[p] # n
        BY <1>4, <4>1, <4>2
      <4> QED
        BY <1>m, <2>2, <3>2, <4>1, <4>3
    <3> QED
      BY <3>1, <3>2
  <2> QED
    BY <1>2, <2>5, <2>6 DEF MapConsistent, mapped_ppa
<1>9. LinesPartitioned'
  BY <1>2, <1>3 DEF IndInv, LinesPartitioned
<1>10. PageStates'
  <2>1. \A l \in Lines, k \in Offsets : l # wp[GC_IO].line => pg'[<<l, k>>] = pg[<<l, k>>]
    BY <1>1, <1>2, <1>t DEF TypeOK, Pages
  <2>3. /\ free_lines \subseteq Lines /\ full_lines \subseteq Lines /\ victim_lines \subseteq Lines
        /\ gc_line \in Lines \cup {NULL}
    BY <1>t DEF TypeOK
  <2>4. PageStates
    BY DEF IndInv
  <2>5. \A l \in free_lines \cup full_lines \cup victim_lines, k \in Offsets :
           pg'[<<l, k>>] = pg[<<l, k>>]
    BY <1>1, <2>1, <2>3, ZenonT(30)
  <2>6. gc_line # NULL => \A k \in Offsets : pg'[<<gc_line, k>>] = pg[<<gc_line, k>>]
    BY <1>1, <2>1, <2>3
  <2> QED
    BY <1>2, <2>4, <2>5, <2>6 DEF PageStates
<1>11. GcStates'
  <2>1. \A p \in todo : p \in Pages /\ p[1] = gc_line /\ pg[p] = "valid"
    BY <1>t DEF IndInv, GcStates, TypeOK
  <2>2. \A p \in todo \ {old} : p[1] = gc_line /\ pg'[p] = "valid"
    BY <1>1, <1>2, <1>t, <2>1 DEF TypeOK
  <2>3. ASSUME NEW m \in LPNs, mapped_ppa(maptbl'[m]), maptbl'[m][1] = gc_line
        PROVE  maptbl'[m] \in todo \ {old}
    <3>1. m # n
      BY <1>n, <1>m, <2>3
    <3>2. maptbl'[m] = maptbl[m] /\ maptbl[m] \in todo
      BY <1>m, <2>3, <3>1, ZenonT(30) DEF IndInv, GcStates
    <3>3. rmap[maptbl[m]] = m
      BY <2>3, <3>2 DEF IndInv, MapConsistent
    <3> QED
      BY <3>1, <3>2, <3>3
  <2> QED
    BY <1>2, <1>3, <1>4, <2>2, <2>3 DEF GcStates, mapped_ppa
<1> QED
  BY <1>3, <1>6, <1>7, <1>8, <1>9, <1>10, <1>11 DEF IndInv

(***************************************************************************)
(* A rotation preserves the invariant                                      *)
(***************************************************************************)

\* A rotation with a free line at hand preserves the invariant.
LEMMA RotateInv == IndInv /\ Rotate => IndInv'
<1> SUFFICES ASSUME IndInv, Rotate PROVE IndInv'
  OBVIOUS
<1> DEFINE c == wp[io].line
<1>1. PICK l \in free_lines :
        /\ free_lines' = free_lines \ {l}
        /\ ruh' = [ruh EXCEPT ![l] = line_tag(io)]
        /\ wp' = [wp EXCEPT ![io] = [line |-> l, off |-> 0]]
  BY ZenonT(30) DEF Rotate
<1>2. /\ pc = "rotate" /\ pc' = IF io = GC_IO THEN "gc" ELSE "credit"
      /\ CloseLine(c)
      /\ UNCHANGED <<pg, maptbl, rmap, vpc, ipc, write_credits, credits_to_refill, io, gc_line, todo>>
  BY DEF Rotate, wfcVars, gcVars
<1>t. TypeOK /\ l \in Lines /\ io \in WPs
  BY DEF IndInv, TypeOK
<1>3. /\ c \in Lines
      /\ \A k \in Offsets : pg[<<c, k>>] # "free"
      /\ \/ /\ full_lines' = full_lines \cup {c} /\ victim_lines' = victim_lines
            /\ \A k \in Offsets : pg[<<c, k>>] = "valid"
         \/ /\ victim_lines' = victim_lines \cup {c} /\ full_lines' = full_lines
            /\ \E k \in Offsets : pg[<<c, k>>] = "invalid"
  BY <1>2, CloseLineStates
<1>4. /\ LinesPartitioned /\ pc # "oops" /\ pc' # "oops"
      /\ \A v, w \in WPs : v # w => wp[v].line # wp[w].line
  BY <1>2 DEF IndInv, LinesPartitioned
<1>5. \A w \in WPs : /\ wp'[w].line = IF w = io THEN l ELSE wp[w].line
                     /\ wp'[w].off = IF w = io THEN 0 ELSE wp[w].off
  BY <1>1, <1>t DEF TypeOK
<1>6. /\ OpenLines' = (OpenLines \ {c}) \cup {l}
      /\ c \in OpenLines /\ l \notin OpenLines
  <2>1. l \notin OpenLines /\ c \in OpenLines
    BY <1>4, <1>t DEF LinesPartitioned, OpenLines
  <2>2. \A x : x \in OpenLines' <=> \E w \in WPs : x = wp'[w].line
    BY ZenonT(30) DEF OpenLines
  <2>3. \A x : x \in OpenLines <=> \E w \in WPs : x = wp[w].line
    BY DEF OpenLines
  <2>4. \A x : x \in OpenLines' <=> (x \in OpenLines /\ x # c) \/ x = l
    <3>1. io \in WPs /\ wp'[io].line = l /\ wp[io].line = c
      BY <1>5, <1>t
    <3>2. \A w \in WPs : w # io => wp'[w].line = wp[w].line /\ wp[w].line # c
      BY <1>4, <1>5, <1>t
    <3> HIDE DEF c
    <3> QED
      BY <2>1, <2>2, <2>3, <3>1, <3>2
  <2> QED
    BY <2>1, <2>4
<1>7. TypeOK'
  <2>1. [line |-> l, off |-> 0] \in [line : Lines \cup {NULL}, off : 0 .. PGS_PER_LINE]
    BY <1>t, SizesAssumption
  <2>2. wp' \in [WPs -> [line : Lines \cup {NULL}, off : 0 .. PGS_PER_LINE]]
    BY <1>1, <1>t, <2>1 DEF TypeOK
  <2>3. ruh' \in [Lines -> WPs]
    BY <1>1, <1>t DEF TypeOK, line_tag
  <2> QED
    BY <1>1, <1>2, <1>3, <1>t, <2>2, <2>3 DEF TypeOK
<1>8. MapConsistent'
  BY <1>2 DEF IndInv, MapConsistent, mapped_ppa
<1>9. LinesPartitioned'
  <2>1. \A v, w \in WPs : v # w => wp'[v].line # wp'[w].line
    <3>1. \A w \in WPs : wp[w].line # l
      BY <1>6 DEF OpenLines
    <3> QED
      BY <1>4, <1>5, <3>1
  <2>2. NULL \notin OpenLines'
    BY <1>4, <1>6, <1>t, MarkerAssumption DEF LinesPartitioned
  <2>3. /\ OpenLines' \cap (free_lines' \cup full_lines' \cup victim_lines') = {}
        /\ free_lines' \cap (full_lines' \cup victim_lines') = {}
        /\ full_lines' \cap victim_lines' = {}
        /\ gc_line \notin OpenLines' \cup free_lines' \cup full_lines' \cup victim_lines'
    BY <1>1, <1>3, <1>4, <1>6 DEF LinesPartitioned
  <2>4. Lines = (OpenLines' \cup free_lines' \cup full_lines' \cup victim_lines' \cup {gc_line}) \ {NULL}
    BY <1>1, <1>3, <1>4, <1>6, <1>t, MarkerAssumption DEF LinesPartitioned
  <2> QED
    BY <1>2, <2>1, <2>2, <2>3, <2>4 DEF LinesPartitioned
<1>10. PageStates'
  BY <1>1, <1>2, <1>3 DEF IndInv, PageStates
<1>11. WpStates'
  <2> SUFFICES ASSUME NEW w \in WPs
               PROVE  /\ \A k \in Offsets : pg[<<wp'[w].line, k>>] = "free" <=> wp'[w].off <= k
                      /\ wp'[w].off # PGS_PER_LINE
                      /\ ruh'[wp'[w].line] = w
    BY <1>2 DEF WpStates
  <2>1. CASE w = io
    <3>1. \A k \in Offsets : pg[<<l, k>>] = "free" /\ 0 <= k
      BY SizesAssumption DEF IndInv, PageStates, Offsets
    <3>2. ruh'[l] = io
      BY <1>1, <1>t DEF TypeOK, line_tag
    <3> QED
      BY <1>5, <2>1, <3>1, <3>2, SizesAssumption
  <2>2. CASE w # io
    <3>1. /\ \A k \in Offsets : pg[<<wp[w].line, k>>] = "free" <=> wp[w].off <= k
          /\ wp[w].off # PGS_PER_LINE
          /\ ruh[wp[w].line] = w
      BY <1>2, <2>2 DEF IndInv, WpStates
    <3>2. wp[w].line # l
      BY <1>6 DEF OpenLines
    <3>3. ruh'[wp[w].line] = ruh[wp[w].line]
      <4>1. wp[w].line \in Lines
        <5>1. wp[w] \in [line : Lines \cup {NULL}, off : 0 .. PGS_PER_LINE]
          BY <1>t DEF TypeOK
        <5>2. wp[w].line # NULL
          BY <1>4 DEF LinesPartitioned, OpenLines
        <5> QED
          BY <5>1, <5>2
      <4> QED
        BY <1>1, <1>t, <3>2, <4>1 DEF TypeOK
    <3> QED
      BY <1>5, <2>2, <3>1, <3>3
  <2> QED
    BY <2>1, <2>2
<1>12. GcStates'
  BY <1>2 DEF IndInv, GcStates, mapped_ppa
<1>13. Counters'
  BY <1>2 DEF IndInv, Counters, ValidPages, InvalidPages
<1> QED
  BY <1>7, <1>8, <1>9, <1>10, <1>11, <1>12, <1>13 DEF IndInv

\* So does a rotation that finds no free line: what is left of the invariant
\* once the dispatcher has hit the NULL line still holds.
LEMMA RotateNullInv == IndInv /\ RotateNull => IndInv'
<1> SUFFICES ASSUME IndInv, RotateNull PROVE IndInv'
  OBVIOUS
<1> DEFINE c == wp[io].line
<1>1. /\ pc = "rotate" /\ pc' = "oops" /\ CloseLine(c)
      /\ wp' = [wp EXCEPT ![io] = [line |-> NULL, off |-> 0]]
      /\ UNCHANGED <<pg, maptbl, rmap, free_lines, vpc, ipc, ruh, write_credits,
                     credits_to_refill, io, gc_line, todo>>
  BY DEF RotateNull, wfcVars, gcVars
<1>2. /\ c \in Lines
      /\ \A k \in Offsets : pg[<<c, k>>] # "free"
      /\ \/ /\ full_lines' = full_lines \cup {c} /\ victim_lines' = victim_lines
            /\ \A k \in Offsets : pg[<<c, k>>] = "valid"
         \/ /\ victim_lines' = victim_lines \cup {c} /\ full_lines' = full_lines
            /\ \E k \in Offsets : pg[<<c, k>>] = "invalid"
  BY <1>1, CloseLineStates
<1>3. TypeOK'
  <2>1. [line |-> NULL, off |-> 0] \in [line : Lines \cup {NULL}, off : 0 .. PGS_PER_LINE]
    BY SizesAssumption
  <2>2. TypeOK
    BY DEF IndInv
  <2>3. wp' \in [WPs -> [line : Lines \cup {NULL}, off : 0 .. PGS_PER_LINE]]
    BY <1>1, <2>1, <2>2 DEF TypeOK
  <2> QED
    BY <1>1, <1>2, <2>2, <2>3 DEF TypeOK
<1>4. MapConsistent'
  BY <1>1, ZenonT(30) DEF IndInv, MapConsistent, mapped_ppa
<1>5. LinesPartitioned' /\ WpStates'
  BY <1>1, ZenonT(30) DEF LinesPartitioned, WpStates
<1>6. PageStates'
  <2>1. PageStates
    BY DEF IndInv
  <2>2. CASE full_lines' = full_lines \cup {c} /\ victim_lines' = victim_lines
              /\ \A k \in Offsets : pg[<<c, k>>] = "valid"
    BY <1>1, <2>1, <2>2 DEF PageStates
  <2>3. CASE victim_lines' = victim_lines \cup {c} /\ full_lines' = full_lines
              /\ \E k \in Offsets : pg[<<c, k>>] = "invalid"
    BY <1>1, <1>2, <2>1, <2>3 DEF PageStates
  <2> QED
    BY <1>2, <2>2, <2>3, ZenonT(30)
<1>7. GcStates'
  BY <1>1 DEF IndInv, GcStates, mapped_ppa
<1>8. Counters'
  BY <1>1 DEF IndInv, Counters, ValidPages, InvalidPages
<1> QED
  BY <1>3, <1>4, <1>5, <1>6, <1>7, <1>8 DEF IndInv

(***************************************************************************)
(* The theorems                                                            *)
(***************************************************************************)

\* A step of the rest of the device preserves the invariant.
LEMMA StutterInv ==
  ASSUME IndInv, UNCHANGED vars
  PROVE  IndInv'
<1>1. /\ pg' = pg /\ maptbl' = maptbl /\ rmap' = rmap /\ free_lines' = free_lines
      /\ full_lines' = full_lines /\ victim_lines' = victim_lines /\ vpc' = vpc /\ ipc' = ipc
      /\ ruh' = ruh /\ wp' = wp /\ write_credits' = write_credits
      /\ credits_to_refill' = credits_to_refill /\ pc' = pc /\ io' = io
      /\ gc_line' = gc_line /\ todo' = todo
  BY DEF vars
<1>2. TypeOK'
  BY <1>1 DEF IndInv, TypeOK
<1>3. PageStates'
  BY <1>1, ZenonT(30) DEF IndInv, PageStates
<1>4. WpStates'
  BY <1>1, ZenonT(30) DEF IndInv, WpStates
<1>5. MapConsistent'
  BY <1>1, ZenonT(30) DEF IndInv, MapConsistent
<1>6. GcStates'
  BY <1>1, ZenonT(30) DEF IndInv, GcStates, mapped_ppa
<1>7. LinesPartitioned'
  <2>1. OpenLines' = OpenLines
    BY <1>1 DEF OpenLines
  <2> QED
    BY <1>1, <2>1 DEF IndInv, LinesPartitioned
<1>8. Counters'
  BY <1>1 DEF IndInv, Counters, ValidPages, InvalidPages
<1> QED
  BY <1>2, <1>3, <1>4, <1>5, <1>6, <1>7, <1>8 DEF IndInv

\* Every step preserves the invariant; from "oops" there is none to take.
LEMMA NextInv == IndInv /\ [Next]_vars => IndInv'
<1> SUFFICES ASSUME IndInv, [Next]_vars PROVE IndInv'
  OBVIOUS
<1>1. CASE HostWrite
  BY <1>1, WriteNewInv, OverwriteInv DEF HostWrite
<1>2. CASE Firmware
  BY <1>2, RotateInv, RotateNullInv, ConsumeInv, RefillInv, StartGcInv, GcWritePageInv, EndGcInv
     DEF Firmware
<1>3. CASE UNCHANGED vars
  BY <1>3, StutterInv
<1> QED
  BY <1>1, <1>2, <1>3 DEF Next

\* The inductive invariant holds throughout.
THEOREM InductiveInvariant == Spec => []IndInv
BY InitInv, NextInv, PTL DEF Spec

\* Every variable of the partition keeps its type: write pointers stay on
\* their line and page counters between 0 and PGS_PER_LINE.
THEOREM TypeCorrect == Spec => []TypeOK
<1>1. IndInv => TypeOK
  BY DEF IndInv
<1> QED
  BY <1>1, InductiveInvariant, PTL

\* The mapping tables are inverse to each other at every point of a write
\* and of a collection, for any number of lines and any over-provisioning.
THEOREM MapsConsistent == Spec => []MapConsistent
<1>1. IndInv => MapConsistent
  BY DEF IndInv
<1> QED
  BY <1>1, InductiveInvariant, PTL

\* No line is lost, in two lists, or open twice.
THEOREM LinesArePartitioned == Spec => []LinesPartitioned
<1>1. IndInv => LinesPartitioned
  BY DEF IndInv
<1> QED
  BY <1>1, InductiveInvariant, PTL

\* The per-line counters agree with the page states, and each list holds the
\* lines its pages call for: the assertions of the write and GC paths.
THEOREM LinesAccounted == Spec => []LineAccounting
<1>1. IndInv => LineAccounting
  BY IndInvAccounts
<1> QED
  BY <1>1, InductiveInvariant, PTL

\* The translation layer implements flexible data placement, for every number
\* of handles, lines and logical pages: a collection, an erase or a rotation
\* never moves a host's page into a reclaim unit of another handle.
THEOREM ImplementsPlacement == Spec => PlacementKept
<1>1. Init => Abstract!Init
  BY DEF Init, Abstract!Init, Abstract!Unwritten, Tags, mapped_ppa
<1>2. IndInv /\ [Next]_vars => [Abstract!Next]_<<Tags, gc_line # NULL>>
  BY PlacementStep
<1> QED
  BY <1>1, <1>2, InductiveInvariant, PTL DEF Spec, PlacementKept, Abstract!Spec
=============================================================================
