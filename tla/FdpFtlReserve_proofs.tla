------------------------ MODULE FdpFtlReserve_proofs ------------------------
(***************************************************************************)
(* Proof that an over-provisioned partition never runs out of free lines,  *)
(* for every number of lines, pages per line, logical pages and handles.   *)
(* The write credits tie together what the host may still write and what   *)
(* the next collection may still copy; the argument counts free pages.     *)
(***************************************************************************)
EXTENDS FdpFtl_proofs, FunctionTheorems

\* The prover of the steps that name none.
USE SMTT(30)

(***************************************************************************)
(* The inductive invariant.  Credits: between two page writes there are    *)
(* some left, none once a check is due, and a refill is never empty and    *)
(* never overflows the counter.  Reserve: ReserveCoversCredits, extended   *)
(* to the points inside a page write; a rotation belongs to the write or   *)
(* the collection whose page filled the line.                              *)
(***************************************************************************)
InWrite == pc = "credit" \/ (pc = "rotate" /\ io # GC_IO)
InGc    == pc = "gc" \/ (pc = "rotate" /\ io = GC_IO)

Reserve == (NR_RUH + 1) * PGS_PER_LINE
Left    == Cardinality(FreePages)
Mapped  == {n \in LPNs : mapped_ppa(maptbl[n])}

Credits ==
    /\ credits_to_refill \in 1 .. PGS_PER_LINE
    /\ pc = "idle" \/ InWrite => write_credits \in 1 .. PGS_PER_LINE
    /\ pc = "check" \/ InGc => write_credits = 0

Reserved ==
    /\ pc # "oops"
    /\ pc = "idle" => Left >= Reserve + write_credits
    /\ InWrite => Left >= Reserve + write_credits - 1
    /\ pc = "check" => Left >= Reserve
    /\ InGc => Left - Cardinality(todo) >= Reserve - PGS_PER_LINE + credits_to_refill

ReserveInv == Credits /\ (OverProvisioned => Reserved)

(***************************************************************************)
(* Counting                                                                *)
(***************************************************************************)

\* The pages of a set of lines.
LEMMA PagesOfLines ==
  ASSUME NEW S \in SUBSET Lines
  PROVE  /\ IsFiniteSet(S) /\ Cardinality(S) \in Nat
         /\ IsFiniteSet(S \X Offsets)
         /\ Cardinality(S \X Offsets) = Cardinality(S) * PGS_PER_LINE
<1>1. IsFiniteSet(Offsets) /\ Cardinality(Offsets) = PGS_PER_LINE
  BY SizesAssumption, FS_Interval DEF Offsets
<1>2. IsFiniteSet(S)
  BY SizesAssumption, FS_Subset
<1>3. Cardinality(S) \in Nat
  BY <1>2, FS_CardinalityType
<1> QED
  BY <1>1, <1>2, <1>3, FS_Product

\* Products keep the order of their first factors.
LEMMA TimesMonotone ==
  ASSUME NEW a \in Int, NEW b \in Int, NEW c \in Nat, a <= b
  PROVE  a * c <= b * c
OBVIOUS

\* A union is no larger than its parts together.
LEMMA UnionBound ==
  ASSUME NEW S, NEW T, IsFiniteSet(S), IsFiniteSet(T)
  PROVE  /\ IsFiniteSet(S \cup T)
         /\ Cardinality(S \cup T) \in Nat
         /\ Cardinality(S \cup T) <= Cardinality(S) + Cardinality(T)
<1>1. /\ IsFiniteSet(S \cup T)
      /\ Cardinality(S \cup T) = Cardinality(S) + Cardinality(T) - Cardinality(S \cap T)
  BY FS_Union
<1>2. S \cap T \in SUBSET S
  OBVIOUS
<1>3. IsFiniteSet(S \cap T)
  BY <1>2, FS_Subset
<1>4. Cardinality(S \cap T) \in Nat /\ Cardinality(S) \in Nat /\ Cardinality(T) \in Nat
      /\ Cardinality(S \cup T) \in Nat
  BY <1>1, <1>3, FS_CardinalityType
<1> QED
  BY <1>1, <1>4

\* There are finitely many pages, so the free ones can be counted.
LEMMA FreeFinite == IsFiniteSet(FreePages) /\ Left \in Nat
<1>1. IsFiniteSet(Pages)
  BY PagesOfLines DEF Pages
<1>2. FreePages \in SUBSET Pages
  BY DEF FreePages
<1>3. IsFiniteSet(FreePages)
  BY <1>1, <1>2, FS_Subset
<1> QED
  BY <1>3, FS_CardinalityType DEF Left

\* So can the pages a collection has still to relocate.
LEMMA TodoFinite ==
  ASSUME IndInv
  PROVE  IsFiniteSet(todo) /\ Cardinality(todo) \in Nat
<1>1. IsFiniteSet(Pages)
  BY PagesOfLines DEF Pages
<1>2. todo \in SUBSET Pages
  BY DEF IndInv, TypeOK
<1>3. IsFiniteSet(todo)
  BY <1>1, <1>2, FS_Subset
<1> QED
  BY <1>3, FS_CardinalityType

\* Logical pages are finitely many as well.
LEMMA MappedFinite == IsFiniteSet(Mapped) /\ Cardinality(Mapped) \in Nat
<1>1. Mapped \in SUBSET LPNs
  BY DEF Mapped
<1>2. IsFiniteSet(Mapped)
  BY <1>1, SizesAssumption, FS_Subset
<1> QED
  BY <1>2, FS_CardinalityType

\* An open line per write pointer.
LEMMA OpenLinesCount ==
  IsFiniteSet(OpenLines) /\ Cardinality(OpenLines) \in Nat /\ Cardinality(OpenLines) <= NR_RUH + 1
<1> DEFINE f == [w \in WPs |-> wp[w].line]
<1>1. IsFiniteSet(WPs) /\ Cardinality(WPs) = NR_RUH + 1
  <2>1. /\ IsFiniteSet(-1 .. (NR_RUH - 1))
        /\ Cardinality(-1 .. (NR_RUH - 1)) = IF -1 > NR_RUH - 1 THEN 0 ELSE (NR_RUH - 1) - (-1) + 1
    BY SizesAssumption, FS_Interval
  <2> QED
    BY <2>1, SizesAssumption DEF WPs
<1>2. f \in Surjection(WPs, OpenLines)
  BY DEF Surjection, OpenLines
<1>3. IsFiniteSet(OpenLines) /\ Cardinality(OpenLines) <= Cardinality(WPs)
  BY <1>1, <1>2, FS_Surjection
<1> QED
  BY <1>1, <1>3, FS_CardinalityType

\* Programming one page takes one page from the free ones.
LEMMA FreeProgrammed ==
  ASSUME NEW q \in Pages, pg[q] = "free",
         \A p \in Pages : pg'[p] = "free" <=> pg[p] = "free" /\ p # q
  PROVE  Left' = Left - 1
<1>1. FreePages' = FreePages \ {q} /\ q \in FreePages
  BY DEF FreePages
<1> DEFINE S == FreePages
<1>2. IsFiniteSet(S) /\ q \in S
  BY <1>1, FreeFinite
<1> HIDE DEF S
<1>3. Cardinality(S \ {q}) = Cardinality(S) - 1
  BY <1>2, FS_RemoveElement, ZenonT(30)
<1> QED
  BY <1>1, <1>3 DEF Left, S

\* The erase of a line without a free page gives back the whole line.
LEMMA FreeErased ==
  ASSUME NEW l \in Lines, \A k \in Offsets : pg[<<l, k>>] # "free",
         pg' = [p \in Pages |-> IF p[1] = l THEN "free" ELSE pg[p]]
  PROVE  Left' = Left + PGS_PER_LINE
<1>1. FreePages' = FreePages \cup LinePages(l)
  BY DEF FreePages, LinePages, Pages
<1>2. FreePages \cap LinePages(l) = {}
  BY DEF FreePages, LinePages, Pages
<1>3. Cardinality(FreePages \cup LinePages(l))
        = Cardinality(FreePages) + Cardinality(LinePages(l)) - Cardinality(FreePages \cap LinePages(l))
  BY FreeFinite, LineSize, FS_Union
<1>4. Cardinality(FreePages \cap LinePages(l)) = 0
  BY <1>2, FS_EmptySet, ZenonT(30)
<1> QED
  BY <1>1, <1>3, <1>4, LineSize, FreeFinite, SizesAssumption DEF Left

\* The host's data never shrink, so a partition that is over-provisioned after
\* a step was so before it.
LEMMA MappedGrows ==
  ASSUME Mapped \subseteq Mapped', OverProvisioned'
  PROVE  OverProvisioned
<1> DEFINE S == Mapped
           T == Mapped'
<1>1. S \subseteq T /\ T \in SUBSET LPNs /\ IsFiniteSet(S) /\ Cardinality(S) \in Nat
  BY MappedFinite DEF Mapped
<1>2. Cardinality(T) < (Cardinality(Lines) - 2 * (NR_RUH + 1)) * PGS_PER_LINE
  BY DEF OverProvisioned, Mapped
<1>3. OverProvisioned <=> Cardinality(S) < (Cardinality(Lines) - 2 * (NR_RUH + 1)) * PGS_PER_LINE
  BY DEF OverProvisioned, Mapped
<1> HIDE DEF S, T
<1>4. IsFiniteSet(T)
  BY <1>1, SizesAssumption, FS_Subset
<1>5. Cardinality(T) \in Nat /\ Cardinality(S) <= Cardinality(T)
  BY <1>1, <1>4, FS_Subset, FS_CardinalityType
<1>6. Cardinality(Lines) \in Nat
  BY SizesAssumption, FS_CardinalityType
<1>7. (Cardinality(Lines) - 2 * (NR_RUH + 1)) * PGS_PER_LINE \in Int
  BY <1>6, SizesAssumption
<1> QED
  BY <1>1, <1>2, <1>3, <1>5, <1>7

\* Full lines hold nothing but the host's data.
LEMMA FullLinesHoldData ==
  ASSUME IndInv, gc_line \notin full_lines
  PROVE  Cardinality(full_lines) * PGS_PER_LINE <= Cardinality(Mapped)
<1> DEFINE S == full_lines \X Offsets
           f == [p \in S |-> rmap[p]]
<1>1. full_lines \in SUBSET Lines
  BY DEF IndInv, TypeOK
<1>2. ASSUME NEW p \in S
      PROVE  rmap[p] \in LPNs /\ maptbl[rmap[p]] = p /\ mapped_ppa(maptbl[rmap[p]])
  <2>1. p \in Pages /\ pg[p] = "valid" /\ p[1] # gc_line
    BY <1>1 DEF IndInv, PageStates, Pages
  <2>2. rmap[p] \in LPNs /\ maptbl[rmap[p]] = p
    BY <2>1 DEF IndInv, MapConsistent
  <2> QED
    BY <2>1, <2>2, MarkerAssumption DEF mapped_ppa
<1>3. f \in [S -> Mapped] /\ \A p, q \in S : f[p] = f[q] => p = q
  BY <1>2 DEF Mapped
<1>4. f \in Injection(S, Mapped)
  BY <1>3 DEF Injection, IsInjective
<1>5. Cardinality(S) <= Cardinality(Mapped)
  BY <1>4, MappedFinite, FS_Injection
<1>6. Cardinality(S) = Cardinality(full_lines) * PGS_PER_LINE
  BY <1>1, PagesOfLines, ZenonT(30)
<1> QED
  BY <1>5, <1>6

\* foreground_gc always finds a victim when it looks for one: with the free
\* list at its threshold and nothing but full lines besides the open ones, the
\* partition would not be over-provisioned.
LEMMA VictimExists ==
  ASSUME IndInv, OverProvisioned, pc = "check", should_gc_high
  PROVE  victim_lines # {}
<1> SUFFICES ASSUME victim_lines = {} PROVE FALSE
  OBVIOUS
<1>1. gc_line = NULL
  BY DEF IndInv, GcStates
<1>2. /\ Lines = OpenLines \cup free_lines \cup full_lines
      /\ full_lines \in SUBSET Lines /\ free_lines \in SUBSET Lines
  BY <1>1, MarkerAssumption DEF IndInv, TypeOK, LinesPartitioned
<1>3. /\ IsFiniteSet(free_lines) /\ IsFiniteSet(full_lines)
      /\ Cardinality(free_lines) \in Nat /\ Cardinality(full_lines) \in Nat
  BY <1>2, PagesOfLines, ZenonT(30)
<1>4. Cardinality(free_lines) <= NR_RUH + 1
  BY DEF should_gc_high, gc_thres_lines_high
<1>5. /\ IsFiniteSet(OpenLines \cup free_lines)
      /\ Cardinality(OpenLines \cup free_lines) \in Nat
      /\ Cardinality(OpenLines \cup free_lines) <= Cardinality(OpenLines) + Cardinality(free_lines)
  BY <1>3, OpenLinesCount, UnionBound
<1>6. Cardinality(Lines) <= Cardinality(OpenLines \cup free_lines) + Cardinality(full_lines)
  BY <1>2, <1>3, <1>5, UnionBound
<1>7. Cardinality(Lines) \in Nat
  BY SizesAssumption, FS_CardinalityType
<1>8. Cardinality(Lines) - 2 * (NR_RUH + 1) <= Cardinality(full_lines)
  BY <1>3, <1>4, <1>5, <1>6, <1>7, OpenLinesCount, SizesAssumption
<1>9. (Cardinality(Lines) - 2 * (NR_RUH + 1)) * PGS_PER_LINE <= Cardinality(full_lines) * PGS_PER_LINE
  <2> DEFINE a == Cardinality(Lines) - 2 * (NR_RUH + 1)
             b == Cardinality(full_lines)
  <2>1. a \in Int /\ b \in Int /\ a <= b
    BY <1>3, <1>7, <1>8, SizesAssumption
  <2> HIDE DEF a, b
  <2>2. a * PGS_PER_LINE <= b * PGS_PER_LINE
    BY <2>1, TimesMonotone, SizesAssumption
  <2> QED
    BY <2>2 DEF a, b
<1>10. Cardinality(full_lines) * PGS_PER_LINE <= Cardinality(Mapped)
  <2>1. gc_line \notin full_lines
    BY <1>1, <1>2, MarkerAssumption
  <2> QED
    BY <2>1, FullLinesHoldData
<1>11. Cardinality(Mapped) < (Cardinality(Lines) - 2 * (NR_RUH + 1)) * PGS_PER_LINE
  BY DEF OverProvisioned, Mapped
<1> DEFINE x == (Cardinality(Lines) - 2 * (NR_RUH + 1)) * PGS_PER_LINE
           y == Cardinality(full_lines) * PGS_PER_LINE
           z == Cardinality(Mapped)
<1>12. x \in Int /\ y \in Int /\ z \in Int
  BY <1>3, <1>7, MappedFinite, SizesAssumption
<1>13. x <= y /\ y <= z /\ z < x
  BY <1>9, <1>10, <1>11
<1> HIDE DEF x, y, z
<1> QED
  BY <1>12, <1>13

(***************************************************************************)
(* The steps                                                               *)
(***************************************************************************)

\* A rotation finds a free line: with none, all free pages are in the open
\* lines of the other pointers, fewer than the reserve.
LEMMA FreeLineExists ==
  ASSUME IndInv, ReserveInv, OverProvisioned, pc = "rotate"
  PROVE  free_lines # {}
<1> SUFFICES ASSUME free_lines = {} PROVE FALSE
  OBVIOUS
<1> DEFINE O == OpenLines \ {wp[io].line}
<1>1. io \in WPs /\ wp[io].line \in OpenLines
  BY DEF IndInv, TypeOK, OpenLines
<1>2. OpenLines \in SUBSET Lines
  BY DEF IndInv, LinesPartitioned
<1>3. O \in SUBSET Lines /\ Cardinality(O) \in Nat /\ Cardinality(O) <= NR_RUH
  <2> DEFINE U == OpenLines
             c == wp[io].line
  <2>1. IsFiniteSet(U) /\ c \in U /\ Cardinality(U) \in Nat /\ Cardinality(U) <= NR_RUH + 1
    BY <1>1, OpenLinesCount
  <2> HIDE DEF U, c
  <2>2. IsFiniteSet(U \ {c}) /\ Cardinality(U \ {c}) = Cardinality(U) - 1
    BY <2>1, FS_RemoveElement, ZenonT(30)
  <2>3. Cardinality(U \ {c}) \in Nat
    BY <2>2, FS_CardinalityType
  <2>4. Cardinality(U \ {c}) <= NR_RUH
    BY <2>1, <2>2, <2>3, SizesAssumption
  <2> QED
    BY <1>2, <2>3, <2>4 DEF U, c
<1>4. FreePages \subseteq O \X Offsets
  <2> SUFFICES ASSUME NEW l \in Lines, NEW k \in Offsets, pg[<<l, k>>] = "free"
               PROVE  l \in O
    BY DEF FreePages, Pages
  <2>1. l \notin full_lines /\ l \notin victim_lines /\ l # gc_line
    BY MarkerAssumption DEF IndInv, PageStates
  <2>2. l \in OpenLines
    BY <2>1 DEF IndInv, LinesPartitioned
  <2>3. wp[io].off = PGS_PER_LINE
    BY <1>1 DEF IndInv, WpStates
  <2>4. \A j \in Offsets : pg[<<wp[io].line, j>>] = "free" <=> PGS_PER_LINE <= j
    BY <1>1, <2>3 DEF IndInv, WpStates
  <2>5. pg[<<wp[io].line, k>>] # "free"
    BY <2>4, SizesAssumption DEF Offsets
  <2> QED
    BY <2>2, <2>5
<1> HIDE DEF O
<1>5. IsFiniteSet(O \X Offsets) /\ Cardinality(O \X Offsets) = Cardinality(O) * PGS_PER_LINE
  BY <1>3, PagesOfLines, ZenonT(30)
<1>6. Left <= Cardinality(O) * PGS_PER_LINE
  <2>1. FreePages \in SUBSET (O \X Offsets)
    BY <1>4
  <2>2. Cardinality(FreePages) <= Cardinality(O \X Offsets)
    BY <1>5, <2>1, FS_Subset, ZenonT(30)
  <2> QED
    BY <1>5, <2>2 DEF Left
<1>7. Cardinality(O) * PGS_PER_LINE <= NR_RUH * PGS_PER_LINE
  BY <1>3, TimesMonotone, SizesAssumption
<1>8. Reserve = NR_RUH * PGS_PER_LINE + PGS_PER_LINE /\ NR_RUH * PGS_PER_LINE \in Nat
      /\ Cardinality(O) * PGS_PER_LINE \in Nat
  BY <1>3, SizesAssumption DEF Reserve
<1>9. Left > NR_RUH * PGS_PER_LINE
  <2>1. CASE io # GC_IO
    <3>1. InWrite
      BY <2>1 DEF InWrite
    <3>2. write_credits \in 1 .. PGS_PER_LINE /\ Left >= Reserve + write_credits - 1
      BY <3>1 DEF ReserveInv, Credits, Reserved
    <3> QED
      BY <1>8, <3>2, FreeFinite, SizesAssumption
  <2>2. CASE io = GC_IO
    <3>1. InGc
      BY <2>2 DEF InGc
    <3>2. /\ credits_to_refill \in 1 .. PGS_PER_LINE
          /\ Left - Cardinality(todo) >= Reserve - PGS_PER_LINE + credits_to_refill
      BY <3>1 DEF ReserveInv, Credits, Reserved
    <3>3. Cardinality(todo) \in Nat
      BY TodoFinite
    <3> QED
      BY <1>8, <3>2, <3>3, FreeFinite, SizesAssumption
  <2> QED
    BY <2>1, <2>2
<1> QED
  BY <1>6, <1>7, <1>8, <1>9, FreeFinite

\* A host write takes one free page, which its credit pays for.
LEMMA HostReserve ==
  ASSUME IndInv, ReserveInv, NEW n \in LPNs, NEW r \in RUH, WriteNew(n, r) \/ Overwrite(n, r)
  PROVE  ReserveInv'
<1> DEFINE new == get_new_page(r)
<1>1. pc = "idle" /\ r \in WPs /\ r # GC_IO
  BY SizesAssumption DEF WriteNew, Overwrite, RUH, WPs, GC_IO
<1>2. new \in Pages /\ pg[new] = "free"
  BY <1>1, NewPage
<1>3. /\ maptbl' = [maptbl EXCEPT ![n] = new]
      /\ AdvanceInLine(r, "credit")
      /\ write_credits' = write_credits /\ credits_to_refill' = credits_to_refill
  BY DEF WriteNew, Overwrite, wfcVars
<1>4. \A p \in Pages : pg'[p] = "free" <=> pg[p] = "free" /\ p # new
  <2>1. pg \in [Pages -> {"free", "valid", "invalid"}]
    BY DEF IndInv, TypeOK
  <2>2. CASE WriteNew(n, r)
    <3>1. pg' = [pg EXCEPT ![new] = "valid"]
      BY <2>2 DEF WriteNew
    <3> QED
      BY <1>2, <2>1, <3>1
  <2>3. CASE Overwrite(n, r)
    <3>1. pg' = [pg EXCEPT ![maptbl[n]] = "invalid", ![new] = "valid"] /\ mapped_ppa(maptbl[n])
      BY <2>3 DEF Overwrite
    <3>2. maptbl[n] \in Pages /\ pg[maptbl[n]] = "valid"
      BY <3>1 DEF IndInv, TypeOK, MapConsistent, mapped_ppa
    <3> QED
      BY <1>2, <2>1, <3>1, <3>2
  <2> QED
    BY <2>2, <2>3
<1>5. Left' = Left - 1
  BY <1>2, <1>4, FreeProgrammed
<1>6. InWrite' /\ pc' # "idle" /\ pc' # "check" /\ pc' # "oops" /\ ~InGc'
  BY <1>1, <1>3 DEF AdvanceInLine, InWrite, InGc
<1>7. Mapped \subseteq Mapped'
  <2>1. maptbl \in [LPNs -> Pages \cup {UNMAPPED_PPA}]
    BY DEF IndInv, TypeOK
  <2> QED
    BY <1>2, <1>3, <2>1, MarkerAssumption DEF Mapped, mapped_ppa
<1>8. Credits'
  BY <1>1, <1>3, <1>6 DEF ReserveInv, Credits
<1>9. ASSUME OverProvisioned' PROVE Reserved'
  <2>1. Left >= Reserve + write_credits /\ write_credits \in 1 .. PGS_PER_LINE
    BY <1>1, <1>7, <1>9, MappedGrows DEF ReserveInv, Reserved, Credits
  <2>2. Reserve \in Int /\ write_credits \in Int
    BY <2>1, SizesAssumption DEF Reserve
  <2>3. Left' >= Reserve + write_credits' - 1
    BY <1>3, <1>5, <2>1, <2>2, FreeFinite
  <2> QED
    BY <1>6, <2>3 DEF Reserved, Reserve
<1> QED
  BY <1>8, <1>9 DEF ReserveInv

\* The steps that program and erase nothing leave the free pages and the
\* host's data alone.
LEMMA SamePages ==
  ASSUME pg' = pg, maptbl' = maptbl
  PROVE  Left' = Left /\ OverProvisioned' = OverProvisioned
BY DEF Left, FreePages, OverProvisioned, mapped_ppa

\* A rotation is part of the write or the collection that filled the line.
LEMMA RotateReserve ==
  ASSUME IndInv, ReserveInv, Rotate \/ RotateNull
  PROVE  ReserveInv'
<1>1. /\ pc = "rotate" /\ pg' = pg /\ maptbl' = maptbl /\ todo' = todo /\ io' = io
      /\ write_credits' = write_credits /\ credits_to_refill' = credits_to_refill
  BY DEF Rotate, RotateNull, wfcVars, gcVars
<1>2. Left' = Left /\ OverProvisioned' = OverProvisioned
  BY <1>1, SamePages
<1>3. CASE Rotate
  <2>1. pc' = IF io = GC_IO THEN "gc" ELSE "credit"
    BY <1>3 DEF Rotate
  <2>2. (InWrite' <=> InWrite) /\ (InGc' <=> InGc) /\ pc' \notin {"idle", "check", "oops"}
    BY <1>1, <2>1 DEF InWrite, InGc
  <2> QED
    BY <1>1, <1>2, <2>2 DEF ReserveInv, Credits, Reserved, Reserve
<1>4. CASE RotateNull
  <2>1. pc' = "oops" /\ free_lines = {}
    BY <1>4 DEF RotateNull
  <2>2. ~OverProvisioned
    BY <1>1, <2>1, FreeLineExists
  <2>3. Credits'
    BY <1>1, <2>1 DEF ReserveInv, Credits, InWrite, InGc
  <2> QED
    BY <1>2, <2>2, <2>3 DEF ReserveInv
<1> QED
  BY <1>3, <1>4

\* The credit is paid.
LEMMA ConsumeReserve ==
  ASSUME IndInv, ReserveInv, consume_write_credit
  PROVE  ReserveInv'
<1>1. /\ pc = "credit" /\ pg' = pg /\ maptbl' = maptbl /\ todo' = todo /\ io' = io
      /\ credits_to_refill' = credits_to_refill
      /\ write_credits' = (write_credits - 1) % UINT_MOD
      /\ pc' = IF write_credits' = 0 THEN "check" ELSE "idle"
  BY DEF consume_write_credit, gcVars
<1>2. Left' = Left /\ OverProvisioned' = OverProvisioned
  BY <1>1, SamePages
<1>3. InWrite /\ ~InWrite' /\ ~InGc'
  BY <1>1 DEF InWrite, InGc
<1>4. write_credits \in 1 .. PGS_PER_LINE /\ credits_to_refill \in 1 .. PGS_PER_LINE
  BY <1>3 DEF ReserveInv, Credits
<1>5. write_credits' = write_credits - 1
  BY <1>1, <1>4, SizesAssumption
<1>6. Credits'
  BY <1>1, <1>3, <1>4, <1>5, SizesAssumption DEF Credits
<1>7. ASSUME OverProvisioned' PROVE Reserved'
  <2>1. Left >= Reserve + write_credits - 1
    BY <1>2, <1>3, <1>7 DEF ReserveInv, Reserved
  <2>2. Reserve \in Int /\ Left \in Int
    BY FreeFinite, SizesAssumption DEF Reserve
  <2>3. Reserve' = Reserve
    BY DEF Reserve
  <2> QED
    BY <1>1, <1>2, <1>3, <1>4, <1>5, <2>1, <2>2, <2>3, SizesAssumption DEF Reserved
<1> QED
  BY <1>6, <1>7 DEF ReserveInv

\* A refill without a collection happens only above the threshold, where the
\* free lines alone hold the reserve and a line for the new credits.
LEMMA RefillReserve ==
  ASSUME IndInv, ReserveInv, RefillWithoutGc
  PROVE  ReserveInv'
<1>1. /\ pc = "check" /\ pc' = "idle" /\ pg' = pg /\ maptbl' = maptbl
      /\ credits_to_refill' = credits_to_refill
      /\ write_credits' = (write_credits + credits_to_refill) % UINT_MOD
      /\ ~should_gc_high \/ victim_lines = {}
  BY DEF RefillWithoutGc, RefillCredits
<1>2. Left' = Left /\ OverProvisioned' = OverProvisioned
  BY <1>1, SamePages
<1>3. write_credits = 0 /\ credits_to_refill \in 1 .. PGS_PER_LINE
  BY <1>1 DEF ReserveInv, Credits
<1>4. write_credits' = credits_to_refill
  BY <1>1, <1>3, SizesAssumption
<1>5. ~InWrite' /\ ~InGc'
  BY <1>1 DEF InWrite, InGc
<1>6. Credits'
  BY <1>1, <1>3, <1>4, <1>5 DEF Credits
<1>7. ASSUME OverProvisioned' PROVE Reserved'
  <2>1. ~should_gc_high
    BY <1>1, <1>2, <1>7, VictimExists
  <2>2. free_lines \in SUBSET Lines
    BY DEF IndInv, TypeOK
  <2>3. /\ Cardinality(free_lines) \in Nat /\ IsFiniteSet(free_lines \X Offsets)
        /\ Cardinality(free_lines \X Offsets) = Cardinality(free_lines) * PGS_PER_LINE
    BY <2>2, PagesOfLines, ZenonT(30)
  <2>4. NR_RUH + 2 <= Cardinality(free_lines)
    BY <2>1, <2>3, SizesAssumption DEF should_gc_high, gc_thres_lines_high
  <2>5. (NR_RUH + 2) * PGS_PER_LINE <= Cardinality(free_lines) * PGS_PER_LINE
    BY <2>3, <2>4, TimesMonotone, SizesAssumption
  <2>6. free_lines \X Offsets \in SUBSET FreePages
    BY <2>2 DEF FreePages, Pages, IndInv, PageStates
  <2>7. Cardinality(free_lines \X Offsets) <= Left
    BY <2>6, FreeFinite, FS_Subset, ZenonT(30) DEF Left
  <2>8. (NR_RUH + 2) * PGS_PER_LINE = Reserve + PGS_PER_LINE /\ Reserve \in Int
    BY SizesAssumption DEF Reserve
  <2>9. Cardinality(free_lines) * PGS_PER_LINE \in Int
    BY <2>3, SizesAssumption
  <2>10. Left >= Reserve + PGS_PER_LINE
    BY <2>3, <2>5, <2>7, <2>8, <2>9, FreeFinite, SizesAssumption
  <2>11. Left' >= Reserve + write_credits'
    BY <1>2, <1>3, <1>4, <2>8, <2>10, FreeFinite, SizesAssumption
  <2> QED
    BY <1>1, <1>5, <2>11 DEF Reserved, Reserve
<1> QED
  BY <1>6, <1>7 DEF ReserveInv

\* A collection promises the pages it will erase and takes the copies it will
\* make out of the reserve.
LEMMA StartGcReserve ==
  ASSUME IndInv, ReserveInv, StartGc
  PROVE  ReserveInv'
<1>1. PICK v \in select_victim_line : todo' = ValidPages(v) /\ credits_to_refill' = ipc[v]
  BY DEF StartGc
<1>2. /\ pc = "check" /\ pc' = "gc" /\ pg' = pg /\ maptbl' = maptbl
      /\ write_credits' = write_credits
  BY DEF StartGc
<1>3. Left' = Left /\ OverProvisioned' = OverProvisioned
  BY <1>2, SamePages
<1>4. v \in victim_lines /\ v \in Lines
  BY DEF select_victim_line, IndInv, TypeOK
<1>5. ipc[v] > 0 /\ vpc[v] + ipc[v] = PGS_PER_LINE /\ vpc[v] = Cardinality(ValidPages(v))
  BY <1>4, IndInvAccounts DEF LineAccounting
<1>6. vpc[v] \in 0 .. PGS_PER_LINE /\ ipc[v] \in 0 .. PGS_PER_LINE
  BY <1>4 DEF IndInv, TypeOK
<1>7. ~InWrite' /\ InGc' /\ write_credits = 0
  BY <1>2 DEF InWrite, InGc, ReserveInv, Credits
<1>8. Credits'
  BY <1>1, <1>2, <1>5, <1>6, <1>7, SizesAssumption DEF Credits
<1>9. ASSUME OverProvisioned' PROVE Reserved'
  <2>1. Left >= Reserve
    BY <1>2, <1>3, <1>9 DEF ReserveInv, Reserved
  <2>2. Reserve \in Int /\ Reserve' = Reserve
    BY SizesAssumption DEF Reserve
  <2>3. Cardinality(todo') = vpc[v]
    BY <1>1, <1>5
  <2>4. Left' - Cardinality(todo') >= Reserve - PGS_PER_LINE + credits_to_refill'
    BY <1>1, <1>3, <1>5, <1>6, <2>1, <2>2, <2>3, FreeFinite, SizesAssumption
  <2> QED
    BY <1>2, <1>7, <2>2, <2>4 DEF Reserved
<1> QED
  BY <1>8, <1>9 DEF ReserveInv

\* A copy takes the page that was set aside for it.
LEMMA GcWriteReserve ==
  ASSUME IndInv, ReserveInv, NEW old \in todo, GcWritePage(old)
  PROVE  ReserveInv'
<1> DEFINE new == get_new_page(GC_IO)
<1>1. /\ pc = "gc" /\ maptbl' = [maptbl EXCEPT ![rmap[old]] = new]
      /\ pg' = [pg EXCEPT ![new] = "valid"] /\ AdvanceInLine(GC_IO, "gc") /\ todo' = todo \ {old}
      /\ write_credits' = write_credits /\ credits_to_refill' = credits_to_refill
  BY DEF GcWritePage, wfcVars
<1>2. GC_IO \in WPs
  BY SizesAssumption DEF GC_IO, WPs
<1>3. new \in Pages /\ pg[new] = "free"
  BY <1>1, <1>2, NewPage
<1>4. \A p \in Pages : pg'[p] = "free" <=> pg[p] = "free" /\ p # new
  <2>1. pg \in [Pages -> {"free", "valid", "invalid"}]
    BY DEF IndInv, TypeOK
  <2> QED
    BY <1>1, <1>3, <2>1
<1>5. Left' = Left - 1
  BY <1>3, <1>4, FreeProgrammed
<1>6. Cardinality(todo') = Cardinality(todo) - 1 /\ Cardinality(todo) \in Nat
  <2>1. IsFiniteSet(todo) /\ Cardinality(todo) \in Nat
    BY TodoFinite
  <2>2. Cardinality(todo \ {old}) = Cardinality(todo) - 1
    BY <2>1, FS_RemoveElement, ZenonT(30)
  <2> QED
    BY <1>1, <2>1, <2>2
<1>7. Mapped \subseteq Mapped'
  <2>1. maptbl \in [LPNs -> Pages \cup {UNMAPPED_PPA}]
    BY DEF IndInv, TypeOK
  <2> QED
    BY <1>1, <1>3, <2>1, MarkerAssumption DEF Mapped, mapped_ppa
<1>8. InGc /\ InGc' /\ ~InWrite' /\ pc' \notin {"idle", "check", "oops"}
  BY <1>1 DEF AdvanceInLine, InGc, InWrite
<1>9. Credits'
  BY <1>1, <1>8 DEF ReserveInv, Credits
<1>10. ASSUME OverProvisioned' PROVE Reserved'
  <2>1. /\ Left - Cardinality(todo) >= Reserve - PGS_PER_LINE + credits_to_refill
        /\ credits_to_refill \in 1 .. PGS_PER_LINE
    BY <1>7, <1>8, <1>10, MappedGrows DEF ReserveInv, Reserved, Credits
  <2>2. Reserve \in Int /\ Reserve' = Reserve
    BY SizesAssumption DEF Reserve
  <2>3. Left' - Cardinality(todo') >= Reserve - PGS_PER_LINE + credits_to_refill'
    BY <1>1, <1>5, <1>6, <2>1, <2>2, FreeFinite, SizesAssumption
  <2> QED
    BY <1>8, <2>2, <2>3 DEF Reserved
<1> QED
  BY <1>9, <1>10 DEF ReserveInv

\* The erase gives the line back, which covers the refill.
LEMMA EndGcReserve ==
  ASSUME IndInv, ReserveInv, EndGc
  PROVE  ReserveInv'
<1>1. /\ pc = "gc" /\ pc' = "idle" /\ todo = {} /\ maptbl' = maptbl
      /\ pg' = [p \in Pages |-> IF p[1] = gc_line THEN "free" ELSE pg[p]]
      /\ credits_to_refill' = credits_to_refill
      /\ write_credits' = (write_credits + credits_to_refill) % UINT_MOD
  BY DEF EndGc, RefillCredits
<1>2. gc_line # NULL /\ gc_line \in Lines
  BY <1>1 DEF IndInv, TypeOK, GcStates
<1>3. Left' = Left + PGS_PER_LINE
  <2>1. \A k \in Offsets : pg[<<gc_line, k>>] # "free"
    BY <1>2 DEF IndInv, PageStates
  <2> QED
    BY <1>1, <1>2, <2>1, FreeErased
<1>4. InGc /\ ~InWrite' /\ ~InGc'
  BY <1>1 DEF InWrite, InGc
<1>5. write_credits = 0 /\ credits_to_refill \in 1 .. PGS_PER_LINE
  BY <1>4 DEF ReserveInv, Credits
<1>6. write_credits' = credits_to_refill
  BY <1>1, <1>5, SizesAssumption
<1>7. Credits'
  BY <1>1, <1>4, <1>5, <1>6 DEF Credits
<1>8. ASSUME OverProvisioned' PROVE Reserved'
  <2>1. OverProvisioned
    BY <1>1, <1>8 DEF OverProvisioned, mapped_ppa
  <2>2. Left - Cardinality(todo) >= Reserve - PGS_PER_LINE + credits_to_refill
    BY <1>4, <2>1 DEF ReserveInv, Reserved
  <2>3. Cardinality(todo) = 0
    BY <1>1, FS_EmptySet, ZenonT(30)
  <2>4. Reserve \in Int /\ Reserve' = Reserve
    BY SizesAssumption DEF Reserve
  <2>5. Left' >= Reserve + write_credits'
    BY <1>3, <1>5, <1>6, <2>2, <2>3, <2>4, FreeFinite, SizesAssumption
  <2> QED
    BY <1>1, <1>4, <2>4, <2>5 DEF Reserved
<1> QED
  BY <1>7, <1>8 DEF ReserveInv

(***************************************************************************)
(* The theorems                                                            *)
(***************************************************************************)

\* At the start every page is free.
LEMMA InitReserve == Init => ReserveInv
<1> SUFFICES ASSUME Init PROVE ReserveInv
  OBVIOUS
<1>1. pc = "idle" /\ write_credits = PGS_PER_LINE /\ credits_to_refill = PGS_PER_LINE
  BY DEF Init
<1>2. FreePages = Lines \X Offsets
  BY DEF Init, FreePages, Pages
<1>3. Left = Cardinality(Lines) * PGS_PER_LINE /\ Cardinality(Lines) \in Nat
  <2>1. /\ Cardinality(Lines) \in Nat
        /\ Cardinality(Lines \X Offsets) = Cardinality(Lines) * PGS_PER_LINE
    BY PagesOfLines, ZenonT(30)
  <2> QED
    BY <1>2, <2>1 DEF Left
<1>4. (NR_RUH + 2) * PGS_PER_LINE <= Cardinality(Lines) * PGS_PER_LINE
  BY <1>3, TimesMonotone, OpenLinesAssumption, SizesAssumption
<1>5. (NR_RUH + 2) * PGS_PER_LINE = Reserve + PGS_PER_LINE
  BY SizesAssumption DEF Reserve
<1> QED
  BY <1>1, <1>3, <1>4, <1>5, SizesAssumption DEF ReserveInv, Credits, Reserved, InWrite, InGc

\* Every step preserves the reserve.
LEMMA NextReserve == IndInv /\ ReserveInv /\ [Next]_vars => ReserveInv'
<1> SUFFICES ASSUME IndInv, ReserveInv, [Next]_vars PROVE ReserveInv'
  OBVIOUS
<1>1. CASE HostWrite
  BY <1>1, HostReserve DEF HostWrite
<1>2. CASE Firmware
  BY <1>2, RotateReserve, ConsumeReserve, RefillReserve, StartGcReserve, GcWriteReserve,
     EndGcReserve DEF Firmware
<1>3. CASE UNCHANGED vars
  <2>1. /\ pg' = pg /\ maptbl' = maptbl /\ pc' = pc /\ io' = io /\ todo' = todo
        /\ write_credits' = write_credits /\ credits_to_refill' = credits_to_refill
    BY <1>3 DEF vars
  <2>2. Left' = Left /\ OverProvisioned' = OverProvisioned
    BY <2>1, SamePages
  <2> QED
    BY <2>1, <2>2 DEF ReserveInv, Credits, Reserved, InWrite, InGc, Reserve
<1> QED
  BY <1>1, <1>2, <1>3 DEF Next

\* The write credits of check_and_refill_write_credit and the reserve of free
\* pages are in step at every point of a write and of a collection.
THEOREM ReserveInductive == Spec => []ReserveInv
BY InitReserve, NextReserve, InductiveInvariant, PTL DEF Spec

\* While the host's data leave the spare lines OverProvisioned asks for, free
\* pages cover the credits handed out and the copies of the collection under
\* way, with a line for every write pointer.
THEOREM ReserveCovers == Spec => []ReserveCoversCredits
<1>1. ReserveInv => ReserveCoversCredits
  BY SizesAssumption DEF ReserveInv, ReserveCoversCredits, Reserved, Credits, Left, Reserve, InGc
<1> QED
  BY <1>1, ReserveInductive, PTL

\* A partition whose logical space is small enough never reaches the NULL
\* line of get_next_free_line: foreground collections always make room in
\* time, whatever the host writes, through whichever handle and how often.
THEOREM NeverOutOfLines ==
  Cardinality(LPNs) < (Cardinality(Lines) - 2 * (NR_RUH + 1)) * PGS_PER_LINE
    => (Spec => []NoNullLine)
<1> SUFFICES ASSUME Cardinality(LPNs) < (Cardinality(Lines) - 2 * (NR_RUH + 1)) * PGS_PER_LINE
             PROVE  Spec => []NoNullLine
  OBVIOUS
<1>1. OverProvisioned
  <2> DEFINE S == Mapped
             B == (Cardinality(Lines) - 2 * (NR_RUH + 1)) * PGS_PER_LINE
  <2>1. S \in SUBSET LPNs /\ Cardinality(S) \in Nat /\ (OverProvisioned <=> Cardinality(S) < B)
    BY MappedFinite DEF Mapped, OverProvisioned
  <2>2. Cardinality(LPNs) \in Nat /\ Cardinality(Lines) \in Nat
    BY SizesAssumption, FS_CardinalityType
  <2>3. B \in Int /\ Cardinality(LPNs) < B
    BY <2>2, SizesAssumption
  <2> HIDE DEF S, B
  <2>4. Cardinality(S) <= Cardinality(LPNs)
    BY <2>1, SizesAssumption, FS_Subset
  <2> QED
    BY <2>1, <2>2, <2>3, <2>4
<1>2. ReserveInv => NoNullLine
  BY <1>1 DEF ReserveInv, Reserved, NoNullLine
<1> QED
  BY <1>2, ReserveInductive, PTL
=============================================================================
