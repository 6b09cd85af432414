------------------------------ MODULE FdpFtlInv -----------------------------
(***************************************************************************)
(* The inductive invariant of FdpFtl and the lemmas its proof rests on:    *)
(* what the counters of a line count, and which page a write pointer       *)
(* names; what follows from the invariant: the accounting of lines, and    *)
(* that a step is a step of Placement; and that the write of an LPN, one   *)
(* that is mapped or one that is not, preserves the invariant.             *)
(***************************************************************************)
EXTENDS FdpFtl, FiniteSetTheorems, TLAPS

\* The prover of the steps that name none.
USE SMTT(30)

(***************************************************************************)
(* The inductive invariant: the four safety invariants, and what they rest *)
(* on: which pages of a line are free, valid or invalid follows from the   *)
(* list the line is in; where the write pointers stand; and which entries  *)
(* of the map still point into the line that is being collected.           *)
(***************************************************************************)
PageStates ==
    /\ \A l \in free_lines : \A k \in Offsets : pg[<<l, k>>] = "free"
    /\ \A l \in full_lines : \A k \in Offsets : pg[<<l, k>>] = "valid"
    /\ \A l \in victim_lines : \A k \in Offsets : pg[<<l, k>>] # "free"
    /\ \A l \in victim_lines : \E k \in Offsets : pg[<<l, k>>] = "invalid"
    /\ gc_line # NULL => \A k \in Offsets : pg[<<gc_line, k>>] # "free"
    /\ gc_line # NULL => \E k \in Offsets : pg[<<gc_line, k>>] = "invalid"

WpStates ==
    pc # "oops" => \A w \in WPs :
      /\ \A k \in Offsets : pg[<<wp[w].line, k>>] = "free" <=> wp[w].off <= k
      /\ wp[w].off = PGS_PER_LINE <=> (pc = "rotate" /\ io = w)
      /\ ruh[wp[w].line] = w

GcStates ==
    /\ pc # "oops" => (gc_line # NULL <=> (pc = "gc" \/ (pc = "rotate" /\ io = GC_IO)))
    /\ \A p \in todo : p[1] = gc_line /\ pg[p] = "valid"
    /\ \A n \in LPNs : mapped_ppa(maptbl[n]) /\ maptbl[n][1] = gc_line => maptbl[n] \in todo

Counters ==
    \A l \in Lines : /\ vpc[l] = Cardinality(ValidPages(l))
                     /\ ipc[l] = Cardinality(InvalidPages(l))

IndInv ==
    /\ TypeOK
    /\ MapConsistent
    /\ LinesPartitioned
    /\ PageStates
    /\ WpStates
    /\ GcStates
    /\ Counters

(***************************************************************************)
(* Counting the pages of a line that have a given status                   *)
(***************************************************************************)
PagesIn(f, l, s) == {p \in LinePages(l) : f[p] = s}
Count(f, l, s)   == Cardinality(PagesIn(f, l, s))

\* What a change of page p contributes to a count of line l.
Hit(p, l) == IF p[1] = l THEN 1 ELSE 0

\* A line is a finite set of PGS_PER_LINE pages.
LEMMA LineSize ==
  ASSUME NEW l
  PROVE  IsFiniteSet(LinePages(l)) /\ Cardinality(LinePages(l)) = PGS_PER_LINE
<1>1. IsFiniteSet(Offsets) /\ Cardinality(Offsets) = PGS_PER_LINE
  BY SizesAssumption, FS_Interval DEF Offsets
<1>2. IsFiniteSet({l}) /\ Cardinality({l}) = 1
  BY FS_Singleton
<1>3. IsFiniteSet(LinePages(l)) /\ Cardinality(LinePages(l)) = 1 * PGS_PER_LINE
  BY <1>1, <1>2, FS_Product DEF LinePages
<1> QED
  BY <1>3, SizesAssumption

\* Counts are between 0 and PGS_PER_LINE, and the upper bound is reached
\* exactly when every page of the line has the status counted.
LEMMA CountBounds ==
  ASSUME NEW f, NEW l, NEW s
  PROVE  /\ IsFiniteSet(PagesIn(f, l, s))
         /\ Count(f, l, s) \in 0 .. PGS_PER_LINE
         /\ Count(f, l, s) = PGS_PER_LINE <=> \A k \in Offsets : f[<<l, k>>] = s
         /\ Count(f, l, s) = 0 <=> \A k \in Offsets : f[<<l, k>>] # s
<1>1. PagesIn(f, l, s) \in SUBSET LinePages(l)
  BY DEF PagesIn
<1>2. /\ IsFiniteSet(PagesIn(f, l, s))
      /\ Count(f, l, s) <= PGS_PER_LINE
      /\ Count(f, l, s) = PGS_PER_LINE => PagesIn(f, l, s) = LinePages(l)
  BY <1>1, LineSize, FS_Subset DEF Count
<1>3. Count(f, l, s) \in Nat
  BY <1>2, FS_CardinalityType DEF Count
<1>4. Count(f, l, s) = 0 <=> PagesIn(f, l, s) = {}
  BY <1>2, FS_EmptySet DEF Count
<1>5. PagesIn(f, l, s) = LinePages(l) => Count(f, l, s) = PGS_PER_LINE
  BY LineSize DEF Count
<1>6. PagesIn(f, l, s) = LinePages(l) <=> \A k \in Offsets : f[<<l, k>>] = s
  BY DEF PagesIn, LinePages
<1>7. PagesIn(f, l, s) = {} <=> \A k \in Offsets : f[<<l, k>>] # s
  BY DEF PagesIn, LinePages
<1> QED
  BY <1>2, <1>3, <1>4, <1>5, <1>6, <1>7, SizesAssumption

\* What a change of page states does to a count.
LEMMA CountSame ==
  ASSUME NEW f, NEW g, NEW l, NEW s, \A p \in LinePages(l) : g[p] = s <=> f[p] = s
  PROVE  Count(g, l, s) = Count(f, l, s)
<1>1. PagesIn(g, l, s) = PagesIn(f, l, s)
  BY DEF PagesIn
<1> QED
  BY <1>1 DEF Count

\* One page of a line gaining a status (program or invalidate) adds one to
\* the number of pages of that status.
LEMMA CountGain ==
  ASSUME NEW f, NEW g, NEW l, NEW s, NEW q \in LinePages(l), g[q] = s, f[q] # s,
         \A p \in LinePages(l) : p # q => (g[p] = s <=> f[p] = s)
  PROVE  Count(g, l, s) = Count(f, l, s) + 1
<1>1. PagesIn(g, l, s) = PagesIn(f, l, s) \cup {q} /\ q \notin PagesIn(f, l, s)
  BY DEF PagesIn
<1>2. IsFiniteSet(PagesIn(f, l, s))
  BY CountBounds
<1>3. Cardinality(PagesIn(f, l, s) \cup {q}) = Cardinality(PagesIn(f, l, s)) + 1
  <2> DEFINE S == PagesIn(f, l, s)
  <2>1. IsFiniteSet(S) /\ q \notin S
    BY <1>1, <1>2
  <2> HIDE DEF S
  <2>2. Cardinality(S \cup {q}) = Cardinality(S) + 1
    BY <2>1, FS_AddElement, ZenonT(30)
  <2> QED
    BY <2>2 DEF S
<1> QED
  BY <1>1, <1>3 DEF Count

\* The two changes the actions make: a free page becomes valid, a valid page
\* becomes invalid.
LEMMA CountProgram ==
  ASSUME NEW f, NEW g, NEW q \in Pages, NEW l \in Lines,
         f[q] = "free", \A p \in Pages : g[p] = IF p = q THEN "valid" ELSE f[p]
  PROVE  /\ Count(g, l, "valid") = Count(f, l, "valid") + Hit(q, l)
         /\ Count(g, l, "invalid") = Count(f, l, "invalid")
<1>1. LinePages(l) \subseteq Pages /\ (q \in LinePages(l) <=> q[1] = l)
  BY DEF LinePages, Pages
<1>3. Count(g, l, "invalid") = Count(f, l, "invalid")
  <2>1. \A p \in LinePages(l) : g[p] = "invalid" <=> f[p] = "invalid"
    BY <1>1
  <2> QED
    BY <2>1, CountSame
<1>4. CASE q[1] = l
  <2>1. /\ q \in LinePages(l) /\ g[q] = "valid" /\ f[q] # "valid"
        /\ \A p \in LinePages(l) : p # q => (g[p] = "valid" <=> f[p] = "valid")
    BY <1>1, <1>4
  <2>2. Count(g, l, "valid") = Count(f, l, "valid") + 1
    BY <2>1, CountGain
  <2> QED
    BY <1>3, <1>4, <2>2 DEF Hit
<1>5. CASE q[1] # l
  <2>1. \A p \in LinePages(l) : g[p] = "valid" <=> f[p] = "valid"
    BY <1>1, <1>5
  <2>2. Count(g, l, "valid") = Count(f, l, "valid")
    BY <2>1, CountSame
  <2>3. Count(f, l, "valid") \in Int
    BY CountBounds, SizesAssumption
  <2> QED
    BY <1>3, <1>5, <2>2, <2>3 DEF Hit
<1> QED
  BY <1>4, <1>5

\* mark_page_invalid moves one page from the valid to the invalid ones.
LEMMA CountInvalidate ==
  ASSUME NEW f, NEW g, NEW q \in Pages, NEW l \in Lines,
         f[q] = "valid", \A p \in Pages : g[p] = IF p = q THEN "invalid" ELSE f[p]
  PROVE  /\ Count(g, l, "valid") = Count(f, l, "valid") - Hit(q, l)
         /\ Count(g, l, "invalid") = Count(f, l, "invalid") + Hit(q, l)
<1>1. LinePages(l) \subseteq Pages /\ (q \in LinePages(l) <=> q[1] = l)
  BY DEF LinePages, Pages
<1>3. /\ Count(f, l, "valid") \in Int /\ Count(f, l, "invalid") \in Int
      /\ Count(g, l, "valid") \in Int
  BY CountBounds, SizesAssumption
<1>4. CASE q[1] = l
  <2>1. /\ q \in LinePages(l) /\ g[q] = "invalid" /\ f[q] # "invalid"
        /\ \A p \in LinePages(l) : p # q => (g[p] = "invalid" <=> f[p] = "invalid")
        /\ f[q] = "valid" /\ g[q] # "valid"
        /\ \A p \in LinePages(l) : p # q => (f[p] = "valid" <=> g[p] = "valid")
    BY <1>1, <1>4
  <2>2. Count(g, l, "invalid") = Count(f, l, "invalid") + 1
    BY <2>1, CountGain
  <2>3. Count(f, l, "valid") = Count(g, l, "valid") + 1
    BY <2>1, CountGain
  <2> QED
    BY <1>3, <1>4, <2>2, <2>3 DEF Hit
<1>5. CASE q[1] # l
  <2>1. /\ \A p \in LinePages(l) : g[p] = "valid" <=> f[p] = "valid"
        /\ \A p \in LinePages(l) : g[p] = "invalid" <=> f[p] = "invalid"
    BY <1>1, <1>5
  <2>2. Count(g, l, "valid") = Count(f, l, "valid")
    BY <2>1, CountSame
  <2>3. Count(g, l, "invalid") = Count(f, l, "invalid")
    BY <2>1, CountSame
  <2> QED
    BY <1>3, <1>5, <2>2, <2>3 DEF Hit
<1> QED
  BY <1>4, <1>5

\* An overwrite does both: p loses its data to q.
LEMMA CountOverwrite ==
  ASSUME NEW f, NEW g, NEW p \in Pages, NEW q \in Pages, NEW l \in Lines,
         p # q, f[p] = "valid", f[q] = "free",
         \A x \in Pages : g[x] = IF x = q THEN "valid" ELSE IF x = p THEN "invalid" ELSE f[x]
  PROVE  /\ Count(g, l, "valid") = Count(f, l, "valid") - Hit(p, l)
                                                       + Hit(q, l)
         /\ Count(g, l, "invalid") = Count(f, l, "invalid") + Hit(p, l)
<1> DEFINE mid == [x \in Pages |-> IF x = p THEN "invalid" ELSE f[x]]
<1>1. /\ \A x \in Pages : mid[x] = IF x = p THEN "invalid" ELSE f[x]
      /\ \A x \in Pages : g[x] = IF x = q THEN "valid" ELSE mid[x]
      /\ mid[q] = "free"
  OBVIOUS
<1> HIDE DEF mid
<1>2. /\ Count(mid, l, "valid") = Count(f, l, "valid") - Hit(p, l)
      /\ Count(mid, l, "invalid") = Count(f, l, "invalid") + Hit(p, l)
  BY <1>1, CountInvalidate
<1>3. /\ Count(g, l, "valid") = Count(mid, l, "valid") + Hit(q, l)
      /\ Count(g, l, "invalid") = Count(mid, l, "invalid")
  <2>1. mid[q] = "free" /\ \A x \in Pages : g[x] = IF x = q THEN "valid" ELSE mid[x]
    BY <1>1
  <2> QED
    BY <2>1, CountProgram, ZenonT(30)
<1> QED
  BY <1>2, <1>3

\* The counters of a state, read as counts of its page table.
LEMMA CountersAsCounts ==
  /\ \A l : ValidPages(l) = PagesIn(pg, l, "valid") /\ InvalidPages(l) = PagesIn(pg, l, "invalid")
  /\ Counters <=> \A l \in Lines : vpc[l] = Count(pg, l, "valid") /\ ipc[l] = Count(pg, l, "invalid")
BY DEF Counters, ValidPages, InvalidPages, PagesIn, Count

\* The counters of one line, so read.
LEMMA CountersRead ==
  ASSUME Counters, NEW l \in Lines
  PROVE  vpc[l] = Count(pg, l, "valid") /\ ipc[l] = Count(pg, l, "invalid")
BY CountersAsCounts

\* The same of the next state, with the ranges it implies.
LEMMA CountersAfter ==
  ASSUME \A l \in Lines : vpc'[l] = Count(pg', l, "valid") /\ ipc'[l] = Count(pg', l, "invalid"),
         vpc' = [l \in Lines |-> vpc'[l]], ipc' = [l \in Lines |-> ipc'[l]]
  PROVE  Counters' /\ vpc' \in [Lines -> 0 .. PGS_PER_LINE] /\ ipc' \in [Lines -> 0 .. PGS_PER_LINE]
<1>1. \A l \in Lines : vpc'[l] \in 0 .. PGS_PER_LINE /\ ipc'[l] \in 0 .. PGS_PER_LINE
  BY CountBounds
<1> QED
  BY <1>1 DEF Counters, ValidPages, InvalidPages, PagesIn, Count

\* If exactly the first m pages of a line are written, its valid and invalid
\* pages are m together.
LEMMA CountWritten ==
  ASSUME NEW f, NEW l, NEW m \in 0 .. PGS_PER_LINE,
         \A k \in Offsets : f[<<l, k>>] \in {"free", "valid", "invalid"},
         \A k \in Offsets : f[<<l, k>>] = "free" <=> m <= k
  PROVE  Count(f, l, "valid") + Count(f, l, "invalid") = m
<1> DEFINE W == {l} \X (0 .. (m - 1))
<1>1. IsFiniteSet(0 .. (m - 1)) /\ Cardinality(0 .. (m - 1)) = m
  BY SizesAssumption, FS_Interval
<1>2. IsFiniteSet({l}) /\ Cardinality({l}) = 1
  BY FS_Singleton
<1>3. IsFiniteSet(W) /\ Cardinality(W) = 1 * m
  BY <1>1, <1>2, FS_Product
<1>4. PagesIn(f, l, "valid") \cup PagesIn(f, l, "invalid") = W
  <2>1. \A k \in Offsets : k < m <=> f[<<l, k>>] \in {"valid", "invalid"}
    BY SizesAssumption DEF Offsets
  <2>2. \A k : k \in 0 .. (m - 1) <=> k \in Offsets /\ k < m
    BY SizesAssumption DEF Offsets
  <2>3. \A p : p \in PagesIn(f, l, "valid") \cup PagesIn(f, l, "invalid")
              <=> \E k \in Offsets : p = <<l, k>> /\ f[<<l, k>>] \in {"valid", "invalid"}
    <3>1. \A p : p \in LinePages(l) <=> \E k \in Offsets : p = <<l, k>>
      BY DEF LinePages
    <3>2. \A p : p \in PagesIn(f, l, "valid") \cup PagesIn(f, l, "invalid")
                <=> p \in LinePages(l) /\ f[p] \in {"valid", "invalid"}
      BY DEF PagesIn
    <3> QED
      BY <3>1, <3>2, ZenonT(30)
  <2>4. \A p : p \in W <=> \E k \in 0 .. (m - 1) : p = <<l, k>>
    OBVIOUS
  <2>5. \A p : p \in W <=> \E k \in Offsets : p = <<l, k>> /\ f[<<l, k>>] \in {"valid", "invalid"}
    BY <2>1, <2>2, <2>4, ZenonT(30)
  <2> HIDE DEF W
  <2> QED
    BY <2>3, <2>5, ZenonT(30)
<1>5. PagesIn(f, l, "valid") \cap PagesIn(f, l, "invalid") = {}
  BY DEF PagesIn
<1>6. Cardinality(PagesIn(f, l, "valid") \cup PagesIn(f, l, "invalid"))
        = Count(f, l, "valid") + Count(f, l, "invalid") - Cardinality({})
  BY <1>5, CountBounds, FS_Union DEF Count
<1>7. Cardinality({}) = 0
  BY FS_EmptySet
<1>8. Count(f, l, "valid") \in 0 .. PGS_PER_LINE /\ Count(f, l, "invalid") \in 0 .. PGS_PER_LINE
  BY CountBounds
<1>9. Count(f, l, "valid") + Count(f, l, "invalid") - 0 = 1 * m
  BY <1>3, <1>4, <1>6, <1>7, ZenonT(30)
<1> HIDE DEF W
<1> QED
  BY <1>8, <1>9, SizesAssumption

(***************************************************************************)
(* The initial state                                                       *)
(***************************************************************************)
LEMMA InitInv == Init => IndInv
<1> SUFFICES ASSUME Init PROVE IndInv
  OBVIOUS
<1>1. PICK first \in [WPs -> Lines] :
        /\ \A v, w \in WPs : v # w => first[v] # first[w]
        /\ free_lines = Lines \ {first[w] : w \in WPs}
        /\ wp = [w \in WPs |-> [line |-> first[w], off |-> 0]]
        /\ ruh = [l \in Lines |-> IF \E w \in WPs : first[w] = l
                                  THEN CHOOSE w \in WPs : first[w] = l ELSE GC_IO]
  BY DEF Init
<1>2. GC_IO \in WPs /\ WPs \subseteq Int
  BY SizesAssumption DEF GC_IO, WPs
<1>3. ruh \in [Lines -> WPs] /\ \A w \in WPs : ruh[first[w]] = w
  <2>1. \A w \in WPs : (CHOOSE v \in WPs : first[v] = first[w]) = w
    BY <1>1
  <2>2. \A l \in Lines : (\E w \in WPs : first[w] = l) => (CHOOSE w \in WPs : first[w] = l) \in WPs
    OBVIOUS
  <2> QED
    BY <1>1, <1>2, <2>1, <2>2
<1>4. TypeOK
  BY <1>1, <1>2, <1>3, SizesAssumption DEF Init, TypeOK
<1>5. MapConsistent
  BY MarkerAssumption DEF Init, MapConsistent, mapped_ppa
<1>6. OpenLines = {first[w] : w \in WPs}
  BY <1>1 DEF OpenLines
<1>7. LinesPartitioned
  BY <1>1, <1>6, MarkerAssumption DEF Init, LinesPartitioned
<1>8. PageStates
  BY <1>1 DEF Init, PageStates, Pages
<1>9. WpStates
  BY <1>1, <1>3, SizesAssumption DEF Init, WpStates, Pages, Offsets
<1>10. GcStates
  BY MarkerAssumption DEF Init, GcStates, mapped_ppa
<1>11. Counters
  <2>1. \A l \in Lines, k \in Offsets : pg[<<l, k>>] = "free"
    BY DEF Init, Pages
  <2>2. \A l \in Lines : Count(pg, l, "valid") = 0 /\ Count(pg, l, "invalid") = 0
    BY <2>1, CountBounds
  <2> QED
    BY <2>2, CountersAsCounts DEF Init
<1> QED
  BY <1>4, <1>5, <1>7, <1>8, <1>9, <1>10, <1>11 DEF IndInv

(***************************************************************************)
(* Programming a page                                                      *)
(***************************************************************************)

\* The page a write pointer names between two steps is a free page of a line
\* that is in no list and is not being collected.
LEMMA NewPage ==
  ASSUME IndInv, pc \in {"idle", "gc"}, NEW w \in WPs
  PROVE  /\ wp[w].line \in Lines
         /\ wp[w].off \in Offsets
         /\ get_new_page(w) \in Pages
         /\ get_new_page(w) = <<wp[w].line, wp[w].off>>
         /\ pg[get_new_page(w)] = "free"
         /\ wp[w].line \notin free_lines \cup full_lines \cup victim_lines \cup {gc_line}
<1>0. wp[w] \in [line : Lines \cup {NULL}, off : 0 .. PGS_PER_LINE]
  BY DEF IndInv, TypeOK
<1>1. wp[w].line \in Lines
  <2>1. wp[w].line # NULL
    BY DEF IndInv, LinesPartitioned, OpenLines
  <2> QED
    BY <1>0, <2>1
<1>2. wp[w].off \in Offsets
  <2>1. wp[w].off # PGS_PER_LINE
    BY DEF IndInv, WpStates
  <2> QED
    BY <1>0, <2>1, SizesAssumption DEF Offsets
<1>3. pg[<<wp[w].line, wp[w].off>>] = "free"
  BY <1>2 DEF IndInv, WpStates, Offsets
<1>4. wp[w].line \notin free_lines \cup full_lines \cup victim_lines \cup {gc_line}
  BY DEF IndInv, LinesPartitioned, OpenLines
<1> QED
  BY <1>1, <1>2, <1>3, <1>4 DEF get_new_page, Pages

\* What AdvanceInLine does to the write pointers, when the step takes the page
\* it names out of the free pages and no other.
LEMMA ProgramWp ==
  ASSUME IndInv, pc \in {"idle", "gc"}, NEW w \in WPs, NEW next \in {"credit", "gc"},
         AdvanceInLine(w, next), ruh' = ruh,
         \A p \in Pages : pg'[p] = "free" <=> pg[p] = "free" /\ p # get_new_page(w)
  PROVE  /\ wp' \in [WPs -> [line : Lines \cup {NULL}, off : 0 .. PGS_PER_LINE]]
         /\ \A v \in WPs : wp'[v].line = wp[v].line
         /\ OpenLines' = OpenLines
         /\ WpStates'
         /\ pc' \in {"rotate", next} /\ io' = w
<1>1. \A v \in WPs : /\ wp[v] \in [line : Lines \cup {NULL}, off : 0 .. PGS_PER_LINE]
                     /\ wp[v].line \in Lines
                     /\ wp[v].off \in Offsets
  BY NewPage DEF IndInv, TypeOK
<1>2. wp' = [wp EXCEPT ![w].off = @ + 1] /\ wp \in [WPs -> [line : Lines \cup {NULL}, off : 0 .. PGS_PER_LINE]]
  BY DEF AdvanceInLine, IndInv, TypeOK
<1>3. \A v \in WPs : /\ wp'[v].line = wp[v].line
                     /\ wp'[v].off = IF v = w THEN wp[w].off + 1 ELSE wp[v].off
  BY <1>2
<1>4. wp' \in [WPs -> [line : Lines \cup {NULL}, off : 0 .. PGS_PER_LINE]]
  <2>1. wp[w].off + 1 \in 0 .. PGS_PER_LINE
    BY <1>1, SizesAssumption DEF Offsets
  <2> QED
    BY <1>2, <2>1
<1>5. OpenLines' = OpenLines
  BY <1>3 DEF OpenLines
<1>6. pc' = (IF wp[w].off + 1 = PGS_PER_LINE THEN "rotate" ELSE next) /\ io' = w
  BY DEF AdvanceInLine
<1>7. WpStates'
  <2> SUFFICES ASSUME NEW v \in WPs
               PROVE  /\ \A k \in Offsets : pg'[<<wp'[v].line, k>>] = "free" <=> wp'[v].off <= k
                      /\ wp'[v].off = PGS_PER_LINE <=> (pc' = "rotate" /\ io' = v)
                      /\ ruh'[wp'[v].line] = v
    BY DEF WpStates
  <2>1. /\ \A k \in Offsets : pg[<<wp[v].line, k>>] = "free" <=> wp[v].off <= k
        /\ ruh[wp[v].line] = v
    BY DEF IndInv, WpStates
  <2>2. ASSUME NEW k \in Offsets
        PROVE  pg'[<<wp'[v].line, k>>] = "free" <=> wp'[v].off <= k
    <3>1. <<wp[v].line, k>> \in Pages
      BY <1>1 DEF Pages
    <3>2. get_new_page(w) = <<wp[w].line, wp[w].off>>
      BY DEF get_new_page
    <3>3. v # w => wp[v].line # wp[w].line
      BY DEF IndInv, LinesPartitioned
    <3>4. <<wp[v].line, k>> = <<wp[w].line, wp[w].off>> <=> v = w /\ k = wp[w].off
      BY <3>3
    <3>5. pg'[<<wp[v].line, k>>] = "free" <=> (wp[v].off <= k /\ ~(v = w /\ k = wp[w].off))
      BY <2>1, <3>1, <3>2, <3>4
    <3>6. wp[w].off \in Int /\ wp[v].off \in Int /\ k \in Int
      BY <1>1, SizesAssumption DEF Offsets
    <3> QED
      BY <1>3, <3>5, <3>6
  <2>3. wp'[v].off = PGS_PER_LINE <=> (pc' = "rotate" /\ io' = v)
    BY <1>1, <1>3, <1>6, SizesAssumption DEF Offsets
  <2>4. ruh'[wp'[v].line] = v
    BY <1>3, <2>1
  <2> QED
    BY <2>2, <2>3, <2>4
<1> QED
  BY <1>3, <1>4, <1>5, <1>6, <1>7

(***************************************************************************)
(* Placement.  The tag of an LPN is that of the line its data are in: a    *)
(* step changes it by remapping the LPN or by retagging that line, and     *)
(* lines are retagged only while they hold no mapped data.                 *)
(***************************************************************************)

\* A step that remaps nothing and retags only lines without mapped data keeps
\* every tag.
LEMMA TagsKept ==
  ASSUME maptbl' = maptbl,
         \A n \in LPNs : mapped_ppa(maptbl[n]) => ruh'[maptbl[n][1]] = ruh[maptbl[n][1]]
  PROVE  Tags' = Tags
BY DEF Tags, mapped_ppa

\* A step that moves one LPN to the line of write pointer w gives it the tag
\* of that pointer.
LEMMA TagsMoved ==
  ASSUME IndInv, pc \in {"idle", "gc"}, NEW n \in LPNs, NEW w \in WPs,
         maptbl' = [maptbl EXCEPT ![n] = get_new_page(w)], ruh' = ruh
  PROVE  Tags' = [Tags EXCEPT ![n] = w]
<1>1. get_new_page(w) \in Pages /\ get_new_page(w)[1] = wp[w].line
  BY NewPage DEF get_new_page
<1>2. ruh[wp[w].line] = w
  BY DEF IndInv, WpStates
<1>3. mapped_ppa(get_new_page(w))
  BY <1>1, MarkerAssumption DEF mapped_ppa
<1>4. maptbl \in [LPNs -> Pages \cup {UNMAPPED_PPA}]
  BY DEF IndInv, TypeOK
<1>5. ASSUME NEW m \in LPNs
      PROVE  Tags'[m] = IF m = n THEN w ELSE Tags[m]
  <2>1. maptbl'[m] = IF m = n THEN get_new_page(w) ELSE maptbl[m]
    BY <1>4
  <2>2. /\ Tags'[m] = IF mapped_ppa(maptbl'[m]) THEN ruh[maptbl'[m][1]] ELSE -2
        /\ Tags[m] = IF mapped_ppa(maptbl[m]) THEN ruh[maptbl[m][1]] ELSE -2
    BY DEF Tags, mapped_ppa
  <2>3. CASE m = n
    BY <1>1, <1>2, <1>3, <2>1, <2>2, <2>3
  <2>4. CASE m # n
    BY <2>1, <2>2, <2>4
  <2> QED
    BY <2>3, <2>4
<1>6. Tags' = [m \in LPNs |-> Tags'[m]] /\ Tags = [m \in LPNs |-> Tags[m]]
  BY DEF Tags
<1> QED
  BY <1>5, <1>6

\* Free lines and, once all is relocated, the collected line hold no mapped
\* data.
LEMMA NoDataThere ==
  ASSUME IndInv, NEW n \in LPNs, mapped_ppa(maptbl[n])
  PROVE  /\ maptbl[n][1] \notin free_lines
         /\ todo = {} => maptbl[n][1] # gc_line
         /\ maptbl[n][1] \in Lines
<1>t. TypeOK /\ MapConsistent /\ PageStates /\ GcStates
  BY DEF IndInv
<1>1. maptbl[n] \in Pages /\ pg[maptbl[n]] = "valid"
  BY <1>t DEF TypeOK, MapConsistent, mapped_ppa
<1>2. PICK l \in Lines, k \in Offsets : maptbl[n] = <<l, k>>
  BY <1>1 DEF Pages
<1>3. l \notin free_lines
  <2>1. \A f \in free_lines : pg[<<f, k>>] = "free"
    BY <1>t DEF PageStates
  <2> QED
    BY <1>1, <1>2, <2>1
<1>4. todo = {} => l # gc_line
  <2>1. maptbl[n][1] = gc_line => maptbl[n] \in todo
    BY <1>t DEF GcStates
  <2> QED
    BY <1>2, <2>1
<1> QED
  BY <1>2, <1>3, <1>4

\* Every step of the translation layer is a step of the abstract placement, or
\* none.
LEMMA PlacementStep ==
  ASSUME IndInv, [Next]_vars
  PROVE  [Abstract!Next]_<<Tags, gc_line # NULL>>
<1> DEFINE c == gc_line # NULL
<1>1. ASSUME NEW n \in LPNs, NEW r \in RUH, WriteNew(n, r) \/ Overwrite(n, r)
      PROVE  Abstract!Next
  <2>1. /\ pc = "idle" /\ maptbl' = [maptbl EXCEPT ![n] = get_new_page(r)] /\ ruh' = ruh
        /\ gc_line' = gc_line
    BY <1>1 DEF WriteNew, Overwrite, gcVars
  <2>2. r \in WPs
    BY SizesAssumption DEF RUH, WPs
  <2>3. Tags' = [Tags EXCEPT ![n] = r]
    <3>1. pc \in {"idle", "gc"}
      BY <2>1
    <3> QED
      BY <2>1, <2>2, <3>1, TagsMoved, ZenonT(30)
  <2>4. gc_line = NULL /\ gc_line' = NULL
    BY <2>1 DEF IndInv, GcStates
  <2>5. Abstract!Write(n, r)
    BY <2>3, <2>4 DEF Abstract!Write
  <2> QED
    BY <2>5 DEF Abstract!Next, RUH
<1>2. ASSUME Rotate \/ RotateNull \/ consume_write_credit \/ RefillWithoutGc \/ UNCHANGED vars
      PROVE  UNCHANGED <<Tags, c>>
  <2>1. maptbl' = maptbl /\ gc_line' = gc_line
    BY <1>2 DEF Rotate, RotateNull, consume_write_credit, RefillWithoutGc, vars, gcVars
  <2>2. ASSUME NEW n \in LPNs, mapped_ppa(maptbl[n])
        PROVE  ruh'[maptbl[n][1]] = ruh[maptbl[n][1]]
    <3>1. maptbl[n][1] \notin free_lines /\ ruh \in [Lines -> WPs]
      BY <2>2, NoDataThere, ZenonT(30) DEF IndInv, TypeOK
    <3>2. CASE Rotate
      <4>1. PICK l \in free_lines : ruh' = [ruh EXCEPT ![l] = line_tag(io)]
        BY <3>2, ZenonT(30) DEF Rotate
      <4>2. maptbl[n][1] \in Lines /\ maptbl[n][1] # l
        BY <2>2, <3>1, NoDataThere
      <4> QED
        BY <3>1, <4>1, <4>2
    <3>3. CASE ~Rotate
      BY <1>2, <3>3 DEF RotateNull, consume_write_credit, RefillWithoutGc, vars
    <3> QED
      BY <3>2, <3>3
  <2>3. Tags' = Tags
    BY <2>1, <2>2, TagsKept
  <2> QED
    BY <2>1, <2>3
<1>3. ASSUME StartGc
      PROVE  Abstract!Next
  <2>1. maptbl' = maptbl /\ ruh' = ruh /\ pc = "check" /\ gc_line' \in victim_lines
    BY <1>3 DEF StartGc, select_victim_line
  <2>2. Tags' = Tags
    BY <2>1, TagsKept
  <2>3. gc_line = NULL /\ gc_line' # NULL
    BY <2>1, MarkerAssumption DEF IndInv, TypeOK, GcStates
  <2> QED
    BY <2>2, <2>3 DEF Abstract!Next, Abstract!Toggle
<1>4. ASSUME NEW old \in todo, GcWritePage(old)
      PROVE  Abstract!Next
  <2> DEFINE n == rmap[old]
  <2>1. /\ pc = "gc" /\ maptbl' = [maptbl EXCEPT ![n] = get_new_page(GC_IO)] /\ ruh' = ruh
        /\ gc_line' = gc_line
    BY <1>4 DEF GcWritePage
  <2>2. GC_IO \in WPs
    BY SizesAssumption DEF GC_IO, WPs
  <2>3. old \in Pages /\ pg[old] = "valid"
    BY DEF IndInv, TypeOK, GcStates
  <2>4. n \in LPNs /\ maptbl[n] = old
    BY <2>3 DEF IndInv, MapConsistent
  <2>5. Tags' = [Tags EXCEPT ![n] = GC_IO]
    <3>1. pc \in {"idle", "gc"}
      BY <2>1
    <3> HIDE DEF n
    <3> QED
      BY <2>1, <2>2, <2>4, <3>1, TagsMoved, ZenonT(30)
  <2>6. gc_line # NULL /\ gc_line' # NULL
    BY <2>1 DEF IndInv, GcStates
  <2>7. Tags[n] # -2
    <3>1. mapped_ppa(maptbl[n])
      BY <2>3, <2>4, MarkerAssumption DEF mapped_ppa
    <3>2. ruh[maptbl[n][1]] \in WPs
      BY <2>4, <3>1, NoDataThere DEF IndInv, TypeOK
    <3>3. Tags[n] = ruh[maptbl[n][1]]
      BY <2>4, <3>1 DEF Tags
    <3> QED
      BY <3>2, <3>3, SizesAssumption DEF WPs
  <2>8. Abstract!Relocate(n)
    BY <2>5, <2>6, <2>7 DEF Abstract!Relocate, Abstract!Unwritten, Abstract!NoRuh, GC_IO
  <2> QED
    BY <2>4, <2>8 DEF Abstract!Next
<1>5. ASSUME EndGc
      PROVE  Abstract!Next
  <2>1. /\ maptbl' = maptbl /\ ruh' = [ruh EXCEPT ![gc_line] = GC_IO] /\ pc = "gc" /\ todo = {}
        /\ gc_line' = NULL
    BY <1>5 DEF EndGc
  <2>2. ASSUME NEW n \in LPNs, mapped_ppa(maptbl[n])
        PROVE  ruh'[maptbl[n][1]] = ruh[maptbl[n][1]]
    <3>1. maptbl[n][1] # gc_line /\ maptbl[n][1] \in Lines /\ ruh \in [Lines -> WPs]
      BY <2>1, <2>2, NoDataThere DEF IndInv, TypeOK
    <3> QED
      BY <2>1, <3>1
  <2>3. Tags' = Tags
    BY <2>1, <2>2, TagsKept
  <2>4. gc_line # NULL
    BY <2>1 DEF IndInv, GcStates
  <2> QED
    BY <2>1, <2>3, <2>4 DEF Abstract!Next, Abstract!Toggle
<1> QED
  BY <1>1, <1>2, <1>3, <1>4, <1>5 DEF Next, HostWrite, Firmware

(***************************************************************************)
(* Lines                                                                   *)
(***************************************************************************)

\* Closing a fully programmed line: it becomes full if all its pages are
\* valid, a victim otherwise.
LEMMA CloseLineStates ==
  ASSUME IndInv, pc = "rotate", CloseLine(wp[io].line)
  PROVE  LET l == wp[io].line IN
         /\ l \in Lines
         /\ \A k \in Offsets : pg[<<l, k>>] # "free"
         /\ \/ /\ full_lines' = full_lines \cup {l} /\ victim_lines' = victim_lines
               /\ \A k \in Offsets : pg[<<l, k>>] = "valid"
            \/ /\ victim_lines' = victim_lines \cup {l} /\ full_lines' = full_lines
               /\ \E k \in Offsets : pg[<<l, k>>] = "invalid"
<1> DEFINE l == wp[io].line
<1>1. io \in WPs
  BY DEF IndInv, TypeOK
<1>2. l \in Lines
  <2>1. wp[io] \in [line : Lines \cup {NULL}, off : 0 .. PGS_PER_LINE]
    BY <1>1 DEF IndInv, TypeOK
  <2>2. l # NULL
    BY <1>1 DEF IndInv, LinesPartitioned, OpenLines
  <2> QED
    BY <2>1, <2>2
<1>3. ASSUME NEW k \in Offsets PROVE pg[<<l, k>>] # "free"
  <2>1. wp[io].off = PGS_PER_LINE
    BY <1>1 DEF IndInv, WpStates
  <2>2. pg[<<l, k>>] = "free" <=> wp[io].off <= k
    BY <1>1 DEF IndInv, WpStates
  <2> QED
    BY <2>1, <2>2, SizesAssumption DEF Offsets
<1>4. vpc[l] = Count(pg, l, "valid")
  BY <1>2, CountersRead DEF IndInv
<1>5. vpc[l] = PGS_PER_LINE <=> \A k \in Offsets : pg[<<l, k>>] = "valid"
  BY <1>4, CountBounds
<1>6. \A k \in Offsets : pg[<<l, k>>] \in {"valid", "invalid"}
  BY <1>2, <1>3 DEF IndInv, TypeOK, Pages
<1>7. CASE vpc[l] = PGS_PER_LINE
  BY <1>2, <1>3, <1>5, <1>7 DEF CloseLine, was_full_line
<1>8. CASE vpc[l] # PGS_PER_LINE
  BY <1>2, <1>3, <1>5, <1>6, <1>8 DEF CloseLine, was_full_line
<1> QED
  BY <1>7, <1>8

\* The invariant implies the accounting of lines.
LEMMA IndInvAccounts ==
  ASSUME IndInv
  PROVE  LineAccounting
<1>t. TypeOK /\ PageStates
  BY DEF IndInv
<1>1. \A l \in Lines : vpc[l] = Count(pg, l, "valid") /\ ipc[l] = Count(pg, l, "invalid")
  BY CountersRead DEF IndInv
<1>2. \A l \in Lines : vpc[l] = Cardinality(ValidPages(l)) /\ ipc[l] = Cardinality(InvalidPages(l))
  BY DEF IndInv, Counters
<1>3. ASSUME NEW l \in free_lines PROVE vpc[l] = 0 /\ ipc[l] = 0
  <2>1. \A k \in Offsets : pg[<<l, k>>] # "valid" /\ pg[<<l, k>>] # "invalid"
    BY <1>t DEF PageStates
  <2> QED
    BY <1>1, <1>t, <2>1, CountBounds DEF TypeOK
<1>4. ASSUME NEW l \in full_lines PROVE vpc[l] = PGS_PER_LINE
  <2>1. \A k \in Offsets : pg[<<l, k>>] = "valid"
    BY <1>t DEF PageStates
  <2> QED
    BY <1>1, <1>t, <2>1, CountBounds DEF TypeOK
<1>5. \A l \in Lines, k \in Offsets : pg[<<l, k>>] \in {"free", "valid", "invalid"}
  BY <1>t DEF TypeOK, Pages
<1>6. ASSUME NEW l \in victim_lines \cup ({gc_line} \ {NULL})
      PROVE  ipc[l] > 0 /\ vpc[l] + ipc[l] = PGS_PER_LINE
  <2>1. l \in Lines
    BY <1>t DEF TypeOK
  <2>2. \A k \in Offsets : pg[<<l, k>>] # "free"
    BY <1>t DEF PageStates
  <2>3. \E k \in Offsets : pg[<<l, k>>] = "invalid"
    BY <1>t DEF PageStates
  <2>4. Count(pg, l, "invalid") \in 0 .. PGS_PER_LINE /\ Count(pg, l, "invalid") # 0
    BY <2>3, CountBounds
  <2>5. \A k \in Offsets : pg[<<l, k>>] = "free" <=> PGS_PER_LINE <= k
    BY <2>2, SizesAssumption DEF Offsets
  <2>6. Count(pg, l, "valid") + Count(pg, l, "invalid") = PGS_PER_LINE
    <3>1. PGS_PER_LINE \in 0 .. PGS_PER_LINE
      BY SizesAssumption
    <3>2. \A k \in Offsets : pg[<<l, k>>] \in {"free", "valid", "invalid"}
      BY <1>5, <2>1
    <3> QED
      BY <2>5, <3>1, <3>2, CountWritten
  <2> QED
    BY <1>1, <2>1, <2>4, <2>6, SizesAssumption
<1>7. ASSUME pc # "oops", NEW w \in WPs
      PROVE  vpc[wp[w].line] + ipc[wp[w].line] = wp[w].off
  <2>1. wp[w] \in [line : Lines \cup {NULL}, off : 0 .. PGS_PER_LINE]
    BY <1>t DEF TypeOK
  <2>2. wp[w].line # NULL
    BY <1>7 DEF IndInv, LinesPartitioned, OpenLines
  <2>3. wp[w].line \in Lines /\ wp[w].off \in 0 .. PGS_PER_LINE
    BY <2>1, <2>2
  <2>4. \A k \in Offsets : pg[<<wp[w].line, k>>] = "free" <=> wp[w].off <= k
    BY <1>7 DEF IndInv, WpStates
  <2>5. \A k \in Offsets : pg[<<wp[w].line, k>>] \in {"free", "valid", "invalid"}
    BY <1>5, <2>3
  <2>6. Count(pg, wp[w].line, "valid") + Count(pg, wp[w].line, "invalid") = wp[w].off
    BY <2>3, <2>4, <2>5, CountWritten
  <2> QED
    BY <1>1, <2>3, <2>6
<1> QED
  BY <1>2, <1>3, <1>4, <1>6, <1>7 DEF LineAccounting

(***************************************************************************)
(* Host writes preserve the invariant                                      *)
(***************************************************************************)

\* Writing an LPN that is not mapped preserves the inductive invariant.
LEMMA WriteNewInv ==
  ASSUME IndInv, NEW n \in LPNs, NEW r \in RUH, WriteNew(n, r)
  PROVE  IndInv'
<1> DEFINE new == get_new_page(r)
<1>0. r \in WPs /\ r # GC_IO
  BY SizesAssumption DEF RUH, WPs, GC_IO
<1>1. /\ new \in Pages /\ pg[new] = "free" /\ new = <<wp[r].line, wp[r].off>>
      /\ wp[r].line \in Lines
      /\ wp[r].line \notin free_lines \cup full_lines \cup victim_lines \cup {gc_line}
  BY <1>0, NewPage DEF WriteNew
<1>n. new[1] = wp[r].line /\ new[1] # gc_line
  <2>1. new = <<wp[r].line, wp[r].off>> /\ wp[r].line # gc_line
    BY <1>1, ZenonT(30)
  <2> HIDE DEF new
  <2> QED
    BY <2>1
<1>2. /\ pg' = [pg EXCEPT ![new] = "valid"]
      /\ maptbl' = [maptbl EXCEPT ![n] = new]
      /\ rmap' = [rmap EXCEPT ![new] = n]
      /\ vpc' = [vpc EXCEPT ![wp[r].line] = @ + 1]
      /\ UNCHANGED <<free_lines, full_lines, victim_lines, ipc, ruh, wfcVars, gcVars>>
      /\ pc = "idle" /\ ~mapped_ppa(maptbl[n]) /\ AdvanceInLine(r, "credit")
  BY <1>n DEF WriteNew, set_rmap_ent
<1>t. TypeOK
  BY DEF IndInv
<1>3. /\ wp' \in [WPs -> [line : Lines \cup {NULL}, off : 0 .. PGS_PER_LINE]]
      /\ \A v \in WPs : wp'[v].line = wp[v].line
      /\ OpenLines' = OpenLines
      /\ WpStates'
      /\ pc' \in {"rotate", "credit"} /\ io' = r
  <2>1. \A p \in Pages : pg'[p] = "free" <=> pg[p] = "free" /\ p # new
    BY <1>1, <1>2, <1>t, ZenonT(30) DEF TypeOK
  <2> QED
    BY <1>0, <1>2, <2>1, ProgramWp
<1>4. ASSUME NEW l \in Lines
      PROVE  vpc'[l] = Count(pg', l, "valid") /\ ipc'[l] = Count(pg', l, "invalid")
  <2>1. vpc[l] = Count(pg, l, "valid") /\ ipc[l] = Count(pg, l, "invalid")
    BY CountersRead DEF IndInv
  <2>2. /\ pg \in [Pages -> {"free", "valid", "invalid"}]
        /\ vpc \in [Lines -> 0 .. PGS_PER_LINE] /\ ipc \in [Lines -> 0 .. PGS_PER_LINE]
    BY <1>t DEF TypeOK
  <2>3. new[1] = wp[r].line
    BY <1>n
  <2>4. /\ Count(pg', l, "valid") = Count(pg, l, "valid") + Hit(new, l)
        /\ Count(pg', l, "invalid") = Count(pg, l, "invalid")
    <3>1. \A p \in Pages : pg'[p] = IF p = new THEN "valid" ELSE pg[p]
      BY <1>1, <1>2, <2>2
    <3>2. new \in Pages /\ pg[new] = "free"
      BY <1>1
    <3> HIDE DEF new
    <3> QED
      BY <3>1, <3>2, CountProgram, ZenonT(30)
  <2>6. vpc'[l] = vpc[l] + Hit(new, l)
    <3>1. vpc' = [vpc EXCEPT ![wp[r].line] = @ + 1]
      BY <1>2
    <3>2. vpc \in [Lines -> Int] /\ wp[r].line \in Lines
      BY <1>1, <2>2, SizesAssumption
    <3> HIDE DEF new
    <3> QED
      BY <2>3, <3>1, <3>2 DEF Hit
  <2>7. ipc'[l] = ipc[l]
    BY <1>2
  <2> QED
    BY <2>1, <2>4, <2>6, <2>7
<1>5. Counters' /\ vpc' \in [Lines -> 0 .. PGS_PER_LINE] /\ ipc' \in [Lines -> 0 .. PGS_PER_LINE]
  <2>1. vpc' = [l \in Lines |-> vpc'[l]] /\ ipc' = [l \in Lines |-> ipc'[l]]
    BY <1>2, <1>t, ZenonT(30) DEF TypeOK
  <2> QED
    BY <1>4, <2>1, CountersAfter
<1>6. TypeOK'
  BY <1>0, <1>1, <1>2, <1>3, <1>5, <1>t, ZenonT(30) DEF TypeOK, wfcVars, gcVars
<1>7. MapConsistent'
  <2>1. \A m \in LPNs : maptbl'[m] = IF m = n THEN new ELSE maptbl[m]
    BY <1>2, <1>t DEF TypeOK
  <2>2. \A p \in Pages : /\ pg'[p] = IF p = new THEN "valid" ELSE pg[p]
                        /\ rmap'[p] = IF p = new THEN n ELSE rmap[p]
    BY <1>1, <1>2, <1>t, ZenonT(30) DEF TypeOK
  <2>3. \A m \in LPNs : mapped_ppa(maptbl[m]) => maptbl[m] \in Pages /\ maptbl[m] # new
    <3>1. \A m \in LPNs : mapped_ppa(maptbl[m]) => maptbl[m] \in Pages
      BY <1>t DEF TypeOK, mapped_ppa
    <3>2. \A m \in LPNs : mapped_ppa(maptbl[m]) => pg[maptbl[m]] = "valid"
      BY DEF IndInv, MapConsistent
    <3> QED
      BY <1>1, <3>1, <3>2
  <2>4. gc_line' = gc_line /\ todo' = todo /\ mapped_ppa(new)
    BY <1>1, <1>2, MarkerAssumption, ZenonT(30) DEF gcVars, mapped_ppa
  <2>5. ASSUME NEW m \in LPNs, mapped_ppa(maptbl'[m])
        PROVE  pg'[maptbl'[m]] = "valid" /\ rmap'[maptbl'[m]] = m
    BY <1>1, <2>1, <2>2, <2>3, <2>5 DEF IndInv, MapConsistent
  <2>6. ASSUME NEW p \in Pages, pg'[p] = "valid", p[1] = gc_line => p \in todo
        PROVE  rmap'[p] \in LPNs /\ maptbl'[rmap'[p]] = p
    <3>1. CASE p = new
      BY <2>1, <2>2, <3>1
    <3>2. CASE p # new
      <4>1. rmap[p] \in LPNs /\ maptbl[rmap[p]] = p
        BY <2>2, <2>6, <3>2 DEF IndInv, MapConsistent
      <4>2. rmap[p] # n
        BY <1>2, <4>1, MarkerAssumption, ZenonT(30) DEF mapped_ppa
      <4> QED
        BY <2>1, <2>2, <3>2, <4>1, <4>2
    <3> QED
      BY <3>1, <3>2
  <2> QED
    BY <2>4, <2>5, <2>6 DEF MapConsistent, mapped_ppa
<1>8. LinesPartitioned'
  BY <1>2, <1>3, ZenonT(30) DEF IndInv, LinesPartitioned, gcVars
<1>9. PageStates'
  <2>1. \A l \in Lines, k \in Offsets : l # wp[r].line => pg'[<<l, k>>] = pg[<<l, k>>]
    BY <1>1, <1>2, <1>t DEF TypeOK, Pages
  <2>2. /\ free_lines' = free_lines /\ full_lines' = full_lines
        /\ victim_lines' = victim_lines /\ gc_line' = gc_line
    BY <1>2 DEF gcVars
  <2>3. /\ free_lines \subseteq Lines /\ full_lines \subseteq Lines /\ victim_lines \subseteq Lines
        /\ gc_line \in Lines \cup {NULL}
    BY <1>t DEF TypeOK
  <2>4. PageStates
    BY DEF IndInv
  <2>5. \A l \in free_lines \cup full_lines \cup victim_lines, k \in Offsets :
           pg'[<<l, k>>] = pg[<<l, k>>]
    BY <1>1, <2>1, <2>3, ZenonT(30)
  <2>6. gc_line # NULL => \A k \in Offsets : pg'[<<gc_line, k>>] = pg[<<gc_line, k>>]
    BY <1>1, <2>1, <2>3
  <2> QED
    BY <2>2, <2>4, <2>5, <2>6 DEF PageStates
<1>10. GcStates'
  <2>1. gc_line' = gc_line /\ todo' = todo
    BY <1>2 DEF gcVars
  <2>2. gc_line = NULL
    BY <1>2 DEF IndInv, GcStates
  <2>3. \A p \in todo : p \in Pages /\ p[1] = NULL
    BY <2>2, <1>t DEF IndInv, GcStates, TypeOK
  <2>4. todo = {}
    BY <2>3, MarkerAssumption DEF Pages
  <2>5. \A m \in LPNs : mapped_ppa(maptbl'[m]) => maptbl'[m][1] # NULL
    <3>1. maptbl' \in [LPNs -> Pages \cup {UNMAPPED_PPA}]
      BY <1>6 DEF TypeOK
    <3> QED
      BY <3>1, MarkerAssumption DEF Pages, mapped_ppa
  <2>6. gc_line' = NULL /\ todo' = {}
    BY <2>1, <2>2, <2>4
  <2>7. pc' # "gc" /\ io' # GC_IO
    BY <1>0, <1>3
  <2> QED
    BY <2>5, <2>6, <2>7 DEF GcStates, mapped_ppa
<1> QED
  BY <1>3, <1>5, <1>6, <1>7, <1>8, <1>9, <1>10 DEF IndInv

\* Overwriting an LPN: its old page becomes invalid, whatever list the old
\* line is in, and a full line becomes a victim.
LEMMA OverwriteInv ==
  ASSUME IndInv, NEW n \in LPNs, NEW r \in RUH, Overwrite(n, r)
  PROVE  IndInv'
<1> DEFINE old == maptbl[n]
           new == get_new_page(r)
           ol  == old[1]
<1>0. r \in WPs /\ r # GC_IO
  BY SizesAssumption DEF RUH, WPs, GC_IO
<1>t. TypeOK
  BY DEF IndInv
<1>1. /\ new \in Pages /\ pg[new] = "free" /\ new = <<wp[r].line, wp[r].off>>
      /\ wp[r].line \in Lines
      /\ wp[r].line \notin free_lines \cup full_lines \cup victim_lines \cup {gc_line}
  BY <1>0, NewPage, ZenonT(30) DEF Overwrite
<1>n. new[1] = wp[r].line /\ new[1] # gc_line
  <2>1. new = <<wp[r].line, wp[r].off>> /\ wp[r].line # gc_line
    BY <1>1
  <2> HIDE DEF new
  <2> QED
    BY <2>1
<1>2. /\ pg' = [pg EXCEPT ![old] = "invalid", ![new] = "valid"]
      /\ maptbl' = [maptbl EXCEPT ![n] = new]
      /\ rmap' = [[rmap EXCEPT ![old] = INVALID_LPN] EXCEPT ![new] = n]
      /\ ipc' = [ipc EXCEPT ![ol] = @ + 1]
      /\ vpc' = [[vpc EXCEPT ![ol] = @ - 1] EXCEPT ![wp[r].line] = @ + 1]
      /\ full_lines' = IF vpc[ol] = PGS_PER_LINE THEN full_lines \ {ol} ELSE full_lines
      /\ victim_lines' = IF vpc[ol] = PGS_PER_LINE THEN victim_lines \cup {ol} ELSE victim_lines
      /\ UNCHANGED <<free_lines, ruh, write_credits, credits_to_refill, gc_line, todo>>
      /\ pc = "idle" /\ mapped_ppa(old) /\ AdvanceInLine(r, "credit")
  <2>1. /\ pg' = [pg EXCEPT ![old] = "invalid", ![new] = "valid"]
        /\ maptbl' = [maptbl EXCEPT ![n] = new]
        /\ pc = "idle" /\ mapped_ppa(old) /\ AdvanceInLine(r, "credit")
    BY DEF Overwrite
  <2>2. rmap' = [[rmap EXCEPT ![old] = INVALID_LPN] EXCEPT ![new] = n]
    BY DEF Overwrite, set_rmap_ent
  <2>3. /\ ipc' = [ipc EXCEPT ![ol] = @ + 1]
        /\ vpc' = [[vpc EXCEPT ![ol] = @ - 1] EXCEPT ![new[1]] = @ + 1]
    BY DEF Overwrite
  <2>4. /\ full_lines' = IF vpc[ol] = PGS_PER_LINE THEN full_lines \ {ol} ELSE full_lines
        /\ victim_lines' = IF vpc[ol] = PGS_PER_LINE THEN victim_lines \cup {ol} ELSE victim_lines
    BY DEF Overwrite, was_full_line
  <2>5. UNCHANGED <<free_lines, ruh, write_credits, credits_to_refill, gc_line, todo>>
    BY ZenonT(30) DEF Overwrite, wfcVars, gcVars
  <2>6. vpc' = [[vpc EXCEPT ![ol] = @ - 1] EXCEPT ![wp[r].line] = @ + 1]
    BY <1>n, <2>3, ZenonT(30)
  <2> HIDE DEF old, new, ol
  <2> QED
    BY <2>1, <2>2, <2>3, <2>4, <2>5, <2>6, ZenonT(30)
<1>3. old \in Pages /\ pg[old] = "valid" /\ rmap[old] = n /\ old # new /\ ol \in Lines
  <2>1. old \in Pages /\ pg[old] = "valid" /\ rmap[old] = n
    BY <1>2, <1>t DEF TypeOK, IndInv, MapConsistent, mapped_ppa
  <2> QED
    BY <1>1, <2>1, ZenonT(30) DEF Pages
<1>4. \A p \in Pages :
        pg'[p] = IF p = new THEN "valid" ELSE IF p = old THEN "invalid" ELSE pg[p]
  BY <1>1, <1>2, <1>3, <1>t, ZenonT(30) DEF TypeOK
<1>5. /\ wp' \in [WPs -> [line : Lines \cup {NULL}, off : 0 .. PGS_PER_LINE]]
      /\ \A v \in WPs : wp'[v].line = wp[v].line
      /\ OpenLines' = OpenLines
      /\ WpStates'
      /\ pc' \in {"rotate", "credit"} /\ io' = r
  <2>1. \A p \in Pages : pg'[p] = "free" <=> pg[p] = "free" /\ p # new
    <3> HIDE DEF new, old, ol
    <3> QED
      BY <1>3, <1>4, ZenonT(30)
  <2>2. /\ ruh' = ruh /\ pc \in {"idle", "gc"} /\ AdvanceInLine(r, "credit")
        /\ "credit" \in {"credit", "gc"}
    BY <1>2, ZenonT(30)
  <2> QED
    BY <1>0, <2>1, <2>2, ProgramWp, ZenonT(30)
<1>6. gc_line = NULL /\ todo = {}
  <2>1. gc_line = NULL
    BY <1>2, ZenonT(30) DEF IndInv, GcStates
  <2>2. \A p \in todo : p \in Pages /\ p[1] = NULL
    BY <2>1, <1>t DEF IndInv, GcStates, TypeOK
  <2> QED
    BY <2>1, <2>2, MarkerAssumption DEF Pages
<1>7. ASSUME NEW l \in Lines
      PROVE  vpc'[l] = Count(pg', l, "valid") /\ ipc'[l] = Count(pg', l, "invalid")
  <2>1. vpc[l] = Count(pg, l, "valid") /\ ipc[l] = Count(pg, l, "invalid")
    BY CountersRead DEF IndInv
  <2>2. /\ vpc \in [Lines -> 0 .. PGS_PER_LINE] /\ ipc \in [Lines -> 0 .. PGS_PER_LINE]
        /\ new[1] = wp[r].line
    BY <1>n, <1>t DEF TypeOK
  <2>3. /\ Count(pg', l, "valid") = Count(pg, l, "valid") - Hit(old, l)
                                                        + Hit(new, l)
        /\ Count(pg', l, "invalid") = Count(pg, l, "invalid") + Hit(old, l)
    <3>1. /\ new \in Pages /\ pg[new] = "free" /\ old \in Pages /\ pg[old] = "valid"
          /\ old # new
      BY <1>1, <1>3, ZenonT(30)
    <3> HIDE DEF new, old
    <3> QED
      BY <1>4, <3>1, CountOverwrite
  <2>5. vpc'[l] = vpc[l] - Hit(old, l) + Hit(new, l)
    <3> HIDE DEF new, old
    <3>1. vpc' = [[vpc EXCEPT ![ol] = @ - 1] EXCEPT ![wp[r].line] = @ + 1]
      BY <1>2, ZenonT(30)
    <3>2. ol \in Lines /\ wp[r].line \in Lines
      BY <1>1, <1>3, ZenonT(30)
    <3>3. vpc \in [Lines -> Int]
      BY <2>2, SizesAssumption
    <3> QED
      BY <2>2, <3>1, <3>2, <3>3 DEF Hit
  <2>6. ipc'[l] = ipc[l] + Hit(old, l)
    <3> HIDE DEF new, old
    <3>1. ipc' = [ipc EXCEPT ![ol] = @ + 1]
      BY <1>2, ZenonT(30)
    <3>2. ipc \in [Lines -> Int]
      BY <2>2, SizesAssumption
    <3> QED
      BY <3>1, <3>2 DEF Hit
  <2> HIDE DEF new, old, ol
  <2> QED
    BY <2>1, <2>3, <2>5, <2>6, ZenonT(30)
<1>8. Counters' /\ vpc' \in [Lines -> 0 .. PGS_PER_LINE] /\ ipc' \in [Lines -> 0 .. PGS_PER_LINE]
  <2>1. vpc' = [l \in Lines |-> vpc'[l]] /\ ipc' = [l \in Lines |-> ipc'[l]]
    BY <1>2, <1>t, ZenonT(30) DEF TypeOK
  <2> QED
    BY <1>7, <2>1, CountersAfter
<1>9. TypeOK'
  <2>1. pg' \in [Pages -> {"free", "valid", "invalid"}] /\ maptbl' \in [LPNs -> Pages \cup {UNMAPPED_PPA}]
    BY <1>1, <1>2, <1>t, ZenonT(30) DEF TypeOK
  <2>2. rmap' \in [Pages -> LPNs \cup {INVALID_LPN}]
    BY <1>1, <1>2, <1>t, ZenonT(30) DEF TypeOK
  <2>3. full_lines' \in SUBSET Lines /\ victim_lines' \in SUBSET Lines
    BY <1>2, <1>3, <1>t DEF TypeOK
  <2> QED
    BY <1>0, <1>2, <1>5, <1>8, <1>t, <2>1, <2>2, <2>3, ZenonT(30) DEF TypeOK
<1>10. ol \in full_lines <=> vpc[ol] = PGS_PER_LINE
  <2>1. PICK k0 \in Offsets : old = <<ol, k0>>
    BY <1>3 DEF Pages
  <2>2. vpc[ol] = PGS_PER_LINE <=> \A k \in Offsets : pg[<<ol, k>>] = "valid"
    <3>1. vpc[ol] = Count(pg, ol, "valid")
      BY <1>3, CountersRead DEF IndInv
    <3> QED
      BY <3>1, CountBounds
  <2>3. ol \in full_lines => vpc[ol] = PGS_PER_LINE
    BY <2>2 DEF IndInv, PageStates
  <2>4. ASSUME vpc[ol] = PGS_PER_LINE PROVE ol \in full_lines
    <3>1. \A k \in Offsets : pg[<<ol, k>>] = "valid"
      BY <2>2, <2>4
    <3>2. ol \notin free_lines
      BY <2>1, <3>1 DEF IndInv, PageStates
    <3>3. ol \notin victim_lines
      BY <3>1, ZenonT(30) DEF IndInv, PageStates
    <3>4. ASSUME NEW w \in WPs PROVE ol # wp[w].line
      BY <1>2, <3>1, NewPage, ZenonT(30) DEF get_new_page
    <3>5. ol \notin OpenLines
      BY <3>4 DEF OpenLines
    <3>6. Lines \subseteq OpenLines \cup free_lines \cup full_lines \cup victim_lines \cup {gc_line}
      BY <1>2, ZenonT(30) DEF IndInv, LinesPartitioned
    <3> QED
      BY <1>3, <1>6, <3>2, <3>3, <3>5, <3>6, MarkerAssumption
  <2> QED
    BY <2>3, <2>4
<1>11. /\ full_lines' = full_lines \ {ol}
       /\ victim_lines' = IF ol \in full_lines THEN victim_lines \cup {ol} ELSE victim_lines
  BY <1>2, <1>10, ZenonT(30)
<1>12. MapConsistent'
  <2>1. \A m \in LPNs : maptbl'[m] = IF m = n THEN new ELSE maptbl[m]
    BY <1>2, <1>t DEF TypeOK
  <2>2. \A p \in Pages :
          rmap'[p] = IF p = new THEN n ELSE IF p = old THEN INVALID_LPN ELSE rmap[p]
    BY <1>1, <1>2, <1>3, <1>t, ZenonT(30) DEF TypeOK
  <2>3. ASSUME NEW m \in LPNs, mapped_ppa(maptbl'[m])
        PROVE  pg'[maptbl'[m]] = "valid" /\ rmap'[maptbl'[m]] = m
    <3>1. CASE m = n
      BY <1>1, <1>4, <2>1, <2>2, <3>1, ZenonT(30)
    <3>2. CASE m # n
      <4>1. maptbl'[m] = maptbl[m] /\ mapped_ppa(maptbl[m])
        BY <2>1, <2>3, <3>2
      <4>2. pg[maptbl[m]] = "valid" /\ rmap[maptbl[m]] = m
        BY <4>1 DEF IndInv, MapConsistent
      <4>3. maptbl[m] \in Pages
        BY <1>t, <4>1, ZenonT(30) DEF TypeOK, mapped_ppa
      <4>4. maptbl[m] # new /\ maptbl[m] # old
        BY <1>1, <1>3, <3>2, <4>2
      <4> QED
        BY <1>4, <2>2, <4>1, <4>2, <4>3, <4>4, ZenonT(30)
    <3> QED
      BY <3>1, <3>2, ZenonT(30)
  <2>4. ASSUME NEW p \in Pages, pg'[p] = "valid"
        PROVE  rmap'[p] \in LPNs /\ maptbl'[rmap'[p]] = p
    <3>1. CASE p = new
      BY <2>1, <2>2, <3>1, ZenonT(30)
    <3>2. CASE p # new
      <4>1. p # old /\ pg[p] = "valid"
        BY <1>4, <2>4, <3>2
      <4>2. p[1] # gc_line
        BY <1>6, MarkerAssumption DEF Pages
      <4>3. rmap[p] \in LPNs /\ maptbl[rmap[p]] = p
        BY <4>1, <4>2 DEF IndInv, MapConsistent
      <4>4. rmap[p] # n
        BY <4>1, <4>3
      <4> QED
        BY <2>1, <2>2, <3>2, <4>1, <4>3, <4>4, ZenonT(30)
    <3> QED
      BY <3>1, <3>2
  <2> QED
    BY <2>3, <2>4, ZenonT(30) DEF MapConsistent, mapped_ppa
<1>13. LinesPartitioned'
  <2>1. LinesPartitioned /\ pc # "oops"
    BY <1>2, ZenonT(30) DEF IndInv
  <2>2. \A v, w \in WPs : v # w => wp'[v].line # wp'[w].line
    BY <1>5, <2>1, ZenonT(30) DEF LinesPartitioned
  <2>3. /\ NULL \notin OpenLines
        /\ OpenLines \cap (free_lines \cup full_lines' \cup victim_lines') = {}
        /\ free_lines \cap (full_lines' \cup victim_lines') = {}
        /\ full_lines' \cap victim_lines' = {}
        /\ gc_line \notin OpenLines \cup free_lines \cup full_lines' \cup victim_lines'
    BY <1>11, <2>1, ZenonT(30) DEF LinesPartitioned
  <2>4. Lines = (OpenLines \cup free_lines \cup full_lines' \cup victim_lines' \cup {gc_line}) \ {NULL}
    BY <1>11, <2>1 DEF LinesPartitioned
  <2> QED
    BY <1>2, <1>5, <2>2, <2>3, <2>4, ZenonT(30) DEF LinesPartitioned
<1>14. PageStates'
  <2>1. PageStates
    BY DEF IndInv
  <2>2. PICK k0 \in Offsets : old = <<ol, k0>>
    BY <1>3 DEF Pages
  <2>3. /\ free_lines \subseteq Lines /\ full_lines \subseteq Lines /\ victim_lines \subseteq Lines
    BY <1>t DEF TypeOK
  <2>4. \A l \in Lines, k \in Offsets : l # wp[r].line =>
          pg'[<<l, k>>] = IF <<l, k>> = old THEN "invalid" ELSE pg[<<l, k>>]
    BY <1>1, <1>4 DEF Pages
  <2>5. ol \notin free_lines
    BY <1>3, <2>1, <2>2 DEF PageStates
  <2>6. \A l \in free_lines, k \in Offsets : pg'[<<l, k>>] = "free"
    <3> SUFFICES ASSUME NEW l \in free_lines, NEW k \in Offsets PROVE pg'[<<l, k>>] = "free"
      BY ZenonT(30)
    <3>0. old = <<ol, k0>> /\ l # ol /\ l # wp[r].line /\ l \in Lines
      BY <1>1, <2>2, <2>3, <2>5
    <3> HIDE DEF old, ol
    <3>1. <<l, k>> # old /\ l # wp[r].line /\ l \in Lines
      BY <3>0
    <3>2. pg'[<<l, k>>] = pg[<<l, k>>]
      BY <2>4, <3>1
    <3> QED
      BY <2>1, <3>2, ZenonT(30) DEF PageStates
  <2>7. \A l \in full_lines', k \in Offsets : pg'[<<l, k>>] = "valid"
    <3> SUFFICES ASSUME NEW l \in full_lines \ {ol}, NEW k \in Offsets PROVE pg'[<<l, k>>] = "valid"
      BY <1>11, ZenonT(30)
    <3>1. <<l, k>> # old /\ l # wp[r].line /\ l \in Lines
      BY <1>1, <2>2, <2>3
    <3>2. pg'[<<l, k>>] = pg[<<l, k>>]
      BY <2>4, <3>1, ZenonT(30)
    <3> QED
      BY <2>1, <3>2 DEF PageStates
  <2>8. ASSUME NEW l \in victim_lines'
        PROVE  /\ \A k \in Offsets : pg'[<<l, k>>] # "free"
               /\ \E k \in Offsets : pg'[<<l, k>>] = "invalid"
    <3>1. l \in victim_lines \/ (l = ol /\ ol \in full_lines)
      BY <1>11, <2>8
    <3>2. l \in Lines /\ l # wp[r].line
      BY <1>1, <2>3, <3>1
    <3>3. \A k \in Offsets : pg[<<l, k>>] # "free"
      BY <2>1, <3>1 DEF PageStates
    <3>4. (\E k \in Offsets : pg[<<l, k>>] = "invalid") \/ l = ol
      BY <2>1, <3>1 DEF PageStates
    <3>5. \A k \in Offsets : pg'[<<l, k>>] # "free"
      BY <2>4, <3>2, <3>3
    <3>6. l = ol => pg'[<<l, k0>>] = "invalid"
      BY <2>2, <2>4, <3>2
    <3>7. \A k \in Offsets : pg[<<l, k>>] = "invalid" => pg'[<<l, k>>] = "invalid"
      BY <2>4, <3>2
    <3> QED
      BY <3>4, <3>5, <3>6, <3>7
  <2> QED
    BY <1>2, <1>6, <2>6, <2>7, <2>8, ZenonT(30) DEF PageStates
<1>15. GcStates'
  <2>1. \A m \in LPNs : mapped_ppa(maptbl'[m]) => maptbl'[m][1] # NULL
    <3>1. maptbl' \in [LPNs -> Pages \cup {UNMAPPED_PPA}]
      BY <1>9 DEF TypeOK
    <3> QED
      BY <3>1, MarkerAssumption DEF Pages, mapped_ppa
  <2>2. gc_line' = NULL /\ todo' = {}
    BY <1>2, <1>6, ZenonT(30)
  <2>3. pc' # "gc" /\ io' # GC_IO
    BY <1>0, <1>5
  <2> QED
    BY <2>1, <2>2, <2>3 DEF GcStates, mapped_ppa
<1> QED
  BY <1>5, <1>8, <1>9, <1>12, <1>13, <1>14, <1>15 DEF IndInv
=============================================================================
