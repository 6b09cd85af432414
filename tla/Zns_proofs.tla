----------------------------- MODULE Zns_proofs -----------------------------
(***************************************************************************)
(* Proofs about Zns, for any number of zones, limits and sizes: the counts *)
(* of open and active zones, states against write pointers, the write      *)
(* buffers, reports, and that the backend is a zone machine.               *)
(*                                                                         *)
(* ZnsSteps_proofs shows that each operation moves one zone; here such a   *)
(* move is shown to keep the counts exact, and commands to all zones       *)
(* follow by induction over the zones.                                     *)
(***************************************************************************)
EXTENDS ZnsSteps_proofs, FiniteSetTheorems, WellFoundedInduction, NaturalsInduction

USE SMTT(30)

OpenZones(f)   == {z \in Zones : f.zone[z].state \in Opened}
ActiveZones(f) == {z \in Zones : f.zone[z].state \in Active}
ZrwaZones(f)   == {z \in Zones : f.zone[z].state \in Active /\ f.zone[z].zrwav = 1}

\* The inductive invariant of the descriptors and the counts.
Sound(f) ==
  /\ Legal(f)
  /\ f.cnt["OPEN"] = Cardinality(OpenZones(f))
  /\ f.cnt["ACTIVE"] = Cardinality(ActiveZones(f))
  /\ f.cnt["ZRWA"] >= Cardinality(ZrwaZones(f))

-----------------------------------------------------------------------------
(* Counting zones                                                          *)

\* A set of zones that differs from another in zone z at most.
LEMMA OneZone ==
  ASSUME NEW A \in SUBSET Zones, NEW B \in SUBSET Zones, NEW z \in Zones,
         \A o \in Zones \ {z} : o \in A <=> o \in B
  PROVE  /\ Cardinality(A) \in Nat /\ Cardinality(B) \in Nat
         /\ Cardinality(B) = Cardinality(A) + One(z \in B) - One(z \in A)
<1>1. IsFiniteSet(Zones)
  BY SizesAssumption, FS_Interval DEF Zones
<1>2. IsFiniteSet(A) /\ IsFiniteSet(B)
  BY <1>1, FS_Subset
<1>3. Cardinality(A) \in Nat /\ Cardinality(B) \in Nat
  BY <1>2, FS_CardinalityType
<1>4. CASE z \in A /\ z \in B
  <2>1. A = B
    BY <1>4
  <2> QED BY <1>3, <1>4, <2>1 DEF One
<1>5. CASE z \notin A /\ z \notin B
  <2>1. A = B
    BY <1>5
  <2> QED BY <1>3, <1>5, <2>1 DEF One
<1>6. CASE z \notin A /\ z \in B
  <2>1. B = A \cup {z}
    BY <1>6
  <2>2. Cardinality(A \cup {z}) = Cardinality(A) + 1
    BY <1>2, <1>6, FS_AddElement
  <2> QED BY <1>3, <1>6, <2>1, <2>2 DEF One
<1>7. CASE z \in A /\ z \notin B
  <2>1. A = B \cup {z}
    BY <1>7
  <2>2. Cardinality(B \cup {z}) = Cardinality(B) + 1
    BY <1>2, <1>7, FS_AddElement
  <2> QED BY <1>3, <1>7, <2>1, <2>2 DEF One
<1> QED BY <1>3, <1>4, <1>5, <1>6, <1>7

\* An operation on one zone keeps the invariant.
LEMMA MovedSound ==
  ASSUME NEW f, NEW g, NEW z \in Zones, Sound(f), Moved(f, g, z)
  PROVE  Sound(g)
<1>1. f \in Ftl /\ g \in Ftl /\ \A o \in Zones \ {z} : g.zone[o] = f.zone[o]
  BY DEF Sound, Legal, Moved
<1>2. Legal(g)
  BY MovedLegal DEF Sound
<1>3. g.cnt["OPEN"] = Cardinality(OpenZones(g))
  <2>1. /\ OpenZones(f) \in SUBSET Zones /\ OpenZones(g) \in SUBSET Zones
        /\ \A o \in Zones \ {z} : o \in OpenZones(f) <=> o \in OpenZones(g)
    BY <1>1 DEF OpenZones
  <2>2. Cardinality(OpenZones(g))
          = Cardinality(OpenZones(f)) + One(z \in OpenZones(g)) - One(z \in OpenZones(f))
    BY <2>1, OneZone
  <2>3. One(z \in OpenZones(g)) = OpenOf(g.zone[z]) /\ One(z \in OpenZones(f)) = OpenOf(f.zone[z])
    BY DEF OpenZones, OpenOf, One
  <2> QED BY <2>2, <2>3 DEF Sound, Moved
<1>4. g.cnt["ACTIVE"] = Cardinality(ActiveZones(g))
  <2>1. /\ ActiveZones(f) \in SUBSET Zones /\ ActiveZones(g) \in SUBSET Zones
        /\ \A o \in Zones \ {z} : o \in ActiveZones(f) <=> o \in ActiveZones(g)
    BY <1>1 DEF ActiveZones
  <2>2. Cardinality(ActiveZones(g))
          = Cardinality(ActiveZones(f)) + One(z \in ActiveZones(g)) - One(z \in ActiveZones(f))
    BY <2>1, OneZone
  <2>3. /\ One(z \in ActiveZones(g)) = ActiveOf(g.zone[z])
        /\ One(z \in ActiveZones(f)) = ActiveOf(f.zone[z])
    BY DEF ActiveZones, ActiveOf, One
  <2> QED BY <2>2, <2>3 DEF Sound, Moved
<1>5. g.cnt["ZRWA"] >= Cardinality(ZrwaZones(g))
  <2>1. /\ ZrwaZones(f) \in SUBSET Zones /\ ZrwaZones(g) \in SUBSET Zones
        /\ \A o \in Zones \ {z} : o \in ZrwaZones(f) <=> o \in ZrwaZones(g)
    BY <1>1 DEF ZrwaZones
  <2>2. /\ Cardinality(ZrwaZones(f)) \in Nat
        /\ Cardinality(ZrwaZones(g))
             = Cardinality(ZrwaZones(f)) + One(z \in ZrwaZones(g)) - One(z \in ZrwaZones(f))
    BY <2>1, OneZone
  <2>3. /\ One(z \in ZrwaZones(g)) = ZrwaOf(g.zone[z])
        /\ One(z \in ZrwaZones(f)) = ZrwaOf(f.zone[z])
        /\ ZrwaOf(g.zone[z]) \in {0, 1} /\ ZrwaOf(f.zone[z]) \in {0, 1}
    BY DEF ZrwaZones, ZrwaOf, One
  <2>4. f.cnt["ZRWA"] \in Int /\ g.cnt["ZRWA"] \in Int
    BY <1>1 DEF Ftl, Resources
  <2> QED BY <2>2, <2>3, <2>4 DEF Sound, Moved
<1> QED BY <1>2, <1>3, <1>4, <1>5 DEF Sound

-----------------------------------------------------------------------------
(* Induction and recursion over 0 .. n                                     *)

\* A set that holds 0 and, with i - 1, holds i, holds all of 0 .. n.
LEMMA IntervalInduction ==
  ASSUME NEW n \in Nat, NEW T, 0 \in T,
         \A i \in 1 .. n : i - 1 \in T => i \in T
  PROVE  \A i \in 0 .. n : i \in T
<1>1. SUFFICES ASSUME NEW i \in 0 .. n, i \notin T PROVE FALSE
  OBVIOUS
<1> DEFINE Missing == {k \in 0 .. n : k \notin T}
<1>2. Missing \subseteq Nat /\ Missing # {}
  BY <1>1
<1> DEFINE R == {ss \in Nat \X Nat : ss[1] < ss[2]}
<1>3. PICK m \in Missing : \A k \in Missing : ~(<<k, m>> \in R)
  <2>1. IsWellFoundedOn(R, Nat)
    BY NatLessThanWellFounded DEF OpToRel
  <2> HIDE DEF Missing, R
  <2> QED BY <1>2, <2>1, WFMin, ZenonT(30)
<1>4. ASSUME NEW k \in Missing PROVE ~(k < m)
  <2>1. k \in Nat /\ m \in Nat
    BY <1>2
  <2>2. <<k, m>> \notin R
    BY <1>3
  <2>3. <<k, m>>[1] = k /\ <<k, m>>[2] = m /\ <<k, m>> \in Nat \X Nat
    BY <2>1
  <2> QED BY <2>2, <2>3
<1>5. m # 0 /\ m - 1 \in 0 .. n
  BY <1>1
<1>6. m - 1 \in T
  BY <1>4, <1>5
<1> QED BY <1>5, <1>6

\* Iteration: from a, one step for each of 1 .. n, each a map of S to itself.
Steps(n, S) == [1 .. n -> [S -> S]]
Iterates(g, n, S, a, step) ==
  /\ g \in [0 .. n -> S]
  /\ g[0] = a /\ \A i \in 1 .. n : g[i] = step[i][g[i - 1]]

\* There is such an iteration.
LEMMA IterationExists ==
  ASSUME NEW n \in Nat, NEW S, NEW a \in S, NEW step \in Steps(n, S)
  PROVE  \E g : Iterates(g, n, S, a, step)
<1> USE DEF Steps
<1> DEFINE Upto(m) == {g \in [0 .. m -> S] :
                         g[0] = a /\ \A i \in 1 .. m : g[i] = step[i][g[i - 1]]}
<1> DEFINE T == {m \in 0 .. n : Upto(m) # {}}
<1>1. 0 \in T
  <2>1. [i \in 0 .. 0 |-> a] \in Upto(0)
    OBVIOUS
  <2> QED BY <2>1
<1>2. \A m \in 1 .. n : m - 1 \in T => m \in T
  <2> SUFFICES ASSUME NEW m \in 1 .. n, m - 1 \in T PROVE m \in T
    BY ZenonT(30)
  <2>1. PICK g \in [0 .. m - 1 -> S] :
          g[0] = a /\ \A i \in 1 .. m - 1 : g[i] = step[i][g[i - 1]]
    OBVIOUS
  <2> DEFINE h == [i \in 0 .. m |-> IF i = m THEN step[m][g[m - 1]] ELSE g[i]]
  <2>2. m - 1 \in 0 .. m - 1 /\ step[m] \in [S -> S] /\ step[m][g[m - 1]] \in S
    BY <2>1
  <2>3. h \in [0 .. m -> S]
    BY <2>1, <2>2
  <2>4. h[0] = a
    BY <2>1
  <2>5. ASSUME NEW i \in 1 .. m PROVE h[i] = step[i][h[i - 1]]
    BY <2>1
  <2>6. h \in Upto(m)
    <3> HIDE DEF h
    <3> QED BY <2>3, <2>4, <2>5
  <2> HIDE DEF Upto
  <2> QED BY <2>6
<1>3. n \in T
  <2> HIDE DEF T
  <2>1. \A i \in 0 .. n : i \in T
    BY <1>1, <1>2, IntervalInduction, ZenonT(30)
  <2> QED BY <2>1
<1> QED BY <1>3 DEF Iterates

\* A command to all zones is the command to each of them in turn.
LEMMA SentIs ==
  ASSUME NEW f, NEW action \in Actions, NEW option \in {0, 1}, Legal(f)
  PROVE  LET u == sent(f, action, option) IN
         /\ u[0] = f
         /\ \A i \in 1 .. NR_ZONES : u[i] = zmgmt_send(u[i - 1], i - 1, 0, action, option)
<1> DEFINE n == NR_ZONES
           S == {g \in Ftl : Legal(g)}
           after(i, g) == zmgmt_send(g, i - 1, 0, action, option)
           step == [i \in 1 .. n |-> [g \in S |-> after(i, g)]]
           u == sent(f, action, option)
<1>0. n \in Nat /\ f \in S
  BY SizesAssumption DEF Legal
<1>1. ASSUME NEW i \in 1 .. n, NEW g \in S PROVE after(i, g) \in S
  <2> DEFINE z == i - 1
             h == zmgmt_send(g, z, 0, action, option)
  <2>1. z \in Zones /\ 0 \in 0 .. CAPACITY - 1 /\ Legal(g)
    BY SizesAssumption DEF Zones
  <2> HIDE DEF z
  <2>2. Effect(g, h, z, action)
    BY <2>1, Send
  <2>3. Moved(g, h, z)
    BY <2>2 DEF Effect
  <2>4. Legal(h) /\ h \in Ftl
    BY <2>1, <2>3, MovedLegal DEF Moved
  <2> QED BY <2>4 DEF z
<1> HIDE DEF after
<1>2. step \in [1 .. n -> [S -> S]]
  <2> HIDE DEF S, n
  <2> QED BY <1>1
<1>3. PICK g : Iterates(g, n, S, f, step)
  <2>1. n \in Nat /\ f \in S /\ step \in Steps(n, S)
    BY <1>0, <1>2 DEF Steps
  <2> HIDE DEF step, n, S, u
  <2> QED BY <2>1, IterationExists, ZenonT(30)
<1>4. g = [i \in 0 .. n |-> IF i = 0 THEN f ELSE after(i, g[i - 1])]
  <2>1. ASSUME NEW i \in 1 .. n PROVE g[i] = after(i, g[i - 1])
    <3>1. g[i - 1] \in S /\ g[i] = step[i][g[i - 1]]
      <4> HIDE DEF step, n, S
      <4> QED BY <1>0, <1>3 DEF Iterates
    <3>2. step[i] = [h \in S |-> after(i, h)]
      <4> HIDE DEF n, S
      <4> QED OBVIOUS
    <3> HIDE DEF step, n, S
    <3> QED BY <3>1, <3>2
  <2> HIDE DEF step, n, S
  <2>2. ASSUME NEW i \in 0 .. n PROVE g[i] = IF i = 0 THEN f ELSE after(i, g[i - 1])
    BY <1>0, <1>3, <2>1 DEF Iterates
  <2> QED BY <1>3, <2>2 DEF Iterates
<1>5. u = [i \in 0 .. n |-> IF i = 0 THEN f ELSE after(i, u[i - 1])]
  <2> DEFINE Eq(m) == m = [i \in 0 .. n |-> IF i = 0 THEN f ELSE after(i, m[i - 1])]
  <2>1. u = CHOOSE m : Eq(m)
    BY DEF sent, after
  <2>2. Eq(g)
    BY <1>4, ZenonT(30)
  <2> HIDE DEF u
  <2>3. Eq(u)
    <3> HIDE DEF Eq
    <3> QED BY <2>1, <2>2, ZenonT(30)
  <2> QED BY <2>3, ZenonT(30)
<1> HIDE DEF u
<1>6. u[0] = f /\ \A i \in 1 .. n : u[i] = after(i, u[i - 1])
  <2> HIDE DEF n
  <2> QED BY <1>0, <1>5
<1> QED BY <1>6 DEF after, u

\* What a command to all zones does.
LEMMA SendAll ==
  ASSUME NEW f, NEW d, NEW action \in Actions, NEW option \in {0, 1}, Sound(f), Cover(f, d)
  PROVE  LET g == send_all(f, action, option) IN
         /\ Sound(g) /\ Cover(g, d)
         /\ \A z \in Zones :
              \/ View(g.zone[z]) = View(f.zone[z])
              \/ Machine!Managed(action, View(f.zone[z]), View(g.zone[z]))
         /\ action = "offline" => g = f
<1> DEFINE n == NR_ZONES
           u == sent(f, action, option)
           At(g, i) ==
             /\ Sound(g) /\ Cover(g, d)
             /\ \A z \in Zones :
                  IF z < i
                  THEN \/ View(g.zone[z]) = View(f.zone[z])
                       \/ Machine!Managed(action, View(f.zone[z]), View(g.zone[z]))
                  ELSE g.zone[z] = f.zone[z]
             /\ action = "offline" => g = f
           T == {i \in 0 .. n : At(u[i], i)}
<1>0. n \in Nat /\ n # 0
  BY SizesAssumption
<1>1. u[0] = f /\ \A i \in 1 .. n : u[i] = zmgmt_send(u[i - 1], i - 1, 0, action, option)
  BY SentIs DEF Sound
<1> HIDE DEF u
<1>2. 0 \in T
  BY <1>0, <1>1 DEF Zones
<1>3. \A i \in 1 .. n : i - 1 \in T => i \in T
  <2> SUFFICES ASSUME NEW i \in 1 .. n, i - 1 \in T PROVE i \in T
    BY ZenonT(30)
  <2> DEFINE z == i - 1
             g == u[i - 1]
             h == u[i]
  <2>1. z \in Zones /\ i = z + 1 /\ 0 \in 0 .. CAPACITY - 1 /\ z \in Nat
    BY SizesAssumption DEF Zones
  <2>2. At(g, z) /\ h = zmgmt_send(g, z, 0, action, option)
    BY <1>1
  <2> HIDE DEF z, g, h
  <2>3. /\ Sound(g) /\ Legal(g) /\ Cover(g, d) /\ g.zone[z] = f.zone[z] /\ (action = "offline" => g = f)
        /\ \A o \in Zones : o < z => \/ View(g.zone[o]) = View(f.zone[o])
                                     \/ Machine!Managed(action, View(f.zone[o]), View(g.zone[o]))
        /\ \A o \in Zones : ~(o < z) => g.zone[o] = f.zone[o]
    BY <2>1, <2>2 DEF Zones, Sound
  <2> HIDE DEF At
  <2>4. Effect(g, h, z, action) /\ (action = "offline" => h = g)
    BY <2>1, <2>2, <2>3, Send
  <2>5. Sound(h)
    BY <2>1, <2>3, <2>4, MovedSound DEF Effect
  <2>6. Cover(h, d)
    BY <2>1, <2>3, <2>4, CoverKept DEF Effect
  <2>7. \A o \in Zones \ {z} : h.zone[o] = g.zone[o]
    BY <2>4 DEF Effect, Moved
  <2>8. ASSUME NEW o \in Zones
        PROVE  IF o < i
               THEN \/ View(h.zone[o]) = View(f.zone[o])
                    \/ Machine!Managed(action, View(f.zone[o]), View(h.zone[o]))
               ELSE h.zone[o] = f.zone[o]
    <3>1. o \in Int
      BY DEF Zones
    <3>2. CASE o < z
      BY <2>1, <2>3, <2>7, <3>1, <3>2
    <3>3. CASE o = z
      BY <2>1, <2>3, <2>4, <3>3 DEF Effect
    <3>4. CASE o > z
      BY <2>1, <2>3, <2>7, <3>1, <3>4
    <3> QED BY <2>1, <3>1, <3>2, <3>3, <3>4
  <2>9. At(h, i)
    BY <2>3, <2>4, <2>5, <2>6, <2>8 DEF At
  <2> QED BY <1>0, <2>9 DEF h
<1>4. At(u[n], n)
  <2> HIDE DEF At, n
  <2>1. n \in T
    <3> HIDE DEF T
    <3>1. \A i \in 0 .. n : i \in T
      BY <1>0, <1>2, <1>3, IntervalInduction, ZenonT(30)
    <3> QED BY <1>0, <3>1
  <2> QED BY <2>1
<1>5. \A z \in Zones : z < n
  BY <1>0 DEF Zones
<1>6. send_all(f, action, option) = u[n]
  BY DEF send_all, u
<1> QED BY <1>4, <1>5, <1>6

-----------------------------------------------------------------------------
(* The system                                                              *)

ZnsInv == Sound(ftl) /\ Cover(ftl, drain)

\* The namespace as the host sees it.
Views == [z \in Zones |-> [state |-> ftl.zone[z].state, wp |-> ftl.zone[z].wp]]

\* What a step does, whatever it is.
MachineStep ==
  \/ \E z \in Zones :
       /\ \/ Views'[z] = Views[z]
          \/ Machine!Written(Views[z], Views'[z])
       /\ \A o \in Zones \ {z} : Views'[o] = Views[o]
  \/ \E action \in {"close", "finish", "open", "reset", "flush"} :
       \A z \in Zones : Views'[z] = Views[z] \/ Machine!Managed(action, Views[z], Views'[z])

\* A step of one zone.
LEMMA OneZoneStep ==
  ASSUME NEW z \in Zones, Moved(ftl, ftl', z),
         \/ View(ftl'.zone[z]) = View(ftl.zone[z])
         \/ Machine!Written(View(ftl.zone[z]), View(ftl'.zone[z]))
  PROVE  MachineStep
<1>1. Views'[z] = View(ftl'.zone[z]) /\ Views[z] = View(ftl.zone[z])
  BY DEF Views, View
<1>2. \A o \in Zones \ {z} : Views'[o] = Views[o]
  BY DEF Views, Moved
<1> QED BY <1>1, <1>2 DEF MachineStep

\* Every step keeps the invariant and moves the zones as a zone machine may.
LEMMA ZnsStep ==
  ASSUME ZnsInv, [Next]_vars
  PROVE  Sound(ftl') /\ Cover(ftl', drain') /\ MachineStep
<1> DEFINE Goal == Sound(ftl') /\ Cover(ftl', drain') /\ MachineStep
<1>0. Sound(ftl) /\ Legal(ftl) /\ Cover(ftl, drain) /\ 0 \in Zones /\ 0 \in 0 .. CAPACITY - 1
  BY SizesAssumption DEF ZnsInv, Sound, Zones
<1>1. ASSUME NEW z \in Zones, NEW off \in 0 .. CAPACITY - 1, NEW action \in Actions,
             NEW option \in {0, 1}, ZmgmtSend(z, off, action, option)
      PROVE  Goal
  <2>1. ftl' = zmgmt_send(ftl, z, off, action, option) /\ drain' = drain
    BY <1>1 DEF ZmgmtSend
  <2>2. Effect(ftl, ftl', z, action) /\ (action = "offline" => ftl' = ftl)
    BY <1>0, <2>1, Send
  <2>3. /\ Moved(ftl, ftl', z) /\ ftl'.wb = ftl.wb
        /\ Pending(ftl'.zone[z]) <= Pending(ftl.zone[z])
        /\ \/ View(ftl'.zone[z]) = View(ftl.zone[z])
           \/ Machine!Managed(action, View(ftl.zone[z]), View(ftl'.zone[z]))
    BY <2>2 DEF Effect
  <2>4. Sound(ftl')
    BY <1>0, <2>3, MovedSound
  <2>5. Cover(ftl', drain')
    BY <1>0, <2>1, <2>3, CoverKept
  <2>6. CASE View(ftl'.zone[z]) = View(ftl.zone[z])
    BY <2>3, <2>4, <2>5, <2>6, OneZoneStep
  <2>7. CASE View(ftl'.zone[z]) # View(ftl.zone[z])
    <3>1. action \in {"close", "finish", "open", "reset", "flush"}
      BY <2>2, <2>7 DEF Actions
    <3>2. ASSUME NEW o \in Zones
          PROVE  Views'[o] = Views[o] \/ Machine!Managed(action, Views[o], Views'[o])
      <4>1. Views'[o] = View(ftl'.zone[o]) /\ Views[o] = View(ftl.zone[o])
        BY DEF Views, View
      <4>2. CASE o = z
        BY <2>3, <4>1, <4>2
      <4>3. CASE o # z
        BY <2>3, <4>1, <4>3 DEF Moved
      <4> QED BY <4>2, <4>3
    <3> QED BY <2>4, <2>5, <3>1, <3>2 DEF MachineStep
  <2> QED BY <2>6, <2>7
<1>2. ASSUME NEW action \in Actions, NEW option \in {0, 1}, ZmgmtSendAll(action, option)
      PROVE  Goal
  <2>1. ftl' = send_all(ftl, action, option) /\ drain' = drain
    BY <1>2 DEF ZmgmtSendAll
  <2>2. /\ Sound(ftl') /\ Cover(ftl', drain)
        /\ \A z \in Zones :
             \/ View(ftl'.zone[z]) = View(ftl.zone[z])
             \/ Machine!Managed(action, View(ftl.zone[z]), View(ftl'.zone[z]))
        /\ action = "offline" => ftl' = ftl
    BY <1>0, <2>1, SendAll
  <2>3. \A z \in Zones : Views'[z] = View(ftl'.zone[z]) /\ Views[z] = View(ftl.zone[z])
    BY DEF Views, View
  <2>4. CASE action = "offline"
    <3>1. \A z \in Zones : Views'[z] = Views[z]
      BY <2>2, <2>3, <2>4
    <3> QED BY <1>0, <2>1, <2>2, <3>1 DEF MachineStep
  <2>5. CASE action # "offline"
    <3>1. action \in {"close", "finish", "open", "reset", "flush"}
      BY <2>5 DEF Actions
    <3> QED BY <2>1, <2>2, <2>3, <3>1 DEF MachineStep
  <2> QED BY <2>4, <2>5
<1>3. ASSUME NEW z \in Zones, NEW n \in 1 .. MAX_NR_LBA, NEW arg, NEW append \in BOOLEAN,
             Write(z, arg, n, append)
      PROVE  Goal
  <2>1. /\ Moved(ftl, ftl', z) /\ Cover(ftl', drain')
        /\ \/ View(ftl'.zone[z]) = View(ftl.zone[z])
           \/ Machine!Written(View(ftl.zone[z]), View(ftl'.zone[z]))
    BY <1>0, <1>3, WriteStep
  <2> QED BY <1>0, <2>1, MovedSound, OneZoneStep
<1>4. ASSUME NEW z \in Zones, NEW off \in 0 .. CAPACITY - 1, NEW n \in 1 .. MAX_NR_LBA,
             WriteZrwa(z, off, n)
      PROVE  Goal
  <2>1. /\ Moved(ftl, ftl', z) /\ Cover(ftl', drain')
        /\ \/ View(ftl'.zone[z]) = View(ftl.zone[z])
           \/ Machine!Written(View(ftl.zone[z]), View(ftl'.zone[z]))
    BY <1>0, <1>4, ZrwaStep
  <2> QED BY <1>0, <2>1, MovedSound, OneZoneStep
<1>5. ASSUME NEW z \in Zones, (\E c \in Chunks : Drain(z, c)) \/ DrainZrwa(z)
      PROVE  Goal
  <2>1. Moved(ftl, ftl', z) /\ Cover(ftl', drain') /\ ftl'.zone = ftl.zone
    BY <1>0, <1>5, DrainStep, ZdrainStep
  <2> QED BY <1>0, <2>1, MovedSound, OneZoneStep
<1>6. CASE UNCHANGED vars
  <2>1. ftl' = ftl /\ drain' = drain
    BY <1>6 DEF vars
  <2>2. \A z \in Zones : Views'[z] = Views[z]
    BY <2>1 DEF Views
  <2> QED BY <1>0, <2>1, <2>2 DEF MachineStep
<1>7. CASE Next
  <2>1. 0 \in {0, 1} /\ "open" \in Actions /\ "flush" \in Actions
    BY DEF Actions
  <2> HIDE DEF Goal
  <2>2. ASSUME NEW z \in Zones,
               \/ \E action \in Actions \ {"open", "flush"} : ZmgmtSend(z, 0, action, 0)
               \/ \E zrwa \in {0, 1} : ZmgmtSend(z, 0, "open", zrwa)
               \/ \E off \in 0 .. CAPACITY - 1 : ZmgmtSend(z, off, "flush", 0)
        PROVE  Goal
    BY <1>0, <1>1, <2>1, <2>2, ZenonT(30)
  <2>3. ASSUME NEW z \in Zones,
               \/ \E off \in 0 .. CAPACITY - 1, n \in 1 .. MAX_NR_LBA :
                    Write(z, off, n, FALSE) \/ WriteZrwa(z, off, n)
               \/ \E n \in 1 .. MAX_NR_LBA : Write(z, 0, n, TRUE)
        PROVE  Goal
    BY <1>3, <1>4, <2>1, <2>3, ZenonT(30)
  <2>4. ASSUME \/ \E action \in Actions \ {"open"} : ZmgmtSendAll(action, 0)
               \/ \E zrwa \in {0, 1} : ZmgmtSendAll("open", zrwa)
        PROVE  Goal
    BY <1>2, <2>1, <2>4, ZenonT(30)
  <2>5. Goal
    BY <1>5, <1>7, <2>2, <2>3, <2>4, ZenonT(30) DEF Next
  <2> QED BY <2>5 DEF Goal
<1> QED BY <1>6, <1>7

\* The invariant of the backend: types, counts, limits, states against write
\* pointers and buffers, whatever the host sends and the workers do.
THEOREM ZnsInductive == Spec => []ZnsInv
<1>1. Init => ZnsInv
  <2> SUFFICES ASSUME Init PROVE ZnsInv
    OBVIOUS
  <2>1. /\ NR_ZONES \in Nat /\ CAPACITY \in Nat \ {0} /\ ONESHOT \in Nat \ {0}
        /\ ZONE_WB \in Nat /\ ZRWA_BUFFER \in Nat
        /\ MAX_OPEN \in Nat /\ MAX_ACTIVE \in Nat /\ MAX_ZRWA \in Nat
    BY SizesAssumption
  <2> DEFINE d == [state |-> "empty", wp |-> 0, zrwav |-> 0]
             zs == [z \in Zones |-> d]
             n  == [r \in Resources |-> 0]
             w  == [z \in Zones |-> ZONE_WB]
             b  == [z \in Zones |-> ZRWA_BUFFER]
  <2>2. ftl = [zone |-> zs, cnt |-> n, wb |-> w, zbuf |-> b, bug |-> FALSE]
    BY DEF Init
  <2>3. /\ zs \in [Zones -> Desc] /\ n \in [Resources -> Int]
        /\ w \in [Zones -> Int] /\ b \in [Zones -> Int]
        /\ \A z \in Zones : zs[z].state = "empty" /\ zs[z].wp = 0 /\ zs[z].zrwav = 0 /\ w[z] = ZONE_WB
        /\ n["OPEN"] = 0 /\ n["ACTIVE"] = 0 /\ n["ZRWA"] = 0
    BY <2>1 DEF Desc, States, Resources
  <2> HIDE DEF zs, n, w, b
  <2>4. /\ ftl.zone = zs /\ ftl.cnt = n /\ ftl.wb = w
        /\ ftl \in Ftl
    BY <2>2, <2>3 DEF Ftl
  <2>5. \A z \in Zones : DescOK(ftl.zone[z])
    BY <2>1, <2>3, <2>4 DEF DescOK
  <2>6. OpenZones(ftl) = {} /\ ActiveZones(ftl) = {} /\ ZrwaZones(ftl) = {}
    BY <2>3, <2>4 DEF OpenZones, ActiveZones, ZrwaZones, Active, Opened
  <2>7. Cardinality({}) = 0
    BY FS_EmptySet
  <2>8. Sound(ftl)
    BY <2>1, <2>3, <2>4, <2>5, <2>6, <2>7 DEF Sound, Legal
  <2>9. Cover(ftl, drain)
    <3>1. drain \in [Zones -> [Chunks -> Nat]] /\ \A z \in Zones, c \in Chunks : drain[z][c] = 0
      BY DEF Init
    <3>2. ASSUME NEW z \in Zones PROVE ToDrain(drain[z]) = 0
      <4>1. drain[z][ONESHOT] = 0
        BY <3>1, ChunkFacts
      <4>2. unaligned_space \in Chunks \ {ONESHOT} => drain[z][unaligned_space] = 0
        BY <3>1
      <4> QED BY <2>1, <4>1, <4>2, ChunkFacts DEF ToDrain
    <3>3. ASSUME NEW z \in Zones PROVE Pending(ftl.zone[z]) = 0
      BY <2>1, <2>3, <2>4 DEF Pending
    <3> QED BY <2>1, <2>3, <2>4, <3>1, <3>2, <3>3 DEF Cover
  <2> QED BY <2>8, <2>9 DEF ZnsInv
<1>2. ZnsInv /\ [Next]_vars => ZnsInv'
  BY ZnsStep DEF ZnsInv
<1> QED BY <1>1, <1>2, PTL DEF Spec

\* ResourcesExact: the counts of acquire_zone_resource and
\* release_zone_resource are the numbers of zones open and active, always.
THEOREM CountsExact == Spec => []ResourcesExact
<1>1. ZnsInv => ResourcesExact
  <2> SUFFICES ASSUME ZnsInv PROVE ResourcesExact
    OBVIOUS
  <2>1. /\ InState(Opened) = OpenZones(ftl) /\ InState(Opened \cup {"closed"}) = ActiveZones(ftl)
        /\ {z \in InState(Opened \cup {"closed"}) : ftl.zone[z].zrwav = 1} = ZrwaZones(ftl)
    BY DEF InState, OpenZones, ActiveZones, ZrwaZones, Active
  <2>2. /\ ftl.cnt["OPEN"] = Cardinality(OpenZones(ftl))
        /\ ftl.cnt["ACTIVE"] = Cardinality(ActiveZones(ftl))
        /\ ftl.cnt["ZRWA"] >= Cardinality(ZrwaZones(ftl))
    BY DEF ZnsInv, Sound
  <2> QED BY <2>1, <2>2, ZenonT(30) DEF ResourcesExact
<1> QED BY <1>1, ZnsInductive, PTL

\* WritePointerAgrees: no zone is empty with data or at its capacity without
\* being full, and none is written past its capacity.
THEOREM WritePointers == Spec => []WritePointerAgrees
<1>1. ZnsInv => WritePointerAgrees
  <2> SUFFICES ASSUME ZnsInv, NEW z \in Zones
               PROVE  LET d == ftl.zone[z] IN
                        /\ d.state = "empty" => d.wp = 0 /\ d.zrwav = 0
                        /\ d.wp \in 0 .. CAPACITY
                        /\ d.wp = CAPACITY => d.state = "full"
    BY DEF WritePointerAgrees
  <2>1. DescOK(ftl.zone[z]) /\ ftl.zone[z].wp \in 0 .. CAPACITY
    BY ZoneFacts DEF ZnsInv, Sound
  <2> QED BY <2>1 DEF DescOK
<1> QED BY <1>1, ZnsInductive, PTL

\* NoOverRelease: a write buffer never gets back more than was taken from it.
THEOREM BuffersBounded == Spec => []NoOverRelease
<1>1. ZnsInv => NoOverRelease
  <2> SUFFICES ASSUME ZnsInv, NEW z \in Zones PROVE ftl.wb[z] + to_drain(z) <= ZONE_WB
    BY DEF NoOverRelease
  <2>1. /\ ftl.wb[z] \in Int /\ ToDrain(drain[z]) \in Nat /\ Pending(ftl.zone[z]) \in Nat
        /\ ZONE_WB \in Nat
        /\ ftl.wb[z] + ToDrain(drain[z]) + Pending(ftl.zone[z]) <= ZONE_WB
    BY CoverFacts DEF ZnsInv, Sound
  <2>2. to_drain(z) = ToDrain(drain[z])
    BY DEF to_drain, ToDrain
  <2> QED BY <2>1, <2>2
<1> QED BY <1>1, ZnsInductive, PTL

\* A full report and a partial one, from one zone and for one length.
ReportAt(start, length) ==
  LET all  == fill_zone_report(start, FALSE, length)
      part == fill_zone_report(start, TRUE, length)
  IN /\ Len(all) = NR_ZONES - start
     /\ part = IF length > Len(all) THEN all ELSE SubSeq(all, 1, length - 1)

\* Such reports are what the host asked for.
LEMMA ReportIs ==
  ASSUME NEW start \in Zones, NEW length \in 1 .. NR_ZONES + 2
  PROVE  ReportAt(start, length)
<1> DEFINE all  == fill_zone_report(start, FALSE, length)
           part == fill_zone_report(start, TRUE, length)
           n    == NR_ZONES - start
           m    == length - 1
           at(k) == [i \in 1 .. k |-> ftl.zone[start + i - 1]]
<1>1. n \in Nat /\ start \in Nat /\ length \in Nat /\ m \in Nat /\ NR_ZONES \in Nat
  BY SizesAssumption DEF Zones
<1>2. nr_zone_to_report(start, FALSE, length) = n
  BY <1>1 DEF nr_zone_to_report
<1>3. m % U64 = m
  BY <1>1, SizesAssumption, U64Assumption
<1>4. nr_zone_to_report(start, TRUE, length) = IF m > n THEN n ELSE m
  BY <1>3 DEF nr_zone_to_report
<1>5. all = at(n)
  <2> HIDE DEF n
  <2> QED BY <1>2, ZenonT(30) DEF fill_zone_report
<1>6. m > n => part = at(n)
  <2> HIDE DEF n, m
  <2> QED BY <1>4, ZenonT(30) DEF fill_zone_report
<1>7. ~(m > n) => part = at(m)
  <2> HIDE DEF n, m
  <2> QED BY <1>4, ZenonT(30) DEF fill_zone_report
<1> HIDE DEF all, part, n
<1>8. Len(all) = n
  BY <1>1, <1>5
<1>9. CASE length > n
  <2>1. m > n \/ m = n
    BY <1>1, <1>9
  <2>2. part = all
    <3> HIDE DEF m, at
    <3> QED BY <1>5, <1>6, <1>7, <2>1
  <2> QED BY <1>8, <1>9, <2>2, ZenonT(30) DEF ReportAt, all, part, n
<1>10. CASE ~(length > n)
  <2>1. m <= n /\ ~(m > n)
    BY <1>1, <1>10
  <2> HIDE DEF m
  <2>2. SubSeq(at(n), 1, m) = at(m)
    <3> DEFINE q == at(n)
    <3> DEFINE S == {q[i] : i \in 1 .. n}
    <3>1. q \in [1 .. n -> S]
      OBVIOUS
    <3>2. q \in Seq(S) /\ Len(q) = n
      <4> HIDE DEF q, S
      <4> QED BY <1>1, <3>1
    <3>3. \A i \in 1 .. m : q[i] = ftl.zone[start + i - 1]
      BY <1>1, <2>1
    <3> HIDE DEF q, S
    <3>4. SubSeq(q, 1, m) = [i \in 1 .. m |-> q[i]]
      BY <1>1, <2>1, <3>2
    <3>5. [i \in 1 .. m |-> q[i]] = at(m)
      BY <3>3
    <3> QED BY <3>4, <3>5 DEF q
  <2>3. part = SubSeq(all, 1, m)
    <3> HIDE DEF at
    <3> QED BY <1>5, <1>7, <2>1, <2>2
  <2> QED BY <1>8, <1>10, <2>3, ZenonT(30) DEF ReportAt, all, part, n, m
<1> QED BY <1>9, <1>10

\* ReportFits: a report holds the zones from the one asked for on, as many as
\* the host's buffer takes, for every length that is not below the header's.
THEOREM ReportsFit == Spec => []ReportFits
<1>1. ReportFits
  BY ReportIs, ZenonT(30) DEF ReportFits, ReportAt
<1> QED BY <1>1, PTL

\* The limits of the zone machine, counted on the zones.
LEMMA LimitsKept ==
  ASSUME ZnsInv
  PROVE  Machine!Within
<1> DEFINE O == {z \in Zones : Views[z].state \in Machine!Opened}
           A == {z \in Zones : Views[z].state \in Machine!Active}
<1>1. O = OpenZones(ftl)
  BY DEF Views, OpenZones, Machine!Opened, Opened
<1>2. A = ActiveZones(ftl)
  BY DEF Views, ActiveZones, Machine!Opened, Machine!Active, Opened, Active
<1> HIDE DEF O, A
<1>3. Cardinality(OpenZones(ftl)) <= MAX_OPEN /\ Cardinality(ActiveZones(ftl)) <= MAX_ACTIVE
  BY DEF ZnsInv, Sound, Legal
<1>4. Cardinality(O) <= MAX_OPEN /\ Cardinality(A) <= MAX_ACTIVE
  BY <1>1, <1>2, <1>3
<1>5. \A S : Machine!Cardinality(S) = Cardinality(S)
  BY ZenonT(30) DEF Machine!Cardinality, Cardinality, Machine!IsFiniteSet, IsFiniteSet
<1> QED BY <1>4, <1>5, ZenonT(30) DEF Machine!Within, Views, O, A

\* IsZoneMachine: every command of the host moves the zones as ZoneMachine
\* allows, within its limits, and nothing else moves them.
THEOREM ImplementsZoneMachine == Spec => IsZoneMachine
<1>1. Init => Machine!Init
  <2> SUFFICES ASSUME Init PROVE Machine!Init
    OBVIOUS
  <2>1. \A z \in Zones : ftl.zone[z].state = "empty" /\ ftl.zone[z].wp = 0
    BY DEF Init
  <2> QED BY <2>1 DEF Machine!Init
<1>2. ZnsInv /\ ZnsInv' /\ [Next]_vars => [Machine!Next]_Views
  <2> SUFFICES ASSUME ZnsInv, ZnsInv', [Next]_vars, Views' # Views PROVE Machine!Next
    OBVIOUS
  <2>1. MachineStep /\ Sound(ftl')
    BY ZnsStep
  <2>2. Machine!Within'
    BY LimitsKept, PTL
  <2>3. DOMAIN Views' = Zones
    BY DEF Views
  <2>4. \/ \E action \in {"close", "finish", "open", "reset", "flush"} :
             \A z \in Zones : Views'[z] = Views[z] \/ Machine!Managed(action, Views[z], Views'[z])
        \/ \E z \in Zones :
             /\ Machine!Written(Views[z], Views'[z])
             /\ \A o \in Zones \ {z} : Views'[o] = Views[o]
    <3>1. \E z \in Zones : Views'[z] # Views[z]
      BY <2>3 DEF Views
    <3> QED BY <2>1, <3>1 DEF MachineStep
  <2> QED BY <2>2, <2>3, <2>4, ZenonT(30) DEF Machine!Next, Views
<1> QED BY <1>1, <1>2, ZnsInductive, PTL DEF Spec, IsZoneMachine, Machine!Spec, Views

=============================================================================
