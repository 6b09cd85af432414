-------------------------- MODULE ZnsSteps_proofs --------------------------
(***************************************************************************)
(* What each operation of Zns does, for any number of zones, limits and    *)
(* sizes.  Every operation works on one zone: Moved says what it may do to *)
(* the descriptor and the counts, Machine!Managed and Machine!Written      *)
(* which transition of ZoneMachine it makes, Cover what it leaves in the   *)
(* write buffers.  Zns_proofs draws the conclusions for the system.        *)
(***************************************************************************)
EXTENDS Zns, TLAPS

USE SMTT(30)

Active == Opened \cup {"closed"}
States == Active \cup {"empty", "full"}
Desc   == [state : States, wp : 0 .. CAPACITY, zrwav : {0, 1}]
Ftl    == [zone : [Zones -> Desc], cnt : [Resources -> Int], wb : [Zones -> Int],
           zbuf : [Zones -> Int], bug : BOOLEAN]

\* A descriptor by itself.
DescOK(d) ==
  /\ d.state = "empty" => d.wp = 0 /\ d.zrwav = 0
  /\ d.wp = CAPACITY => d.state = "full"
  /\ MAX_ZRWA = 0 => d.zrwav = 0

\* What a zone holds of each resource.
One(b)      == IF b THEN 1 ELSE 0
OpenOf(d)   == One(d.state \in Opened)
ActiveOf(d) == One(d.state \in Active)
ZrwaOf(d)   == One(d.state \in Active /\ d.zrwav = 1)

\* What an operation needs to know of the state: types, descriptors, limits.
\* Legal says nothing of what the counts count.
Legal(f) ==
  /\ f \in Ftl
  /\ \A z \in Zones : DescOK(f.zone[z])
  /\ f.cnt["OPEN"] <= MAX_OPEN /\ f.cnt["ACTIVE"] <= MAX_ACTIVE /\ f.cnt["ZRWA"] <= MAX_ZRWA
  /\ MAX_ZRWA = 0 => f.cnt["ZRWA"] >= 0

\* What an operation on zone z may turn f into.
Moved(f, g, z) ==
  /\ g \in Ftl
  /\ \A o \in Zones \ {z} : g.zone[o] = f.zone[o]
  /\ DescOK(g.zone[z])
  /\ g.cnt["OPEN"] = f.cnt["OPEN"] + OpenOf(g.zone[z]) - OpenOf(f.zone[z])
  /\ g.cnt["OPEN"] <= MAX_OPEN
  /\ g.cnt["ACTIVE"] = f.cnt["ACTIVE"] + ActiveOf(g.zone[z]) - ActiveOf(f.zone[z])
  /\ g.cnt["ACTIVE"] <= MAX_ACTIVE
  /\ g.cnt["ZRWA"] >= f.cnt["ZRWA"] + ZrwaOf(g.zone[z]) - ZrwaOf(f.zone[z])
  /\ g.cnt["ZRWA"] <= MAX_ZRWA

\* Blocks of a partly filled oneshot page, taken from the write buffer and
\* given back with the rest of the page.
Pending(d) == IF d.state = "full" \/ d.zrwav = 1 THEN 0 ELSE d.wp % ONESHOT

\* The blocks still to be drained of a zone whose releases are d.
ToDrain(d) == ONESHOT * d[ONESHOT]
                + (IF unaligned_space \in Chunks \ {ONESHOT}
                   THEN unaligned_space * d[unaligned_space] ELSE 0)

\* The inductive invariant of the write buffers, of a state f of the zones and
\* the operations d under way.
Cover(f, d) ==
  /\ d \in [Zones -> [Chunks -> Nat]]
  /\ \A z \in Zones : f.wb[z] + ToDrain(d[z]) + Pending(f.zone[z]) <= ZONE_WB

-----------------------------------------------------------------------------
(* The operations on one zone                                              *)

\* What Moved says of the other zones.
LEMMA OthersKept ==
  ASSUME NEW f, NEW g, NEW z \in Zones, Moved(f, g, z)
  PROVE  g \in Ftl /\ \A o \in Zones : o # z => g.zone[o] = f.zone[o]
BY DEF Moved

\* Another operation may follow.
LEMMA MovedLegal ==
  ASSUME NEW f, NEW g, NEW z \in Zones, Legal(f), Moved(f, g, z)
  PROVE  Legal(g)
<1>1. \A o \in Zones : DescOK(g.zone[o])
  BY DEF Legal, Moved
<1>2. ASSUME MAX_ZRWA = 0 PROVE g.cnt["ZRWA"] >= 0
  <2>1. f.zone[z].zrwav = 0 /\ g.zone[z].zrwav = 0
    BY <1>1, <1>2 DEF Legal, DescOK
  <2>2. ZrwaOf(f.zone[z]) = 0 /\ ZrwaOf(g.zone[z]) = 0
    BY <2>1 DEF ZrwaOf, One
  <2>3. f.cnt["ZRWA"] \in Int /\ g.cnt["ZRWA"] \in Int
    BY DEF Legal, Moved, Ftl, Resources
  <2> QED BY <1>2, <2>2, <2>3 DEF Legal, Moved
<1> QED BY <1>1, <1>2 DEF Legal, Moved

\* What a zone shows to the host.
View(d) == [state |-> d.state, wp |-> d.wp]

\* What a write that ends at m makes of a descriptor.
WrittenTo(x, m, v) ==
  [state |-> IF m = CAPACITY THEN "full" ELSE IF x.state = "expl" THEN "expl" ELSE "impl",
   wp |-> m, zrwav |-> v]

\* The zone machine allows it.
LEMMA WrittenView ==
  ASSUME NEW x, NEW m \in x.wp .. CAPACITY, x.state \in Active \cup {"empty"}, NEW v
  PROVE  Machine!Written(View(x), View(WrittenTo(x, m, v)))
BY DEF WrittenTo, View, Machine!Written, Machine!Active, Machine!Opened, Active, Opened

\* A management command on zone z.
Effect(f, g, z, action) ==
  /\ Moved(f, g, z)
  /\ g.wb = f.wb
  /\ Pending(g.zone[z]) <= Pending(f.zone[z])
  /\ View(g.zone[z]) = View(f.zone[z]) \/ Machine!Managed(action, View(f.zone[z]), View(g.zone[z]))

\* acquire_zone_resource changes one count.
LEMMA Acquire ==
  ASSUME NEW f \in Ftl, NEW r \in Resources
  PROVE  /\ acquire(f, r) \in Ftl
         /\ acquire(f, r).zone = f.zone /\ acquire(f, r).wb = f.wb
         /\ acquire(f, r).zbuf = f.zbuf /\ acquire(f, r).bug = f.bug
         /\ acquire(f, r).cnt[r] = f.cnt[r] + 1
         /\ \A q \in Resources \ {r} : acquire(f, r).cnt[q] = f.cnt[q]
BY DEF acquire, Ftl

\* So does release_zone_resource.
LEMMA Release ==
  ASSUME NEW f \in Ftl, NEW r \in Resources
  PROVE  /\ release(f, r) \in Ftl
         /\ release(f, r).zone = f.zone /\ release(f, r).wb = f.wb
         /\ release(f, r).zbuf = f.zbuf /\ release(f, r).bug = f.bug
         /\ release(f, r).cnt[r] = f.cnt[r] - 1
         /\ \A q \in Resources \ {r} : release(f, r).cnt[q] = f.cnt[q]
BY DEF release, Ftl

\* change_zone_state changes one state.
LEMMA ChangeState ==
  ASSUME NEW f \in Ftl, NEW z \in Zones, NEW s \in States
  PROVE  /\ change_state(f, z, s) \in Ftl
         /\ change_state(f, z, s).cnt = f.cnt /\ change_state(f, z, s).wb = f.wb
         /\ change_state(f, z, s).zbuf = f.zbuf /\ change_state(f, z, s).bug = f.bug
         /\ change_state(f, z, s).zone[z]
              = [state |-> s, wp |-> f.zone[z].wp, zrwav |-> f.zone[z].zrwav]
         /\ \A o \in Zones \ {z} : change_state(f, z, s).zone[o] = f.zone[o]
<1>1. f.zone \in [Zones -> Desc] /\ f.zone[z] \in Desc
  BY DEF Ftl
<1>2. [f.zone[z] EXCEPT !.state = s]
        = [state |-> s, wp |-> f.zone[z].wp, zrwav |-> f.zone[z].zrwav]
  BY <1>1 DEF Desc
<1>3. [state |-> s, wp |-> f.zone[z].wp, zrwav |-> f.zone[z].zrwav] \in Desc
  BY <1>1 DEF Desc
<1> DEFINE d == [state |-> s, wp |-> f.zone[z].wp, zrwav |-> f.zone[z].zrwav]
<1>4. change_state(f, z, s) = [f EXCEPT !.zone = [f.zone EXCEPT ![z] = d]]
  BY <1>1, <1>2 DEF change_state, Ftl
<1>5. d \in Desc
  BY <1>3
<1> HIDE DEF d
<1>6. [f.zone EXCEPT ![z] = d] \in [Zones -> Desc]
  BY <1>1, <1>5
<1>7. /\ [f.zone EXCEPT ![z] = d][z] = d
      /\ \A o \in Zones \ {z} : [f.zone EXCEPT ![z] = d][o] = f.zone[o]
  BY <1>1
<1> QED BY <1>4, <1>6, <1>7 DEF Ftl, d

\* What a legal state says of one zone.
LEMMA ZoneFacts ==
  ASSUME NEW f, NEW z \in Zones, Legal(f)
  PROVE  /\ f \in Ftl /\ f.zone \in [Zones -> Desc] /\ f.zone[z] \in Desc /\ DescOK(f.zone[z])
         /\ f.cnt["OPEN"] \in Int /\ f.cnt["ACTIVE"] \in Int /\ f.cnt["ZRWA"] \in Int
         /\ f.cnt["OPEN"] <= MAX_OPEN /\ f.cnt["ACTIVE"] <= MAX_ACTIVE /\ f.cnt["ZRWA"] <= MAX_ZRWA
         /\ f.zone[z].state \in States /\ f.zone[z].wp \in 0 .. CAPACITY
         /\ f.zone[z].wp \in Nat /\ f.zone[z].zrwav \in {0, 1}
         /\ CAPACITY \in Nat /\ CAPACITY # 0 /\ ONESHOT \in Nat /\ ONESHOT > 0
         /\ MAX_OPEN \in Nat /\ MAX_ACTIVE \in Nat /\ MAX_ZRWA \in Nat
<1>1. f \in Ftl /\ f.zone \in [Zones -> Desc] /\ f.zone[z] \in Desc
  BY DEF Legal, Ftl
<1>2. f.zone[z].state \in States /\ f.zone[z].wp \in 0 .. CAPACITY /\ f.zone[z].zrwav \in {0, 1}
  BY <1>1 DEF Desc
<1>3. f.cnt["OPEN"] \in Int /\ f.cnt["ACTIVE"] \in Int /\ f.cnt["ZRWA"] \in Int
  BY <1>1 DEF Ftl, Resources
<1>4. /\ CAPACITY \in Nat /\ CAPACITY # 0 /\ ONESHOT \in Nat /\ ONESHOT > 0
      /\ MAX_OPEN \in Nat /\ MAX_ACTIVE \in Nat /\ MAX_ZRWA \in Nat
  BY SizesAssumption
<1> QED BY <1>1, <1>2, <1>3, <1>4 DEF Legal

\* The fall-through gives back what the zone holds and changes nothing else.
LEMMA ReleaseAll ==
  ASSUME NEW f, NEW z \in Zones, Legal(f)
  PROVE  LET g == release_all(f, z) IN
         /\ g \in Ftl /\ g.zone = f.zone /\ g.wb = f.wb /\ g.zbuf = f.zbuf /\ g.bug = f.bug
         /\ g.cnt["OPEN"] = f.cnt["OPEN"] - OpenOf(f.zone[z])
         /\ g.cnt["ACTIVE"] = f.cnt["ACTIVE"] - ActiveOf(f.zone[z])
         /\ g.cnt["ZRWA"] = f.cnt["ZRWA"] - ZrwaOf(f.zone[z])
<1> DEFINE g == IF f.zone[z].state \in Opened THEN release(f, "OPEN") ELSE f
           h == IF f.zone[z].state \in Opened \cup {"closed"} THEN release(g, "ACTIVE") ELSE g
           k == IF f.zone[z].state \in Opened \cup {"closed"} /\ f.zone[z].zrwav = 1
                THEN release(h, "ZRWA") ELSE h
<1>0. release_all(f, z) = k
  BY DEF release_all
<1>r. "OPEN" \in Resources /\ "ACTIVE" \in Resources /\ "ZRWA" \in Resources
  BY DEF Resources
<1>f. /\ f \in Ftl /\ f.cnt["OPEN"] \in Int /\ f.cnt["ACTIVE"] \in Int /\ f.cnt["ZRWA"] \in Int
  <2> HIDE DEF g, h, k
  <2> QED BY ZoneFacts, ZenonT(30)
<1>1. /\ g \in Ftl /\ g.zone = f.zone /\ g.wb = f.wb /\ g.zbuf = f.zbuf /\ g.bug = f.bug
      /\ g.cnt["OPEN"] = f.cnt["OPEN"] - OpenOf(f.zone[z])
      /\ g.cnt["ACTIVE"] = f.cnt["ACTIVE"] /\ g.cnt["ZRWA"] = f.cnt["ZRWA"]
  BY <1>r, <1>f, Release DEF OpenOf, One, Resources
<1> HIDE DEF g
<1>2. /\ h \in Ftl /\ h.zone = f.zone /\ h.wb = f.wb /\ h.zbuf = f.zbuf /\ h.bug = f.bug
      /\ h.cnt["OPEN"] = g.cnt["OPEN"]
      /\ h.cnt["ACTIVE"] = f.cnt["ACTIVE"] - ActiveOf(f.zone[z]) /\ h.cnt["ZRWA"] = f.cnt["ZRWA"]
  BY <1>1, <1>r, <1>f, Release DEF ActiveOf, One, Resources, Active
<1> HIDE DEF h
<1>3. /\ k \in Ftl /\ k.zone = f.zone /\ k.wb = f.wb /\ k.zbuf = f.zbuf /\ k.bug = f.bug
      /\ k.cnt["OPEN"] = h.cnt["OPEN"] /\ k.cnt["ACTIVE"] = h.cnt["ACTIVE"]
      /\ k.cnt["ZRWA"] = f.cnt["ZRWA"] - ZrwaOf(f.zone[z])
  BY <1>2, <1>r, <1>f, Release DEF ZrwaOf, One, Resources, Active
<1> QED BY <1>0, <1>1, <1>2, <1>3

\* close_zone.
LEMMA CloseZone ==
  ASSUME NEW f, NEW z \in Zones, Legal(f)
  PROVE  Effect(f, close_zone(f, z), z, "close")
<1> DEFINE x == f.zone[z]
           c == change_state(f, z, "closed")
           g == close_zone(f, z)
<1>0. /\ f \in Ftl /\ "OPEN" \in Resources /\ "closed" \in States
      /\ f.cnt["OPEN"] \in Int /\ f.cnt["ACTIVE"] \in Int /\ f.cnt["ZRWA"] \in Int
      /\ f.cnt["OPEN"] <= MAX_OPEN /\ f.cnt["ACTIVE"] <= MAX_ACTIVE /\ f.cnt["ZRWA"] <= MAX_ZRWA
      /\ MAX_OPEN \in Nat /\ x.wp \in Nat /\ ONESHOT \in Nat /\ ONESHOT > 0 /\ DescOK(x)
  BY ZoneFacts DEF Resources, States, Active
<1>p. Pending(x) \in Int
  BY <1>0 DEF Pending
<1>1. CASE x.state \notin Opened
  <2>1. g = f
    BY <1>1 DEF close_zone
  <2> QED BY <1>0, <1>p, <2>1 DEF Effect, Moved, OpenOf, ActiveOf, ZrwaOf, One
<1>2. CASE x.state \in Opened
  <2>1. g = release(c, "OPEN")
    BY <1>2 DEF close_zone
  <2>2. /\ c \in Ftl /\ c.cnt = f.cnt /\ c.wb = f.wb
        /\ c.zone[z] = [state |-> "closed", wp |-> x.wp, zrwav |-> x.zrwav]
        /\ \A o \in Zones \ {z} : c.zone[o] = f.zone[o]
    BY <1>0, ChangeState
  <2> HIDE DEF c
  <2>3. /\ g \in Ftl /\ g.zone = c.zone /\ g.wb = f.wb
        /\ g.cnt["OPEN"] = f.cnt["OPEN"] - 1 /\ g.cnt["ACTIVE"] = f.cnt["ACTIVE"]
        /\ g.cnt["ZRWA"] = f.cnt["ZRWA"]
    BY <1>0, <2>1, <2>2, Release DEF Resources
  <2> DEFINE y == g.zone[z]
  <2>4. y = [state |-> "closed", wp |-> x.wp, zrwav |-> x.zrwav]
    BY <2>2, <2>3
  <2> HIDE DEF g, x
  <2>5. /\ OpenOf(x) = 1 /\ OpenOf(y) = 0 /\ ActiveOf(x) = 1 /\ ActiveOf(y) = 1
        /\ ZrwaOf(x) = ZrwaOf(y) /\ DescOK(y) /\ ZrwaOf(x) \in Int
    BY <1>0, <1>2, <2>4 DEF OpenOf, ActiveOf, ZrwaOf, One, Active, Opened, DescOK
  <2>6. Pending(y) = Pending(x)
    BY <1>2, <2>4 DEF Pending, Opened
  <2>7. Machine!Managed("close", View(x), View(y))
    BY <1>2, <2>4 DEF View, Machine!Managed, Machine!Opened, Opened
  <2>8. Moved(f, g, z)
    BY <1>0, <2>2, <2>3, <2>5 DEF Moved, x
  <2> QED BY <1>p, <2>3, <2>6, <2>7, <2>8 DEF Effect, x, g
<1> QED BY <1>1, <1>2

\* A command that does nothing.
LEMMA NoEffect ==
  ASSUME NEW f, NEW z \in Zones, NEW action, Legal(f)
  PROVE  Effect(f, f, z, action)
<1> DEFINE x == f.zone[z]
<1>0. /\ f \in Ftl /\ DescOK(x) /\ x.wp \in Nat /\ ONESHOT \in Nat /\ ONESHOT > 0
      /\ f.cnt["OPEN"] \in Int /\ f.cnt["ACTIVE"] \in Int /\ f.cnt["ZRWA"] \in Int
      /\ f.cnt["OPEN"] <= MAX_OPEN /\ f.cnt["ACTIVE"] <= MAX_ACTIVE /\ f.cnt["ZRWA"] <= MAX_ZRWA
  BY ZoneFacts
<1>1. Pending(x) \in Int /\ OpenOf(x) \in Int /\ ActiveOf(x) \in Int /\ ZrwaOf(x) \in Int
  BY <1>0 DEF Pending, OpenOf, ActiveOf, ZrwaOf, One
<1> QED BY <1>0, <1>1 DEF Effect, Moved

\* finish_zone.
LEMMA FinishZone ==
  ASSUME NEW f, NEW z \in Zones, Legal(f)
  PROVE  Effect(f, finish_zone(f, z), z, "finish")
<1> DEFINE x == f.zone[z]
           r == release_all(f, z)
           g == finish_zone(f, z)
           y == g.zone[z]
<1>0. /\ f \in Ftl /\ "full" \in States /\ x.state \in States /\ DescOK(x)
      /\ f.cnt["OPEN"] \in Int /\ f.cnt["ACTIVE"] \in Int /\ f.cnt["ZRWA"] \in Int
      /\ f.cnt["OPEN"] <= MAX_OPEN /\ f.cnt["ACTIVE"] <= MAX_ACTIVE /\ f.cnt["ZRWA"] <= MAX_ZRWA
      /\ MAX_OPEN \in Nat /\ MAX_ACTIVE \in Nat /\ MAX_ZRWA \in Nat
      /\ x.wp \in Nat /\ ONESHOT \in Nat /\ ONESHOT > 0
  BY ZoneFacts DEF States
<1>1. /\ r \in Ftl /\ r.zone = f.zone /\ r.wb = f.wb
      /\ r.cnt["OPEN"] = f.cnt["OPEN"] - OpenOf(x)
      /\ r.cnt["ACTIVE"] = f.cnt["ACTIVE"] - ActiveOf(x)
      /\ r.cnt["ZRWA"] = f.cnt["ZRWA"] - ZrwaOf(x)
  BY ReleaseAll
<1>2. g = change_state(r, z, "full")
  BY DEF finish_zone
<1> HIDE DEF r, g
<1>3. /\ g \in Ftl /\ g.cnt = r.cnt /\ g.wb = f.wb
      /\ y = [state |-> "full", wp |-> x.wp, zrwav |-> x.zrwav]
      /\ \A o \in Zones \ {z} : g.zone[o] = f.zone[o]
  BY <1>0, <1>1, <1>2, ChangeState
<1> HIDE DEF x, y
<1>4. /\ OpenOf(y) = 0 /\ ActiveOf(y) = 0 /\ ZrwaOf(y) = 0 /\ DescOK(y)
      /\ OpenOf(x) \in {0, 1} /\ ActiveOf(x) \in {0, 1} /\ ZrwaOf(x) \in {0, 1}
  BY <1>0, <1>3 DEF OpenOf, ActiveOf, ZrwaOf, One, Active, Opened, DescOK
<1>5. Pending(y) = 0 /\ Pending(x) \in Nat
  BY <1>0, <1>3 DEF Pending
<1>6. View(y) = View(x) \/ Machine!Managed("finish", View(x), View(y))
  BY <1>0, <1>3 DEF View, Machine!Managed, Machine!Active, Machine!Opened, Opened, States, Active
<1>7. Moved(f, g, z)
  BY <1>0, <1>1, <1>3, <1>4 DEF Moved, x, y
<1> QED BY <1>3, <1>5, <1>6, <1>7 DEF Effect, x, y, g

\* reset_zone.
LEMMA ResetZone ==
  ASSUME NEW f, NEW z \in Zones, Legal(f)
  PROVE  Effect(f, reset_zone(f, z), z, "reset")
<1> DEFINE x == f.zone[z]
           r == release_all(f, z)
           g == reset_zone(f, z)
           y == g.zone[z]
           d == [state |-> "empty", wp |-> 0, zrwav |-> 0]
<1>0. /\ f \in Ftl /\ x.state \in States
      /\ f.cnt["OPEN"] \in Int /\ f.cnt["ACTIVE"] \in Int /\ f.cnt["ZRWA"] \in Int
      /\ f.cnt["OPEN"] <= MAX_OPEN /\ f.cnt["ACTIVE"] <= MAX_ACTIVE /\ f.cnt["ZRWA"] <= MAX_ZRWA
      /\ MAX_OPEN \in Nat /\ MAX_ACTIVE \in Nat /\ MAX_ZRWA \in Nat
      /\ x.wp \in Nat /\ ONESHOT \in Nat /\ ONESHOT > 0 /\ CAPACITY \in Nat /\ CAPACITY # 0
  BY ZoneFacts
<1>1. /\ r \in Ftl /\ r.zone = f.zone /\ r.wb = f.wb
      /\ r.cnt["OPEN"] = f.cnt["OPEN"] - OpenOf(x)
      /\ r.cnt["ACTIVE"] = f.cnt["ACTIVE"] - ActiveOf(x)
      /\ r.cnt["ZRWA"] = f.cnt["ZRWA"] - ZrwaOf(x)
  BY ReleaseAll
<1>d. d \in Desc /\ ZRWA_BUFFER \in Int
  BY <1>0, SizesAssumption DEF Desc, States
<1>2. g = [r EXCEPT !.zone[z] = d, !.zbuf[z] = ZRWA_BUFFER]
  BY DEF reset_zone
<1> HIDE DEF r, g, d
<1>3. /\ g \in Ftl /\ g.cnt = r.cnt /\ g.wb = f.wb /\ y = d
      /\ \A o \in Zones \ {z} : g.zone[o] = f.zone[o]
  <2> DEFINE Z == [r.zone EXCEPT ![z] = d]
             B == [r.zbuf EXCEPT ![z] = ZRWA_BUFFER]
  <2>1. r.zone \in [Zones -> Desc] /\ r.zbuf \in [Zones -> Int]
    BY <1>1 DEF Ftl
  <2>2. /\ Z \in [Zones -> Desc] /\ B \in [Zones -> Int]
        /\ Z[z] = d /\ \A o \in Zones \ {z} : Z[o] = f.zone[o]
    BY <1>1, <1>d, <2>1
  <2> DEFINE q == [r EXCEPT !.zone = Z]
  <2>3. g = [q EXCEPT !.zbuf = B]
    BY <1>1, <1>2 DEF Ftl
  <2> HIDE DEF Z, B
  <2>4. g \in Ftl /\ g.zone = Z /\ g.cnt = r.cnt /\ g.wb = r.wb
    <3>1. r \in Ftl /\ Z \in [Zones -> Desc] /\ B \in [Zones -> Int]
      BY <1>1, <2>2
    <3>2. q \in Ftl /\ q.zone = Z /\ q.cnt = r.cnt /\ q.wb = r.wb
      BY <3>1 DEF Ftl
    <3> HIDE DEF q
    <3> QED BY <3>1, <3>2, <2>3 DEF Ftl
  <2> QED BY <1>1, <2>2, <2>4
<1> HIDE DEF x, y
<1>4. /\ OpenOf(y) = 0 /\ ActiveOf(y) = 0 /\ ZrwaOf(y) = 0 /\ DescOK(y)
      /\ OpenOf(x) \in {0, 1} /\ ActiveOf(x) \in {0, 1} /\ ZrwaOf(x) \in {0, 1}
  BY <1>0, <1>3 DEF OpenOf, ActiveOf, ZrwaOf, One, Active, Opened, DescOK, d
<1>5. Pending(y) = 0 /\ Pending(x) \in Nat
  BY <1>0, <1>3 DEF Pending, d
<1>6. Machine!Managed("reset", View(x), View(y))
  BY <1>0, <1>3 DEF View, Machine!Managed, d
<1>7. Moved(f, g, z)
  BY <1>0, <1>1, <1>3, <1>4 DEF Moved, x, y
<1> QED BY <1>3, <1>5, <1>6, <1>7 DEF Effect, x, y, g

\* The limits of the three resources.
LEMMA Limits ==
  ASSUME NEW f
  PROVE  /\ is_full(f, "OPEN") <=> f.cnt["OPEN"] = MAX_OPEN
         /\ is_full(f, "ACTIVE") <=> f.cnt["ACTIVE"] = MAX_ACTIVE
         /\ is_full(f, "ZRWA") <=> f.cnt["ZRWA"] = MAX_ZRWA
<1>1. total_cnt("OPEN") = MAX_OPEN /\ total_cnt("ACTIVE") = MAX_ACTIVE /\ total_cnt("ZRWA") = MAX_ZRWA
  BY DEF total_cnt
<1> QED BY <1>1 DEF is_full

\* An empty zone is opened explicitly, with or without a random write area.
LEMMA OpenEmpty ==
  ASSUME NEW f, NEW z \in Zones, NEW zrwa \in {0, 1}, Legal(f), f.zone[z].state = "empty"
  PROVE  Effect(f, open_empty(f, z, zrwa), z, "open")
<1> DEFINE x == f.zone[z]
           g == open_empty(f, z, zrwa)
           y == g.zone[z]
<1>0. /\ f \in Ftl /\ x \in Desc /\ DescOK(x) /\ x.wp \in Nat /\ x.zrwav \in {0, 1}
      /\ f.zone \in [Zones -> Desc]
      /\ f.cnt["OPEN"] \in Int /\ f.cnt["ACTIVE"] \in Int /\ f.cnt["ZRWA"] \in Int
      /\ f.cnt["OPEN"] <= MAX_OPEN /\ f.cnt["ACTIVE"] <= MAX_ACTIVE /\ f.cnt["ZRWA"] <= MAX_ZRWA
      /\ MAX_OPEN \in Nat /\ MAX_ACTIVE \in Nat /\ MAX_ZRWA \in Nat
      /\ ONESHOT \in Nat /\ ONESHOT > 0 /\ CAPACITY \in Nat /\ CAPACITY # 0
  BY ZoneFacts
<1>1. x.wp = 0 /\ x.zrwav = 0 /\ x.state = "empty"
  BY <1>0 DEF DescOK
<1>2. CASE is_full(f, "ACTIVE") \/ is_full(f, "OPEN") \/ (zrwa = 1 /\ is_full(f, "ZRWA"))
  <2>1. g = f
    BY <1>2 DEF open_empty
  <2> QED BY <2>1, NoEffect
<1>3. CASE ~(is_full(f, "ACTIVE") \/ is_full(f, "OPEN") \/ (zrwa = 1 /\ is_full(f, "ZRWA")))
  <2> DEFINE e == [f EXCEPT !.zone[z].zrwav = 1]
             h == IF zrwa = 1 THEN acquire(e, "ZRWA") ELSE f
             k == acquire(acquire(h, "ACTIVE"), "OPEN")
  <2>1. g = change_state(k, z, "expl")
    BY <1>3 DEF open_empty
  <2>2. /\ f.cnt["OPEN"] < MAX_OPEN /\ f.cnt["ACTIVE"] < MAX_ACTIVE
        /\ zrwa = 1 => f.cnt["ZRWA"] < MAX_ZRWA
    BY <1>0, <1>3, Limits
  <2>3. /\ e \in Ftl /\ e.cnt = f.cnt /\ e.wb = f.wb
        /\ e.zone[z] = [state |-> x.state, wp |-> x.wp, zrwav |-> 1]
        /\ \A o \in Zones \ {z} : e.zone[o] = f.zone[o]
    <3> DEFINE d == [state |-> x.state, wp |-> x.wp, zrwav |-> 1]
               Z == [f.zone EXCEPT ![z] = d]
    <3>1. [f.zone[z] EXCEPT !.zrwav = 1] = d /\ d \in Desc
      BY <1>0 DEF Desc
    <3>2. e = [f EXCEPT !.zone = Z]
      BY <1>0, <3>1 DEF Ftl
    <3> HIDE DEF d
    <3>3. Z \in [Zones -> Desc] /\ Z[z] = d /\ \A o \in Zones \ {z} : Z[o] = f.zone[o]
      BY <1>0, <3>1
    <3> HIDE DEF Z
    <3>4. e \in Ftl /\ e.zone = Z /\ e.cnt = f.cnt /\ e.wb = f.wb
      BY <1>0, <3>2, <3>3 DEF Ftl
    <3> QED BY <3>3, <3>4 DEF d
  <2> HIDE DEF e
  <2>4. /\ h \in Ftl /\ h.wb = f.wb
        /\ h.zone[z].state = "empty" /\ h.zone[z].wp = 0 /\ h.zone[z].zrwav = zrwa
        /\ \A o \in Zones \ {z} : h.zone[o] = f.zone[o]
        /\ h.cnt["OPEN"] = f.cnt["OPEN"] /\ h.cnt["ACTIVE"] = f.cnt["ACTIVE"]
        /\ h.cnt["ZRWA"] = f.cnt["ZRWA"] + zrwa
    <3>1. CASE zrwa = 0
      BY <1>0, <1>1, <3>1
    <3>2. CASE zrwa = 1
      <4>1. h = acquire(e, "ZRWA") /\ "ZRWA" \in Resources
        BY <3>2 DEF Resources
      <4>2. /\ h \in Ftl /\ h.zone = e.zone /\ h.wb = e.wb
            /\ h.cnt["ZRWA"] = e.cnt["ZRWA"] + 1
            /\ h.cnt["OPEN"] = e.cnt["OPEN"] /\ h.cnt["ACTIVE"] = e.cnt["ACTIVE"]
        BY <2>3, <4>1, Acquire DEF Resources
      <4> QED BY <1>1, <2>3, <3>2, <4>2
    <3> QED BY <3>1, <3>2
  <2> HIDE DEF h
  <2>5. /\ k \in Ftl /\ k.wb = f.wb /\ k.zone = h.zone
        /\ k.cnt["OPEN"] = f.cnt["OPEN"] + 1 /\ k.cnt["ACTIVE"] = f.cnt["ACTIVE"] + 1
        /\ k.cnt["ZRWA"] = f.cnt["ZRWA"] + zrwa
    <3> DEFINE a == acquire(h, "ACTIVE")
    <3>1. /\ a \in Ftl /\ a.wb = f.wb /\ a.zone = h.zone
          /\ a.cnt["OPEN"] = f.cnt["OPEN"] /\ a.cnt["ACTIVE"] = f.cnt["ACTIVE"] + 1
          /\ a.cnt["ZRWA"] = f.cnt["ZRWA"] + zrwa
      BY <2>4, Acquire DEF Resources
    <3> HIDE DEF a
    <3>2. k = acquire(a, "OPEN")
      BY DEF a
    <3> HIDE DEF k
    <3> QED BY <3>1, <3>2, Acquire DEF Resources
  <2> HIDE DEF k, g
  <2>6. "expl" \in States
    BY DEF States, Active, Opened
  <2>7. /\ g \in Ftl /\ g.cnt = k.cnt /\ g.wb = f.wb
        /\ y = [state |-> "expl", wp |-> 0, zrwav |-> zrwa]
        /\ \A o \in Zones \ {z} : g.zone[o] = f.zone[o]
    BY <2>1, <2>4, <2>5, <2>6, ChangeState
  <2> HIDE DEF x, y
  <2>8. /\ OpenOf(x) = 0 /\ OpenOf(y) = 1 /\ ActiveOf(x) = 0 /\ ActiveOf(y) = 1
        /\ ZrwaOf(x) = 0 /\ ZrwaOf(y) = zrwa
    BY <1>1, <2>7 DEF OpenOf, ActiveOf, ZrwaOf, One, Active, Opened
  <2>9. DescOK(y)
    <3>1. zrwa = 1 => MAX_ZRWA # 0
      BY <1>0, <2>2 DEF Legal
    <3> QED BY <1>0, <2>7, <3>1 DEF DescOK
  <2>10. Pending(y) <= Pending(x)
    BY <1>0, <1>1, <2>7 DEF Pending
  <2>11. Machine!Managed("open", View(x), View(y))
    BY <1>1, <2>7 DEF View, Machine!Managed
  <2>12. Moved(f, g, z)
    BY <1>0, <2>2, <2>5, <2>7, <2>8, <2>9 DEF Moved, x, y
  <2> QED BY <2>7, <2>10, <2>11, <2>12 DEF Effect, x, y, g
<1> QED BY <1>2, <1>3

\* A closed zone is opened again, by a command or by a write.
LEMMA Reopen ==
  ASSUME NEW f, NEW z \in Zones, NEW s \in Opened, Legal(f),
         f.zone[z].state = "closed", ~is_full(f, "OPEN")
  PROVE  LET g == change_state(acquire(f, "OPEN"), z, s) IN
         /\ Moved(f, g, z) /\ g.wb = f.wb /\ g.zbuf = f.zbuf /\ g.bug = f.bug
         /\ g.zone[z] = [state |-> s, wp |-> f.zone[z].wp, zrwav |-> f.zone[z].zrwav]
<1> DEFINE x == f.zone[z]
           a == acquire(f, "OPEN")
           g == change_state(a, z, s)
           y == g.zone[z]
<1>0. /\ f \in Ftl /\ DescOK(x) /\ x.zrwav \in {0, 1} /\ x.state = "closed"
      /\ f.cnt["OPEN"] \in Int /\ f.cnt["ACTIVE"] \in Int /\ f.cnt["ZRWA"] \in Int
      /\ f.cnt["OPEN"] <= MAX_OPEN /\ f.cnt["ACTIVE"] <= MAX_ACTIVE /\ f.cnt["ZRWA"] <= MAX_ZRWA
      /\ MAX_OPEN \in Nat
  BY ZoneFacts
<1>1. f.cnt["OPEN"] < MAX_OPEN
  BY <1>0, Limits
<1>2. /\ a \in Ftl /\ a.zone = f.zone /\ a.wb = f.wb /\ a.zbuf = f.zbuf /\ a.bug = f.bug
      /\ a.cnt["OPEN"] = f.cnt["OPEN"] + 1
      /\ a.cnt["ACTIVE"] = f.cnt["ACTIVE"] /\ a.cnt["ZRWA"] = f.cnt["ZRWA"]
  BY <1>0, Acquire DEF Resources
<1> HIDE DEF a
<1>3. s \in States
  BY DEF States, Active
<1>4. /\ g \in Ftl /\ g.cnt = a.cnt /\ g.wb = f.wb /\ g.zbuf = f.zbuf /\ g.bug = f.bug
      /\ y = [state |-> s, wp |-> x.wp, zrwav |-> x.zrwav]
      /\ \A o \in Zones \ {z} : g.zone[o] = f.zone[o]
  BY <1>2, <1>3, ChangeState
<1> HIDE DEF g, x, y
<1>5. /\ OpenOf(x) = 0 /\ OpenOf(y) = 1 /\ ActiveOf(x) = 1 /\ ActiveOf(y) = 1
      /\ ZrwaOf(x) = ZrwaOf(y) /\ ZrwaOf(x) \in Int /\ DescOK(y)
  BY <1>0, <1>4 DEF OpenOf, ActiveOf, ZrwaOf, One, Active, Opened, DescOK
<1>6. Moved(f, g, z)
  BY <1>0, <1>1, <1>2, <1>4, <1>5 DEF Moved, x, y
<1> QED BY <1>4, <1>6 DEF g, a, x, y

\* open_zone.
LEMMA OpenZone ==
  ASSUME NEW f, NEW z \in Zones, NEW zrwa \in {0, 1}, Legal(f)
  PROVE  Effect(f, open_zone(f, z, zrwa), z, "open")
<1> DEFINE x == f.zone[z]
           g == open_zone(f, z, zrwa)
           y == g.zone[z]
<1>0. /\ f \in Ftl /\ DescOK(x) /\ x.wp \in Nat /\ x.zrwav \in {0, 1} /\ x.state \in States
      /\ f.cnt["OPEN"] \in Int /\ f.cnt["ACTIVE"] \in Int /\ f.cnt["ZRWA"] \in Int
      /\ f.cnt["OPEN"] <= MAX_OPEN /\ f.cnt["ACTIVE"] <= MAX_ACTIVE /\ f.cnt["ZRWA"] <= MAX_ZRWA
      /\ ONESHOT \in Nat /\ ONESHOT > 0
  BY ZoneFacts
<1>p. Pending(x) \in Int
  BY <1>0 DEF Pending
<1>1. CASE x.state = "empty"
  <2>1. g = open_empty(f, z, zrwa)
    BY <1>1 DEF open_zone
  <2> QED BY <1>1, <2>1, OpenEmpty
<1>2. CASE x.state = "closed" /\ ~is_full(f, "OPEN")
  <2>1. g = change_state(acquire(f, "OPEN"), z, "expl")
    BY <1>2 DEF open_zone
  <2>2. "expl" \in Opened
    BY DEF Opened
  <2>3. /\ Moved(f, g, z) /\ g.wb = f.wb
        /\ y = [state |-> "expl", wp |-> x.wp, zrwav |-> x.zrwav]
    BY <1>2, <2>1, <2>2, Reopen
  <2> HIDE DEF g, y, x
  <2>4. Pending(y) = Pending(x) /\ Machine!Managed("open", View(x), View(y))
    BY <1>2, <2>3 DEF Pending, View, Machine!Managed
  <2> QED BY <1>p, <2>3, <2>4 DEF Effect, g, y, x
<1>3. CASE x.state = "impl"
  <2>1. g = change_state(f, z, "expl")
    BY <1>3 DEF open_zone
  <2>2. "expl" \in States
    BY DEF States, Active, Opened
  <2>3. /\ g \in Ftl /\ g.cnt = f.cnt /\ g.wb = f.wb
        /\ y = [state |-> "expl", wp |-> x.wp, zrwav |-> x.zrwav]
        /\ \A o \in Zones \ {z} : g.zone[o] = f.zone[o]
    BY <1>0, <2>1, <2>2, ChangeState
  <2> HIDE DEF g, y, x
  <2>4. Pending(y) = Pending(x) /\ Machine!Managed("open", View(x), View(y))
    BY <1>3, <2>3 DEF Pending, View, Machine!Managed
  <2>5. /\ OpenOf(x) = 1 /\ OpenOf(y) = 1 /\ ActiveOf(x) = 1 /\ ActiveOf(y) = 1
        /\ ZrwaOf(x) = ZrwaOf(y) /\ ZrwaOf(x) \in Int /\ DescOK(y)
    BY <1>0, <1>3, <2>3 DEF OpenOf, ActiveOf, ZrwaOf, One, Active, Opened, DescOK
  <2>6. Moved(f, g, z)
    BY <1>0, <2>3, <2>5 DEF Moved, x, y
  <2> QED BY <1>p, <2>3, <2>4, <2>6 DEF Effect, g, y, x
<1>4. CASE ~(x.state = "empty" \/ (x.state = "closed" /\ ~is_full(f, "OPEN")) \/ x.state = "impl")
  <2>1. g = f
    BY <1>4 DEF open_zone
  <2> QED BY <2>1, NoEffect
<1> QED BY <1>1, <1>2, <1>3, <1>4

\* The write pointer of zone z set to w.
LEMMA SetWp ==
  ASSUME NEW f \in Ftl, NEW z \in Zones, NEW w \in 0 .. CAPACITY
  PROVE  LET g == [f EXCEPT !.zone[z].wp = w] IN
         /\ g \in Ftl /\ g.cnt = f.cnt /\ g.wb = f.wb /\ g.zbuf = f.zbuf /\ g.bug = f.bug
         /\ g.zone[z] = [state |-> f.zone[z].state, wp |-> w, zrwav |-> f.zone[z].zrwav]
         /\ \A o \in Zones \ {z} : g.zone[o] = f.zone[o]
<1> DEFINE d == [state |-> f.zone[z].state, wp |-> w, zrwav |-> f.zone[z].zrwav]
           Z == [f.zone EXCEPT ![z] = d]
           g == [f EXCEPT !.zone[z].wp = w]
<1>0. f.zone \in [Zones -> Desc] /\ f.zone[z] \in Desc
  BY DEF Ftl
<1>1. [f.zone[z] EXCEPT !.wp = w] = d /\ d \in Desc
  BY <1>0 DEF Desc
<1>2. g = [f EXCEPT !.zone = Z]
  BY <1>0, <1>1 DEF Ftl
<1> HIDE DEF d
<1>3. Z \in [Zones -> Desc] /\ Z[z] = d /\ \A o \in Zones \ {z} : Z[o] = f.zone[o]
  BY <1>0, <1>1
<1> HIDE DEF Z
<1>4. /\ g \in Ftl /\ g.zone = Z /\ g.cnt = f.cnt /\ g.wb = f.wb
      /\ g.zbuf = f.zbuf /\ g.bug = f.bug
  BY <1>0, <1>2, <1>3 DEF Ftl
<1> QED BY <1>3, <1>4 DEF d

\* flush_explicit_zrwa.
LEMMA Flush ==
  ASSUME NEW f, NEW z \in Zones, NEW last \in 0 .. CAPACITY - 1, Legal(f)
  PROVE  Effect(f, flush_explicit_zrwa(f, z, last), z, "flush")
<1> DEFINE x == f.zone[z]
           g == flush_explicit_zrwa(f, z, last)
           y == g.zone[z]
<1>0. /\ f \in Ftl /\ DescOK(x) /\ x.wp \in Nat /\ x.zrwav \in {0, 1} /\ x.state \in States
      /\ f.cnt["OPEN"] \in Int /\ f.cnt["ACTIVE"] \in Int /\ f.cnt["ZRWA"] \in Int
      /\ f.cnt["OPEN"] <= MAX_OPEN /\ f.cnt["ACTIVE"] <= MAX_ACTIVE /\ f.cnt["ZRWA"] <= MAX_ZRWA
      /\ MAX_OPEN \in Nat /\ MAX_ACTIVE \in Nat /\ MAX_ZRWA \in Nat /\ CAPACITY \in Nat
  BY ZoneFacts, ZenonT(30)
<1>1. CASE ~flush_ok(f, z, last)
  <2>1. g = f
    BY <1>1 DEF flush_explicit_zrwa
  <2> QED BY <2>1, NoEffect
<1>2. CASE flush_ok(f, z, last)
  <2>0. x.zrwav = 1 /\ last >= x.wp /\ x.state \in Active
    BY <1>2 DEF flush_ok, Active
  <2>n. last \in Nat /\ last + 1 \in 0 .. CAPACITY
    BY <1>0
  <2>1. CASE last + 1 < CAPACITY
    <3>1. g = [f EXCEPT !.zone[z].wp = last + 1]
      BY <1>2, <2>1 DEF flush_explicit_zrwa
    <3> DEFINE w == last + 1
    <3>w. w \in 0 .. CAPACITY
      BY <2>n
    <3> HIDE DEF w
    <3>2. /\ g \in Ftl /\ g.cnt = f.cnt /\ g.wb = f.wb
          /\ y = [state |-> x.state, wp |-> w, zrwav |-> x.zrwav]
          /\ \A o \in Zones \ {z} : g.zone[o] = f.zone[o]
      BY <1>0, <3>1, <3>w, SetWp DEF w
    <3> HIDE DEF g, x, y
    <3>3. /\ OpenOf(y) = OpenOf(x) /\ ActiveOf(y) = ActiveOf(x) /\ ZrwaOf(y) = ZrwaOf(x)
          /\ OpenOf(x) \in Int /\ ActiveOf(x) \in Int /\ ZrwaOf(x) \in Int
      BY <3>2 DEF OpenOf, ActiveOf, ZrwaOf, One
    <3>4. DescOK(y) /\ Pending(y) = 0 /\ Pending(x) = 0
      BY <1>0, <2>0, <2>1, <3>2 DEF DescOK, Pending, Active, Opened, w
    <3>5. Machine!Managed("flush", View(x), View(y))
      BY <1>0, <2>0, <2>1, <2>n, <3>2
         DEF View, Machine!Managed, Machine!Active, Machine!Opened, Active, Opened, w
    <3>6. Moved(f, g, z)
      BY <1>0, <3>2, <3>3, <3>4 DEF Moved, x, y
    <3> QED BY <3>2, <3>4, <3>5, <3>6 DEF Effect, g, x, y
  <2>2. CASE ~(last + 1 < CAPACITY)
    <3> DEFINE r == release_all(f, z)
               q == change_state(r, z, "full")
    <3>1. g = [q EXCEPT !.zone[z].wp = CAPACITY]
      <4>1. last + 1 = CAPACITY
        BY <1>0, <2>n, <2>2
      <4> HIDE DEF r
      <4> QED BY <1>2, <2>2, <4>1 DEF flush_explicit_zrwa, r
    <3>2. /\ r \in Ftl /\ r.zone = f.zone /\ r.wb = f.wb
          /\ r.cnt["OPEN"] = f.cnt["OPEN"] - OpenOf(x)
          /\ r.cnt["ACTIVE"] = f.cnt["ACTIVE"] - ActiveOf(x)
          /\ r.cnt["ZRWA"] = f.cnt["ZRWA"] - ZrwaOf(x)
      BY ReleaseAll
    <3> HIDE DEF r
    <3>3. "full" \in States /\ CAPACITY \in 0 .. CAPACITY
      BY <1>0 DEF States
    <3>4. /\ q \in Ftl /\ q.cnt = r.cnt /\ q.wb = f.wb
          /\ q.zone[z] = [state |-> "full", wp |-> x.wp, zrwav |-> x.zrwav]
          /\ \A o \in Zones \ {z} : q.zone[o] = f.zone[o]
      BY <3>2, <3>3, ChangeState
    <3> HIDE DEF q, g
    <3>5. /\ g \in Ftl /\ g.cnt = r.cnt /\ g.wb = f.wb
          /\ y = [state |-> "full", wp |-> CAPACITY, zrwav |-> x.zrwav]
          /\ \A o \in Zones \ {z} : g.zone[o] = f.zone[o]
      BY <3>1, <3>3, <3>4, SetWp
    <3> HIDE DEF x, y
    <3>6. /\ OpenOf(y) = 0 /\ ActiveOf(y) = 0 /\ ZrwaOf(y) = 0 /\ DescOK(y)
          /\ OpenOf(x) \in {0, 1} /\ ActiveOf(x) \in {0, 1} /\ ZrwaOf(x) \in {0, 1}
      BY <1>0, <3>5 DEF OpenOf, ActiveOf, ZrwaOf, One, Active, Opened, DescOK
    <3>7. Pending(y) = 0 /\ Pending(x) = 0
      BY <2>0, <3>5 DEF Pending
    <3>8. Machine!Managed("flush", View(x), View(y))
      BY <1>0, <2>0, <2>n, <3>5
         DEF View, Machine!Managed, Machine!Active, Machine!Opened, Active, Opened
    <3>9. Moved(f, g, z)
      BY <1>0, <3>2, <3>5, <3>6 DEF Moved, x, y
    <3> QED BY <3>5, <3>7, <3>8, <3>9 DEF Effect, g, x, y
  <2> QED BY <2>1, <2>2
<1> QED BY <1>1, <1>2

\* Any Zone Management Send to one zone.
LEMMA Send ==
  ASSUME NEW f, NEW z \in Zones, NEW off \in 0 .. CAPACITY - 1, NEW action \in Actions,
         NEW option \in {0, 1}, Legal(f)
  PROVE  /\ Effect(f, zmgmt_send(f, z, off, action, option), z, action)
         /\ action = "offline" => zmgmt_send(f, z, off, action, option) = f
<1> DEFINE g == zmgmt_send(f, z, off, action, option)
<1>1. CASE action = "close"
  <2>1. g = close_zone(f, z)
    BY <1>1 DEF zmgmt_send
  <2> QED BY <1>1, <2>1, CloseZone
<1>2. CASE action = "finish"
  <2>1. g = finish_zone(f, z)
    BY <1>2 DEF zmgmt_send
  <2> QED BY <1>2, <2>1, FinishZone
<1>3. CASE action = "open"
  <2>1. g = open_zone(f, z, option)
    BY <1>3 DEF zmgmt_send
  <2> QED BY <1>3, <2>1, OpenZone
<1>4. CASE action = "reset"
  <2>1. g = reset_zone(f, z)
    BY <1>4 DEF zmgmt_send
  <2> QED BY <1>4, <2>1, ResetZone
<1>5. CASE action = "offline"
  <2>1. g = f
    BY <1>5 DEF zmgmt_send, offline_zone
  <2> QED BY <2>1, NoEffect
<1>6. CASE action = "flush"
  <2>1. g = flush_explicit_zrwa(f, z, off)
    BY <1>6 DEF zmgmt_send
  <2> QED BY <1>6, <2>1, Flush
<1> QED BY <1>1, <1>2, <1>3, <1>4, <1>5, <1>6 DEF Actions

-----------------------------------------------------------------------------
(* Writes                                                                  *)

\* Two operations on a zone, one after the other.
LEMMA MovedTwice ==
  ASSUME NEW f, NEW g, NEW h, NEW z \in Zones, Legal(f), Moved(f, g, z), Moved(g, h, z)
  PROVE  Moved(f, h, z)
<1> DEFINE a == OpenOf(f.zone[z])    b == OpenOf(g.zone[z])    c == OpenOf(h.zone[z])
           i == ActiveOf(f.zone[z])  j == ActiveOf(g.zone[z])  k == ActiveOf(h.zone[z])
           p == ZrwaOf(f.zone[z])    q == ZrwaOf(g.zone[z])    r == ZrwaOf(h.zone[z])
<1>1. /\ {a, b, c, i, j, k, p, q, r} \subseteq Int
      /\ f \in Ftl /\ g \in Ftl /\ h \in Ftl
  BY DEF Legal, Moved, OpenOf, ActiveOf, ZrwaOf, One
<1>2. /\ f.cnt["OPEN"] \in Int /\ f.cnt["ACTIVE"] \in Int /\ f.cnt["ZRWA"] \in Int
      /\ g.cnt["OPEN"] \in Int /\ g.cnt["ACTIVE"] \in Int /\ g.cnt["ZRWA"] \in Int
      /\ h.cnt["OPEN"] \in Int /\ h.cnt["ACTIVE"] \in Int /\ h.cnt["ZRWA"] \in Int
  BY <1>1 DEF Ftl, Resources
<1>3. /\ g.cnt["OPEN"] = f.cnt["OPEN"] + b - a /\ h.cnt["OPEN"] = g.cnt["OPEN"] + c - b
      /\ g.cnt["ACTIVE"] = f.cnt["ACTIVE"] + j - i /\ h.cnt["ACTIVE"] = g.cnt["ACTIVE"] + k - j
      /\ g.cnt["ZRWA"] >= f.cnt["ZRWA"] + q - p /\ h.cnt["ZRWA"] >= g.cnt["ZRWA"] + r - q
  BY DEF Moved
<1> HIDE DEF a, b, c, i, j, k, p, q, r
<1>4. /\ h.cnt["OPEN"] = f.cnt["OPEN"] + c - a /\ h.cnt["ACTIVE"] = f.cnt["ACTIVE"] + k - i
      /\ h.cnt["ZRWA"] >= f.cnt["ZRWA"] + r - p
  BY <1>1, <1>2, <1>3
<1> QED BY <1>4 DEF Moved, a, c, i, k, p, r

\* The buffers changed and nothing else.
LEMMA Buffered ==
  ASSUME NEW f, NEW g \in Ftl, NEW z \in Zones, Legal(f), g.zone = f.zone, g.cnt = f.cnt
  PROVE  Moved(f, g, z)
<1> DEFINE x == f.zone[z]
<1>0. /\ DescOK(x)
      /\ f.cnt["OPEN"] \in Int /\ f.cnt["ACTIVE"] \in Int /\ f.cnt["ZRWA"] \in Int
      /\ f.cnt["OPEN"] <= MAX_OPEN /\ f.cnt["ACTIVE"] <= MAX_ACTIVE /\ f.cnt["ZRWA"] <= MAX_ZRWA
  BY ZoneFacts
<1>1. OpenOf(x) \in Int /\ ActiveOf(x) \in Int /\ ZrwaOf(x) \in Int
  BY DEF OpenOf, ActiveOf, ZrwaOf, One
<1> QED BY <1>0, <1>1 DEF Moved

\* A write opens the zone that its checks let it open.
LEMMA OpenForWrite ==
  ASSUME NEW f, NEW z \in Zones, Legal(f), may_open(f, z)
  PROVE  LET g == open_for_write(f, z)
             x == f.zone[z]
         IN
         /\ Moved(f, g, z) /\ g.wb = f.wb /\ g.zbuf = f.zbuf /\ g.bug = f.bug
         /\ g.zone[z] = [state |-> IF x.state = "expl" THEN "expl" ELSE "impl",
                         wp |-> x.wp, zrwav |-> x.zrwav]
         /\ x.state \in Active \cup {"empty"}
<1> DEFINE x == f.zone[z]
           g == open_for_write(f, z)
           y == g.zone[z]
<1>0. /\ f \in Ftl /\ x \in Desc /\ DescOK(x) /\ x.zrwav \in {0, 1} /\ x.state \in States
      /\ f.cnt["OPEN"] \in Int /\ f.cnt["ACTIVE"] \in Int /\ f.cnt["ZRWA"] \in Int
      /\ f.cnt["OPEN"] <= MAX_OPEN /\ f.cnt["ACTIVE"] <= MAX_ACTIVE /\ f.cnt["ZRWA"] <= MAX_ZRWA
      /\ MAX_OPEN \in Nat /\ MAX_ACTIVE \in Nat /\ CAPACITY # 0
  BY ZoneFacts, ZenonT(30)
<1>1. CASE x.state = "empty"
  <2> DEFINE a == acquire(f, "ACTIVE")
             b == acquire(a, "OPEN")
  <2>1. ~is_full(f, "ACTIVE") /\ ~is_full(f, "OPEN") /\ g = change_state(b, z, "impl")
    BY <1>1 DEF may_open, open_for_write
  <2>2. f.cnt["OPEN"] < MAX_OPEN /\ f.cnt["ACTIVE"] < MAX_ACTIVE
    BY <1>0, <2>1, Limits
  <2>3. /\ a \in Ftl /\ a.zone = f.zone /\ a.wb = f.wb /\ a.zbuf = f.zbuf /\ a.bug = f.bug
        /\ a.cnt["OPEN"] = f.cnt["OPEN"] /\ a.cnt["ACTIVE"] = f.cnt["ACTIVE"] + 1
        /\ a.cnt["ZRWA"] = f.cnt["ZRWA"]
    BY <1>0, Acquire DEF Resources
  <2> HIDE DEF a
  <2>4. /\ b \in Ftl /\ b.zone = f.zone /\ b.wb = f.wb /\ b.zbuf = f.zbuf /\ b.bug = f.bug
        /\ b.cnt["OPEN"] = f.cnt["OPEN"] + 1 /\ b.cnt["ACTIVE"] = f.cnt["ACTIVE"] + 1
        /\ b.cnt["ZRWA"] = f.cnt["ZRWA"]
    BY <1>0, <2>3, Acquire DEF Resources
  <2> HIDE DEF b
  <2>5. "impl" \in States
    BY DEF States, Active, Opened
  <2>6. /\ g \in Ftl /\ g.cnt = b.cnt /\ g.wb = f.wb /\ g.zbuf = f.zbuf /\ g.bug = f.bug
        /\ y = [state |-> "impl", wp |-> x.wp, zrwav |-> x.zrwav]
        /\ \A o \in Zones \ {z} : g.zone[o] = f.zone[o]
    BY <2>1, <2>4, <2>5, ChangeState
  <2> HIDE DEF g, x, y
  <2>7. /\ OpenOf(x) = 0 /\ OpenOf(y) = 1 /\ ActiveOf(x) = 0 /\ ActiveOf(y) = 1
        /\ ZrwaOf(x) = 0 /\ ZrwaOf(y) = 0 /\ DescOK(y)
    BY <1>0, <1>1, <2>6 DEF OpenOf, ActiveOf, ZrwaOf, One, Active, Opened, DescOK
  <2>8. Moved(f, g, z)
    BY <1>0, <2>2, <2>4, <2>6, <2>7 DEF Moved, x, y
  <2> QED BY <1>1, <2>6, <2>8 DEF g, x, y
<1>2. CASE x.state = "closed"
  <2>1. ~is_full(f, "OPEN") /\ g = change_state(acquire(f, "OPEN"), z, "impl") /\ "impl" \in Opened
    BY <1>2 DEF may_open, open_for_write, Opened
  <2>2. /\ Moved(f, g, z) /\ g.wb = f.wb /\ g.zbuf = f.zbuf /\ g.bug = f.bug
        /\ y = [state |-> "impl", wp |-> x.wp, zrwav |-> x.zrwav]
    BY <1>2, <2>1, Reopen
  <2> QED BY <1>2, <2>2 DEF Active
<1>3. CASE x.state \in Opened
  <2>1. g = f
    BY <1>3 DEF open_for_write, Opened
  <2>2. y = [state |-> x.state, wp |-> x.wp, zrwav |-> x.zrwav]
    BY <1>0, <2>1 DEF Desc
  <2>3. Moved(f, g, z)
    BY <1>0, <2>1, Buffered
  <2> QED BY <1>3, <2>1, <2>2, <2>3 DEF Active, Opened
<1>4. x.state # "full"
  BY DEF may_open
<1> QED BY <1>0, <1>1, <1>2, <1>3, <1>4 DEF States, Active

\* increase_write_ptr on an open zone, up to its capacity.
LEMMA IncreaseWp ==
  ASSUME NEW f, NEW z \in Zones, NEW n \in Nat, Legal(f), f.zone[z].state \in Opened,
         f.zone[z].wp + n <= CAPACITY
  PROVE  LET g == increase_write_ptr(f, z, n)
             x == f.zone[z]
         IN
         /\ Moved(f, g, z) /\ g.wb = f.wb /\ g.zbuf = f.zbuf /\ g.bug = f.bug
         /\ g.zone[z] = [state |-> IF x.wp + n = CAPACITY THEN "full" ELSE x.state,
                         wp |-> x.wp + n, zrwav |-> x.zrwav]
<1> DEFINE x == f.zone[z]
           w == x.wp + n
           e == [f EXCEPT !.zone[z].wp = w]
           g == increase_write_ptr(f, z, n)
           y == g.zone[z]
<1>0. /\ f \in Ftl /\ x \in Desc /\ DescOK(x) /\ x.wp \in Nat /\ x.zrwav \in {0, 1}
      /\ f.zone \in [Zones -> Desc]
      /\ f.cnt["OPEN"] \in Int /\ f.cnt["ACTIVE"] \in Int /\ f.cnt["ZRWA"] \in Int
      /\ f.cnt["OPEN"] <= MAX_OPEN /\ f.cnt["ACTIVE"] <= MAX_ACTIVE /\ f.cnt["ZRWA"] <= MAX_ZRWA
      /\ MAX_OPEN \in Nat /\ MAX_ACTIVE \in Nat /\ MAX_ZRWA \in Nat /\ CAPACITY \in Nat
  BY ZoneFacts, ZenonT(30)
<1>w. w \in 0 .. CAPACITY
  BY <1>0
<1>g. g = IF e.zone[z].wp # CAPACITY THEN e
          ELSE change_state(release(release(e, "OPEN"), "ACTIVE"), z, "full")
  BY DEF increase_write_ptr
<1> HIDE DEF w, g
<1>1. /\ e \in Ftl /\ e.cnt = f.cnt /\ e.wb = f.wb /\ e.zbuf = f.zbuf /\ e.bug = f.bug
      /\ e.zone[z] = [state |-> x.state, wp |-> w, zrwav |-> x.zrwav]
      /\ \A o \in Zones \ {z} : e.zone[o] = f.zone[o]
  BY <1>0, <1>w, SetWp
<1> HIDE DEF e
<1>2. CASE w # CAPACITY
  <2>1. g = e
    BY <1>1, <1>2, <1>g
  <2>2. y = [state |-> x.state, wp |-> w, zrwav |-> x.zrwav]
    BY <1>1, <2>1
  <2> HIDE DEF x, y
  <2>3. /\ OpenOf(x) = OpenOf(y) /\ ActiveOf(x) = ActiveOf(y) /\ ZrwaOf(x) = ZrwaOf(y)
        /\ OpenOf(x) \in Int /\ ActiveOf(x) \in Int /\ ZrwaOf(x) \in Int
    BY <2>2 DEF OpenOf, ActiveOf, ZrwaOf, One
  <2>4. DescOK(y)
    BY <1>0, <1>2, <2>2, ZenonT(30) DEF DescOK, Opened, x
  <2>5. Moved(f, g, z)
    BY <1>0, <1>1, <2>1, <2>3, <2>4 DEF Moved, x, y
  <2> QED BY <1>1, <1>2, <2>1, <2>2, <2>5 DEF g, x, y, w
<1>3. CASE w = CAPACITY
  <2> DEFINE a == release(e, "OPEN")
             b == release(a, "ACTIVE")
  <2>1. g = change_state(b, z, "full")
    BY <1>1, <1>3, <1>g
  <2>2. /\ a \in Ftl /\ a.zone = e.zone /\ a.wb = f.wb /\ a.zbuf = f.zbuf /\ a.bug = f.bug
        /\ a.cnt["OPEN"] = f.cnt["OPEN"] - 1 /\ a.cnt["ACTIVE"] = f.cnt["ACTIVE"]
        /\ a.cnt["ZRWA"] = f.cnt["ZRWA"]
    BY <1>1, Release DEF Resources
  <2> HIDE DEF a
  <2>3. /\ b \in Ftl /\ b.zone = e.zone /\ b.wb = f.wb /\ b.zbuf = f.zbuf /\ b.bug = f.bug
        /\ b.cnt["OPEN"] = f.cnt["OPEN"] - 1 /\ b.cnt["ACTIVE"] = f.cnt["ACTIVE"] - 1
        /\ b.cnt["ZRWA"] = f.cnt["ZRWA"]
    BY <2>2, Release DEF Resources
  <2> HIDE DEF b
  <2>4. "full" \in States
    BY DEF States
  <2>5. /\ g \in Ftl /\ g.cnt = b.cnt /\ g.wb = f.wb /\ g.zbuf = f.zbuf /\ g.bug = f.bug
        /\ y = [state |-> "full", wp |-> w, zrwav |-> x.zrwav]
        /\ \A o \in Zones \ {z} : g.zone[o] = f.zone[o]
    BY <1>1, <2>1, <2>3, <2>4, ChangeState
  <2> HIDE DEF x, y
  <2>6. /\ OpenOf(x) = 1 /\ OpenOf(y) = 0 /\ ActiveOf(x) = 1 /\ ActiveOf(y) = 0
        /\ ZrwaOf(x) \in {0, 1} /\ ZrwaOf(y) = 0
    BY <2>5 DEF OpenOf, ActiveOf, ZrwaOf, One, Active, Opened, x
  <2>7. DescOK(y)
    BY <1>0, <2>5, ZenonT(30) DEF DescOK
  <2>8. Moved(f, g, z)
    BY <1>0, <2>3, <2>5, <2>6, <2>7 DEF Moved, x, y
  <2> QED BY <1>3, <2>5, <2>8 DEF g, x, y, w
<1> QED BY <1>2, <1>3

\* The blocks of the oneshot pages that a write completes are those written
\* and those pending before, less those pending after.
LEMMA Oneshots ==
  ASSUME NEW off \in Nat, NEW n \in Nat
  PROVE  /\ oneshots(off, n) \in Nat
         /\ ONESHOT * oneshots(off, n) = n - ((off + n) % ONESHOT) + (off % ONESHOT)
<1> DEFINE O == ONESHOT
           e == off + n
           p == off \div O
           q == e \div O
           r == off % O
           s == e % O
<1>0. O \in Nat \ {0}
  BY SizesAssumption
<1>1. /\ e \in Nat /\ p \in Nat /\ q \in Nat /\ r \in 0 .. O - 1 /\ s \in 0 .. O - 1
      /\ off = O * p + r
  BY <1>0
<1>2. e = O * q + s /\ oneshots(off, n) = q - p /\ e = off + n
  BY <1>0 DEF oneshots
<1> HIDE DEF O, e, p, q, r, s
<1>3. O * (q - p) = n - s + r
  BY <1>0, <1>1, <1>2
<1>4. q >= p
  <2>1. SUFFICES ASSUME q < p PROVE FALSE
    BY <1>1
  <2> DEFINE t == p - q
  <2>2. t \in Nat \ {0} /\ O * t = (O * p) - (O * q)
    BY <1>0, <1>1, <2>1
  <2>3. O * t >= O
    <3> HIDE DEF t
    <3> QED BY <1>0, <2>2
  <2> HIDE DEF t
  <2> QED BY <1>0, <1>1, <1>2, <2>2, <2>3
<1> QED BY <1>1, <1>2, <1>3, <1>4 DEF O, e, r, s

\* A write that stays in its zone ends at the capacity at most.
LEMMA Fits ==
  ASSUME NEW off \in 0 .. CAPACITY - 1, NEW n \in Nat \ {0}, same_zone(off, n)
  PROVE  off + n <= CAPACITY
<1> DEFINE C == CAPACITY
           e == off + n - 1
           q == e \div C
           r == e % C
<1>0. C \in Nat \ {0} /\ off \in Nat /\ off < C
  BY SizesAssumption
<1>1. off \div C = 0
  BY <1>0
<1>2. e \in Nat
  BY <1>0
<1>3. q = 0
  BY <1>1 DEF same_zone
<1> HIDE DEF e
<1>4. q \in Nat /\ r \in 0 .. C - 1 /\ e = C * q + r
  BY <1>0, <1>2
<1> HIDE DEF q, r, C
<1>5. e < C
  BY <1>0, <1>3, <1>4
<1> QED BY <1>0, <1>5 DEF e, C

\* What the sizes say of the releases.
LEMMA ChunkFacts ==
  /\ ONESHOT \in Chunks /\ ONESHOT \in Nat \ {0} /\ unaligned_space \in Nat
  /\ unaligned_space # ONESHOT
  /\ unaligned_space \in Chunks \ {ONESHOT} <=> unaligned_space # 0
  /\ Chunks = {ONESHOT} \cup (IF unaligned_space # 0 THEN {unaligned_space} ELSE {})
<1>1. ONESHOT \in Nat \ {0} /\ CAPACITY \in Nat
  BY SizesAssumption
<1>2. unaligned_space \in 0 .. ONESHOT - 1
  BY <1>1 DEF unaligned_space
<1> QED BY <1>1, <1>2 DEF Chunks

\* Blocks that stay pending when a write ends at block m of the zone.
Rest(m) == IF m = CAPACITY THEN 0 ELSE m % ONESHOT

\* What a write schedules gives back the blocks written and the pending ones,
\* but for those of a page that is still partly filled.
LEMMA ScheduledSum ==
  ASSUME NEW off \in Nat, NEW n \in Nat, off + n <= CAPACITY, NEW d \in [Chunks -> Nat],
         NEW e, e = [c \in Chunks |-> d[c] + scheduled(off, n)[c]]
  PROVE  /\ e \in [Chunks -> Nat] /\ ToDrain(d) \in Nat /\ ToDrain(e) \in Nat
         /\ ToDrain(e) = ToDrain(d) + n + ((off % ONESHOT) - Rest(off + n))
<1> DEFINE O == ONESHOT
           U == unaligned_space
           o == oneshots(off, n)
           m == off + n
           l == IF m = CAPACITY THEN 1 ELSE 0
           s == scheduled(off, n)
           r == off % O
           t == m % O
<1>0. /\ O \in Nat \ {0} /\ U \in Nat /\ U # O /\ O \in Chunks /\ CAPACITY \in Nat
      /\ U \in Chunks \ {O} <=> U # 0
  BY ChunkFacts, SizesAssumption
<1>1. o \in Nat /\ O * o = n - t + r /\ m \in Nat
  <2>1. o \in Nat /\ O * o = n - t + r
    BY Oneshots, ZenonT(30)
  <2>2. m \in Nat
    OBVIOUS
  <2> QED BY <2>1, <2>2, ZenonT(30)
<1>2. r \in Nat /\ t \in Nat /\ l \in {0, 1}
  BY <1>0, <1>1
<1>3. m = CAPACITY => t = U
  BY DEF unaligned_space
<1>4. s = [c \in Chunks |-> (IF c = O THEN o ELSE 0) + (IF c = U /\ m = CAPACITY THEN 1 ELSE 0)]
  BY DEF scheduled
<1>e. e = [c \in Chunks |-> d[c] + s[c]]
  OBVIOUS
<1> HIDE DEF O, U, o, m, s, r, t
<1>5. s \in [Chunks -> Nat] /\ s[O] = o /\ (U # 0 => s[U] = l)
  BY <1>0, <1>1, <1>4
<1> HIDE DEF l
<1>6. e \in [Chunks -> Nat] /\ e[O] = d[O] + o /\ (U # 0 => e[U] = d[U] + l)
  BY <1>0, <1>5, <1>e
<1>7. d[O] \in Nat /\ (U # 0 => d[U] \in Nat)
  BY <1>0
<1>8. O * e[O] = (O * d[O]) + n - t + r
  <2>1. O * (d[O] + o) = (O * d[O]) + (O * o)
    BY <1>0, <1>1, <1>7
  <2> QED BY <1>0, <1>1, <1>2, <1>6, <1>7, <2>1
<1>9. O * d[O] \in Nat /\ O * e[O] \in Nat
  <2>1. e[O] \in Nat
    BY <1>0, <1>6
  <2> QED BY <1>0, <1>7, <2>1
<1>10. CASE U = 0
  <2>1. ToDrain(d) = O * d[O] /\ ToDrain(e) = O * e[O]
    BY <1>0, <1>9, <1>10 DEF ToDrain, O, U
  <2> QED BY <1>0, <1>1, <1>2, <1>3, <1>6, <1>8, <1>9, <1>10, <2>1 DEF Rest, O, m, r, t
<1>11. CASE U # 0
  <2>1. ToDrain(d) = (O * d[O]) + (U * d[U]) /\ ToDrain(e) = (O * e[O]) + (U * e[U])
    BY <1>0, <1>11 DEF ToDrain, O, U
  <2>2. U * e[U] = (U * d[U]) + (U * l)
    <3>1. U * (d[U] + l) = (U * d[U]) + (U * l)
      BY <1>0, <1>2, <1>7, <1>11
    <3> QED BY <1>6, <1>11, <3>1
  <2>3. U * l = (IF m = CAPACITY THEN t ELSE 0)
    BY <1>0, <1>3 DEF l
  <2>4. U * d[U] \in Nat /\ U * l \in Nat
    BY <1>0, <1>2, <1>7, <1>11
  <2>5. ToDrain(e) = ToDrain(d) + n - t + r + (IF m = CAPACITY THEN t ELSE 0)
    BY <1>1, <1>2, <1>8, <1>9, <2>1, <2>2, <2>3, <2>4
  <2>6. ToDrain(d) \in Nat /\ ToDrain(e) \in Nat
    BY <1>9, <2>1, <2>2, <2>4
  <2> QED BY <1>1, <1>2, <1>6, <2>5, <2>6 DEF Rest, O, m, r, t
<1> QED BY <1>10, <1>11

\* The write buffer of zone z set to b.
LEMMA SetWb ==
  ASSUME NEW f \in Ftl, NEW z \in Zones, NEW b \in Int
  PROVE  LET g == [f EXCEPT !.wb[z] = b] IN
         /\ g \in Ftl /\ g.zone = f.zone /\ g.cnt = f.cnt /\ g.zbuf = f.zbuf /\ g.bug = f.bug
         /\ g.wb[z] = b /\ \A o \in Zones \ {z} : g.wb[o] = f.wb[o]
BY DEF Ftl

\* What a write that the checks accept makes of the zone.
Accepted(h, z, off, n) ==
  LET x == ftl.zone[z] IN
  /\ Moved(ftl, h, z) /\ off = x.wp /\ off \in Nat /\ n \in Nat /\ off + n <= CAPACITY
  /\ x.state \in Active \cup {"empty"}
  /\ h.zone[z] = [state |-> IF off + n = CAPACITY THEN "full"
                            ELSE IF x.state = "expl" THEN "expl" ELSE "impl",
                  wp |-> off + n, zrwav |-> 0]
  /\ h.wb[z] = ftl.wb[z] - n /\ \A o \in Zones \ {z} : h.wb[o] = ftl.wb[o]

\* A write that the checks accept.
LEMMA AcceptedWrite ==
  ASSUME NEW z \in Zones, NEW off, NEW n \in 1 .. MAX_NR_LBA, Legal(ftl),
         ftl.zone[z].zrwav = 0, write_ok(ftl, z, off, n)
  PROVE  Accepted(increase_write_ptr(open_for_write([ftl EXCEPT !.wb[z] = @ - n], z), z, n),
                  z, off, n)
<1> DEFINE x == ftl.zone[z]
           b == ftl.wb[z] - n
           f == [ftl EXCEPT !.wb[z] = @ - n]
           g == open_for_write(f, z)
           h == increase_write_ptr(g, z, n)
<1>0. /\ ftl \in Ftl /\ x.wp \in 0 .. CAPACITY /\ DescOK(x) /\ x.state \in States
      /\ CAPACITY \in Nat
  BY ZoneFacts, ZenonT(30)
<1>n. n \in Nat \ {0} /\ ftl.wb[z] \in Int
  BY <1>0, SizesAssumption DEF Ftl
<1>1. f = [ftl EXCEPT !.wb[z] = b] /\ b \in Int
  BY <1>0, <1>n DEF Ftl
<1> HIDE DEF f, b
<1>2. /\ f \in Ftl /\ f.zone = ftl.zone /\ f.cnt = ftl.cnt
      /\ f.wb[z] = b /\ \A o \in Zones \ {z} : f.wb[o] = ftl.wb[o]
  BY <1>0, <1>1, SetWb
<1>3. Moved(ftl, f, z)
  BY <1>2, Buffered
<1>4. Legal(f)
  BY <1>3, MovedLegal
<1>5. off = x.wp /\ same_zone(off, n) /\ may_open(f, z)
  BY <1>2, ZenonT(30) DEF write_ok, may_open, is_full
<1>6. /\ Moved(f, g, z) /\ g.wb = f.wb
      /\ g.zone[z] = [state |-> IF x.state = "expl" THEN "expl" ELSE "impl",
                      wp |-> x.wp, zrwav |-> x.zrwav]
      /\ x.state \in Active \cup {"empty"}
  BY <1>2, <1>4, <1>5, OpenForWrite
<1> HIDE DEF g
<1>7. Legal(g) /\ g.zone[z].state \in Opened /\ g.zone[z].wp = off
  <2>1. Legal(g)
    BY <1>4, <1>6, MovedLegal
  <2> QED BY <2>1, <1>5, <1>6 DEF Opened
<1>8. off \in 0 .. CAPACITY - 1
  <2>1. x.state # "full"
    BY <1>6 DEF Active, Opened
  <2> QED BY <1>0, <1>5, <2>1 DEF DescOK
<1>9. off + n <= CAPACITY /\ off \in Nat
  BY <1>0, <1>5, <1>8, <1>n, Fits
<1>10. /\ Moved(g, h, z) /\ h.wb = g.wb
       /\ h.zone[z] = [state |-> IF off + n = CAPACITY THEN "full" ELSE g.zone[z].state,
                       wp |-> off + n, zrwav |-> g.zone[z].zrwav]
  <2>1. n \in Nat /\ g.zone[z].wp + n <= CAPACITY
    BY <1>n, <1>7, <1>9
  <2>2. /\ Moved(g, h, z) /\ h.wb = g.wb
        /\ h.zone[z] = [state |-> IF g.zone[z].wp + n = CAPACITY THEN "full" ELSE g.zone[z].state,
                        wp |-> g.zone[z].wp + n, zrwav |-> g.zone[z].zrwav]
    BY <1>7, <2>1, IncreaseWp, ZenonT(30)
  <2> QED BY <1>7, <2>2
<1> HIDE DEF h
<1>11. Moved(ftl, h, z)
  <2>1. Moved(ftl, g, z)
    BY <1>3, <1>6, MovedTwice
  <2> QED BY <1>10, <2>1, MovedTwice
<1>12. h.zone[z] = [state |-> IF off + n = CAPACITY THEN "full"
                              ELSE IF x.state = "expl" THEN "expl" ELSE "impl",
                    wp |-> off + n, zrwav |-> 0]
  BY <1>6, <1>10
<1>13. h.wb[z] = ftl.wb[z] - n /\ \A o \in Zones \ {z} : h.wb[o] = ftl.wb[o]
  BY <1>2, <1>6, <1>10 DEF b
<1>14. n \in Nat
  BY <1>n
<1>15. Accepted(h, z, off, n)
  BY <1>5, <1>6, <1>9, <1>11, <1>12, <1>13, <1>14, ZenonT(30) DEF Accepted
<1> QED BY <1>15, ZenonT(30) DEF h, g, f

\* The pending blocks of a zone that can be written, and of a written one.
LEMMA PendingBlocks ==
  /\ \A x : x.state \in Active \cup {"empty"} /\ x.zrwav = 0 => Pending(x) = x.wp % ONESHOT
  /\ \A m, q : Pending([state |-> IF m = CAPACITY THEN "full" ELSE IF q THEN "expl" ELSE "impl",
                       wp |-> m, zrwav |-> 0]) = Rest(m)
BY DEF Pending, Rest, Active, Opened

\* Numbers of one zone.
LEMMA CoverFacts ==
  ASSUME NEW f, NEW d, NEW z \in Zones, Legal(f), Cover(f, d)
  PROVE  /\ f.wb[z] \in Int /\ d[z] \in [Chunks -> Nat] /\ ToDrain(d[z]) \in Nat
         /\ Pending(f.zone[z]) \in Nat /\ ZONE_WB \in Nat
         /\ f.wb[z] + ToDrain(d[z]) + Pending(f.zone[z]) <= ZONE_WB
<1>1. /\ f \in Ftl /\ f.zone[z].wp \in Nat /\ ONESHOT \in Nat /\ ONESHOT > 0
      /\ ZONE_WB \in Nat
  BY ZoneFacts, SizesAssumption
<1>2. f.wb[z] \in Int
  BY <1>1 DEF Ftl
<1>3. d[z] \in [Chunks -> Nat]
  BY DEF Cover
<1>4. Pending(f.zone[z]) \in Nat
  BY <1>1 DEF Pending
<1>5. ToDrain(d[z]) \in Nat
  <2>1. d[z][ONESHOT] \in Nat /\ (unaligned_space \in Chunks \ {ONESHOT} => d[z][unaligned_space] \in Nat)
    BY <1>3, ChunkFacts
  <2> HIDE DEF Chunks
  <2> QED BY <2>1, <1>1, ChunkFacts DEF ToDrain
<1> QED BY <1>1, <1>2, <1>3, <1>4, <1>5 DEF Cover

\* A write, accepted or refused: the buffer is taken in either case.
LEMMA WriteStep ==
  ASSUME NEW z \in Zones, NEW arg, NEW n \in 1 .. MAX_NR_LBA, NEW append \in BOOLEAN,
         Legal(ftl), Cover(ftl, drain), Write(z, arg, n, append)
  PROVE  /\ Moved(ftl, ftl', z) /\ Cover(ftl', drain')
         /\ \/ View(ftl'.zone[z]) = View(ftl.zone[z])
            \/ Machine!Written(View(ftl.zone[z]), View(ftl'.zone[z]))
<1> DEFINE x == ftl.zone[z]
           d == drain[z]
           off == IF append THEN ftl.zone[z].wp ELSE arg
           f == [ftl EXCEPT !.wb[z] = @ - n]
<1>0. /\ ftl \in Ftl /\ x.wp \in Nat /\ x.zrwav = 0 /\ n \in Nat
      /\ ftl.wb[z] \in Int /\ d \in [Chunks -> Nat] /\ ToDrain(d) \in Nat
      /\ Pending(x) \in Nat /\ ZONE_WB \in Nat
      /\ ftl.wb[z] + ToDrain(d) + Pending(x) <= ZONE_WB
      /\ drain \in [Zones -> [Chunks -> Nat]] /\ ONESHOT \in Nat /\ ONESHOT > 0
  <2>1. n \in Nat
    BY SizesAssumption
  <2>2. x.zrwav = 0 /\ drain \in [Zones -> [Chunks -> Nat]]
    BY ZenonT(30) DEF Write, Cover
  <2> QED BY <2>1, <2>2, ZoneFacts, CoverFacts, ZenonT(30)
<1>1. CASE ~write_ok(ftl, z, off, n)
  <2>1. ftl' = f /\ drain' = drain
    BY <1>1 DEF Write
  <2> DEFINE b == ftl.wb[z] - n
  <2>2. f = [ftl EXCEPT !.wb[z] = b] /\ b \in Int
    BY <1>0 DEF Ftl
  <2> HIDE DEF f, b
  <2>3. /\ f \in Ftl /\ f.zone = ftl.zone /\ f.cnt = ftl.cnt
        /\ f.wb[z] = b /\ \A o \in Zones \ {z} : f.wb[o] = ftl.wb[o]
    <3>1. ftl \in Ftl
      BY <1>0
    <3> HIDE DEF x, d, off
    <3> QED BY <2>2, <3>1, SetWb
  <2>4. Moved(ftl, f, z)
    BY <2>3, Buffered
  <2>5. ASSUME NEW o \in Zones
        PROVE  f.wb[o] + ToDrain(drain[o]) + Pending(f.zone[o]) <= ZONE_WB
    <3>1. CASE o = z
      <4> HIDE DEF d, x
      <4>1. f.wb[z] + ToDrain(d) + Pending(x) <= ZONE_WB
        BY <1>0, <2>3 DEF b
      <4> QED BY <2>3, <3>1, <4>1 DEF d, x
    <3>2. CASE o # z
      BY <2>3, <2>5, <3>2, ZenonT(30) DEF Cover
    <3> QED BY <3>1, <3>2
  <2> QED BY <1>0, <2>1, <2>3, <2>4, <2>5 DEF Cover
<1>2. CASE write_ok(ftl, z, off, n)
  <2> DEFINE h == increase_write_ptr(open_for_write(f, z), z, n)
             e == [c \in Chunks |-> d[c] + scheduled(off, n)[c]]
             m == off + n
  <2>1. ftl' = h /\ drain' = [drain EXCEPT ![z] = e]
    BY <1>2 DEF Write
  <2>2. /\ Moved(ftl, h, z) /\ off = x.wp /\ off \in Nat /\ m <= CAPACITY
        /\ x.state \in Active \cup {"empty"}
        /\ h.zone[z] = [state |-> IF m = CAPACITY THEN "full"
                                  ELSE IF x.state = "expl" THEN "expl" ELSE "impl",
                        wp |-> m, zrwav |-> 0]
        /\ h.wb[z] = ftl.wb[z] - n /\ \A o \in Zones \ {z} : h.wb[o] = ftl.wb[o]
    <3> HIDE DEF off
    <3>1. ftl.zone[z].zrwav = 0
      BY <1>0, ZenonT(30)
    <3>2. Accepted(h, z, off, n)
      BY <1>2, <3>1, AcceptedWrite, ZenonT(30)
    <3> HIDE DEF h, f
    <3> QED BY <3>2, ZenonT(30) DEF Accepted
  <2> HIDE DEF off, h
  <2>3. /\ e \in [Chunks -> Nat] /\ ToDrain(e) \in Nat
        /\ ToDrain(e) = ToDrain(d) + n + ((off % ONESHOT) - Rest(m))
    <3>1. off \in Nat /\ n \in Nat /\ off + n <= CAPACITY /\ d \in [Chunks -> Nat]
      BY <1>0, <2>2, ZenonT(30)
    <3>2. e = [c \in Chunks |-> d[c] + scheduled(off, n)[c]]
      OBVIOUS
    <3> HIDE DEF d, e, x, f
    <3> QED BY <3>1, <3>2, ScheduledSum
  <2> HIDE DEF e, d
  <2>4. Pending(x) = off % ONESHOT /\ Pending(h.zone[z]) = Rest(m)
    BY <1>0, <2>2, PendingBlocks, ZenonT(30)
  <2>5. h.wb[z] + ToDrain(e) + Pending(h.zone[z]) <= ZONE_WB
    <3> DEFINE p == Pending(h.zone[z])
    <3>1. ToDrain(e) = ToDrain(d) + n + (Pending(x) - p) /\ p \in Int
      <4>0. off \in Nat /\ n \in Nat
        BY <1>0, <2>2, ZenonT(30)
      <4> HIDE DEF x, f, p
      <4>1. m \in Nat
        BY <4>0
      <4> USE DEF x, f, p
      <4> HIDE DEF m
      <4>2. p \in Int
        BY <1>0, <2>4, <4>1 DEF Rest
      <4> QED BY <1>0, <2>3, <2>4, <4>2, ZenonT(30)
    <3> HIDE DEF p, x
    <3> QED BY <1>0, <2>2, <2>3, <3>1 DEF p
  <2>6. \A o \in Zones : h.wb[o] + ToDrain(drain'[o]) + Pending(h.zone[o]) <= ZONE_WB
    <3>1. ASSUME NEW o \in Zones, o # z
          PROVE  h.wb[o] = ftl.wb[o] /\ drain'[o] = drain[o] /\ h.zone[o] = ftl.zone[o]
      <4>1. h.zone[o] = ftl.zone[o]
        BY <2>2, <3>1, OthersKept, ZenonT(30)
      <4>2. o \in Zones \ {z} /\ drain'[o] = drain[o]
        BY <1>0, <2>1, <3>1
      <4> QED BY <2>2, <4>1, <4>2, ZenonT(30)
    <3>2. drain'[z] = e
      BY <1>0, <2>1
    <3> QED BY <2>5, <3>1, <3>2 DEF Cover
  <2>7. Cover(h, drain')
    <3>1. drain' \in [Zones -> [Chunks -> Nat]]
      BY <1>0, <2>1, <2>3
    <3> QED BY <2>6, <3>1 DEF Cover
  <2>8. Machine!Written(View(x), View(h.zone[z]))
    <3>1. off = x.wp /\ off \in Nat /\ m <= CAPACITY
      BY <2>2, ZenonT(30)
    <3>2. n \in Nat /\ CAPACITY \in Nat
      BY SizesAssumption
    <3> HIDE DEF x
    <3>3. m \in x.wp .. CAPACITY
      BY <3>1, <3>2
    <3> HIDE DEF m
    <3>4. x.state \in Active \cup {"empty"} /\ h.zone[z] = WrittenTo(x, m, 0)
      BY <2>2, ZenonT(30) DEF WrittenTo, x
    <3> QED BY <3>3, <3>4, WrittenView, ZenonT(30)
  <2> QED BY <2>1, <2>2, <2>7, <2>8
<1> QED BY <1>1, <1>2

\* A zone that leaves its write buffer alone and has no more blocks pending.
LEMMA CoverKept ==
  ASSUME NEW f, NEW g, NEW d, NEW z \in Zones, Legal(f), Cover(f, d), Moved(f, g, z),
         g.wb = f.wb, Pending(g.zone[z]) <= Pending(f.zone[z])
  PROVE  Cover(g, d)
<1>1. ASSUME NEW o \in Zones
      PROVE  g.wb[o] + ToDrain(d[o]) + Pending(g.zone[o]) <= ZONE_WB
  <2> DEFINE p == Pending(f.zone[o])
             q == Pending(g.zone[o])
             a == ToDrain(d[o])
  <2>1. /\ f.wb[o] \in Int /\ a \in Nat /\ p \in Nat /\ ZONE_WB \in Nat
        /\ f.wb[o] + a + p <= ZONE_WB
    BY CoverFacts, ZenonT(30)
  <2>2. q <= p
    <3>1. CASE o = z
      BY <3>1, ZenonT(30)
    <3>2. CASE o # z
      <4>1. q = p
        BY <3>2, OthersKept, ZenonT(30)
      <4> HIDE DEF p, q
      <4> QED BY <2>1, <4>1
    <3> QED BY <3>1, <3>2
  <2>3. q \in Nat
    <3>1. Legal(g)
      BY MovedLegal, ZenonT(30)
    <3>2. g.zone[o].wp \in Nat /\ ONESHOT \in Nat /\ ONESHOT > 0
      BY <3>1, ZoneFacts, ZenonT(30)
    <3> QED BY <3>2 DEF Pending
  <2> HIDE DEF p, q, a
  <2>4. f.wb[o] + a + q <= ZONE_WB
    BY <2>1, <2>2, <2>3
  <2> QED BY <2>4 DEF a, q
<1> QED BY <1>1 DEF Cover

\* What a write to a random write area commits ends within the zone.
LEMMA FlushFits ==
  ASSUME NEW wp \in Nat, NEW end \in Nat, wp <= end, end <= CAPACITY, MAX_ZRWA # 0
  PROVE  nr_lbas_flush(wp, end) \in Nat /\ wp + nr_lbas_flush(wp, end) <= CAPACITY
<1> DEFINE Z == LBAS_PER_ZRWA
           G == LBAS_PER_ZRWAFG
           nf == nr_lbas_flush(wp, end)
<1>0. Z \in Nat /\ G \in Nat /\ G >= 1 /\ G <= Z /\ CAPACITY \in Nat
  BY SizesAssumption
<1>1. CASE end > wp + Z
  <2> DEFINE a == end - wp - Z + G - 1
             q == a \div G
  <2>0. a = end - wp - Z + (G - 1)
    BY <1>0
  <2>1. nf = q * G
    BY <1>1 DEF nr_lbas_flush
  <2>2. a \in Nat /\ a < end - wp
    BY <1>0, <1>1
  <2> HIDE DEF a
  <2>3. q \in Nat /\ a % G \in Nat /\ a = G * q + (a % G)
    BY <1>0, <2>2
  <2> DEFINE r == a % G
  <2> HIDE DEF q, G, nf, r
  <2>4. q * G = G * q /\ G * q \in Nat
    BY <1>0, <2>3
  <2>5. nf \in Nat /\ nf <= a
    BY <2>1, <2>2, <2>3, <2>4
  <2> QED BY <1>0, <2>2, <2>5 DEF nf
<1>2. CASE ~(end > wp + Z) /\ end = CAPACITY
  BY <1>0, <1>2 DEF nr_lbas_flush
<1>3. CASE ~(end > wp + Z) /\ end # CAPACITY
  BY <1>0, <1>3 DEF nr_lbas_flush
<1> QED BY <1>1, <1>2, <1>3

\* The ZRWA buffer of zone z set to b.
LEMMA SetZbuf ==
  ASSUME NEW f \in Ftl, NEW z \in Zones, NEW b \in Int
  PROVE  LET g == [f EXCEPT !.zbuf[z] = b] IN
         /\ g \in Ftl /\ g.zone = f.zone /\ g.cnt = f.cnt /\ g.wb = f.wb /\ g.bug = f.bug
BY DEF Ftl

\* NVMEV_ASSERT(0) stops the device and changes nothing else.
LEMMA SetBug ==
  ASSUME NEW f \in Ftl, NEW b \in BOOLEAN
  PROVE  LET g == [f EXCEPT !.bug = b] IN
         g \in Ftl /\ g.zone = f.zone /\ g.cnt = f.cnt /\ g.wb = f.wb
BY DEF Ftl

\* Before the write to a random write area, a closed zone is opened again.
LEMMA ReopenedZone ==
  ASSUME NEW f, NEW z \in Zones, Legal(f), f.zone[z].zrwav = 1, may_open(f, z)
  PROVE  LET g == reopened(f, z)
             x == f.zone[z]
         IN
         /\ Moved(f, g, z) /\ g.wb = f.wb
         /\ \/ g.zone[z] = x
            \/ /\ x.state = "closed"
               /\ g.zone[z] = [state |-> "impl", wp |-> x.wp, zrwav |-> 1]
         /\ ~g.bug => g.zone[z].state \in Opened
<1> DEFINE x == f.zone[z]
           g == reopened(f, z)
<1>0. f \in Ftl /\ x.state \in States /\ DescOK(x) /\ LBAS_PER_ZRWA \in Int
  BY ZoneFacts, SizesAssumption
<1>1. CASE x.state # "closed"
  <2>1. g = f
    BY <1>1 DEF reopened
  <2>2. x.state \in Opened
    BY <1>0, <1>1 DEF may_open, DescOK, States, Active
  <2> QED BY <1>0, <2>1, <2>2, Buffered
<1>2. CASE x.state = "closed" /\ f.zbuf[z] < LBAS_PER_ZRWA
  <2>1. g = [f EXCEPT !.bug = TRUE]
    BY <1>2 DEF reopened
  <2> HIDE DEF g, x
  <2>2. g \in Ftl /\ g.zone = f.zone /\ g.cnt = f.cnt /\ g.wb = f.wb
    BY <1>0, <2>1, SetBug, ZenonT(30)
  <2>3. g.bug
    BY <1>0, <2>1, ZenonT(30) DEF Ftl
  <2> QED BY <1>0, <2>2, <2>3, Buffered DEF g, x
<1>3. CASE x.state = "closed" /\ ~(f.zbuf[z] < LBAS_PER_ZRWA)
  <2> DEFINE o == open_for_write(f, z)
             b == o.zbuf[z] - LBAS_PER_ZRWA
  <2>1. g = [o EXCEPT !.zbuf[z] = @ - LBAS_PER_ZRWA]
    BY <1>3 DEF reopened
  <2>2. /\ Moved(f, o, z) /\ o.wb = f.wb
        /\ o.zone[z] = [state |-> IF x.state = "expl" THEN "expl" ELSE "impl",
                        wp |-> x.wp, zrwav |-> x.zrwav]
    BY OpenForWrite
  <2> HIDE DEF o
  <2>3. o \in Ftl /\ Legal(o)
    BY <2>2, MovedLegal, OthersKept, ZenonT(30)
  <2>4. b \in Int /\ g = [o EXCEPT !.zbuf[z] = b]
    BY <1>0, <2>1, <2>3 DEF Ftl
  <2> HIDE DEF b, g
  <2>5. g \in Ftl /\ g.zone = o.zone /\ g.cnt = o.cnt /\ g.wb = o.wb
    BY <2>3, <2>4, SetZbuf
  <2>6. Moved(f, g, z)
    BY <2>2, <2>3, <2>5, Buffered, MovedTwice
  <2> QED BY <1>3, <2>2, <2>5, <2>6 DEF Opened, g
<1>4. x.state # "closed" \/ (x.state = "closed" /\ f.zbuf[z] < LBAS_PER_ZRWA)
        \/ (x.state = "closed" /\ ~(f.zbuf[z] < LBAS_PER_ZRWA))
  BY ZenonT(30)
<1> HIDE DEF x, g
<1> QED BY <1>1, <1>2, <1>3, <1>4, ZenonT(30) DEF x, g

\* A write to a zone with a random write area.
LEMMA ZrwaStep ==
  ASSUME NEW z \in Zones, NEW off \in 0 .. CAPACITY - 1, NEW n \in 1 .. MAX_NR_LBA,
         Legal(ftl), Cover(ftl, drain), WriteZrwa(z, off, n)
  PROVE  /\ Moved(ftl, ftl', z) /\ Cover(ftl', drain')
         /\ \/ View(ftl'.zone[z]) = View(ftl.zone[z])
            \/ Machine!Written(View(ftl.zone[z]), View(ftl'.zone[z]))
<1> DEFINE x == ftl.zone[z]
           f == reopened(ftl, z)
           nf == nr_lbas_flush(x.wp, off + n)
           e == [f EXCEPT !.zbuf[z] = @ - nf]
           h == increase_write_ptr(e, z, nf)
<1>0. /\ ftl \in Ftl /\ x \in Desc /\ DescOK(x) /\ x.wp \in Nat /\ x.state \in States
      /\ CAPACITY \in Nat
  BY ZoneFacts, ZenonT(30)
<1>1. /\ x.zrwav = 1 /\ drain' = drain /\ may_open(ftl, z)
      /\ off >= x.wp /\ same_zone(off, n)
      /\ \/ ftl' = f
         \/ ~f.bug /\ ftl' = h
  BY ZenonT(30) DEF WriteZrwa, zrwa_write_ok
<1>2. /\ Moved(ftl, f, z) /\ f.wb = ftl.wb
      /\ \/ f.zone[z] = x
         \/ x.state = "closed" /\ f.zone[z] = [state |-> "impl", wp |-> x.wp, zrwav |-> 1]
      /\ ~f.bug => f.zone[z].state \in Opened
  BY <1>1, ReopenedZone
<1> HIDE DEF f
<1>3. f.zone[z].wp = x.wp /\ f.zone[z].zrwav = 1 /\ Pending(x) = 0 /\ Pending(f.zone[z]) = 0
  BY <1>1, <1>2 DEF Pending
<1>4. x.state # "full" /\ x.wp < CAPACITY
  BY <1>0, <1>1 DEF may_open, DescOK, Desc
<1>5. CASE ftl' = f
  <2>1. Cover(f, drain)
    <3>1. Pending(f.zone[z]) <= Pending(ftl.zone[z])
      BY <1>3
    <3> QED BY <1>2, <3>1, CoverKept
  <2>2. View(f.zone[z]) = View(x) \/ Machine!Written(View(x), View(f.zone[z]))
    <3>1. CASE f.zone[z] = x
      BY <3>1, ZenonT(30)
    <3>2. CASE x.state = "closed" /\ f.zone[z] = [state |-> "impl", wp |-> x.wp, zrwav |-> 1]
      <4>1. x.wp \in x.wp .. CAPACITY /\ x.wp # CAPACITY
        BY <1>0, <1>4
      <4> QED BY <3>2, <4>1 DEF View, Machine!Written, Machine!Active
    <3> QED BY <1>2, <3>1, <3>2, ZenonT(30)
  <2> QED BY <1>1, <1>2, <1>5, <2>1, <2>2, ZenonT(30)
<1>6. CASE ~f.bug /\ ftl' = h
  <2> DEFINE end == off + n
             w == x.wp + nf
  <2>1. nf \in Nat /\ x.wp + nf <= CAPACITY
    <3>1. n \in Nat \ {0} /\ off \in Nat
      BY <1>0, SizesAssumption
    <3>2. end <= CAPACITY
      BY <1>1, <3>1, Fits
    <3>3. end \in Nat /\ x.wp <= end
      BY <1>0, <1>1, <3>1
    <3>4. MAX_ZRWA # 0
      BY <1>0, <1>1 DEF DescOK
    <3> HIDE DEF end, x
    <3> QED BY <1>0, <3>2, <3>3, <3>4, FlushFits DEF end
  <2> HIDE DEF nf
  <2>2. f \in Ftl /\ Legal(f) /\ f.zone[z].state \in Opened
    BY <1>2, <1>6, MovedLegal, OthersKept, ZenonT(30)
  <2> DEFINE b == f.zbuf[z] - nf
  <2>3. b \in Int /\ e = [f EXCEPT !.zbuf[z] = b]
    BY <2>1, <2>2 DEF Ftl
  <2> HIDE DEF b, e
  <2>4. e \in Ftl /\ e.zone = f.zone /\ e.cnt = f.cnt /\ e.wb = f.wb
    BY <2>2, <2>3, SetZbuf, ZenonT(30)
  <2>5. Moved(ftl, e, z) /\ Legal(e)
    <3>1. Moved(f, e, z)
      BY <2>2, <2>4, Buffered
    <3> QED BY <1>2, <2>2, <3>1, MovedTwice, MovedLegal, ZenonT(30)
  <2>6. /\ Moved(e, h, z) /\ h.wb = e.wb
        /\ h.zone[z] = [state |-> IF w = CAPACITY THEN "full" ELSE f.zone[z].state,
                        wp |-> w, zrwav |-> 1]
    <3>1. e.zone[z].state \in Opened /\ e.zone[z].wp + nf <= CAPACITY /\ nf \in Nat
      <4>1. e.zone[z].state \in Opened /\ e.zone[z].wp = x.wp
        BY <1>3, <2>2, <2>4, ZenonT(30)
      <4> QED BY <2>1, <4>1, ZenonT(30)
    <3>2. /\ Moved(e, h, z) /\ h.wb = e.wb
          /\ h.zone[z] = [state |-> IF e.zone[z].wp + nf = CAPACITY THEN "full"
                                    ELSE e.zone[z].state,
                          wp |-> e.zone[z].wp + nf, zrwav |-> e.zone[z].zrwav]
      BY <2>5, <3>1, IncreaseWp, ZenonT(30)
    <3>3. e.zone[z] = f.zone[z] /\ e.zone[z].wp = x.wp /\ e.zone[z].zrwav = 1
      BY <1>3, <2>4, ZenonT(30)
    <3>4. e.zone[z].wp + nf = w
      BY <3>3, ZenonT(30)
    <3> HIDE DEF h, x, w
    <3> QED BY <3>2, <3>3, <3>4, ZenonT(30)
  <2> HIDE DEF h
  <2>7. Moved(ftl, h, z) /\ h.wb = ftl.wb
    <3>1. h.wb = ftl.wb
      BY <1>2, <2>4, <2>6, ZenonT(30)
    <3> QED BY <2>5, <2>6, <3>1, MovedTwice, ZenonT(30)
  <2>8. Cover(h, drain)
    <3>1. Pending(h.zone[z]) = 0
      BY <2>6 DEF Pending
    <3>2. Pending(h.zone[z]) <= Pending(ftl.zone[z])
      BY <1>3, <3>1
    <3> QED BY <2>7, <3>2, CoverKept
  <2>9. Machine!Written(View(x), View(h.zone[z]))
    <3>1. w \in x.wp .. CAPACITY
      BY <1>0, <2>1
    <3>2. f.zone[z].state = IF x.state = "expl" THEN "expl" ELSE "impl"
      BY <1>2, <2>2 DEF Opened
    <3>3. x.state \in Active
      BY <1>2, <2>2 DEF Active
    <3> HIDE DEF w, x
    <3>4. h.zone[z] = WrittenTo(x, w, 1)
      BY <2>6, <3>2, ZenonT(30) DEF WrittenTo
    <3>5. x.state \in Active \cup {"empty"}
      BY <3>3
    <3> QED BY <3>1, <3>4, <3>5, WrittenView, ZenonT(30)
  <2>10. ftl' = h /\ drain' = drain
    BY <1>1, <1>6, ZenonT(30)
  <2> QED BY <2>7, <2>8, <2>9, <2>10, ZenonT(30)
<1> QED BY <1>1, <1>5, <1>6, ZenonT(30)

\* A worker gives buffer space back.
LEMMA DrainStep ==
  ASSUME NEW z \in Zones, NEW c \in Chunks, Legal(ftl), Cover(ftl, drain), Drain(z, c)
  PROVE  Moved(ftl, ftl', z) /\ Cover(ftl', drain') /\ ftl'.zone = ftl.zone
<1> DEFINE d == drain[z]
           e == [d EXCEPT ![c] = @ - 1]
           b == ftl.wb[z] + c
<1>0. /\ ftl \in Ftl /\ ftl.wb[z] \in Int /\ d \in [Chunks -> Nat] /\ ToDrain(d) \in Nat
      /\ Pending(ftl.zone[z]) \in Nat /\ ZONE_WB \in Nat
      /\ ftl.wb[z] + ToDrain(d) + Pending(ftl.zone[z]) <= ZONE_WB
      /\ drain \in [Zones -> [Chunks -> Nat]]
  <2>1. ftl \in Ftl /\ drain \in [Zones -> [Chunks -> Nat]]
    BY DEF Legal, Cover
  <2> QED BY <2>1, CoverFacts, ZenonT(30)
<1>1. c \in Nat /\ d[c] \in Nat \ {0}
  BY <1>0, ChunkFacts DEF Drain
<1>2. /\ ftl' = [ftl EXCEPT !.wb[z] = b] /\ b \in Int
      /\ drain' = [drain EXCEPT ![z] = e] /\ e \in [Chunks -> Nat]
  BY <1>0, <1>1 DEF Drain, Ftl
<1>3. ToDrain(e) = ToDrain(d) - c
  <2> DEFINE O == ONESHOT
             U == unaligned_space
  <2>0. /\ O \in Nat \ {0} /\ U \in Nat /\ U # O /\ O \in Chunks
        /\ U \in Chunks \ {O} <=> U # 0
        /\ c = O \/ (U # 0 /\ c = U)
    BY ChunkFacts
  <2>1. d[O] \in Nat /\ (U # 0 => d[U] \in Nat) /\ O * d[O] \in Nat /\ (U # 0 => U * d[U] \in Nat)
    BY <1>0, <2>0
  <2> HIDE DEF O, U
  <2>2. CASE c = O
    <3>1. e[O] = d[O] - 1 /\ (U # 0 => e[U] = d[U])
      BY <1>0, <2>0, <2>2
    <3>2. O * e[O] = (O * d[O]) - O
      BY <2>0, <2>1, <3>1
    <3> HIDE DEF e
    <3> QED BY <2>0, <2>1, <2>2, <3>1, <3>2 DEF ToDrain, O, U
  <2>3. CASE U # 0 /\ c = U
    <3>1. e[U] = d[U] - 1 /\ e[O] = d[O]
      BY <1>0, <2>0, <2>3
    <3>2. U * e[U] = (U * d[U]) - U
      BY <2>0, <2>1, <2>3, <3>1
    <3> HIDE DEF e
    <3> QED BY <2>0, <2>1, <2>3, <3>1, <3>2 DEF ToDrain, O, U
  <2> QED BY <2>0, <2>2, <2>3
<1> HIDE DEF e
<1>4. /\ ftl' \in Ftl /\ ftl'.zone = ftl.zone /\ ftl'.cnt = ftl.cnt
      /\ ftl'.wb[z] = b /\ \A o \in Zones \ {z} : ftl'.wb[o] = ftl.wb[o]
  <2> HIDE DEF b, d
  <2> QED BY <1>0, <1>2, SetWb
<1>5. Moved(ftl, ftl', z)
  BY <1>4, Buffered
<1>6. ASSUME NEW o \in Zones
      PROVE  ftl'.wb[o] + ToDrain(drain'[o]) + Pending(ftl'.zone[o]) <= ZONE_WB
  <2>1. CASE o = z
    <3>1. drain'[z] = e
      BY <1>0, <1>2
    <3> DEFINE p == Pending(ftl.zone[z])
    <3> HIDE DEF p, d
    <3>2. b + ToDrain(e) + p <= ZONE_WB
      BY <1>0, <1>1, <1>3 DEF p
    <3> QED BY <1>4, <2>1, <3>1, <3>2 DEF p
  <2>2. CASE o # z
    <3>1. drain'[o] = drain[o]
      BY <1>0, <1>2, <1>6, <2>2
    <3> QED BY <1>4, <1>6, <2>2, <3>1 DEF Cover
  <2> QED BY <2>1, <2>2
<1>7. drain' \in [Zones -> [Chunks -> Nat]]
  BY <1>0, <1>2
<1> QED BY <1>4, <1>5, <1>6, <1>7 DEF Cover

\* The same for the buffer of a random write area.
LEMMA ZdrainStep ==
  ASSUME NEW z \in Zones, Legal(ftl), Cover(ftl, drain), DrainZrwa(z)
  PROVE  Moved(ftl, ftl', z) /\ Cover(ftl', drain') /\ ftl'.zone = ftl.zone
<1> DEFINE b == ftl.zbuf[z] + ONESHOT
<1>0. ftl \in Ftl /\ ONESHOT \in Int
  BY SizesAssumption DEF Legal
<1>1. ftl' = [ftl EXCEPT !.zbuf[z] = b] /\ b \in Int /\ drain' = drain
  BY <1>0 DEF DrainZrwa, Ftl
<1> HIDE DEF b
<1>2. ftl' \in Ftl /\ ftl'.zone = ftl.zone /\ ftl'.cnt = ftl.cnt /\ ftl'.wb = ftl.wb
  BY <1>0, <1>1, SetZbuf
<1>3. Moved(ftl, ftl', z)
  BY <1>2, Buffered
<1>4. Cover(ftl', drain')
  BY <1>1, <1>2 DEF Cover
<1> QED BY <1>2, <1>3, <1>4

=============================================================================
