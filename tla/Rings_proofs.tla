---------------------------- MODULE Rings_proofs ----------------------------
(***************************************************************************)
(* Theorems about the two rings that the device fills and the host reads:  *)
(* the completion queue of IoQueues, with the invariant of IoQueuesInv,    *)
(* and the events log of FdpEvents.                                        *)
(***************************************************************************)
EXTENDS IoQueuesInv, FdpEvents, FiniteSetTheorems

USE SMTT(30)

-----------------------------------------------------------------------------
(* The commands in flight, counted                                         *)

\* As many different commands as the entries of a stretch of the ring are in
\* flight.
LEMMA Packed ==
  ASSUME NEW F, IsFiniteSet(F), NEW k \in Nat, NEW c \in [0 .. k - 1 -> F],
         \A i, j \in 0 .. k - 1 : c[i] = c[j] => i = j
  PROVE  k <= Cardinality(F)
<1>1. IsFiniteSet(0 .. k - 1) /\ Cardinality(0 .. k - 1) = k
  BY FS_Interval
<1>2. Cardinality(F) \in Nat
  BY FS_CardinalityType
<1>3. CASE Cardinality(F) < k
  <2>1. Cardinality(F) < Cardinality(0 .. k - 1)
    BY <1>1, <1>3
  <2>2. \E i, j \in 0 .. k - 1 : i # j /\ c[i] = c[j]
    BY <1>1, <2>1, FS_PigeonHole, ZenonT(30)
  <2> QED BY <2>2
<1> QED BY <1>2, <1>3

\* The first k entries from h on, with different commands in flight in them.
LEMMA RingPacked ==
  ASSUME NEW N \in Nat \ {0}, NEW h \in 0 .. N - 1, NEW k \in 0 .. N, NEW C,
         NEW F, IsFiniteSet(F),
         \A s \in 0 .. N - 1 : gap(s, h, N) < k => C[s] \in F,
         \A s, t \in 0 .. N - 1 : gap(s, h, N) < k /\ gap(t, h, N) < k /\ C[s] = C[t] => s = t
  PROVE  k <= Cardinality(F)
<1> DEFINE at(i) == (h + i) % N
           c == [i \in 0 .. k - 1 |-> C[at(i)]]
<1>1. \A i \in 0 .. k - 1 : i \in 0 .. N - 1 /\ i < k
  OBVIOUS
<1>2. \A i \in 0 .. k - 1 : at(i) \in 0 .. N - 1 /\ gap(at(i), h, N) = i
  BY <1>1, Ahead, ZenonT(30)
<1> HIDE DEF at
<1>3. c \in [0 .. k - 1 -> F]
  BY <1>1, <1>2
<1>4. \A i, j \in 0 .. k - 1 : c[i] = c[j] => i = j
  BY <1>1, <1>2
<1>5. k \in Nat
  OBVIOUS
<1> HIDE DEF c
<1> QED BY <1>3, <1>4, <1>5, Packed, ZenonT(30)

\* The count in terms of the rings, and its parts.
LEMMA InFlightSum ==
  ASSUME Typed, Placed
  PROVE  /\ IsFiniteSet(host.flying) /\ Cardinality(host.flying) \in Nat
         /\ in_flight = along(host.flying, host.head, dbs, old_dbs)
         /\ gap(host.head, dbs.cq, CQ_SIZE) \in 0 .. CQ_SIZE - 1
         /\ gap(dbs.cq, old_dbs.cq, CQ_SIZE) \in 0 .. CQ_SIZE - 1
         /\ gap(dbs.sq, old_dbs.sq, SQ_SIZE) \in 0 .. SQ_SIZE - 1
<1>1. host.flying \subseteq 1 .. host.sent /\ host.sent \in Int
  BY DEF Placed, Apart, Typed, Hosts
<1>2. IsFiniteSet(1 .. host.sent)
  BY <1>1, FS_Interval, 1 \in Int, ZenonT(30)
<1>3. IsFiniteSet(host.flying)
  BY <1>1, <1>2, FS_Subset, ZenonT(30)
<1>4. Cardinality(host.flying) \in Nat
  BY <1>3, FS_CardinalityType
<1>5. in_flight = along(host.flying, host.head, dbs, old_dbs)
  BY Slots, AlongRings, ZenonT(30) DEF Typed, in_flight, num_proc
<1>6. /\ CQ_SIZE \in Nat \ {0} /\ SQ_SIZE \in Nat \ {0}
      /\ host.head \in 0 .. CQ_SIZE - 1 /\ dbs.cq \in 0 .. CQ_SIZE - 1 /\ old_dbs.cq \in 0 .. CQ_SIZE - 1
      /\ dbs.sq \in 0 .. SQ_SIZE - 1 /\ old_dbs.sq \in 0 .. SQ_SIZE - 1
  BY Slots
<1> QED BY <1>3, <1>4, <1>5, <1>6, Reached, ZenonT(30)

\* A worker stores the status, with the phase, of a completion.
LEMMA StoreStatusStep ==
  ASSUME IoInv, NEW w \in Workers, StoreStatus(w)
  PROVE  Rings'
<1> USE DEF dev, goto
<1> DEFINE t == cq.cq_head
           r == wreq[w]
           g == gap(t, host.head, CQ_SIZE)
<1>0. /\ Typed /\ cq # NULL /\ wpc[w] = "status" /\ t \in CqSlots /\ cq.phase \in {0, 1}
      /\ r \in work[w] /\ ids[t] = r.command_id
  BY DEF IoInv, Typed, StoreStatus, Session, Cqs, Locked, Storing, ids
<1>1. UNCHANGED <<sq, cq, old_dbs, work, sqmem, dbs, wreq, host>>
  BY DEF StoreStatus
<1>2. ~posting /\ top = t /\ top_phase = cq.phase
  BY <1>0, Alone, NullAssumption DEF IoInv
<1>3. \A v \in Workers : wpc'[v] = IF v = w THEN "advance" ELSE wpc[v]
  BY <1>0 DEF StoreStatus, Typed
<1>4. top' = Bump(t, CQ_SIZE) /\ top_phase' = flip(t, cq.phase)
  BY <1>1, <1>3 DEF posting, top, top_phase, next_phase, flip
<1>5. (\A s \in CqSlots : phases'[s] = IF s = t THEN cq.phase ELSE phases[s]) /\ ids' = ids
  <2>1. \A s \in CqSlots : /\ cqmem'[s].phase = IF s = t THEN cq.phase ELSE cqmem[s].phase
                           /\ cqmem'[s].command_id = cqmem[s].command_id
    BY <1>0 DEF StoreStatus, Typed, Entries
  <2> QED BY <2>1 DEF phases, ids
<1> HIDE DEF t, r
<1>6. /\ r \in live[w]
      /\ \A v \in Workers : live'[v] \subseteq live[v] /\ r \notin live'[v]
  <2>1. \A v \in Workers : live[v] = work[v] /\ live'[v] = IF v = w THEN work[v] \ {r} ELSE work[v]
    BY <1>1, <1>2, <1>3 DEF live, posting, r
  <2>2. \A v \in Workers : v # w => r \notin work[v]
    BY <1>0 DEF IoInv, Placed, Apart
  <2> QED BY <1>0, <2>1, <2>2, ZenonT(30)
<1>7. Posted = Between(host.head, t, CQ_SIZE)
  BY <1>0, <1>2 DEF Posted
<1>8. g + 1 < CQ_SIZE
  <2>1. CQ_SIZE \in Nat \ {0} /\ host.head \in 0 .. CQ_SIZE - 1 /\ t \in 0 .. CQ_SIZE - 1
        /\ dbs.cq \in 0 .. CQ_SIZE - 1
    BY <1>0, Slots
  <2>2. g \in 0 .. CQ_SIZE - 1 /\ gap(host.head, dbs.cq, CQ_SIZE) \in Nat
    BY <2>1 DEF gap
  <2>3. \A s \in 0 .. CQ_SIZE - 1 :
          gap(s, host.head, CQ_SIZE) < g + 1 <=> s \in Between(host.head, t, CQ_SIZE) \/ s = t
    BY <2>1 DEF gap, Between
  <2>4. IsFiniteSet(host.flying) /\ Cardinality(host.flying) \in Nat
    BY InFlightSum DEF IoInv
  <2>5. /\ ids[t] \in host.flying
        /\ \A s \in Posted : ids[s] \in host.flying /\ ids[s] # ids[t]
        /\ \A s, u \in Posted : ids[s] = ids[u] => s = u
    BY <1>0, <1>6 DEF IoInv, Placed, Apart
  <2>6. \A s \in 0 .. CQ_SIZE - 1 : gap(s, host.head, CQ_SIZE) < g + 1 => ids[s] \in host.flying
    BY <1>7, <2>3, <2>5, ZenonT(30)
  <2>7. \A s, u \in 0 .. CQ_SIZE - 1 :
          gap(s, host.head, CQ_SIZE) < g + 1 /\ gap(u, host.head, CQ_SIZE) < g + 1 /\ ids[s] = ids[u]
            => s = u
    BY <1>7, <2>3, <2>5, ZenonT(30)
  <2> DEFINE k == g + 1
  <2>8. k \in 0 .. CQ_SIZE
    BY <2>1, <2>2
  <2>9. k <= Cardinality(host.flying)
    <3> HIDE DEF k
    <3>1. /\ \A s \in 0 .. CQ_SIZE - 1 : gap(s, host.head, CQ_SIZE) < k => ids[s] \in host.flying
          /\ \A s, u \in 0 .. CQ_SIZE - 1 :
               gap(s, host.head, CQ_SIZE) < k /\ gap(u, host.head, CQ_SIZE) < k /\ ids[s] = ids[u]
                 => s = u
      BY <2>6, <2>7, ZenonT(30) DEF k
    <3> QED BY <2>1, <2>4, <2>8, <3>1, RingPacked, ZenonT(30)
  <2> HIDE DEF g
  <2> QED BY <2>1, <2>2, <2>4, <2>9 DEF IoInv, Roomy
<1>9. t \notin Posted /\ Posted' = Posted \cup {t}
  <2>1. t \notin Between(host.head, t, CQ_SIZE)
        /\ Between(host.head, Bump(t, CQ_SIZE), CQ_SIZE) = Between(host.head, t, CQ_SIZE) \cup {t}
    BY <1>0, <1>8, Slots, OneMore, ZenonT(30)
  <2> QED BY <1>0, <1>1, <1>4, <1>7, <2>1, ZenonT(30) DEF Posted
<1>10. Placed'
  <2>1. Apart(work, live', sqmem, ids, Waiting, Posted \cup {t}, host.flying, host.sent)
    BY <1>0, <1>6, <1>9, ApartAnswered, ZenonT(30) DEF IoInv, Placed
  <2>2. Waiting' = Waiting
    BY <1>1 DEF Waiting
  <2> QED BY <1>1, <1>5, <1>9, <2>1, <2>2, ZenonT(30) DEF Placed
<1>11. Phased'
  <2>1. Readable(phases, host.head, host.phase, t, cq.phase)
    BY <1>0, <1>2 DEF IoInv, Phased
  <2>2. /\ phases \in [CqSlots -> {0, 1}] /\ host.head \in CqSlots /\ host.phase \in {0, 1}
        /\ CQ_SIZE \in Nat \ {0}
    BY <1>0, Views, SizeAssumption DEF Typed, Hosts
  <2>3. Readable(phases', host.head, host.phase, Bump(t, CQ_SIZE), flip(t, cq.phase))
    BY <1>0, <1>5, <1>8, <2>1, <2>2, PhaseStored, ZenonT(30)
  <2> QED BY <1>1, <1>4, <2>3, ZenonT(30) DEF Phased
<1>12. Roomy' /\ InFlightExact'
  BY <1>1, ZenonT(30) DEF IoInv, Roomy, InFlightExact, in_flight, num_proc
<1> QED BY <1>10, <1>11, <1>12 DEF Rings

\* The host takes a completion.
LEMMA SeeStep ==
  ASSUME IoInv, HostSee
  PROVE  Rings'
<1> USE DEF dev, wloc
<1> DEFINE h == host.head
           c == ids[h]
           p == flip(h, host.phase)
           N == CQ_SIZE
<1>0. /\ Typed /\ cq # NULL /\ h \in CqSlots /\ host.phase \in {0, 1} /\ phases[h] = host.phase
      /\ CQ_SIZE \in Nat \ {0}
  BY SizeAssumption DEF IoInv, Typed, Session, Hosts, HostSee, fresh, phases
<1>1. UNCHANGED <<sq, cq, old_dbs, work, sqmem, cqmem, dbs, wpc, wreq>>
  BY DEF HostSee
<1>2. /\ host'.flying = host.flying \ {c} /\ host'.head = Bump(h, CQ_SIZE) /\ host'.phase = p
      /\ host'.sent = host.sent
  BY <1>0 DEF HostSee, Typed, Hosts, ids, flip
<1> HIDE DEF h, c, p
<1>3. Readable(phases, h, host.phase, top, top_phase)
  BY <1>0 DEF IoInv, Phased, h
<1>4. h # top /\ Readable(phases, Bump(h, CQ_SIZE), p, top, top_phase)
  <2>1. top \in CqSlots /\ top_phase \in {0, 1} /\ phases \in [CqSlots -> {0, 1}]
    BY <1>0, Views
  <2> QED BY <1>0, <1>3, <2>1, PhaseTaken DEF p
<1>5. top' = top /\ top_phase' = top_phase /\ phases' = phases /\ ids' = ids
      /\ live' = live /\ Waiting' = Waiting
  BY <1>1, ZenonT(30) DEF top, top_phase, posting, next_phase, phases, ids, live, Waiting
<1>6. h \in Posted /\ Posted' = Posted \ {h}
  <2>1. h \in Between(h, top, N) /\ Between(Bump(h, N), top, N) = Between(h, top, N) \ {h}
    BY <1>0, <1>4, Views, Slots, OneLess, ZenonT(30)
  <2> QED BY <1>0, <1>1, <1>2, <1>5, <2>1, ZenonT(30) DEF Posted, h
<1>7. Phased'
  BY <1>2, <1>4, <1>5, ZenonT(30) DEF Phased
<1>8. Placed'
  <2>1. Apart(work, live, sqmem, ids, Waiting, Posted \ {h}, host.flying \ {c}, host.sent)
    BY <1>6, ApartSeen, ZenonT(30) DEF IoInv, Placed, c
  <2> QED BY <1>1, <1>2, <1>5, <1>6, <2>1, ZenonT(30) DEF Placed
<1>9. /\ Cardinality(host.flying) \in Nat \ {0}
      /\ Cardinality(host'.flying) = Cardinality(host.flying) - 1
  <2>1. c \in host.flying
    BY <1>6 DEF IoInv, Placed, Apart, c
  <2>2. IsFiniteSet(host.flying) /\ Cardinality(host.flying) \in Nat
    BY InFlightSum DEF IoInv
  <2>3. Cardinality(host.flying \ {c}) = Cardinality(host.flying) - 1
        /\ IsFiniteSet(host.flying \ {c})
    BY <2>1, <2>2, FS_RemoveElement
  <2>4. Cardinality(host.flying \ {c}) \in Nat
    BY <2>3, FS_CardinalityType
  <2> QED BY <1>2, <2>2, <2>3, <2>4
<1>10. gap(Bump(h, N), dbs.cq, N) = gap(h, dbs.cq, N) + 1
  <2>0. dbs.cq \in 0 .. N - 1 /\ h \in 0 .. N - 1
    BY <1>0, Slots, ZenonT(30)
  <2>1. gap(h, dbs.cq, N) + 1 < N
    <3>1. gap(h, dbs.cq, N) \in Nat
      BY <1>0, <2>0, Reached
    <3>2. Roomy /\ CQ_SIZE \in Nat
      BY <1>0 DEF IoInv
    <3> QED BY <1>9, <3>1, <3>2 DEF Roomy, h
  <2> QED BY <1>0, <2>0, <2>1, OneMore, ZenonT(30)
<1>11. gap(h, dbs.cq, N) \in Int /\ gap(dbs.cq, old_dbs.cq, N) \in Int
       /\ gap(dbs.sq, old_dbs.sq, SQ_SIZE) \in Int
  BY <1>0, Slots DEF gap
<1>12. Roomy'
  BY <1>0, <1>1, <1>2, <1>9, <1>10, <1>11, SizeAssumption DEF IoInv, Roomy, h
<1>13. in_flight' = in_flight
  <2>1. Typed'
    BY TypedHost DEF IoInv, HostIsr
  <2>2. in_flight = along(host.flying, h, dbs, old_dbs)
    BY InFlightSum DEF IoInv, h
  <2>3. in_flight' = along(host'.flying, Bump(h, N), dbs, old_dbs)
    BY <1>1, <1>2, <2>1, InFlightNext, ZenonT(30) DEF Typed
  <2> QED BY <1>9, <1>10, <1>11, <2>2, <2>3 DEF along
<1>14. InFlightExact'
  BY <1>1, <1>13, ZenonT(30) DEF IoInv, InFlightExact
<1> QED BY <1>7, <1>8, <1>12, <1>14 DEF Rings

\* The host leaves its interrupt handler and writes the doorbell.
LEMMA IrqEndStep ==
  ASSUME IoInv, HostIrqEnd
  PROVE  Rings'
<1> USE DEF dev, wloc
<1> DEFINE h == host.head
           N == CQ_SIZE
           b == gap(h, dbs.cq, N) + gap(dbs.cq, old_dbs.cq, N)
           c == gap(h, old_dbs.cq, N)
<1>0. Typed /\ Typed'
  BY TypedHost DEF IoInv, HostIsr
<1>1. UNCHANGED <<sq, cq, old_dbs, work, sqmem, cqmem, wpc, wreq>>
  BY DEF HostIrqEnd
<1>2. /\ host'.flying = host.flying /\ host'.head = h /\ host'.phase = host.phase
      /\ host'.sent = host.sent /\ dbs'.sq = dbs.sq /\ dbs'.cq = h
  BY <1>0 DEF HostIrqEnd, Typed, Hosts, Dbs
<1>3. /\ N \in Nat \ {0} /\ h \in 0 .. N - 1 /\ dbs.cq \in 0 .. N - 1 /\ old_dbs.cq \in 0 .. N - 1
      /\ dbs.sq \in 0 .. SQ_SIZE - 1 /\ old_dbs.sq \in 0 .. SQ_SIZE - 1
  BY <1>0, Slots
<1> HIDE DEF h
<1>4. Phased' /\ Placed'
  <2>1. /\ Posted' = Posted /\ Waiting' = Waiting /\ phases' = phases /\ ids' = ids
        /\ top' = top /\ top_phase' = top_phase /\ live' = live
    BY <1>1, <1>2, ZenonT(30)
       DEF top, top_phase, posting, next_phase, phases, ids, live, Waiting, Posted, h
  <2>2. Phased'
    BY <1>1, <1>2, <2>1, ZenonT(30) DEF IoInv, Phased, h
  <2>3. Placed'
    BY <1>1, <1>2, <2>1, ZenonT(30) DEF IoInv, Placed
  <2> QED BY <2>2, <2>3
<1>5. /\ Cardinality(host.flying) \in Nat /\ gap(h, h, N) = 0 /\ gap(h, dbs.cq, N) \in Nat
      /\ gap(dbs.sq, old_dbs.sq, SQ_SIZE) \in Int /\ b \in Int /\ c \in Int
  BY <1>3, InFlightSum DEF IoInv, gap
<1>6. Roomy'
  BY <1>2, <1>3, <1>5 DEF IoInv, Roomy, h
<1>7. /\ in_flight = Cardinality(host.flying) - gap(dbs.sq, old_dbs.sq, SQ_SIZE) + b
      /\ in_flight' = Cardinality(host.flying) - gap(dbs.sq, old_dbs.sq, SQ_SIZE) + c
  <2>1. in_flight = along(host.flying, h, dbs, old_dbs)
    BY InFlightSum DEF IoInv, h
  <2>2. in_flight' = along(host'.flying, host'.head, dbs', old_dbs')
    BY <1>0, InFlightNext DEF Typed
  <2>3. /\ gap(h, dbs.cq, N) \in Int /\ gap(dbs.cq, old_dbs.cq, N) \in Int
        /\ Cardinality(host.flying) \in Int
    BY <1>3, <1>5 DEF gap
  <2>4. along(host'.flying, host'.head, dbs', old_dbs')
          = Cardinality(host.flying) - gap(dbs.sq, old_dbs.sq, SQ_SIZE) + gap(h, h, N) + c
    BY <1>1, <1>2, ZenonT(30) DEF along
  <2>5. along(host.flying, h, dbs, old_dbs)
          = Cardinality(host.flying) - gap(dbs.sq, old_dbs.sq, SQ_SIZE) + gap(h, dbs.cq, N)
              + gap(dbs.cq, old_dbs.cq, N)
    BY DEF along
  <2> QED BY <1>5, <2>1, <2>2, <2>3, <2>4, <2>5
<1>8. b \in {c, c + N}
  BY <1>3, GapSum, ZenonT(30)
<1> HIDE DEF b, c
<1>9. InFlightExact'
  <2> SUFFICES ASSUME sq # NULL
               PROVE  /\ sq.nr_in_flight >= in_flight'
                      /\ (sq.nr_in_flight - in_flight') % CQ_SIZE = 0
    BY <1>1 DEF InFlightExact
  <2> DEFINE d == sq.nr_in_flight - in_flight
             e == sq.nr_in_flight - in_flight'
  <2>1. sq.nr_in_flight \in Int /\ in_flight \in Int /\ in_flight' \in Int /\ N \in Nat \ {0}
    BY <1>0, <1>3, <1>5, <1>7 DEF Typed
  <2>2. sq.nr_in_flight >= in_flight /\ d % N = 0 /\ d \in Int
    BY <2>1 DEF IoInv, InFlightExact
  <2>3. e = d \/ e = d + N
    BY <1>5, <1>7, <1>8, <2>1
  <2>4. sq.nr_in_flight >= in_flight'
    BY <2>1, <2>2, <2>3
  <2> HIDE DEF d, e
  <2>5. e % N = 0
    BY <2>1, <2>2, <2>3, WholeRounds, ZenonT(30)
  <2> QED BY <2>4, <2>5 DEF e
<1> QED BY <1>4, <1>6, <1>9 DEF Rings

\* The host submits a command.
LEMMA SubmitStep ==
  ASSUME IoInv, HostSubmit
  PROVE  Rings'
<1> USE DEF dev, wloc
<1> DEFINE t == host.tail
           c == host.sent + 1
           F == host.flying
           N == SQ_SIZE
           o == old_dbs.sq
<1>0. /\ Typed /\ Typed' /\ sq # NULL /\ t = dbs.sq /\ t \in SqSlots /\ host.sent \in Nat
      /\ sqmem[t] \notin F
  <2>1. Typed /\ Typed' /\ host.sent \in Nat /\ dbs.sq \in SqSlots
    BY TypedHost DEF IoInv, Typed, Hosts, Dbs
  <2> QED BY <2>1 DEF IoInv, HostSubmit, Session
<1>1. UNCHANGED <<sq, cq, old_dbs, work, cqmem, wpc, wreq>> /\ sqmem' = [sqmem EXCEPT ![t] = c]
  BY DEF HostSubmit
<1>2. /\ host'.flying = F \cup {c} /\ host'.head = host.head /\ host'.phase = host.phase
      /\ host'.sent = c /\ dbs'.sq = Bump(t, N) /\ dbs'.cq = dbs.cq
  BY <1>0 DEF HostSubmit, Typed, Hosts, Dbs
<1>3. IsFiniteSet(F) /\ Cardinality(F) \in Nat /\ gap(t, o, N) \in 0 .. N - 1
      /\ N \in Nat \ {0} /\ t \in 0 .. N - 1 /\ o \in 0 .. N - 1
  BY <1>0, Slots, InFlightSum DEF IoInv
<1>4. Waiting = Between(o, t, N)
  BY <1>0 DEF Waiting
<1>5. gap(t, o, N) <= Cardinality(F)
  <2> DEFINE k == gap(t, o, N)
  <2>1. \A s \in 0 .. N - 1 : gap(s, o, N) < k <=> s \in Waiting
    BY <1>4 DEF Between
  <2>2. /\ \A s \in Waiting : sqmem[s] \in F
        /\ \A s, u \in Waiting : sqmem[s] = sqmem[u] => s = u
    BY DEF IoInv, Placed, Apart
  <2>3. k \in 0 .. N
    BY <1>3
  <2> HIDE DEF k, F, N, o
  <2>4. /\ \A s \in 0 .. N - 1 : gap(s, o, N) < k => sqmem[s] \in F
        /\ \A s, u \in 0 .. N - 1 : gap(s, o, N) < k /\ gap(u, o, N) < k /\ sqmem[s] = sqmem[u] => s = u
    BY <2>1, <2>2, ZenonT(30)
  <2>5. k <= Cardinality(F)
    BY <1>3, <2>3, <2>4, RingPacked, ZenonT(30)
  <2> QED BY <2>5 DEF k
<1>6. Cardinality(F) < N - 1 /\ Cardinality(F) + gap(host.head, dbs.cq, CQ_SIZE) < CQ_SIZE - 1
  <2>1. (host.head - dbs.cq) % CQ_SIZE = gap(host.head, dbs.cq, CQ_SIZE)
    BY <1>0, Slots, GapMod, ZenonT(30)
  <2> QED BY <2>1 DEF HostSubmit, room
<1>7. gap(t, o, N) + 1 < N
  BY <1>3, <1>5, <1>6
<1>8. gap(Bump(t, N), o, N) = gap(t, o, N) + 1 /\ Waiting' = Waiting \cup {t}
  <2>1. /\ gap(Bump(t, N), o, N) = gap(t, o, N) + 1
        /\ Between(o, Bump(t, N), N) = Between(o, t, N) \cup {t}
    BY <1>3, <1>7, OneMore, ZenonT(30)
  <2> QED BY <1>1, <1>2, <1>4, <2>1, ZenonT(30) DEF Waiting
<1> HIDE DEF t, c, F
<1>9. /\ Posted' = Posted /\ phases' = phases /\ ids' = ids
      /\ top' = top /\ top_phase' = top_phase /\ live' = live
  BY <1>1, <1>2, ZenonT(30) DEF top, top_phase, posting, next_phase, phases, ids, live, Posted
<1>10. Phased'
  BY <1>1, <1>2, <1>9, ZenonT(30) DEF IoInv, Phased
<1>11. Placed'
  <2>1. Waiting \subseteq SqSlots
    BY <1>4, ZenonT(30) DEF Between, SqSlots
  <2>2. work \in [Workers -> SUBSET Reqs] /\ sqmem \in [SqSlots -> Nat \cup {NULL}]
    BY <1>0 DEF Typed
  <2>3. Apart(work, live, [sqmem EXCEPT ![t] = host.sent + 1], ids, Waiting \cup {t}, Posted,
              F \cup {host.sent + 1}, host.sent + 1)
    BY <1>0, <2>1, <2>2, ApartSubmitted, ZenonT(30) DEF IoInv, Placed, F
  <2> QED BY <1>1, <1>2, <1>8, <1>9, <2>3, ZenonT(30) DEF Placed, c
<1>12. Cardinality(host'.flying) = Cardinality(F) + 1
  <2>1. c \notin F
    BY <1>0 DEF IoInv, Placed, Apart, F, c
  <2>2. Cardinality(F \cup {c}) = Cardinality(F) + 1
    BY <1>3, <2>1, FS_AddElement
  <2> QED BY <1>2, <2>2, ZenonT(30)
<1>13. /\ gap(host.head, dbs.cq, CQ_SIZE) \in Int /\ gap(dbs.cq, old_dbs.cq, CQ_SIZE) \in Int
       /\ CQ_SIZE \in Nat
  BY InFlightSum, SizeAssumption DEF IoInv
<1>14. Roomy'
  BY <1>1, <1>2, <1>3, <1>6, <1>12, <1>13 DEF Roomy
<1>15. in_flight' = in_flight
  <2>1. in_flight = along(F, host.head, dbs, old_dbs)
    BY InFlightSum DEF IoInv, F
  <2>2. in_flight' = along(host'.flying, host'.head, dbs', old_dbs')
    BY <1>0, InFlightNext DEF Typed
  <2> QED BY <1>0, <1>1, <1>2, <1>3, <1>8, <1>12, <1>13, <2>1, <2>2 DEF along
<1>16. InFlightExact'
  BY <1>1, <1>15, ZenonT(30) DEF IoInv, InFlightExact
<1> QED BY <1>10, <1>11, <1>14, <1>16 DEF Rings

\* The dispatcher takes the first n waiting submissions.
LEMMA ProcSqStep ==
  ASSUME IoInv, NEW n \in 1 .. num_proc, ProcIoSq(n)
  PROVE  Rings'
<1> USE DEF wloc
<1> DEFINE o == old_dbs.sq
           N == SQ_SIZE
           D == {s \in Waiting : gap(s, o, N) < n}
           new(i) == [entry |-> entry_at(i), command_id |-> sqmem[entry_at(i)], copied |-> NULL]
<1>0. Typed /\ Placed /\ Typed' /\ sq # NULL
  BY TypedDispatch DEF IoInv, Dispatch, ProcIoSq
<1>1. UNCHANGED <<cq, sqmem, cqmem, dbs, wpc, wreq, host>>
  BY DEF ProcIoSq
<1>2. /\ old_dbs'.sq = (o + n) % N /\ old_dbs'.cq = old_dbs.cq
      /\ sq' # NULL /\ sq'.nr_in_flight = sq.nr_in_flight + n
  BY <1>0, NullAssumption DEF ProcIoSq, Typed, Dbs, entry_at
<1>3. /\ N \in Nat \ {0} /\ o \in 0 .. N - 1 /\ dbs.sq \in 0 .. N - 1
      /\ num_proc = gap(dbs.sq, o, N) /\ n \in 0 .. gap(dbs.sq, o, N)
      /\ \A i \in 0 .. n - 1 : i \in 0 .. num_proc - 1 /\ i < n
  BY <1>0, Slots
<1>4. gap(dbs.sq, (o + n) % N, N) = gap(dbs.sq, o, N) - n /\ Waiting' = Waiting \ D
  <2>1. /\ gap(dbs.sq, (o + n) % N, N) = gap(dbs.sq, o, N) - n
        /\ Between((o + n) % N, dbs.sq, N) = {s \in Between(o, dbs.sq, N) : gap(s, o, N) >= n}
    BY <1>3, SeveralLess, ZenonT(30)
  <2>2. \A s \in Waiting : gap(s, o, N) >= n <=> ~(gap(s, o, N) < n)
    BY <1>3 DEF Waiting, Between, gap
  <2> QED BY <1>1, <1>2, <2>1, <2>2 DEF Waiting
<1>5. \A i \in 0 .. n - 1 : entry_at(i) \in D /\ gap(entry_at(i), o, N) = i
  BY <1>0, <1>3, EntriesWait, ZenonT(30)
<1>6. \A w \in Workers :
        work'[w] = work[w] \cup {new(i) : i \in {j \in 0 .. n - 1 : worker_at(j) = w}}
  BY DEF ProcIoSq
<1>7. \A w \in Workers : \A r \in work'[w] :
        r \in work[w] \/ \E i \in 0 .. n - 1 : worker_at(i) = w /\ r = new(i)
  <2> HIDE DEF new
  <2> QED BY <1>6
<1>8. \A w \in Workers : \A r \in work'[w] :
        r \in work[w] \/ \E s \in D : r = [entry |-> s, command_id |-> sqmem[s], copied |-> NULL]
  BY <1>5, <1>7, ZenonT(30)
<1>9. ASSUME NEW w \in Workers, NEW v \in Workers, NEW r \in work'[w], NEW q \in work'[v],
             r \notin work[w], q \notin work[v], r.entry = q.entry
      PROVE  w = v
  <2>1. PICK i \in 0 .. n - 1 : worker_at(i) = w /\ r = new(i)
    BY <1>7, <1>9, ZenonT(30)
  <2>2. PICK j \in 0 .. n - 1 : worker_at(j) = v /\ q = new(j)
    BY <1>7, <1>9, ZenonT(30)
  <2>3. entry_at(i) = entry_at(j)
    BY <1>9, <2>1, <2>2
  <2>4. i = j
    BY <1>5, <2>3, ZenonT(30)
  <2> QED BY <2>1, <2>2, <2>4
<1>10. \A w \in Workers : \A r \in live'[w] : r \in work'[w] /\ (r \in work[w] => r \in live[w])
  BY <1>1 DEF live
<1> HIDE DEF D, new
<1>11. Placed'
  <2>1. Apart(work', live', sqmem, ids, Waiting \ D, Posted, host.flying, host.sent)
    <3>1. D \subseteq Waiting
      BY DEF D
    <3>2. Apart(work, live, sqmem, ids, Waiting, Posted, host.flying, host.sent)
      BY <1>0 DEF Placed
    <3>3. \A w, v \in Workers : \A r \in work'[w], q \in work'[v] :
            r \notin work[w] /\ q \notin work[v] /\ r.entry = q.entry => w = v
      BY <1>9
    <3> QED BY <1>8, <1>10, <3>1, <3>2, <3>3, ApartDispatched, ZenonT(30)
  <2>2. Posted' = Posted /\ ids' = ids
    BY <1>1, ZenonT(30) DEF Posted, top, posting, ids
  <2> QED BY <1>1, <1>4, <2>1, <2>2, ZenonT(30) DEF Placed
<1>12. Phased' /\ Roomy'
  <2>1. phases' = phases /\ top' = top /\ top_phase' = top_phase
    BY <1>1, ZenonT(30) DEF phases, top, top_phase, posting, next_phase
  <2> QED BY <1>1, <2>1, ZenonT(30) DEF IoInv, Phased, Roomy
<1>13. in_flight' = in_flight + n /\ in_flight \in Int /\ n \in Int
  <2>1. /\ in_flight = along(host.flying, host.head, dbs, old_dbs)
        /\ Cardinality(host.flying) \in Nat
        /\ gap(host.head, dbs.cq, CQ_SIZE) \in Int /\ gap(dbs.cq, old_dbs.cq, CQ_SIZE) \in Int
        /\ gap(dbs.sq, o, N) \in Int
    BY <1>0, InFlightSum
  <2>2. in_flight' = along(host.flying, host.head, dbs, old_dbs')
    BY <1>0, <1>1, InFlightNext, ZenonT(30) DEF Typed
  <2>3. along(host.flying, host.head, dbs, old_dbs')
          = Cardinality(host.flying) - (gap(dbs.sq, o, N) - n)
              + gap(host.head, dbs.cq, CQ_SIZE) + gap(dbs.cq, old_dbs.cq, CQ_SIZE)
    BY <1>2, <1>4, ZenonT(30) DEF along
  <2> QED BY <2>1, <2>2, <2>3 DEF along
<1>14. InFlightExact'
  <2>1. sq.nr_in_flight \in Int
    BY <1>0 DEF Typed
  <2>2. sq'.nr_in_flight - in_flight' = sq.nr_in_flight - in_flight
    BY <1>2, <1>13, <2>1
  <2> QED BY <1>0, <1>2, <1>13, <2>1, <2>2 DEF IoInv, InFlightExact
<1> QED BY <1>11, <1>12, <1>14 DEF Rings

\* The dispatcher processes the completion doorbell.
LEMMA ProcCqStep ==
  ASSUME IoInv, ProcIoCq
  PROVE  Rings'
<1> USE DEF wloc
<1> DEFINE g == gap(dbs.cq, old_dbs.cq, CQ_SIZE)
<1>0. Typed /\ Placed /\ Typed'
  BY TypedDispatch DEF IoInv, Dispatch
<1>1. UNCHANGED <<cq, work, sqmem, cqmem, dbs, wpc, wreq, host>>
  BY DEF ProcIoCq
<1>2. old_dbs'.sq = old_dbs.sq /\ old_dbs'.cq = dbs.cq
  BY <1>0 DEF ProcIoCq, Typed, Dbs
<1>3. acknowledged(old_dbs.cq, dbs.cq) = g
  BY <1>0, Slots, GapMod, ZenonT(30) DEF acknowledged
<1>4. Phased' /\ Placed' /\ Roomy'
  <2>1. /\ Posted' = Posted /\ Waiting' = Waiting /\ phases' = phases /\ ids' = ids
        /\ top' = top /\ top_phase' = top_phase /\ live' = live
    BY <1>1, <1>2, ZenonT(30)
       DEF top, top_phase, posting, next_phase, phases, ids, live, Waiting, Posted
  <2>2. Phased'
    BY <1>1, <2>1, ZenonT(30) DEF IoInv, Phased
  <2>3. Placed'
    BY <1>1, <2>1, ZenonT(30) DEF IoInv, Placed
  <2>4. Roomy'
    BY <1>1, ZenonT(30) DEF IoInv, Roomy
  <2> QED BY <2>2, <2>3, <2>4
<1>5. in_flight' = in_flight - g /\ in_flight \in Int /\ g \in Int
  <2>1. /\ in_flight = along(host.flying, host.head, dbs, old_dbs)
        /\ Cardinality(host.flying) \in Nat
        /\ gap(host.head, dbs.cq, CQ_SIZE) \in Int /\ g \in Int
        /\ gap(dbs.sq, old_dbs.sq, SQ_SIZE) \in Int
    BY <1>0, InFlightSum
  <2>2. in_flight' = along(host.flying, host.head, dbs, old_dbs')
    BY <1>0, <1>1, InFlightNext, ZenonT(30) DEF Typed
  <2>3. gap(dbs.cq, dbs.cq, CQ_SIZE) = 0
    BY <1>0, Slots, NoneBetween, ZenonT(30)
  <2> QED BY <1>2, <2>1, <2>2, <2>3 DEF along
<1>6. InFlightExact'
  <2> SUFFICES ASSUME sq' # NULL
               PROVE  /\ sq'.nr_in_flight >= in_flight'
                      /\ (sq'.nr_in_flight - in_flight') % CQ_SIZE = 0
    BY DEF InFlightExact
  <2> HIDE DEF g
  <2>1. sq # NULL /\ sq.nr_in_flight \in Int /\ sq'.nr_in_flight = sq.nr_in_flight - g
    BY <1>0, <1>3 DEF ProcIoCq, Typed
  <2>2. sq'.nr_in_flight - in_flight' = sq.nr_in_flight - in_flight
    BY <1>5, <2>1
  <2> QED BY <1>5, <2>1, <2>2 DEF IoInv, InFlightExact
<1> QED BY <1>4, <1>6 DEF Rings

\* The host creates and deletes the queues.
LEMMA QueuesStep ==
  ASSUME IoInv, CreateCq \/ CreateSq \/ DeleteSq \/ DeleteCq
  PROVE  Rings'
<1> USE DEF wloc
<1>0. Typed /\ Session /\ Phased /\ Placed /\ Roomy /\ InFlightExact
  BY DEF IoInv
<1>1. /\ 0 \in 0 .. CQ_SIZE - 1 /\ 0 \in 0 .. SQ_SIZE - 1 /\ CQ_SIZE \in Nat \ {0, 1}
      /\ SQ_SIZE \in Nat \ {0, 1}
  BY SizeAssumption
<1>2. gap(0, 0, CQ_SIZE) = 0 /\ Between(0, 0, CQ_SIZE) = {}
  BY <1>1, NoneBetween
<1>3. gap(0, 0, SQ_SIZE) = 0 /\ Between(0, 0, SQ_SIZE) = {}
  BY <1>1, NoneBetween
<1>4. Cardinality({}) = 0
  BY FS_EmptySet
<1>5. CASE CreateCq
  <2>1. /\ cq = NULL /\ sq = NULL /\ sq' = NULL /\ host.flying = {} /\ host'.flying = {}
        /\ \A w \in Workers : wpc[w] = "pass"
    BY <1>0, <1>5 DEF CreateCq, Session, Typed, Hosts
  <2>2. UNCHANGED <<work, sqmem, wpc, wreq>>
    BY <1>5 DEF CreateCq
  <2>3. /\ host'.head = 0 /\ host'.phase = 1 /\ host'.sent = host.sent /\ dbs'.cq = 0
        /\ dbs'.sq = dbs.sq /\ old_dbs'.sq = old_dbs.sq /\ cq'.cq_head = 0 /\ cq'.phase = 1
    BY <1>0, <1>5 DEF CreateCq, Typed, Hosts, Dbs
  <2>4. top' = 0 /\ top_phase' = 1
    BY <2>1, <2>2, <2>3 DEF top, top_phase, posting
  <2>5. Posted = {} /\ Posted' = {} /\ Waiting' = Waiting /\ live' = live
    BY <1>2, <2>1, <2>2, <2>3, <2>4, ZenonT(30) DEF Posted, Waiting, live
  <2>6. Placed'
    <3>1. \A s \in {} : ids'[s] = ids[s]
      OBVIOUS
    <3>2. Apart(work, live, sqmem, ids, Waiting, {}, {}, host.sent)
      BY <1>0, <2>1, <2>5, ZenonT(30) DEF Placed
    <3>3. Apart(work, live, sqmem, ids', Waiting, {}, {}, host.sent)
      BY <3>1, <3>2, ApartStored, ZenonT(30)
    <3> QED BY <2>1, <2>2, <2>3, <2>5, <3>3, ZenonT(30) DEF Placed
  <2>7. Phased'
    <3>1. \A s \in CqSlots : phases'[s] = 0 /\ due(s, 0, 1) = 1
      BY <1>1, <1>5 DEF CreateCq, EmptyCq, phases, due, CqSlots
    <3>2. Readable(phases', 0, 1, 0, 1)
      BY <1>1, <1>2, <3>1 DEF Readable, CqSlots
    <3> QED BY <2>3, <2>4, <3>2, ZenonT(30) DEF Phased
  <2>8. Roomy' /\ InFlightExact'
    BY <1>1, <1>2, <1>4, <2>1, <2>3 DEF Roomy, InFlightExact
  <2> QED BY <2>6, <2>7, <2>8 DEF Rings
<1>6. CASE CreateSq
  <2>1. /\ cq # NULL /\ sq = NULL /\ host.flying = {} /\ host.head = 0 /\ dbs.cq = 0
        /\ old_dbs.cq = 0 /\ dbs.sq = old_dbs.sq
    BY <1>0, <1>6 DEF CreateSq, Session
  <2>2. UNCHANGED <<cq, work, sqmem, cqmem, wpc, wreq, host>>
    BY <1>6 DEF CreateSq
  <2>3. /\ dbs'.sq = 0 /\ old_dbs'.sq = 0 /\ dbs'.cq = 0 /\ old_dbs'.cq = 0
        /\ sq' = [nr_in_flight |-> 0]
    BY <1>0, <1>6, <2>1 DEF CreateSq, Typed, Dbs
  <2>4. Waiting = {} /\ Waiting' = {}
    <3>1. Between(old_dbs.sq, old_dbs.sq, SQ_SIZE) = {}
      BY <1>0, Slots, NoneBetween, ZenonT(30)
    <3> QED BY <1>3, <2>1, <2>3, <3>1, ZenonT(30) DEF Waiting
  <2>5. /\ Posted' = Posted /\ phases' = phases /\ ids' = ids
        /\ top' = top /\ top_phase' = top_phase /\ live' = live
    BY <2>2, ZenonT(30) DEF top, top_phase, posting, next_phase, phases, ids, live, Posted
  <2>6. Phased'
    BY <1>0, <2>2, <2>5, ZenonT(30) DEF Phased
  <2>7. Placed'
    BY <1>0, <2>2, <2>4, <2>5, ZenonT(30) DEF Placed
  <2>8. Roomy'
    BY <1>0, <2>1, <2>2, <2>3, ZenonT(30) DEF Roomy
  <2>9. InFlightExact'
    <3>1. Typed'
      BY <1>0, <1>6, TypedDispatch
    <3>2. in_flight' = along({}, 0, dbs', old_dbs')
      BY <2>1, <2>2, <3>1, InFlightNext, ZenonT(30) DEF Typed
    <3>3. in_flight' = 0
      BY <1>2, <1>3, <1>4, <2>3, <3>2 DEF along
    <3>4. 0 % CQ_SIZE = 0
      BY <1>1
    <3> QED BY <1>1, <2>3, <3>3, <3>4 DEF InFlightExact
  <2> QED BY <2>6, <2>7, <2>8, <2>9 DEF Rings
<1>7. CASE DeleteSq
  <2>1. UNCHANGED <<cq, old_dbs, work, sqmem, cqmem, dbs, wpc, wreq>> /\ sq' \in {sq, NULL}
    BY <1>7 DEF DeleteSq
  <2>2. /\ host'.head = host.head /\ host'.phase = host.phase /\ host'.flying = host.flying
        /\ host'.sent = host.sent
    BY <1>0, <1>7 DEF DeleteSq, Typed, Hosts
  <2> QED BY <1>0, <2>1, <2>2, Still, ZenonT(30) DEF Rings
<1>8. CASE DeleteCq
  <2>1. /\ UNCHANGED <<sq, old_dbs, work, sqmem, cqmem, dbs, wpc, wreq>>
        /\ sq = NULL /\ cq' = NULL /\ host.flying = {}
    BY <1>8 DEF DeleteCq
  <2>2. /\ host'.head = host.head /\ host'.phase = host.phase /\ host'.flying = host.flying
        /\ host'.sent = host.sent
    BY <1>0, <1>8 DEF DeleteCq, Typed, Hosts
  <2>3. Posted = {} /\ Posted' = {}
    BY <1>0, <2>1 DEF Placed, Apart, Posted
  <2>4. Waiting' = Waiting /\ ids' = ids /\ live' = live
    BY <2>1, ZenonT(30) DEF ids, live, Waiting
  <2>5. Placed'
    BY <1>0, <2>1, <2>2, <2>3, <2>4, ZenonT(30) DEF Placed
  <2>6. Phased' /\ InFlightExact'
    BY <2>1, ZenonT(30) DEF Phased, InFlightExact
  <2>7. Roomy'
    BY <1>0, <2>1, <2>2, ZenonT(30) DEF Roomy
  <2> QED BY <2>5, <2>6, <2>7 DEF Rings
<1> QED BY <1>5, <1>6, <1>7, <1>8

-----------------------------------------------------------------------------
(* The theorems about the queues                                           *)

\* The invariant holds at the start.
LEMMA IoInitInv == IoInit => IoInv
<1> SUFFICES ASSUME IoInit PROVE IoInv
  OBVIOUS
<1> USE SizeAssumption, NullAssumption DEF IoInit
<1>1. Typed
  <2>1. host \in Hosts
    <3>1. 0 \in 0 .. SQ_SIZE /\ 0 \in CqSlots /\ 0 \in Nat /\ 1 \in {0, 1} /\ {} \in SUBSET Nat
      BY DEF CqSlots
    <3> QED BY <3>1, ZenonT(30) DEF Hosts
  <2>2. cqmem \in [CqSlots -> Entries] /\ dbs \in Dbs /\ old_dbs \in Dbs /\ io_worker_turn \in Workers
    BY DEF EmptyCq, Entries, Dbs, SqSlots, CqSlots, Workers
  <2>3. irq \in BOOLEAN /\ sq \in {NULL} /\ cq \in {NULL} /\ entry_lock \in {NULL}
    BY ZenonT(30)
  <2>4. /\ sqmem \in [SqSlots -> Nat \cup {NULL}] /\ work \in [Workers -> SUBSET Reqs]
        /\ wpc \in [Workers -> Storing \cup {"pass", "clear", "signal"}]
        /\ wreq \in [Workers -> Reqs \cup {NULL}]
    OBVIOUS
  <2> QED BY <2>1, <2>2, <2>3, <2>4, ZenonT(30) DEF Typed
<1>2. Locked /\ Session
  BY DEF Locked, Session, Storing, Workers
<1>3. Waiting = {} /\ Posted = {} /\ gap(0, 0, CQ_SIZE) = 0
  BY NoneBetween DEF Waiting, Posted, gap
<1>4. Phased /\ Placed
  BY <1>3, ZenonT(30) DEF Phased, Placed, Apart, live
<1>5. Roomy /\ InFlightExact
  BY <1>3, FS_EmptySet DEF Roomy, InFlightExact
<1> QED BY <1>1, <1>2, <1>4, <1>5 DEF IoInv

\* Every step keeps the invariant.
LEMMA IoNextInv == IoInv /\ [IoNext]_ioVars => IoInv'
<1> SUFFICES ASSUME IoInv, [IoNext]_ioVars PROVE IoInv'
  OBVIOUS
<1>0. Typed /\ Locked /\ Session /\ Phased /\ Placed /\ Roomy /\ InFlightExact
  BY DEF IoInv
<1>1. CASE CreateCq \/ CreateSq \/ DeleteSq \/ DeleteCq
  BY <1>0, <1>1, TypedDispatch, LockedOthers, SessionOthers, QueuesStep, ZenonT(30) DEF IoInv, Rings
<1>2. CASE Dispatch
  <2>1. Rings'
    BY <1>2, ProcSqStep, ProcCqStep DEF Dispatch
  <2> QED BY <1>0, <1>2, <2>1, TypedDispatch, LockedOthers, SessionOthers, ZenonT(30) DEF IoInv, Rings
<1>3. ASSUME NEW w \in Workers, Worker(w) PROVE IoInv'
  <2>1. Rings'
    BY <1>3, WorkerStill, PerformStep, StoreIdsStep, StoreStatusStep, AdvanceStep DEF Worker
  <2> QED BY <1>0, <1>3, <2>1, TypedWorker, LockedWorker, SessionWorker, ZenonT(30) DEF IoInv, Rings
<1>4. CASE HostSubmit \/ HostIsr
  <2>1. ASSUME HostIrq PROVE Rings'
    <3>1. UNCHANGED <<sq, cq, old_dbs, work, sqmem, cqmem, dbs, wpc, wreq>>
      BY <2>1 DEF HostIrq, dev, wloc
    <3>2. /\ host'.head = host.head /\ host'.phase = host.phase /\ host'.flying = host.flying
          /\ host'.sent = host.sent
      BY <1>0, <2>1, ZenonT(30) DEF HostIrq, Typed, Hosts
    <3>3. sq' \in {sq, NULL}
      BY <3>1
    <3> QED BY <1>0, <3>1, <3>2, <3>3, Still, ZenonT(30) DEF Rings
  <2>2. Rings'
    BY <1>4, <2>1, SubmitStep, SeeStep, IrqEndStep DEF HostIsr
  <2> QED BY <1>0, <1>4, <2>2, TypedHost, LockedOthers, SessionOthers, ZenonT(30) DEF IoInv, Rings
<1>5. CASE UNCHANGED ioVars
  <2>1. /\ UNCHANGED <<sq, cq, old_dbs, io_worker_turn, work, sqmem, cqmem, dbs, irq, host>>
        /\ UNCHANGED <<wpc, wreq, entry_lock>>
    BY <1>5 DEF ioVars, dev, wloc
  <2>2. Rings'
    <3>1. sq' \in {sq, NULL}
      BY <2>1
    <3> QED BY <1>0, <2>1, <3>1, Still, ZenonT(30) DEF Rings
  <2>3. Typed' /\ Locked' /\ Session'
    BY <1>0, <2>1, ZenonT(30) DEF Typed, Locked, Session
  <2> QED BY <2>2, <2>3 DEF IoInv, Rings
<1> QED BY <1>1, <1>2, <1>3, <1>4, <1>5 DEF IoNext

\* The invariant holds in every state of the queues.
THEOREM IoInvariant == IoSpec => []IoInv
<1> QED BY IoInitInv, IoNextInv, PTL DEF IoSpec

\* For rings of any size, any number of workers and any number of sessions, a
\* completion the host accepts belongs to a command in flight whose data has
\* been transferred (CompletionOwn; __fill_cq_result, nvmev_io_worker).
THEOREM CompletionsOwn == IoSpec => []CompletionOwn
<1>1. IoInv => CompletionOwn
  <2> SUFFICES ASSUME IoInv, host.isr, fresh
               PROVE  LET c == cqmem[host.head].command_id IN
                      /\ c \in host.flying
                      /\ \A w \in Workers : \A r \in work[w] : r.command_id = c => r.copied = c
    BY ZenonT(30) DEF CompletionOwn
  <2>1. Typed /\ Locked /\ Session /\ Phased /\ Placed /\ cq # NULL /\ host.head \in CqSlots
    BY Slots, ZenonT(30) DEF IoInv, Session
  <2>2. host.head \in Posted
    <3>1. due(host.head, host.head, host.phase) = host.phase
      BY <2>1, Slots DEF due, CqSlots
    <3>2. phases[host.head] = host.phase
      BY <2>1 DEF fresh, phases
    <3> QED BY <2>1, <3>1, <3>2 DEF Phased, Readable, Posted
  <2>3. ids[host.head] \in host.flying
    BY <2>1, <2>2 DEF Placed, Apart
  <2>4. ASSUME NEW w \in Workers, NEW r \in work[w], r.command_id = ids[host.head]
        PROVE  r.copied = ids[host.head]
    <3>1. r \notin live[w]
      BY <2>1, <2>2, <2>4 DEF Placed, Apart
    <3>2. wpc[w] = "advance" /\ r = wreq[w]
      BY <2>4, <3>1 DEF live
    <3>3. r.copied # NULL /\ r.copied \in {NULL, r.command_id}
      BY <2>1, <2>4, <3>2 DEF Locked, Storing, Placed, Apart
    <3> QED BY <2>4, <3>3
  <2>5. ids[host.head] = cqmem[host.head].command_id
    BY <2>1 DEF ids
  <2> QED BY <2>3, <2>4, <2>5
<1> QED BY <1>1, IoInvariant, PTL

\* For all sizes, nr_in_flight never counts fewer commands than are in flight,
\* and more only by whole rounds of the completion ring (InFlightExact;
\* nvmev_proc_io_sq, nvmev_proc_io_cq).
THEOREM InFlightIsExact == IoSpec => []InFlightExact
<1>1. IoInv => InFlightExact
  BY DEF IoInv
<1> QED BY <1>1, IoInvariant, PTL

\* For all sizes, the phase bits tell the completions posted and not seen from
\* the old ones while no worker is between its stores (RingReadable;
\* __fill_cq_result).
THEOREM RingIsReadable == IoSpec => []RingReadable
<1>1. IoInv => RingReadable
  <2> SUFFICES ASSUME IoInv, cq # NULL, \A w \in Workers : wpc[w] \notin {"status", "advance"},
                      NEW s \in CqSlots
               PROVE  s \in pending <=> cqmem[s].phase = expected(s)
    BY DEF RingReadable
  <2> DEFINE h == host.head
             t == cq.cq_head
             N == CQ_SIZE
  <2>1. Typed /\ Phased /\ top = t
    BY DEF IoInv, top, posting
  <2>2. /\ N \in Nat \ {0} /\ h \in 0 .. N - 1 /\ t \in 0 .. N - 1 /\ s \in 0 .. N - 1
    BY <2>1, Slots, ZenonT(30) DEF Typed, Cqs
  <2>3. cqmem[s].phase = expected(s) <=> s \in Between(h, t, N)
    <3>1. phases[s] = cqmem[s].phase /\ expected(s) = due(s, h, host.phase)
      BY DEF phases, expected, due
    <3> QED BY <2>1, <3>1 DEF Phased, Readable
  <2>4. (t - h) % N = gap(t, h, N) /\ gap(t, h, N) \in 0 .. N - 1
    BY <2>2, GapMod, Reached, ZenonT(30)
  <2>5. ASSUME s \in Between(h, t, N) PROVE \E i \in 0 .. gap(t, h, N) - 1 : s = (h + i) % N
    <3>1. gap(s, h, N) \in 0 .. N - 1 /\ s = (h + gap(s, h, N)) % N
      BY <2>2, Reached, ZenonT(30)
    <3>2. gap(s, h, N) \in 0 .. gap(t, h, N) - 1
      BY <2>2, <2>4, <2>5, <3>1 DEF Between
    <3> QED BY <3>1, <3>2, ZenonT(30)
  <2>6. ASSUME NEW i \in 0 .. gap(t, h, N) - 1, s = (h + i) % N PROVE s \in Between(h, t, N)
    <3>1. i \in 0 .. N - 1 /\ i < gap(t, h, N)
      BY <2>2, <2>4, <2>6
    <3>2. gap(s, h, N) = i
      BY <2>2, <2>6, <3>1, Ahead, ZenonT(30)
    <3> QED BY <2>2, <3>1, <3>2 DEF Between
  <2>7. pending = {(h + i) % N : i \in 0 .. gap(t, h, N) - 1}
    BY <2>4 DEF pending
  <2> HIDE DEF h, t, N
  <2> QED BY <2>3, <2>5, <2>6, <2>7, ZenonT(30)
<1> QED BY <1>1, IoInvariant, PTL

-----------------------------------------------------------------------------
(* Types of the events log                                                 *)

\* A step keeps the types.
LEMMA TypeStep ==
  ASSUME TypeOK, [Next]_vars
  PROVE  TypeOK'
<1> USE EventsAssumption DEF TypeOK
<1>1. ASSUME NEW type \in Types, NEW pid \in Pids, fdp_emit_event(type, pid)
      PROVE  TypeOK'
  <2>1. CASE type \in enabled
    <3>1. [type |-> type, pid |-> pid] \in Records
      BY DEF Records
    <3>2. (ring_head + 1) % FDP_NR_EVENTS \in 0 .. (FDP_NR_EVENTS - 1)
      OBVIOUS
    <3>3. count_events(nr_events) \in 0 .. FDP_NR_EVENTS
      BY DEF count_events
    <3> QED BY <1>1, <2>1, <3>1, <3>2, <3>3 DEF fdp_emit_event
  <2>2. CASE type \notin enabled
    BY <1>1, <2>2 DEF fdp_emit_event, vars
  <2> QED BY <2>1, <2>2
<1>2. ASSUME NEW descs \in Descs, fdp_set_feature_events(descs)
      PROVE  TypeOK'
  BY <1>2 DEF fdp_set_feature_events
<1>3. CASE UNCHANGED vars
  BY <1>3 DEF vars
<1> QED BY <1>1, <1>2, <1>3 DEF Next, Types

\* The counters, the mask and the records keep their types in every behaviour,
\* for a ring of any size: fdp_get_log_page never walks past the ring.
THEOREM TypesKept == Spec => []TypeOK
<1>1. Init => TypeOK
  BY EventsAssumption DEF Init, TypeOK
<1> QED BY <1>1, TypeStep, PTL DEF Spec

-----------------------------------------------------------------------------
(* The ring is a bounded list                                              *)

\* Writing a record moves every slot of the walk back by one, and puts the
\* slot just written first.
LEMMA SlotsMove ==
  ASSUME TypeOK, ring_head' = (ring_head + 1) % FDP_NR_EVENTS
  PROVE  /\ slot(0)' = ring_head
         /\ \A i \in 1 .. FDP_NR_EVENTS - 1 :
              /\ slot(i)' = slot(i - 1)
              /\ slot(i)' \in 0 .. (FDP_NR_EVENTS - 1) \ {ring_head}
<1> DEFINE N == FDP_NR_EVENTS
<1>1. N \in Nat \ {0} /\ ring_head \in 0 .. N - 1
  BY EventsAssumption DEF TypeOK
<1> HIDE DEF N
<1>2. ring_head' = IF ring_head + 1 < N THEN ring_head + 1 ELSE 0
  <2> DEFINE a == ring_head + 1
  <2>1. a \in 0 .. 2 * N - 1
    BY <1>1
  <2>2. a % N = IF a < N THEN a ELSE a - N
    <3> HIDE DEF a
    <3> QED BY <1>1, <2>1, OneWrap, ZenonT(30)
  <2>3. ring_head' = a % N
    BY DEF N
  <2> QED BY <1>1, <2>2, <2>3
<1>3. ASSUME NEW i \in 0 .. N - 1, NEW h \in 0 .. N - 1
      PROVE  (h + N - 1 - i) % N = IF i < h THEN h - 1 - i ELSE h + N - 1 - i
  <2> DEFINE a == h + N - 1 - i
  <2>1. a \in 0 .. 2 * N - 1
    BY <1>1
  <2>2. a % N = IF a < N THEN a ELSE a - N
    <3> HIDE DEF a
    <3> QED BY <1>1, <2>1, OneWrap, ZenonT(30)
  <2> QED BY <1>1, <2>2
<1>4. \A i \in 0 .. N - 1 :
        /\ slot(i) = IF i < ring_head THEN ring_head - 1 - i ELSE ring_head + N - 1 - i
        /\ slot(i)' = IF i < ring_head' THEN ring_head' - 1 - i ELSE ring_head' + N - 1 - i
  BY <1>1, <1>2, <1>3 DEF slot, N
<1>5. slot(0)' = ring_head
  BY <1>1, <1>2, <1>4
<1>6. ASSUME NEW i \in 1 .. N - 1
      PROVE  slot(i)' = slot(i - 1) /\ slot(i)' \in 0 .. (N - 1) \ {ring_head}
  <2>1. i \in 0 .. N - 1 /\ i - 1 \in 0 .. N - 1
    BY <1>1
  <2>2. /\ slot(i)' = IF i < ring_head' THEN ring_head' - 1 - i ELSE ring_head' + N - 1 - i
        /\ slot(i - 1) = IF i - 1 < ring_head THEN ring_head - i ELSE ring_head + N - i
    BY <1>1, <1>4, <2>1
  <2> QED BY <1>1, <1>2, <2>1, <2>2
<1> QED BY <1>5, <1>6 DEF N

\* Emitting an enabled event is a report on the abstract log.
LEMMA EmitReports ==
  ASSUME TypeOK, NEW type \in Types, NEW pid \in Pids,
         type \in enabled, fdp_emit_event(type, pid)
  PROVE  Abstract!Report(type, pid)
<1> DEFINE N == FDP_NR_EVENTS
           rec == [type |-> type, pid |-> pid]
           log == fdp_get_log_page
           s == <<rec>> \o log
<1>1. /\ N \in Nat \ {0} /\ nr_events \in 0 .. N /\ ring_head \in 0 .. N - 1
      /\ ring \in [0 .. N - 1 -> Records \cup {NO_RECORD}]
  BY EventsAssumption DEF TypeOK
<1>2. /\ ring' = [ring EXCEPT ![ring_head] = rec]
      /\ ring_head' = (ring_head + 1) % N
      /\ nr_events' = IF nr_events < N THEN nr_events + 1 ELSE nr_events
      /\ enabled' = enabled
  BY DEF fdp_emit_event, count_events
<1>3. /\ log = [i \in 1 .. nr_events |-> ring[slot(i - 1)]]
      /\ log' = [i \in 1 .. nr_events' |-> ring'[slot(i - 1)']]
  BY DEF fdp_get_log_page, slot
<1>4. /\ Len(s) = nr_events + 1 /\ s[1] = rec
      /\ \A i \in 2 .. nr_events + 1 : s[i] = log[i - 1]
  <2>1. DOMAIN log = 1 .. nr_events /\ nr_events \in Nat
    BY <1>1, <1>3
  <2>2. log \in Seq({log[i] : i \in 1 .. nr_events}) /\ Len(log) = nr_events
    <3> HIDE DEF log
    <3>1. log = [i \in 1 .. nr_events |-> log[i]]
      BY <1>3, <2>1
    <3> QED BY <2>1, <3>1
  <2> HIDE DEF log, rec
  <2> QED BY <1>1, <2>1, <2>2
<1>5. nr_events' = IF Len(s) < N THEN Len(s) ELSE N
  BY <1>1, <1>2, <1>4
<1>6. Abstract!Latest(s) = [i \in 1 .. nr_events' |-> s[i]]
  <2> HIDE DEF s
  <2> QED BY <1>1, <1>4, <1>5 DEF Abstract!Latest
<1>7. ASSUME NEW i \in 1 .. nr_events' PROVE ring'[slot(i - 1)'] = s[i]
  <2>1. CASE i = 1
    BY <1>1, <1>2, <1>4, <2>1, SlotsMove
  <2>2. CASE i # 1
    <3>1. i - 1 \in 1 .. N - 1 /\ i \in 2 .. nr_events + 1 /\ i - 1 \in 1 .. nr_events
      BY <1>1, <1>2, <2>2
    <3>2. s[i] = ring[slot(i - 2)]
      BY <1>1, <1>3, <1>4, <3>1
    <3>3. slot(i - 1)' = slot(i - 2) /\ slot(i - 1)' \in 0 .. (N - 1) \ {ring_head}
      BY <1>1, <1>2, <3>1, SlotsMove
    <3>4. ring'[slot(i - 1)'] = ring[slot(i - 1)']
      <4> HIDE DEF rec
      <4> QED BY <1>1, <1>2, <3>3
    <3> HIDE DEF s, rec
    <3> QED BY <3>2, <3>3, <3>4, ZenonT(30)
  <2> HIDE DEF s
  <2> QED BY <2>1, <2>2
<1>8. log' = Abstract!Latest(s)
  <2> HIDE DEF s, log
  <2> QED BY <1>3, <1>6, <1>7
<1> QED BY <1>2, <1>8 DEF Abstract!Report

\* Every step of the ring is a step of the abstract log, or none.
LEMMA LogStep ==
  ASSUME TypeOK, [Next]_vars
  PROVE  [Abstract!Next]_<<fdp_get_log_page, enabled>>
<1>1. ASSUME UNCHANGED <<ring, ring_head, nr_events>>
      PROVE  fdp_get_log_page' = fdp_get_log_page
  BY <1>1 DEF fdp_get_log_page, slot
<1>2. ASSUME NEW type \in Types, NEW pid \in Pids, fdp_emit_event(type, pid)
      PROVE  [Abstract!Next]_<<fdp_get_log_page, enabled>>
  <2>1. CASE type \in enabled
    BY <1>2, <2>1, EmitReports DEF Abstract!Next
  <2>2. CASE type \notin enabled
    BY <1>1, <1>2, <2>2 DEF fdp_emit_event, vars
  <2> QED BY <2>1, <2>2
<1>3. ASSUME NEW descs \in Descs, fdp_set_feature_events(descs)
      PROVE  Abstract!Next
  BY <1>1, <1>3 DEF fdp_set_feature_events, Abstract!Next, Abstract!Select
<1>4. CASE UNCHANGED vars
  BY <1>1, <1>4 DEF vars
<1> QED BY <1>2, <1>3, <1>4 DEF Next, Types

\* The events log page is the list that was promised, for a ring of any size:
\* the latest enabled events, latest first, before and after the ring wraps.
THEOREM ImplementsLog == Spec => LogKept
<1>1. Init => Abstract!Init
  BY DEF Init, Abstract!Init, fdp_get_log_page
<1> QED BY <1>1, LogStep, TypesKept, PTL DEF Spec, LogKept, Abstract!Spec
=============================================================================
