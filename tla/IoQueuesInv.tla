----------------------------- MODULE IoQueuesInv -----------------------------
(***************************************************************************)
(* The inductive invariant of IoQueues, for rings of any size, any number  *)
(* of workers, commands and sessions; arithmetic on a ring; what a step    *)
(* does to the places where commands are; and the parts of the invariant   *)
(* that hold without counting commands.  Rings_proofs counts and concludes.*)
(***************************************************************************)
EXTENDS IoQueues, TLAPS

USE SMTT(30)

-----------------------------------------------------------------------------
(* The invariant of IoQueues                                               *)

\* The steps of a ring from b forward to a.
gap(a, b, size) == IF a >= b THEN a - b ELSE a - b + size

Storing == {"ids", "status", "advance"}
Reqs    == [entry : SqSlots, command_id : Nat, copied : Nat \cup {NULL}]
Cqs     == [cq_head : CqSlots, phase : {0, 1}, interrupt_ready : BOOLEAN]
Entries == [command_id : Nat \cup {NULL}, phase : {0, 1}]
Dbs     == [sq : SqSlots, cq : CqSlots]
Hosts   == [isr : BOOLEAN, tail : 0 .. SQ_SIZE, head : CqSlots, phase : {0, 1},
            sent : Nat, flying : SUBSET Nat, sessions : Nat]

Typed ==
  /\ sq \in {NULL} \cup [nr_in_flight : Int]
  /\ cq \in {NULL} \cup Cqs
  /\ sqmem \in [SqSlots -> Nat \cup {NULL}]
  /\ cqmem \in [CqSlots -> Entries]
  /\ dbs \in Dbs /\ old_dbs \in Dbs
  /\ io_worker_turn \in Workers
  /\ work \in [Workers -> SUBSET Reqs]
  /\ wpc \in [Workers -> Storing \cup {"pass", "clear", "signal"}]
  /\ wreq \in [Workers -> Reqs \cup {NULL}]
  /\ entry_lock \in Workers \cup {NULL}
  /\ irq \in BOOLEAN
  /\ host \in Hosts

\* The worker that stores a completion is the one that holds the lock.
Locked ==
  \A w \in Workers :
    /\ wpc[w] \in Storing <=> entry_lock = w
    /\ wpc[w] \in Storing => wreq[w] \in work[w] /\ wreq[w].copied # NULL
    /\ wpc[w] = "status" => cqmem[cq.cq_head].command_id = wreq[w].command_id

\* Which queues there are, and what is at rest when there is none.
Session ==
  /\ cq = NULL => sq = NULL /\ host.tail = 0
  /\ sq = NULL => /\ \A w \in Workers : work[w] = {}
                  /\ dbs.sq = old_dbs.sq
  /\ sq # NULL => dbs.sq = host.tail
  /\ sq = NULL /\ host.tail = 0 =>
       /\ host.flying = {} /\ ~host.isr /\ ~irq
       /\ \A w \in Workers : wpc[w] = "pass"
       /\ cq # NULL => /\ ~cq.interrupt_ready
                       /\ host.head = 0 /\ dbs.cq = 0 /\ old_dbs.cq = 0

\* The entry after the last one the host can read: the one at cq_head is
\* readable as soon as its phase is stored, before cq_head moves on.
posting   == \E w \in Workers : wpc[w] = "advance"
top       == IF posting THEN Bump(cq.cq_head, CQ_SIZE) ELSE cq.cq_head
top_phase == IF posting THEN next_phase ELSE cq.phase

\* The entries from h up to and without t.
Between(h, t, size) == {s \in 0 .. size - 1 : gap(s, h, size) < gap(t, h, size)}

\* The completions readable and not seen, the submissions not dispatched, and
\* the commands with a worker that it has not answered.
Posted  == IF cq = NULL THEN {} ELSE Between(host.head, top, CQ_SIZE)
Waiting == Between(old_dbs.sq, dbs.sq, SQ_SIZE)
live    == [w \in Workers |-> IF wpc[w] = "advance" THEN work[w] \ {wreq[w]} ELSE work[w]]
ids     == [s \in CqSlots |-> cqmem[s].command_id]
phases  == [s \in CqSlots |-> cqmem[s].phase]

\* The phase bit tells a readable entry from an old one: P are the phases of
\* the ring, the host is at h and expects p there, and the device is at t and
\* will write q there.
due(s, h, p) == IF s >= h THEN p ELSE 1 - p
flip(s, p) == IF s + 1 = CQ_SIZE THEN 1 - p ELSE p
Readable(P, h, p, t, q) ==
  /\ q = due(t, h, p)
  /\ \A s \in CqSlots : s \in Between(h, t, CQ_SIZE) <=> P[s] = due(s, h, p)

Phased == cq # NULL => Readable(phases, host.head, host.phase, top, top_phase)

\* Every command is in one place, and is one that the host waits for: W are
\* the commands with the workers, L those not answered, S and C the
\* identifiers in the two rings, A the submissions not dispatched, B the
\* completions not seen, F the commands in flight, n the last one sent.
Apart(W, L, S, C, A, B, F, n) ==
  /\ F \subseteq 1 .. n
  /\ \A w \in Workers : \A r \in W[w] : r.command_id \in 1 .. n /\ r.copied \in {NULL, r.command_id}
  /\ \A w \in Workers : \A r \in L[w] : r \in W[w] /\ r.command_id \in F /\ S[r.entry] = r.command_id
  /\ \A s \in A : S[s] \in F
  /\ \A s \in B : C[s] \in F
  /\ \A w, v \in Workers : \A r \in W[w], q \in W[v] : r.command_id = q.command_id => w = v /\ r = q
  /\ \A s, t \in A : S[s] = S[t] => s = t
  /\ \A s, t \in B : C[s] = C[t] => s = t
  /\ \A s \in A, t \in B : S[s] # C[t]
  /\ \A w \in Workers : \A r \in W[w], s \in A : r.command_id # S[s]
  /\ \A w \in Workers : \A r \in L[w], s \in B : r.command_id # C[s]

Placed == Apart(work, live, sqmem, ids, Waiting, Posted, host.flying, host.sent)

\* The host has fewer commands in flight than either ring has entries.
Roomy ==
  /\ Cardinality(host.flying) <= SQ_SIZE - 1
  /\ Cardinality(host.flying) + gap(host.head, dbs.cq, CQ_SIZE) <= CQ_SIZE - 1

IoInv == Typed /\ Locked /\ Session /\ Phased /\ Placed /\ Roomy /\ InFlightExact

-----------------------------------------------------------------------------
(* Arithmetic on a ring                                                    *)

\* Stepping to the next entry stays in the ring.
LEMMA BumpType ==
  ASSUME NEW N \in Nat \ {0}, NEW s \in 0 .. N - 1
  PROVE  Bump(s, N) \in 0 .. N - 1
BY DEF Bump

\* A remainder is a slot.
LEMMA ModType ==
  ASSUME NEW N \in Nat \ {0}, NEW a \in Int
  PROVE  (a % N) \in 0 .. N - 1
OBVIOUS

\* The remainder of a sum that passes the size of the ring once.
LEMMA OneWrap ==
  ASSUME NEW N \in Nat \ {0}, NEW a \in 0 .. 2 * N - 1
  PROVE  a % N = IF a < N THEN a ELSE a - N
OBVIOUS

\* The slot i steps on.
LEMMA Ahead ==
  ASSUME NEW N \in Nat \ {0}, NEW a \in 0 .. N - 1, NEW i \in 0 .. N - 1
  PROVE  (a + i) % N \in 0 .. N - 1 /\ gap((a + i) % N, a, N) = i
<1> DEFINE b == a + i
<1>1. b \in 0 .. 2 * N - 1
  OBVIOUS
<1> HIDE DEF b
<1>2. b % N = IF b < N THEN b ELSE b - N
  BY <1>1, OneWrap, ZenonT(30)
<1> QED BY <1>2 DEF b, gap

\* A slot is as many steps on as the gap says.
LEMMA Reached ==
  ASSUME NEW N \in Nat \ {0}, NEW a \in 0 .. N - 1, NEW s \in 0 .. N - 1
  PROVE  gap(s, a, N) \in 0 .. N - 1 /\ (a + gap(s, a, N)) % N = s
<1> DEFINE b == a + gap(s, a, N)
<1>1. gap(s, a, N) \in 0 .. N - 1 /\ b = IF s >= a THEN s ELSE s + N
  BY DEF gap
<1>2. b \in 0 .. 2 * N - 1
  BY <1>1
<1> HIDE DEF b
<1>3. b % N = IF b < N THEN b ELSE b - N
  BY <1>2, OneWrap, ZenonT(30)
<1> QED BY <1>1, <1>3 DEF b

\* One entry more at the end.
LEMMA OneMore ==
  ASSUME NEW N \in Nat \ {0}, NEW h \in 0 .. N - 1, NEW t \in 0 .. N - 1,
         gap(t, h, N) + 1 < N
  PROVE  /\ gap(Bump(t, N), h, N) = gap(t, h, N) + 1
         /\ t \notin Between(h, t, N)
         /\ Between(h, Bump(t, N), N) = Between(h, t, N) \cup {t}
<1>1. gap(Bump(t, N), h, N) = gap(t, h, N) + 1
  BY DEF gap, Bump
<1>2. t \notin Between(h, t, N)
  BY DEF gap, Between
<1>3. ASSUME NEW s \in 0 .. N - 1
      PROVE  gap(s, h, N) < gap(t, h, N) + 1 <=> gap(s, h, N) < gap(t, h, N) \/ s = t
  BY DEF gap
<1> QED BY <1>1, <1>2, <1>3 DEF Between

\* One entry less at the beginning.
LEMMA OneLess ==
  ASSUME NEW N \in Nat \ {0}, NEW h \in 0 .. N - 1, NEW t \in 0 .. N - 1, h # t
  PROVE  /\ gap(t, Bump(h, N), N) = gap(t, h, N) - 1
         /\ h \in Between(h, t, N)
         /\ Between(Bump(h, N), t, N) = Between(h, t, N) \ {h}
<1>1. gap(t, Bump(h, N), N) = gap(t, h, N) - 1
  BY DEF gap, Bump
<1>2. h \in Between(h, t, N)
  BY DEF gap, Between
<1>3. ASSUME NEW s \in 0 .. N - 1
      PROVE  gap(s, Bump(h, N), N) < gap(t, h, N) - 1 <=> gap(s, h, N) < gap(t, h, N) /\ s # h
  BY DEF gap, Bump
<1> QED BY <1>1, <1>2, <1>3 DEF Between

\* Several entries less at the beginning.
LEMMA SeveralLess ==
  ASSUME NEW N \in Nat \ {0}, NEW h \in 0 .. N - 1, NEW t \in 0 .. N - 1,
         NEW n \in 0 .. gap(t, h, N)
  PROVE  /\ gap(t, (h + n) % N, N) = gap(t, h, N) - n
         /\ Between((h + n) % N, t, N) = {s \in Between(h, t, N) : gap(s, h, N) >= n}
<1> DEFINE b == h + n
           e == b % N
<1>1. b \in 0 .. 2 * N - 1
  BY DEF gap
<1> HIDE DEF b
<1>2. b % N = IF b < N THEN b ELSE b - N
  BY <1>1, OneWrap, ZenonT(30)
<1>3. e = IF h + n < N THEN h + n ELSE h + n - N
  BY <1>2 DEF b
<1> HIDE DEF e
<1>4. gap(t, e, N) = gap(t, h, N) - n
  BY <1>3 DEF gap
<1>5. ASSUME NEW s \in 0 .. N - 1
      PROVE  gap(s, e, N) < gap(t, h, N) - n <=> gap(s, h, N) < gap(t, h, N) /\ gap(s, h, N) >= n
  BY <1>3 DEF gap
<1>6. Between(e, t, N) = {s \in Between(h, t, N) : gap(s, h, N) >= n}
  BY <1>4, <1>5 DEF Between
<1> QED BY <1>4, <1>6 DEF e, b

\* Nothing lies between an entry and itself.
LEMMA NoneBetween ==
  ASSUME NEW N \in Nat \ {0}, NEW h \in 0 .. N - 1
  PROVE  gap(h, h, N) = 0 /\ Between(h, h, N) = {}
BY DEF gap, Between

\* Going on from b to a, and from c to b, may be a whole round more than going
\* from c to a.
LEMMA GapSum ==
  ASSUME NEW N \in Nat \ {0}, NEW a \in 0 .. N - 1, NEW b \in 0 .. N - 1, NEW c \in 0 .. N - 1
  PROVE  gap(a, b, N) + gap(b, c, N) \in {gap(a, c, N), gap(a, c, N) + N}
BY DEF gap

\* A round more does not change a remainder of zero.
LEMMA WholeRounds ==
  ASSUME NEW N \in Nat \ {0}, NEW d \in Int, d % N = 0
  PROVE  (d + N) % N = 0
<1> DEFINE e == d + N
           p == d \div N
           q == e \div N
           r == e % N
           t == q - p - 1
<1>1. p \in Int /\ q \in Int /\ r \in 0 .. N - 1 /\ t \in Int
  OBVIOUS
<1>2. d = N * p /\ e = N * q + r
  OBVIOUS
<1> HIDE DEF p, q, r
<1>3. N * t + r = 0
  BY <1>1, <1>2
<1> HIDE DEF t
<1>4. CASE t >= 1
  <2>1. N * t >= N
    BY <1>1, <1>4
  <2> QED BY <1>1, <1>3, <2>1
<1>5. CASE t <= -1
  <2>1. N * t <= -N
    BY <1>1, <1>5
  <2> QED BY <1>1, <1>3, <2>1
<1>6. CASE t = 0
  BY <1>1, <1>3, <1>6 DEF r
<1> QED BY <1>1, <1>4, <1>5, <1>6

\* The remainder of a difference is the gap.
LEMMA GapMod ==
  ASSUME NEW N \in Nat \ {0}, NEW a \in 0 .. N - 1, NEW b \in 0 .. N - 1
  PROVE  (a - b) % N = gap(a, b, N)
BY DEF gap

\* The device writes the phase of the entry it is at and moves on.
LEMMA PhaseStored ==
  ASSUME CQ_SIZE \in Nat \ {0}, NEW P \in [CqSlots -> {0, 1}], NEW h \in CqSlots,
         NEW p \in {0, 1}, NEW t \in CqSlots, NEW q \in {0, 1}, gap(t, h, CQ_SIZE) + 1 < CQ_SIZE,
         Readable(P, h, p, t, q),
         NEW Q, \A s \in CqSlots : Q[s] = IF s = t THEN q ELSE P[s]
  PROVE  Readable(Q, h, p, Bump(t, CQ_SIZE), flip(t, q))
<1>1. Between(h, Bump(t, CQ_SIZE), CQ_SIZE) = Between(h, t, CQ_SIZE) \cup {t}
  BY OneMore DEF CqSlots
<1>2. flip(t, q) = due(Bump(t, CQ_SIZE), h, p)
  BY DEF flip, Readable, due, Bump, gap, CqSlots
<1> QED BY <1>1, <1>2 DEF Readable

\* The host takes the entry it is at and moves on.
LEMMA PhaseTaken ==
  ASSUME CQ_SIZE \in Nat \ {0}, NEW P \in [CqSlots -> {0, 1}], NEW h \in CqSlots,
         NEW p \in {0, 1}, NEW t \in CqSlots, NEW q \in {0, 1}, P[h] = p,
         Readable(P, h, p, t, q)
  PROVE  h # t /\ Readable(P, Bump(h, CQ_SIZE), flip(h, p), t, q)
<1> DEFINE g == Bump(h, CQ_SIZE)
           o == flip(h, p)
<1>1. h # t
  BY NoneBetween DEF Readable, due, CqSlots
<1>2. Between(g, t, CQ_SIZE) = Between(h, t, CQ_SIZE) \ {h}
  BY <1>1, OneLess DEF CqSlots
<1>3. \A s \in CqSlots : due(s, g, o) = IF s = h THEN 1 - p ELSE due(s, h, p)
  BY DEF flip, due, Bump, CqSlots
<1> HIDE DEF g, o
<1>4. Readable(P, g, o, t, q)
  BY <1>1, <1>2, <1>3 DEF Readable
<1> QED BY <1>1, <1>4 DEF g, o

-----------------------------------------------------------------------------
(* Where the commands are                                                  *)

\* Commands go from the submission ring to the workers.
LEMMA ApartDispatched ==
  ASSUME NEW W, NEW L, NEW S, NEW C, NEW A, NEW B, NEW F, NEW n, NEW V, NEW M, NEW D,
         Apart(W, L, S, C, A, B, F, n), D \subseteq A,
         \A w \in Workers : \A r \in V[w] :
           r \in W[w] \/ \E s \in D : r = [entry |-> s, command_id |-> S[s], copied |-> NULL],
         \A w, v \in Workers : \A r \in V[w], q \in V[v] :
           r \notin W[w] /\ q \notin W[v] /\ r.entry = q.entry => w = v,
         \A w \in Workers : \A r \in M[w] : r \in V[w] /\ (r \in W[w] => r \in L[w])
  PROVE  Apart(V, M, S, C, A \ D, B, F, n)
<1>1. ASSUME NEW w \in Workers, NEW r \in V[w], r \notin W[w]
      PROVE  /\ r.entry \in D /\ r.command_id = S[r.entry] /\ r.copied = NULL
             /\ r = [entry |-> r.entry, command_id |-> S[r.entry], copied |-> NULL]
             /\ r.command_id \in F /\ r.command_id \in 1 .. n
  BY <1>1 DEF Apart
<1>2. ASSUME NEW w \in Workers, NEW v \in Workers, NEW r \in V[w], NEW q \in V[v],
             r.command_id = q.command_id
      PROVE  w = v /\ r = q
  <2>1. CASE r \in W[w] /\ q \in W[v]
    BY <1>2, <2>1 DEF Apart
  <2>2. CASE r \notin W[w] /\ q \notin W[v]
    <3>1. r.entry \in A /\ q.entry \in A /\ S[r.entry] = S[q.entry]
      BY <1>1, <1>2, <2>2
    <3>2. r.entry = q.entry
      BY <3>1 DEF Apart
    <3> QED BY <1>1, <2>2, <3>2
  <2>3. CASE r \in W[w] /\ q \notin W[v]
    BY <1>1, <1>2, <2>3 DEF Apart
  <2>4. CASE r \notin W[w] /\ q \in W[v]
    BY <1>1, <1>2, <2>4 DEF Apart
  <2> QED BY <2>1, <2>2, <2>3, <2>4
<1>3. ASSUME NEW w \in Workers, NEW r \in V[w], NEW s \in A \ D
      PROVE  r.command_id # S[s]
  BY <1>1, <1>3 DEF Apart
<1>4. ASSUME NEW w \in Workers, NEW r \in M[w], NEW s \in B
      PROVE  r.command_id # C[s]
  BY <1>1, <1>4 DEF Apart
<1>5. ASSUME NEW w \in Workers, NEW r \in V[w]
      PROVE  r.command_id \in 1 .. n /\ r.copied \in {NULL, r.command_id}
  BY <1>1, <1>5 DEF Apart
<1>6. ASSUME NEW w \in Workers, NEW r \in M[w]
      PROVE  r \in V[w] /\ r.command_id \in F /\ S[r.entry] = r.command_id
  BY <1>1, <1>6 DEF Apart
<1>7. /\ F \subseteq 1 .. n
      /\ \A s \in A \ D : S[s] \in F
      /\ \A s \in B : C[s] \in F
      /\ \A s, t \in A \ D : S[s] = S[t] => s = t
      /\ \A s, t \in B : C[s] = C[t] => s = t
      /\ \A s \in A \ D, t \in B : S[s] # C[t]
  BY DEF Apart
<1> QED BY <1>2, <1>3, <1>4, <1>5, <1>6, <1>7, ZenonT(30) DEF Apart

\* A worker has copied the data of a command.
LEMMA ApartCopied ==
  ASSUME NEW W \in [Workers -> SUBSET Reqs], NEW L \in [Workers -> SUBSET Reqs],
         NEW S, NEW C, NEW A, NEW B, NEW F, NEW n,
         Apart(W, L, S, C, A, B, F, n),
         NEW w \in Workers, NEW r \in L[w], NEW q \in Reqs,
         q.entry = r.entry, q.command_id = r.command_id, q.copied = S[r.entry]
  PROVE  Apart([W EXCEPT ![w] = (@ \ {r}) \cup {q}], [L EXCEPT ![w] = (@ \ {r}) \cup {q}],
               S, C, A, B, F, n)
<1> DEFINE V == [W EXCEPT ![w] = (@ \ {r}) \cup {q}]
           M == [L EXCEPT ![w] = (@ \ {r}) \cup {q}]
<1>1. \A v \in Workers : V[v] = IF v = w THEN (W[w] \ {r}) \cup {q} ELSE W[v]
  OBVIOUS
<1>2. \A v \in Workers : M[v] = IF v = w THEN (L[w] \ {r}) \cup {q} ELSE L[v]
  OBVIOUS
<1>3. r \in W[w] /\ q.copied = q.command_id
  BY DEF Apart
<1> HIDE DEF V, M
<1>4. ASSUME NEW v \in Workers, NEW x \in V[v]
      PROVE  \E y \in W[v] : /\ x.command_id = y.command_id
                             /\ (x = q /\ y = r /\ v = w) \/ (x = y /\ y # r)
  <2>1. CASE x = q /\ v = w
    BY <1>3, <2>1
  <2>2. CASE x \in W[v] /\ x # r
    BY <2>2
  <2>3. CASE x = r /\ v # w
    BY <1>1, <1>3, <1>4, <2>3 DEF Apart
  <2> QED BY <1>1, <1>4, <2>1, <2>2, <2>3
<1>5. ASSUME NEW v \in Workers, NEW x \in M[v]
      PROVE  /\ x \in V[v]
             /\ \E y \in L[v] : x.command_id = y.command_id /\ x.entry = y.entry
  BY <1>1, <1>2, <1>5 DEF Apart
<1>6. \A v \in Workers : \A x \in V[v] :
        x.command_id \in 1 .. n /\ x.copied \in {NULL, x.command_id}
  BY <1>3, <1>4 DEF Apart
<1>7. \A v \in Workers : \A x \in M[v] :
        x \in V[v] /\ x.command_id \in F /\ S[x.entry] = x.command_id
  BY <1>5 DEF Apart
<1>8. \A v, u \in Workers : \A x \in V[v], y \in V[u] :
        x.command_id = y.command_id => v = u /\ x = y
  BY <1>4 DEF Apart
<1>9. \A v \in Workers : \A x \in V[v], s \in A : x.command_id # S[s]
  BY <1>4 DEF Apart
<1>10. \A v \in Workers : \A x \in M[v], s \in B : x.command_id # C[s]
  BY <1>5 DEF Apart
<1>11. Apart(V, M, S, C, A, B, F, n)
  BY <1>6, <1>7, <1>8, <1>9, <1>10, ZenonT(30) DEF Apart
<1> QED BY <1>11 DEF V, M

\* The completion of a command becomes readable.
LEMMA ApartAnswered ==
  ASSUME NEW W, NEW L, NEW S, NEW C, NEW A, NEW B, NEW F, NEW n, NEW M, NEW t,
         Apart(W, L, S, C, A, B, F, n), NEW w \in Workers, NEW r \in L[w],
         C[t] = r.command_id, t \notin B,
         \A v \in Workers : M[v] \subseteq L[v] /\ r \notin M[v]
  PROVE  Apart(W, M, S, C, A, B \cup {t}, F, n)
<1>1. r \in W[w] /\ r.command_id \in F /\ \A s \in B : C[s] # C[t]
  BY DEF Apart
<1>2. \A v \in Workers : \A x \in M[v] : x.command_id # C[t]
  BY <1>1 DEF Apart
<1>3. \A s \in A : S[s] # C[t]
  BY <1>1 DEF Apart
<1> QED BY <1>1, <1>2, <1>3 DEF Apart

\* A worker is through with commands it has answered.
LEMMA ApartDone ==
  ASSUME NEW W, NEW L, NEW S, NEW C, NEW A, NEW B, NEW F, NEW n, NEW V,
         Apart(W, L, S, C, A, B, F, n),
         \A v \in Workers : V[v] \subseteq W[v] /\ L[v] \subseteq V[v]
  PROVE  Apart(V, L, S, C, A, B, F, n)
BY DEF Apart

\* An entry that is not readable is overwritten.
LEMMA ApartStored ==
  ASSUME NEW W, NEW L, NEW S, NEW C, NEW A, NEW B, NEW F, NEW n, NEW D,
         Apart(W, L, S, C, A, B, F, n), \A s \in B : D[s] = C[s]
  PROVE  Apart(W, L, S, D, A, B, F, n)
BY DEF Apart

\* The host takes a completion.
LEMMA ApartSeen ==
  ASSUME NEW W, NEW L, NEW S, NEW C, NEW A, NEW B, NEW F, NEW n,
         Apart(W, L, S, C, A, B, F, n), NEW h \in B
  PROVE  Apart(W, L, S, C, A, B \ {h}, F \ {C[h]}, n)
<1>1. \A w \in Workers : \A r \in L[w] : r.command_id \in F \ {C[h]}
  BY DEF Apart
<1>2. \A s \in A : S[s] \in F \ {C[h]}
  BY DEF Apart
<1>3. \A s \in B \ {h} : C[s] \in F \ {C[h]}
  BY DEF Apart
<1>4. F \ {C[h]} \subseteq 1 .. n /\ B \ {h} \subseteq B
  BY ZenonT(30) DEF Apart
<1> QED BY <1>1, <1>2, <1>3, <1>4, ZenonT(30) DEF Apart

\* The host submits a command.
LEMMA ApartSubmitted ==
  ASSUME NEW W \in [Workers -> SUBSET Reqs], NEW L, NEW S \in [SqSlots -> Nat \cup {NULL}],
         NEW C, NEW A, NEW B, NEW F, NEW n \in Nat,
         Apart(W, L, S, C, A, B, F, n), NEW t \in SqSlots, S[t] \notin F, A \subseteq SqSlots
  PROVE  Apart(W, L, [S EXCEPT ![t] = n + 1], C, A \cup {t}, B, F \cup {n + 1}, n + 1)
<1> DEFINE T == [S EXCEPT ![t] = n + 1]
           G == F \cup {n + 1}
<1>1. T[t] = n + 1 /\ \A s \in SqSlots : s # t => T[s] = S[s]
  OBVIOUS
<1>2. t \notin A /\ n + 1 \notin F /\ F \subseteq 1 .. n + 1
  BY DEF Apart
<1> HIDE DEF T
<1>3. \A w \in Workers : \A r \in W[w] :
         r.command_id \in 1 .. n + 1 /\ r.copied \in {NULL, r.command_id} /\ r.command_id # n + 1
  BY DEF Apart
<1>4. \A w \in Workers : \A r \in L[w] :
         r \in W[w] /\ r.command_id \in G /\ T[r.entry] = r.command_id
  <2>1. \A w \in Workers : \A r \in L[w] : r.entry \in SqSlots /\ r.entry # t
    BY DEF Apart, Reqs
  <2> QED BY <1>1, <2>1 DEF Apart
<1>5. \A s \in A : T[s] = S[s] /\ T[s] # n + 1
  BY <1>1, <1>2 DEF Apart
<1>6. \A s \in B : C[s] # n + 1
  BY <1>2 DEF Apart
<1>7. Apart(W, L, T, C, A \cup {t}, B, G, n + 1)
  <2>1. G \subseteq 1 .. n + 1
    BY <1>2
  <2> HIDE DEF G
  <2>2. F \subseteq G /\ n + 1 \in G
    BY DEF G
  <2>3. \A s \in A \cup {t} : T[s] \in G
    <3>1. \A s \in A : S[s] \in F
      BY DEF Apart
    <3> QED BY <1>1, <1>5, <2>2, <3>1
  <2>4. \A s \in B : C[s] \in G
    <3>1. \A s \in B : C[s] \in F
      BY DEF Apart
    <3> QED BY <2>2, <3>1
  <2>5. \A r, s \in A \cup {t} : T[r] = T[s] => r = s
    BY <1>1, <1>5 DEF Apart
  <2>6. \A s \in A \cup {t}, r \in B : T[s] # C[r]
    BY <1>1, <1>5, <1>6 DEF Apart
  <2>7. \A w \in Workers : \A r \in W[w], s \in A \cup {t} : r.command_id # T[s]
    BY <1>1, <1>3, <1>5 DEF Apart
  <2> QED BY <1>3, <1>4, <2>1, <2>3, <2>4, <2>5, <2>6, <2>7, ZenonT(30) DEF Apart
<1> QED BY <1>7 DEF T

-----------------------------------------------------------------------------
(* Types                                                                   *)

\* The facts that every later proof starts from.
LEMMA Slots ==
  ASSUME Typed
  PROVE  /\ SqSlots = 0 .. SQ_SIZE - 1 /\ CqSlots = 0 .. CQ_SIZE - 1
         /\ SQ_SIZE \in Nat \ {0} /\ CQ_SIZE \in Nat \ {0}
         /\ dbs.sq \in SqSlots /\ dbs.cq \in CqSlots
         /\ old_dbs.sq \in SqSlots /\ old_dbs.cq \in CqSlots
         /\ host.head \in CqSlots
         /\ num_proc = gap(dbs.sq, old_dbs.sq, SQ_SIZE) /\ num_proc \in 0 .. SQ_SIZE - 1
BY SizeAssumption DEF Typed, Dbs, Hosts, SqSlots, CqSlots, num_proc, gap

\* The entries that nvmev_proc_io_sq comes to are the waiting ones.
LEMMA EntriesWait ==
  ASSUME Typed
  PROVE  /\ \A i \in 0 .. num_proc - 1 :
              entry_at(i) \in Waiting /\ gap(entry_at(i), old_dbs.sq, SQ_SIZE) = i
         /\ \A s \in Waiting : s = entry_at(gap(s, old_dbs.sq, SQ_SIZE))
<1>1. ASSUME NEW i \in 0 .. num_proc - 1
      PROVE  entry_at(i) \in SqSlots /\ gap(entry_at(i), old_dbs.sq, SQ_SIZE) = i
  <2>1. i \in 0 .. SQ_SIZE - 1
    BY <1>1, Slots
  <2> QED BY <2>1, Slots, Ahead, ZenonT(30) DEF entry_at
<1>2. ASSUME NEW s \in Waiting PROVE s = entry_at(gap(s, old_dbs.sq, SQ_SIZE))
  BY Slots, Reached, ZenonT(30) DEF entry_at, Waiting, Between
<1> QED BY <1>1, <1>2, Slots DEF Waiting, Between

\* The actions of the dispatcher and of queue management keep the types.
LEMMA TypedDispatch ==
  ASSUME Typed, Placed, CreateCq \/ CreateSq \/ DeleteSq \/ DeleteCq \/ Dispatch
  PROVE  Typed'
<1> USE SizeAssumption, NullAssumption DEF Typed, wloc, Dbs
<1>1. CASE CreateCq
  <2>1. cqmem' \in [CqSlots -> Entries]
    BY <1>1 DEF CreateCq, EmptyCq, Entries
  <2>2. host' = [host EXCEPT !.head = 0, !.phase = 1, !.sessions = host.sessions + 1]
    BY <1>1 DEF CreateCq
  <2>3. 0 \in CqSlots /\ 1 \in {0, 1} /\ host.sessions + 1 \in Nat
    BY DEF CqSlots, Hosts
  <2>4. host' \in Hosts
    BY <2>2, <2>3, ZenonT(30) DEF Hosts
  <2>5. cq' \in Cqs /\ dbs' \in Dbs /\ old_dbs' \in Dbs
    BY <1>1, <2>3 DEF CreateCq, Cqs
  <2> QED BY <1>1, <2>1, <2>4, <2>5 DEF CreateCq
<1>2. CASE CreateSq
  BY <1>2 DEF CreateSq, SqSlots
<1>3. CASE DeleteSq
  BY <1>3 DEF DeleteSq, Hosts
<1>4. CASE DeleteCq
  BY <1>4 DEF DeleteCq, Hosts
<1>5. CASE ProcIoCq
  <2>1. acknowledged(old_dbs.cq, dbs.cq) \in Int
    BY Slots, ModType DEF acknowledged, CqSlots
  <2> QED BY <1>5, <2>1 DEF ProcIoCq
<1>6. ASSUME NEW n \in 1 .. num_proc, ProcIoSq(n) PROVE Typed'
  <2> DEFINE new(i) == [entry |-> entry_at(i), command_id |-> sqmem[entry_at(i)], copied |-> NULL]
  <2>1. n \in Int /\ entry_at(n) \in SqSlots /\ worker_at(n) \in Workers
    <3>1. n \in Int /\ old_dbs.sq + n \in Int /\ io_worker_turn + n \in Int
      BY Slots DEF Workers, SqSlots
    <3> QED BY <3>1, ModType, Slots, ZenonT(30) DEF entry_at, worker_at, Workers
  <2>2. \A i \in 0 .. n - 1 : new(i) \in Reqs
    <3>1. \A i \in 0 .. n - 1 : entry_at(i) \in SqSlots /\ sqmem[entry_at(i)] \in Nat
      <4>1. \A s \in Waiting : s \in SqSlots /\ sqmem[s] \in Nat
        BY Slots DEF Placed, Apart, Waiting, Between, Hosts
      <4>2. \A i \in 0 .. n - 1 : i \in 0 .. num_proc - 1
        BY Slots
      <4> QED BY <4>1, <4>2, EntriesWait, ZenonT(30)
    <3> QED BY <3>1 DEF Reqs
  <2>3. work' = [w \in Workers |-> work[w] \cup {new(i) : i \in {j \in 0 .. n - 1 : worker_at(j) = w}}]
    BY <1>6 DEF ProcIoSq
  <2>4. work' \in [Workers -> SUBSET Reqs]
    <3> HIDE DEF new
    <3> QED BY <2>2, <2>3
  <2> QED BY <1>6, <2>1, <2>4 DEF ProcIoSq
<1> QED BY <1>1, <1>2, <1>3, <1>4, <1>5, <1>6 DEF Dispatch

\* A worker leaves a completion queue a completion queue.
LEMMA WorkerCq ==
  ASSUME NEW w \in Workers, cq \in Cqs, AdvanceCq(w) \/ ClearReady(w)
  PROVE  cq' # NULL
<1>1. CASE AdvanceCq(w)
  <2>1. cq.cq_head \in CqSlots /\ cq.phase \in {0, 1}
    BY DEF Cqs
  <2>2. Bump(cq.cq_head, CQ_SIZE) \in CqSlots /\ next_phase \in {0, 1}
    BY <2>1, SizeAssumption DEF Bump, next_phase, CqSlots
  <2>3. cq' \in Cqs
    BY <1>1, <2>2 DEF AdvanceCq, Cqs
  <2> QED BY <2>3, NullAssumption, SizeAssumption DEF Cqs, CqSlots
<1>2. CASE ClearReady(w)
  <2>1. cq' \in Cqs
    BY <1>2, ZenonT(30) DEF ClearReady, Cqs
  <2> QED BY <2>1, NullAssumption, SizeAssumption DEF Cqs, CqSlots
<1> QED BY <1>1, <1>2

\* The actions of the workers keep the types.
LEMMA TypedWorker ==
  ASSUME Typed, Locked, Session, NEW w \in Workers, Worker(w)
  PROVE  Typed'
<1> USE SizeAssumption, NullAssumption DEF Typed, dev, goto
<1>0. wpc[w] # "pass" => cq \in Cqs
  BY DEF Session, Cqs
<1>1. ASSUME NEW r \in work[w], PerformIo(w, r) PROVE Typed'
  <2>1. [r EXCEPT !.copied = sqmem[r.entry]] \in Reqs
    BY DEF Reqs
  <2> QED BY <1>1, <2>1 DEF PerformIo, wloc
<1>2. ASSUME NEW r \in work[w], TakeEntryLock(w, r) PROVE Typed'
  BY <1>2 DEF TakeEntryLock, Storing
<1>3. CASE StoreIds(w)
  <2>1. cq.cq_head \in CqSlots /\ wreq[w].command_id \in Nat
    BY <1>0, <1>3 DEF StoreIds, Storing, Locked, Reqs, Cqs
  <2>2. [cqmem[cq.cq_head] EXCEPT !.command_id = wreq[w].command_id] \in Entries
    BY <2>1 DEF Entries
  <2>3. cqmem' \in [CqSlots -> Entries]
    BY <1>3, <2>1, <2>2 DEF StoreIds
  <2> QED BY <1>3, <2>3 DEF StoreIds, Storing
<1>4. CASE StoreStatus(w)
  <2>1. cq.cq_head \in CqSlots /\ cq.phase \in {0, 1}
    BY <1>0, <1>4 DEF StoreStatus, Cqs
  <2>2. [cqmem[cq.cq_head] EXCEPT !.phase = cq.phase] \in Entries
    BY <2>1 DEF Entries
  <2>3. cqmem' \in [CqSlots -> Entries]
    BY <1>4, <2>1, <2>2 DEF StoreStatus
  <2> QED BY <1>4, <2>3 DEF StoreStatus, Storing
<1>5. CASE AdvanceCq(w)
  <2>1. cq.cq_head \in CqSlots /\ cq.phase \in {0, 1}
    BY <1>0, <1>5 DEF AdvanceCq, Cqs
  <2>2. Bump(cq.cq_head, CQ_SIZE) \in CqSlots
    BY <2>1, Slots, BumpType, ZenonT(30)
  <2>3. next_phase \in {0, 1}
    BY <2>1 DEF next_phase
  <2>4. cq' \in Cqs
    BY <1>5, <2>2, <2>3 DEF AdvanceCq, Cqs
  <2> QED BY <1>5, <2>4 DEF AdvanceCq
<1>6. CASE SeeReady(w)
  <2>1. wpc' \in [Workers -> Storing \cup {"pass", "clear", "signal"}]
    BY <1>6 DEF SeeReady
  <2> QED BY <1>6, <2>1, ZenonT(30) DEF SeeReady
<1>7. CASE ClearReady(w)
  <2>1. cq' \in Cqs
    <3>1. cq \in Cqs
      BY <1>0, <1>7 DEF ClearReady
    <3> QED BY <1>7, <3>1, ZenonT(30) DEF ClearReady, Cqs
  <2> QED BY <1>7, <2>1 DEF ClearReady
<1>8. CASE SignalIrq(w)
  BY <1>8 DEF SignalIrq
<1> QED BY <1>1, <1>2, <1>3, <1>4, <1>5, <1>6, <1>7, <1>8 DEF Worker

\* The actions of the host keep the types.
LEMMA TypedHost ==
  ASSUME Typed, Session, HostSubmit \/ HostIsr
  PROVE  Typed'
<1> USE SizeAssumption, NullAssumption DEF Typed, dev, wloc
<1>1. CASE HostSubmit
  <2> DEFINE t == Bump(host.tail, SQ_SIZE)
             c == host.sent + 1
  <2>1. host.tail \in SqSlots /\ t \in SqSlots /\ t \in 0 .. SQ_SIZE /\ c \in Nat
    BY <1>1, BumpType DEF HostSubmit, Session, SqSlots, Dbs, Hosts
  <2>2. /\ sqmem' = [sqmem EXCEPT ![host.tail] = c]
        /\ dbs' = [dbs EXCEPT !.sq = t]
        /\ host' = [host EXCEPT !.sent = c, !.tail = dbs'.sq, !.flying = host.flying \cup {c}]
    BY <1>1 DEF HostSubmit
  <2> HIDE DEF t, c
  <2>3. dbs' \in Dbs /\ dbs'.sq = t
    BY <2>1, <2>2 DEF Dbs
  <2>4. host.flying \cup {c} \in SUBSET Nat
    BY <2>1 DEF Hosts
  <2>5. host' \in Hosts
    BY <2>1, <2>2, <2>3, <2>4, ZenonT(30) DEF Hosts
  <2> QED BY <1>1, <2>1, <2>2, <2>3, <2>5 DEF HostSubmit
<1>2. CASE HostIrq
  <2>1. host' \in Hosts
    BY <1>2, ZenonT(30) DEF HostIrq, Hosts
  <2> QED BY <1>2, <2>1, ZenonT(30) DEF HostIrq
<1>3. CASE HostSee
  <2> DEFINE f == host.flying \ {cqmem[host.head].command_id}
             h == Bump(host.head, CQ_SIZE)
             p == IF host.head + 1 = CQ_SIZE THEN 1 - host.phase ELSE host.phase
  <2>1. f \in SUBSET Nat /\ p \in {0, 1}
    BY DEF Hosts
  <2>4. h \in CqSlots
    BY Slots, BumpType, ZenonT(30)
  <2>2. host' = [host EXCEPT !.flying = f, !.head = h, !.phase = p]
    BY <1>3 DEF HostSee
  <2>3. host' \in Hosts
    <3> HIDE DEF f, h, p
    <3> QED BY <2>1, <2>2, <2>4, ZenonT(30) DEF Hosts
  <2> QED BY <1>3, <2>3 DEF HostSee
<1>4. CASE HostIrqEnd
  <2>1. host' \in Hosts
    BY <1>4, ZenonT(30) DEF HostIrqEnd, Hosts
  <2>2. dbs' \in Dbs
    BY <1>4 DEF HostIrqEnd, Hosts, Dbs
  <2> QED BY <1>4, <2>1, <2>2 DEF HostIrqEnd
<1> QED BY <1>1, <1>2, <1>3, <1>4 DEF HostIsr

-----------------------------------------------------------------------------
(* What the steps do to the rings                                          *)

\* The device's end of the completion ring, and the views of the rings.
LEMMA Views ==
  ASSUME Typed
  PROVE  /\ cq # NULL => top \in CqSlots /\ top_phase \in {0, 1}
         /\ phases \in [CqSlots -> {0, 1}] /\ ids \in [CqSlots -> Nat \cup {NULL}]
         /\ live \in [Workers -> SUBSET Reqs]
<1>1. ASSUME cq # NULL PROVE top \in CqSlots /\ top_phase \in {0, 1}
  <2>1. cq.cq_head \in CqSlots /\ cq.phase \in {0, 1}
    BY <1>1 DEF Typed, Cqs
  <2>2. Bump(cq.cq_head, CQ_SIZE) \in CqSlots
    BY <2>1, Slots, BumpType, ZenonT(30)
  <2> QED BY <2>1, <2>2 DEF top, top_phase, next_phase
<1>2. phases \in [CqSlots -> {0, 1}] /\ ids \in [CqSlots -> Nat \cup {NULL}]
  BY DEF Typed, Entries, phases, ids
<1>3. live \in [Workers -> SUBSET Reqs]
  BY DEF Typed, live
<1> QED BY <1>1, <1>2, <1>3

\* While a worker stores a completion, no other one has made one readable.
LEMMA Alone ==
  ASSUME Typed, Locked, NullAssumption, NEW w \in Workers, wpc[w] \in {"ids", "status"}
  PROVE  ~posting /\ top = cq.cq_head /\ top_phase = cq.phase
<1>1. ~posting
  BY DEF Locked, posting, Storing
<1> QED BY <1>1 DEF top, top_phase

\* The end of the ring stays when no worker starts or ends to post.
LEMMA SameTop ==
  ASSUME cq # NULL => cq'.cq_head = cq.cq_head /\ cq'.phase = cq.phase,
         \A v \in Workers : wpc'[v] = "advance" <=> wpc[v] = "advance"
  PROVE  cq # NULL => top' = top /\ top_phase' = top_phase
<1>1. posting' <=> posting
  BY DEF posting
<1> QED BY <1>1 DEF top, top_phase, next_phase

\* The commands in flight, counted along the rings.
along(F, h, d, o) ==
  Cardinality(F) - gap(d.sq, o.sq, SQ_SIZE) + gap(h, d.cq, CQ_SIZE) + gap(d.cq, o.cq, CQ_SIZE)

\* The remainders in in_flight are distances along the rings.
LEMMA AlongRings ==
  ASSUME NEW F, NEW h \in CqSlots, NEW d \in Dbs, NEW o \in Dbs
  PROVE  Cardinality(F) - (LET n == d.sq - o.sq IN IF n < 0 THEN n + SQ_SIZE ELSE n)
           + ((h - d.cq) % CQ_SIZE) + ((d.cq - o.cq) % CQ_SIZE) = along(F, h, d, o)
<1>1. /\ d.sq \in 0 .. SQ_SIZE - 1 /\ o.sq \in 0 .. SQ_SIZE - 1 /\ SQ_SIZE \in Nat
      /\ d.cq \in 0 .. CQ_SIZE - 1 /\ o.cq \in 0 .. CQ_SIZE - 1 /\ CQ_SIZE \in Nat \ {0}
  BY SizeAssumption DEF Dbs, SqSlots, CqSlots
<1>2. (h - d.cq) % CQ_SIZE = gap(h, d.cq, CQ_SIZE) /\ (d.cq - o.cq) % CQ_SIZE = gap(d.cq, o.cq, CQ_SIZE)
  BY <1>1, GapMod, ZenonT(30) DEF CqSlots
<1>3. (LET n == d.sq - o.sq IN IF n < 0 THEN n + SQ_SIZE ELSE n) = gap(d.sq, o.sq, SQ_SIZE)
  BY <1>1 DEF gap
<1> QED BY <1>2, <1>3, ZenonT(30) DEF along

\* After a step, the rings are counted in the new state.
LEMMA InFlightNext ==
  ASSUME host' \in Hosts, dbs' \in Dbs, old_dbs' \in Dbs
  PROVE  in_flight' = along(host'.flying, host'.head, dbs', old_dbs')
<1>1. host'.head \in CqSlots
  BY DEF Hosts
<1> QED BY <1>1, AlongRings, ZenonT(30) DEF in_flight, num_proc

\* A step that leaves the rings and the commands alone.
LEMMA Still ==
  ASSUME Typed, Phased, Placed, Roomy, InFlightExact,
         cq' = NULL <=> cq = NULL,
         cq # NULL => cq'.cq_head = cq.cq_head /\ cq'.phase = cq.phase,
         \A v \in Workers : wpc'[v] = "advance" <=> wpc[v] = "advance",
         \A v \in Workers : wpc[v] = "advance" => wreq'[v] = wreq[v],
         sqmem' = sqmem, cqmem' = cqmem, work' = work, dbs' = dbs, old_dbs' = old_dbs, sq' \in {sq, NULL},
         host'.head = host.head, host'.phase = host.phase, host'.flying = host.flying,
         host'.sent = host.sent
  PROVE  Phased' /\ Placed' /\ Roomy' /\ InFlightExact'
<1>1. cq # NULL => top' = top /\ top_phase' = top_phase
  BY SameTop
<1>2. Posted' = Posted /\ Waiting' = Waiting /\ phases' = phases /\ ids' = ids
  BY <1>1 DEF Posted, Waiting, phases, ids
<1>3. live' = live
  BY DEF live
<1>4. Phased'
  BY <1>1, <1>2, ZenonT(30) DEF Phased
<1>5. Placed'
  BY <1>2, <1>3, ZenonT(30) DEF Placed
<1>6. Roomy'
  BY ZenonT(30) DEF Roomy
<1>7. InFlightExact'
  BY ZenonT(30) DEF InFlightExact, in_flight, num_proc
<1> QED BY <1>4, <1>5, <1>6, <1>7

\* The part of the invariant about the rings.
Rings == Phased /\ Placed /\ Roomy /\ InFlightExact

\* The steps of a worker that leave the rings and the commands alone.
LEMMA WorkerStill ==
  ASSUME IoInv, NEW w \in Workers,
         (\E r \in work[w] : TakeEntryLock(w, r)) \/ SeeReady(w) \/ ClearReady(w) \/ SignalIrq(w)
  PROVE  Rings'
<1> USE DEF dev, goto
<1>1. \A v \in Workers : wpc'[v] = "advance" <=> wpc[v] = "advance"
  BY DEF IoInv, Typed, TakeEntryLock, SeeReady, ClearReady, SignalIrq
<1>2. \A v \in Workers : wpc[v] = "advance" => wreq'[v] = wreq[v]
  BY DEF IoInv, Typed, TakeEntryLock, SeeReady, ClearReady, SignalIrq
<1>3. /\ cq' = NULL <=> cq = NULL
      /\ cq # NULL => cq'.cq_head = cq.cq_head /\ cq'.phase = cq.phase
  <2>1. CASE ClearReady(w)
    <3>1. cq \in Cqs
      BY <2>1 DEF ClearReady, IoInv, Typed, Session
    <3>2. cq' \in Cqs /\ cq'.cq_head = cq.cq_head /\ cq'.phase = cq.phase
      BY <2>1, <3>1, ZenonT(30) DEF ClearReady, Cqs
    <3> QED BY <3>1, <3>2, NullAssumption, SizeAssumption DEF Cqs, CqSlots
  <2>2. CASE cq' = cq
    BY <2>2
  <2> QED BY <2>1, <2>2 DEF TakeEntryLock, SeeReady, SignalIrq
<1>4. UNCHANGED <<sqmem, cqmem, work, dbs, old_dbs, sq, host>>
  BY DEF TakeEntryLock, SeeReady, ClearReady, SignalIrq
<1> QED BY <1>1, <1>2, <1>3, <1>4, Still, ZenonT(30) DEF IoInv, Rings

\* A worker copies the data of a command.
LEMMA PerformStep ==
  ASSUME IoInv, NEW w \in Workers, NEW r \in work[w], PerformIo(w, r)
  PROVE  Rings'
<1> DEFINE q == [r EXCEPT !.copied = sqmem[r.entry]]
<1>0. Typed /\ r \in Reqs /\ r \in live[w] /\ wpc[w] = "pass"
  BY DEF IoInv, Typed, PerformIo, live
<1>1. q \in Reqs /\ q.entry = r.entry /\ q.command_id = r.command_id /\ q.copied = sqmem[r.entry]
  BY <1>0 DEF Reqs, Typed
<1>2. work' = [work EXCEPT ![w] = (@ \ {r}) \cup {q}]
  BY DEF PerformIo
<1> HIDE DEF q
<1>3. live' = [live EXCEPT ![w] = (@ \ {r}) \cup {q}]
  <2>1. wpc' = wpc /\ wreq' = wreq
    BY DEF PerformIo, wloc
  <2>2. \A v \in Workers : work'[v] = IF v = w THEN (work[w] \ {r}) \cup {q} ELSE work[v]
    BY <1>0, <1>2 DEF Typed
  <2>3. \A v \in Workers : live'[v] = IF v = w THEN (live[w] \ {r}) \cup {q} ELSE live[v]
    BY <1>0, <2>1, <2>2 DEF live
  <2>4. live' = [v \in Workers |-> live'[v]]
    BY ZenonT(30) DEF live
  <2>5. live \in [Workers -> SUBSET Reqs]
    BY <1>0, Views
  <2> QED BY <2>3, <2>4, <2>5
<1>4. UNCHANGED <<sq, cq, old_dbs, sqmem, cqmem, dbs, wpc, wreq, host>>
  BY DEF PerformIo, wloc
<1>5. Posted' = Posted /\ Waiting' = Waiting /\ ids' = ids
  BY <1>4, ZenonT(30) DEF Posted, Waiting, ids, top, posting
<1>6. Apart([work EXCEPT ![w] = (@ \ {r}) \cup {q}], [live EXCEPT ![w] = (@ \ {r}) \cup {q}],
            sqmem, ids, Waiting, Posted, host.flying, host.sent)
  <2>1. work \in [Workers -> SUBSET Reqs] /\ live \in [Workers -> SUBSET Reqs]
    BY <1>0, Views DEF Typed
  <2>2. Apart(work, live, sqmem, ids, Waiting, Posted, host.flying, host.sent)
    BY DEF IoInv, Placed
  <2> QED BY <1>0, <1>1, <2>1, <2>2, ApartCopied, ZenonT(30)
<1>7. Placed'
  BY <1>2, <1>3, <1>4, <1>5, <1>6, ZenonT(30) DEF Placed
<1>8. Phased'
  BY <1>4, ZenonT(30) DEF IoInv, Phased, phases, top, top_phase, posting, next_phase
<1>9. Roomy' /\ InFlightExact'
  BY <1>4, ZenonT(30) DEF IoInv, Roomy, InFlightExact, in_flight, num_proc
<1> QED BY <1>7, <1>8, <1>9 DEF Rings

\* A worker stores the identifiers of a completion.
LEMMA StoreIdsStep ==
  ASSUME IoInv, NEW w \in Workers, StoreIds(w)
  PROVE  Rings'
<1> USE DEF dev, goto
<1>0. Typed /\ cq # NULL /\ wpc[w] = "ids" /\ cq.cq_head \in CqSlots
  BY DEF IoInv, Typed, StoreIds, Session, Cqs
<1>1. UNCHANGED <<sq, cq, old_dbs, work, sqmem, dbs, wreq, host>>
  BY DEF StoreIds
<1>2. \A v \in Workers : wpc'[v] = "advance" <=> wpc[v] = "advance"
  BY <1>0 DEF StoreIds, Typed
<1>3. top' = top /\ top_phase' = top_phase
  BY <1>0, <1>1, <1>2, SameTop, ZenonT(30)
<1>4. Posted' = Posted /\ Waiting' = Waiting
  BY <1>1, <1>3, ZenonT(30) DEF Posted, Waiting
<1>5. live' = live
  BY <1>1, <1>2 DEF live
<1>6. phases' = phases /\ \A s \in CqSlots : s # cq.cq_head => ids'[s] = ids[s]
  <2>1. \A s \in CqSlots : cqmem'[s].phase = cqmem[s].phase
    BY <1>0 DEF StoreIds, Typed, Entries
  <2>2. \A s \in CqSlots : s # cq.cq_head => cqmem'[s] = cqmem[s]
    BY <1>0 DEF StoreIds, Typed
  <2> QED BY <2>1, <2>2 DEF phases, ids
<1>7. \A s \in Posted : ids'[s] = ids[s]
  <2>1. top = cq.cq_head
    BY <1>0, Alone, NullAssumption DEF IoInv
  <2>2. \A s \in Posted : s \in CqSlots /\ s # cq.cq_head
    BY <1>0, <2>1, Slots DEF Posted, Between, gap
  <2> QED BY <1>6, <2>2
<1>8. Placed'
  BY <1>1, <1>4, <1>5, <1>7, ApartStored, ZenonT(30) DEF IoInv, Placed
<1>9. Phased'
  BY <1>1, <1>3, <1>6, ZenonT(30) DEF IoInv, Phased
<1>10. Roomy' /\ InFlightExact'
  BY <1>1, ZenonT(30) DEF IoInv, Roomy, InFlightExact, in_flight, num_proc
<1> QED BY <1>8, <1>9, <1>10 DEF Rings

\* A worker moves the device's end of the ring on.
LEMMA AdvanceStep ==
  ASSUME IoInv, NEW w \in Workers, AdvanceCq(w)
  PROVE  Rings'
<1> USE DEF goto
<1>0. /\ Typed /\ cq # NULL /\ wpc[w] = "advance" /\ cq' # NULL
      /\ cq'.cq_head = Bump(cq.cq_head, CQ_SIZE) /\ cq'.phase = next_phase
  <2>1. /\ Typed /\ cq # NULL /\ wpc[w] = "advance"
        /\ cq'.cq_head = Bump(cq.cq_head, CQ_SIZE) /\ cq'.phase = next_phase
    BY DEF IoInv, Typed, AdvanceCq, Session
  <2>2. cq' \in Cqs
    <3>1. cq.cq_head \in CqSlots /\ cq.phase \in {0, 1}
      BY <2>1 DEF Typed, Cqs
    <3>2. Bump(cq.cq_head, CQ_SIZE) \in CqSlots
      BY <2>1, <3>1, Slots, BumpType, ZenonT(30)
    <3>3. next_phase \in {0, 1}
      BY <3>1 DEF next_phase
    <3> QED BY <3>2, <3>3 DEF AdvanceCq, Cqs
  <2> QED BY <2>1, <2>2, NullAssumption, SizeAssumption DEF Cqs, CqSlots
<1>1. UNCHANGED <<sq, old_dbs, sqmem, cqmem, dbs, host>>
  BY DEF AdvanceCq
<1>2. \A v \in Workers : v # w => wpc[v] # "advance"
  BY <1>0 DEF IoInv, Locked, Storing
<1>3. \A v \in Workers : wpc'[v] = IF v = w THEN "pass" ELSE wpc[v]
  BY <1>0 DEF AdvanceCq, Typed
<1>4. posting /\ ~posting'
  BY <1>0, <1>2, <1>3 DEF posting
<1>5. top' = top /\ top_phase' = top_phase
  BY <1>0, <1>4 DEF top, top_phase
<1>6. \A v \in Workers : work'[v] = live[v] /\ live'[v] = live[v] /\ live[v] \subseteq work[v]
  <2>1. \A v \in Workers : work'[v] = IF v = w THEN work[w] \ {wreq[w]} ELSE work[v]
    BY <1>0 DEF AdvanceCq, Typed
  <2>2. \A v \in Workers : live[v] = IF v = w THEN work[w] \ {wreq[w]} ELSE work[v]
    BY <1>0, <1>2 DEF live
  <2>3. \A v \in Workers : live'[v] = work'[v]
    BY <1>2, <1>3 DEF live
  <2> QED BY <2>1, <2>2, <2>3
<1>7. Posted' = Posted /\ Waiting' = Waiting /\ ids' = ids /\ phases' = phases
  BY <1>0, <1>1, <1>5, ZenonT(30) DEF Posted, Waiting, ids, phases
<1>8. live' = live
  <2>1. live = [v \in Workers |-> live[v]] /\ live' = [v \in Workers |-> live'[v]]
    BY ZenonT(30) DEF live
  <2> QED BY <1>6, <2>1
<1>9. Placed'
  <2>1. Apart(work', live, sqmem, ids, Waiting, Posted, host.flying, host.sent)
    <3>1. \A v \in Workers : work'[v] \subseteq work[v] /\ live[v] \subseteq work'[v]
      BY <1>6
    <3> QED BY <3>1, ApartDone, ZenonT(30) DEF IoInv, Placed
  <2> QED BY <1>1, <1>7, <1>8, <2>1, ZenonT(30) DEF Placed
<1>10. Phased'
  BY <1>0, <1>1, <1>5, <1>7, ZenonT(30) DEF IoInv, Phased
<1>11. Roomy' /\ InFlightExact'
  BY <1>1, ZenonT(30) DEF IoInv, Roomy, InFlightExact, in_flight, num_proc
<1> QED BY <1>9, <1>10, <1>11 DEF Rings

-----------------------------------------------------------------------------
(* The lock and the sessions                                               *)

\* Steps of the dispatcher, of queue management and of the host keep the lock.
LEMMA LockedOthers ==
  ASSUME IoInv, CreateCq \/ CreateSq \/ DeleteSq \/ DeleteCq \/ Dispatch \/ HostSubmit \/ HostIsr
  PROVE  Locked'
<1> USE DEF dev, wloc
<1>1. UNCHANGED <<wpc, wreq, entry_lock>>
  BY DEF CreateCq, CreateSq, DeleteSq, DeleteCq, Dispatch, ProcIoSq, ProcIoCq, HostSubmit, HostIsr,
         HostIrq, HostSee, HostIrqEnd
<1>2. \A w \in Workers : work[w] \subseteq work'[w]
  BY DEF CreateCq, CreateSq, DeleteSq, DeleteCq, Dispatch, ProcIoSq, ProcIoCq, HostSubmit, HostIsr,
         HostIrq, HostSee, HostIrqEnd
<1>3. (UNCHANGED <<cq, cqmem>>) \/ \A w \in Workers : wpc[w] = "pass"
  BY DEF IoInv, Session, Quiet, CreateCq, CreateSq, DeleteSq, DeleteCq, Dispatch, ProcIoSq, ProcIoCq,
         HostSubmit, HostIsr, HostIrq, HostSee, HostIrqEnd
<1> QED BY <1>1, <1>2, <1>3 DEF IoInv, Locked, Storing

\* Steps of a worker keep the lock.
LEMMA LockedWorker ==
  ASSUME IoInv, NEW w \in Workers, Worker(w)
  PROVE  Locked'
<1> USE DEF dev, goto
<1>0. /\ Typed /\ Locked /\ NULL \notin Workers
      /\ wpc \in [Workers -> Storing \cup {"pass", "clear", "signal"}]
      /\ wreq \in [Workers -> Reqs \cup {NULL}] /\ work \in [Workers -> SUBSET Reqs]
  BY NullAssumption DEF IoInv, Typed, Workers
<1>1. ASSUME NEW r \in work[w], PerformIo(w, r) PROVE Locked'
  <2>1. wpc[w] = "pass" /\ UNCHANGED <<wpc, wreq, entry_lock, cq, cqmem>>
    BY <1>1 DEF PerformIo, wloc
  <2>2. \A v \in Workers : v # w => work'[v] = work[v]
    BY <1>0, <1>1 DEF PerformIo
  <2> QED BY <1>0, <2>1, <2>2 DEF Locked, Storing
<1>2. ASSUME NEW r \in work[w], TakeEntryLock(w, r) PROVE Locked'
  <2>1. /\ UNCHANGED <<cq, cqmem, work>> /\ entry_lock = NULL /\ entry_lock' = w /\ r.copied # NULL
        /\ \A v \in Workers : /\ wpc'[v] = IF v = w THEN "ids" ELSE wpc[v]
                              /\ wreq'[v] = IF v = w THEN r ELSE wreq[v]
    BY <1>0, <1>2 DEF TakeEntryLock
  <2> QED BY <1>0, <2>1 DEF Locked, Storing
<1>3. CASE StoreIds(w)
  <2>1. /\ UNCHANGED <<cq, work, wreq, entry_lock>> /\ wpc[w] = "ids"
        /\ \A v \in Workers : wpc'[v] = IF v = w THEN "status" ELSE wpc[v]
    BY <1>0, <1>3 DEF StoreIds
  <2>2. cq.cq_head \in CqSlots
    BY <1>0, <2>1 DEF IoInv, Typed, Session, Cqs
  <2>3. cqmem'[cq.cq_head].command_id = wreq[w].command_id
    BY <1>0, <1>3, <2>2 DEF StoreIds, Typed, Entries
  <2>4. \A v \in Workers : v # w => wpc[v] \notin Storing
    BY <1>0, <2>1 DEF Locked, Storing
  <2> QED BY <1>0, <2>1, <2>3, <2>4 DEF Locked, Storing
<1>4. CASE StoreStatus(w)
  <2>1. /\ UNCHANGED <<cq, work, wreq, entry_lock>> /\ wpc[w] = "status"
        /\ \A v \in Workers : wpc'[v] = IF v = w THEN "advance" ELSE wpc[v]
    BY <1>0, <1>4 DEF StoreStatus
  <2>2. \A v \in Workers : v # w => wpc[v] \notin Storing
    BY <1>0, <2>1 DEF Locked, Storing
  <2> QED BY <1>0, <2>1, <2>2 DEF Locked, Storing
<1>5. CASE AdvanceCq(w)
  <2>1. /\ entry_lock' = NULL /\ wpc[w] = "advance"
        /\ \A v \in Workers : wpc'[v] = IF v = w THEN "pass" ELSE wpc[v]
    BY <1>0, <1>5 DEF AdvanceCq
  <2>2. \A v \in Workers : v # w => wpc[v] \notin Storing
    BY <1>0, <2>1 DEF Locked, Storing
  <2> QED BY <1>0, <2>1, <2>2 DEF Locked, Storing
<1>6. CASE SeeReady(w) \/ SignalIrq(w) \/ ClearReady(w)
  <2>1. /\ UNCHANGED <<cqmem, work, wreq, entry_lock>> /\ wpc[w] \notin Storing
        /\ wpc'[w] \notin Storing /\ \A v \in Workers : v # w => wpc'[v] = wpc[v]
    BY <1>0, <1>6 DEF SeeReady, SignalIrq, ClearReady, Storing
  <2>2. cq'.cq_head = cq.cq_head
    <3>1. CASE ClearReady(w)
      <4>1. cq \in Cqs
        BY <3>1 DEF ClearReady, IoInv, Typed, Session
      <4> QED BY <3>1, <4>1, ZenonT(30) DEF ClearReady, Cqs
    <3>2. CASE cq' = cq
      BY <3>2
    <3> QED BY <1>6, <3>1, <3>2 DEF SeeReady, SignalIrq
  <2> QED BY <1>0, <2>1, <2>2 DEF Locked, Storing
<1> QED BY <1>1, <1>2, <1>3, <1>4, <1>5, <1>6 DEF Worker

\* Steps of the dispatcher, of queue management and of the host keep what holds
\* between the queues.
LEMMA SessionOthers ==
  ASSUME IoInv, CreateCq \/ CreateSq \/ DeleteSq \/ DeleteCq \/ Dispatch \/ HostSubmit \/ HostIsr
  PROVE  Session'
<1> USE DEF dev, wloc
<1>0. Typed /\ Session /\ NULL \notin [nr_in_flight : Int] /\ SQ_SIZE # 0
  BY NullAssumption, SizeAssumption DEF IoInv
<1>1. CASE CreateCq
  <2>1. /\ cq = NULL /\ sq = NULL /\ host.tail = 0 /\ UNCHANGED <<sq, work, wpc, irq>>
        /\ cq'.interrupt_ready = FALSE
    BY <1>0, <1>1 DEF CreateCq, Session
  <2>2. /\ host'.flying = host.flying /\ host'.isr = host.isr /\ host'.tail = host.tail
        /\ host'.head = 0 /\ dbs'.cq = 0 /\ old_dbs'.cq = 0
        /\ dbs'.sq = dbs.sq /\ old_dbs'.sq = old_dbs.sq
    BY <1>0, <1>1, ZenonT(30) DEF CreateCq, Typed, Hosts, Dbs
  <2> QED BY <1>0, <2>1, <2>2 DEF Session
<1>2. CASE CreateSq
  <2>1. /\ cq # NULL /\ UNCHANGED <<cq, host>> /\ sq' # NULL /\ host.tail = 0 /\ dbs'.sq = 0
    BY <1>0, <1>2 DEF CreateSq, Typed, Dbs
  <2> QED BY <2>1 DEF Session
<1>3. CASE DeleteSq
  <2>1. /\ UNCHANGED <<cq, work, dbs, old_dbs>> /\ cq # NULL /\ sq' = NULL /\ host'.tail = SQ_SIZE
    BY <1>0, <1>3 DEF DeleteSq, Typed, Hosts, Session
  <2> QED BY <1>0, <1>3, <2>1 DEF Session, DeleteSq, Quiet
<1>4. CASE DeleteCq
  <2>1. /\ UNCHANGED <<sq, work, dbs, old_dbs, wpc, irq>> /\ cq' = NULL /\ sq = NULL
        /\ host.flying = {} /\ ~host.isr /\ ~irq /\ \A w \in Workers : wpc[w] = "pass"
    BY <1>4 DEF DeleteCq, Quiet
  <2>2. host'.tail = 0 /\ host'.flying = host.flying /\ host'.isr = host.isr
    BY <1>0, <1>4, ZenonT(30) DEF DeleteCq, Typed, Hosts
  <2> QED BY <1>0, <2>1, <2>2 DEF Session
<1>5. ASSUME NEW n \in 1 .. num_proc, ProcIoSq(n) PROVE Session'
  <2>1. /\ UNCHANGED <<cq, dbs, host>> /\ sq # NULL /\ sq' # NULL
    BY <1>0, <1>5 DEF ProcIoSq, Typed
  <2> QED BY <1>0, <2>1 DEF Session
<1>6. CASE ProcIoCq
  <2>1. UNCHANGED <<cq, dbs, host, work, wpc, irq>> /\ (sq' = NULL <=> sq = NULL)
    <3>1. dbs.cq - old_dbs.cq \in Int /\ CQ_SIZE \in Nat \ {0}
      BY <1>0, Slots
    <3>2. acknowledged(old_dbs.cq, dbs.cq) \in Int
      BY <3>1, ModType DEF acknowledged
    <3> QED BY <1>0, <1>6, <3>2 DEF ProcIoCq, Typed
  <2>2. old_dbs'.sq = old_dbs.sq /\ old_dbs'.cq = dbs.cq
    BY <1>0, <1>6 DEF ProcIoCq, Typed, Dbs
  <2> QED BY <1>0, <2>1, <2>2, ZenonT(30) DEF Session
<1>7. CASE HostSubmit
  <2>1. /\ UNCHANGED <<cq, sq>> /\ sq # NULL
        /\ host'.tail = dbs'.sq
    BY <1>0, <1>7 DEF HostSubmit, Typed, Hosts
  <2> QED BY <1>0, <2>1 DEF Session
<1>8. CASE HostIsr
  <2>1. UNCHANGED <<cq, sq, old_dbs, work, wpc>> /\ (irq \/ host.isr)
    BY <1>8 DEF HostIsr, HostIrq, HostSee, HostIrqEnd
  <2>2. host'.tail = host.tail /\ dbs'.sq = dbs.sq
    BY <1>0, <1>8, ZenonT(30) DEF HostIsr, HostIrq, HostSee, HostIrqEnd, Typed, Hosts, Dbs
  <2> QED BY <1>0, <2>1, <2>2 DEF Session
<1> QED BY <1>1, <1>2, <1>3, <1>4, <1>5, <1>6, <1>7, <1>8 DEF Dispatch

\* Steps of a worker keep what holds between the queues.
LEMMA SessionWorker ==
  ASSUME IoInv, NEW w \in Workers, Worker(w)
  PROVE  Session'
<1> USE DEF dev, goto
<1>0. Typed /\ Session /\ Locked
  BY DEF IoInv
<1>1. UNCHANGED <<sq, old_dbs, dbs, host>>
  BY DEF Worker, PerformIo, TakeEntryLock, StoreIds, StoreStatus, AdvanceCq, SeeReady, ClearReady,
         SignalIrq
<1>2. CASE sq # NULL
  <2>1. cq # NULL
    BY <1>0, <1>2 DEF Session
  <2>2. cq' # NULL
    <3>1. cq' = cq \/ cq' \in Cqs
      <4>1. CASE AdvanceCq(w) \/ ClearReady(w)
        <5>1. Typed' /\ cq \in Cqs
          BY <1>0, <2>1, TypedWorker DEF Typed
        <5>2. cq' # NULL
          BY <4>1, <5>1, NullAssumption, SizeAssumption, WorkerCq
        <5> QED BY <5>1, <5>2 DEF Typed
      <4>2. CASE ~(AdvanceCq(w) \/ ClearReady(w))
        BY <4>2 DEF Worker, PerformIo, TakeEntryLock, StoreIds, StoreStatus, SeeReady, SignalIrq
      <4> QED BY <4>1, <4>2
    <3> QED BY <2>1, <3>1, NullAssumption, SizeAssumption DEF Cqs, CqSlots
  <2> QED BY <1>0, <1>1, <1>2, <2>2 DEF Session
<1>3. CASE sq = NULL
  <2>1. \A v \in Workers : work[v] = {} /\ wpc[v] \notin Storing
    BY <1>0, <1>3 DEF Session, Locked
  <2>2. SeeReady(w) \/ ClearReady(w) \/ SignalIrq(w)
    BY <2>1 DEF Worker, StoreIds, StoreStatus, AdvanceCq, Storing
  <2>3. host.tail # 0
    BY <1>0, <1>3, <2>2 DEF Session, SeeReady, ClearReady, SignalIrq
  <2>4. work' = work
    BY <2>2 DEF SeeReady, ClearReady, SignalIrq
  <2>5. cq' # NULL
    <3>1. cq \in Cqs
      BY <1>0, <2>3 DEF Session, Typed
    <3> QED BY <2>2, <3>1, NullAssumption, SizeAssumption, WorkerCq DEF SeeReady, SignalIrq, Cqs, CqSlots
  <2>6. \A v \in Workers : work'[v] = {}
    BY <2>1, <2>4
  <2>7. sq' = NULL /\ host'.tail # 0
    BY <1>1, <1>3, <2>3
  <2> QED BY <1>0, <1>1, <1>3, <2>5, <2>6, <2>7, ZenonT(30) DEF Session
<1> QED BY <1>2, <1>3
=============================================================================
