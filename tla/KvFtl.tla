------------------------------- MODULE KvFtl --------------------------------
(***************************************************************************)
(* The key-value device (kv_ftl.c): a hash table of mapping entries whose  *)
(* collisions are chained through next_slot, the two allocators a value's  *)
(* place comes from (append_only.c, bitmap.c), single and batched stores,  *)
(* deletes, and the iterators that scan the table.                         *)
(*                                                                         *)
(* A command runs to its end before the next one starts, which is what one *)
(* io_worker gives: neither the table nor the allocators have a lock.  A   *)
(* value is a number of cells that all carry the key and one of two marks, *)
(* never the one the key's value had before, so that a value overwritten   *)
(* in part or out of date is seen.  The host keeps to the lengths that     *)
(* update_ok allows; the device does not check them.                       *)
(***************************************************************************)
EXTENDS Integers, Sequences, FiniteSets, SequencesExt

CONSTANTS KEYS,          \* keys of one length
          HASHES,        \* the hash functions to try, each [KEYS -> Slots]
          NR_SLOTS,      \* hash_slots
          LENGTHS,       \* lengths of values, for each allocator
          DEV_SIZE,      \* cells of the device
          SMALL_LENGTH, LARGE_LENGTH,
          ALLOCATORS,    \* a subset of {"append", "bitmap"}
          NR_ITER,       \* 16, the highest iterator handle
          KEYS_PER_READ, \* keys that fit the 1024 bytes of an iterator read
          PREFIXES,      \* the key sets an iterator's bitmask and prefix select
          MAX_INSERTS,   \* bound on the values a behaviour allocates
          MAX_BATCH,     \* bound on the sub-commands of a batch
          NIL            \* -1

Slots  == 0 .. (NR_SLOTS - 1)
Cells  == 0 .. (DEV_SIZE - 1)

ASSUME HASHES \subseteq [KEYS -> Slots]

VARIABLES hash,    \* get_hash_slot, which never changes
          kind,    \* ALLOCATOR_TYPE, which never changes
          table,   \* kv_mapping_table
          alloc,   \* the allocator's variables
          mem,     \* the storage: the key and the mark each cell holds
          iter,    \* iter_handle, with what the scan owes the host
          mark,    \* per key, the mark of the value stored last
          db,      \* what a retrieve of each key returns: derived from the above
          held,    \* keys the host has stored and not deleted
          hung     \* the worker is caught in find_next_slot

vars == <<hash, kind, table, alloc, mem, iter, mark, db, held, hung>>

NoScan  == [at |-> "null", pos |-> 0, match |-> {}, owed |-> {}]
NoEntry == [key |-> NIL, off |-> NIL, len |-> NIL, next |-> NIL]

live(t, s) == t[s].off # NIL

(***************************************************************************)
(* The allocators.  Nothing is ever given back.                            *)
(***************************************************************************)
small_nbits == (DEV_SIZE \div 2) \div SMALL_LENGTH
large_nbits == (DEV_SIZE \div 2) \div LARGE_LENGTH

append_only_allocate(a, n) == [off |-> a.latest, a |-> [a EXCEPT !.latest = @ + n]]

\* Mutant: the large half of the device begins where the small one does.
bitmap_allocate_low(a, n) ==
  IF n > SMALL_LENGTH
  THEN [off |-> a.large * LARGE_LENGTH, a |-> [a EXCEPT !.large = @ + 1]]
  ELSE [off |-> a.small * SMALL_LENGTH, a |-> [a EXCEPT !.small = @ + 1]]

\* The search starts behind the last bit that was set and no bit is cleared,
\* so the first zero bit is the one it starts at.
bitmap_allocate(a, n) ==
  IF n > SMALL_LENGTH
  THEN [off |-> DEV_SIZE \div 2 + a.large * LARGE_LENGTH,
        a   |-> [a EXCEPT !.large = @ + 1]]
  ELSE [off |-> a.small * SMALL_LENGTH, a |-> [a EXCEPT !.small = @ + 1]]

allocate_mem_offset(a, n) ==
  IF kind = "append" THEN append_only_allocate(a, n) ELSE bitmap_allocate(a, n)

\* The bound on allocation: behaviours end before the device is full.
has_room(a, n) ==
  IF kind = "append" THEN a.latest + n <= DEV_SIZE
  ELSE IF n > SMALL_LENGTH THEN a.large < large_nbits ELSE a.small < small_nbits

(***************************************************************************)
(* The hash table                                                          *)
(***************************************************************************)
RECURSIVE find_from(_, _, _, _)
\* The slot of k among the first n of the chain that starts at s, or NIL.
\* ChainsEnd shows that no chain is longer than the table.
find_from(t, s, k, n) ==
  IF s = NIL \/ n = 0 THEN NIL
  ELSE IF ~live(t, s) THEN NIL
  ELSE IF t[s].key = k THEN s
  ELSE find_from(t, t[s].next, k, n - 1)

get_mapping_entry(t, k)        == find_from(t, hash[k], k, NR_SLOTS)
get_mapping_entry_by_key(t, k) == find_from(t, hash[k], k, NR_SLOTS)

RECURSIVE chain_tail(_, _)
\* The last entry in use on the chain of s.
chain_tail(t, s) ==
  IF t[s].next = NIL THEN s
  ELSE IF ~live(t, t[s].next) THEN s
  ELSE chain_tail(t, t[s].next)

\* The first unused slot at or behind s, around the end of the table.
next_available(t, s) ==
  LET free == {d \in 0 .. (NR_SLOTS - 1) : ~live(t, (s + d) % NR_SLOTS)}
  IN  (s + (CHOOSE d \in free : \A e \in free : d <= e)) % NR_SLOTS

\* Mutant: the new entry is linked to the head of its chain.
find_next_from_head(t, s) == [prev |-> s, slot |-> next_available(t, s)]

\* Mutant: the search for an unused slot is left out.
find_next_at_tail(t, s) == [prev |-> chain_tail(t, s), slot |-> chain_tail(t, s)]

find_next_slot(t, s) ==
  LET prev == chain_tail(t, s) IN [prev |-> prev, slot |-> next_available(t, prev)]

fill(t, s, k, off, n) == [t EXCEPT ![s].key = k, ![s].off = off, ![s].len = n]

new_mapping_entry(t, k, off, n) ==
  LET s == hash[k]
      f == find_next_slot(t, s)
  IN  IF live(t, s)
      THEN [fill(t, f.slot, k, off, n) EXCEPT ![f.prev].next = f.slot]
      ELSE fill(t, s, k, off, n)

new_mapping_entry_by_key(t, k, off, n) == new_mapping_entry(t, k, off, n)

update_mapping_entry(t, k, n) == [t EXCEPT ![get_mapping_entry(t, k)].len = n]

\* The whole entry is set to -1, its link included.
delete_mapping_entry(t, k) == [t EXCEPT ![get_mapping_entry(t, k)] = NoEntry]

\* No unused slot is left and the key's own slot is taken: the search of
\* find_next_slot does not end.
endless(t, k) == live(t, hash[k]) /\ \A s \in Slots : live(t, s)

(***************************************************************************)
(* Values                                                                  *)
(***************************************************************************)
copy_in(m, off, n, v) == [c \in Cells |-> IF c \in off .. (off + n - 1) THEN v ELSE m[c]]

\* What a retrieve of the longest length returns, and NIL for the status
\* KV_ERR_KEY_NOT_EXIST.
retrieve(t, m, k) ==
  LET s == get_mapping_entry(t, k)
  IN  IF s = NIL THEN NIL ELSE [i \in 1 .. t[s].len |-> m[t[s].off + i - 1]]

Db(t, m) == [k \in KEYS |-> retrieve(t, m, k)]

(***************************************************************************)
(* Stores.  x collects what one command changes.                           *)
(***************************************************************************)
Now == [table |-> table, alloc |-> alloc, mem |-> mem, mark |-> mark,
        hung |-> FALSE, ok |-> TRUE]

\* The host's part: a new length needs both to be small, as the device's
\* own complaint has it; one allocated exactly cannot grow; and a batch
\* does not change a length, because it does not record it.
update_ok(old, n, batched) ==
  \/ n = old
  \/ ~batched /\ n <= SMALL_LENGTH /\ old <= SMALL_LENGTH /\ (kind = "append" => n <= old)

insert(x, k, n, batched) ==
  LET a     == allocate_mem_offset(x.alloc, n)
      added == IF batched THEN new_mapping_entry_by_key(x.table, k, a.off, n)
                          ELSE new_mapping_entry(x.table, k, a.off, n)
  IN  [x EXCEPT !.ok    = @ /\ has_room(x.alloc, n) /\ x.alloc.inserts < MAX_INSERTS,
                !.alloc = [a.a EXCEPT !.inserts = @ + 1],
                !.mark  = [@ EXCEPT ![k] = 1 - @],
                !.mem   = copy_in(@, a.off, n, <<k, 1 - x.mark[k]>>),
                !.hung  = endless(x.table, k),
                !.table = IF endless(@, k) THEN @ ELSE added]

perform_kv_store(x, k, n) ==
  LET s == get_mapping_entry(x.table, k)
  IN  IF s = NIL THEN insert(x, k, n, FALSE)
      ELSE [x EXCEPT !.ok    = @ /\ update_ok(x.table[s].len, n, FALSE),
                     !.mark  = [@ EXCEPT ![k] = 1 - @],
                     !.mem   = copy_in(@, x.table[s].off, n, <<k, 1 - x.mark[k]>>),
                     !.table = update_mapping_entry(@, k, n)]

perform_kv_batched_store(x, k, n) ==
  LET s == get_mapping_entry_by_key(x.table, k)
  IN  IF s = NIL THEN insert(x, k, n, TRUE)
      ELSE [x EXCEPT !.ok    = @ /\ update_ok(x.table[s].len, n, TRUE),
                     !.mark  = [@ EXCEPT ![k] = 1 - @],
                     !.mem   = copy_in(@, x.table[s].off, n, <<k, 1 - x.mark[k]>>)]

\* A scan owes the host the keys that have been there since it was opened
\* and that it has not returned.
still_owed(t) ==
  [h \in 0 .. NR_ITER |->
     [iter[h] EXCEPT !.owed = {k \in @ : find_from(t, hash[k], k, NR_SLOTS) # NIL}]]

\* A command that has the effect x.
Perform(effect) == \E x \in {effect} :
  /\ x.ok
  /\ table' = x.table /\ alloc' = x.alloc /\ mem' = x.mem
  /\ mark' = x.mark /\ hung' = x.hung
  /\ db' = Db(x.table, x.mem)
  /\ iter' = still_owed(x.table)
  /\ UNCHANGED <<hash, kind>>

Store(k, n) ==
  /\ ~hung
  /\ Perform(perform_kv_store(Now, k, n))
  /\ held' = held \cup {k}

Batch(sub) ==
  /\ ~hung
  /\ Perform(FoldLeft(LAMBDA x, c : IF x.hung THEN x
                                    ELSE perform_kv_batched_store(x, c[1], c[2]), Now, sub))
  /\ held' = held \cup {sub[i][1] : i \in DOMAIN sub}

\* A delete of a key that is not found answers KV_ERR_KEY_NOT_EXIST.
Delete(k) ==
  /\ ~hung
  /\ get_mapping_entry(table, k) # NIL
  /\ Perform([Now EXCEPT !.table = delete_mapping_entry(table, k)])
  /\ held' = held \ {k}

(***************************************************************************)
(* Iterators                                                               *)
(***************************************************************************)
\* The lowest free handle.  With none free the command answers 1, the handle
\* of another scan, and changes nothing.
IterOpen(match) ==
  LET free == {h \in 1 .. NR_ITER : iter[h].at = "null"}
  IN  /\ ~hung
      /\ free # {}
      /\ iter' = [iter EXCEPT ![CHOOSE h \in free : \A g \in free : h <= g] =
                    [at |-> "open", pos |-> 0, match |-> match,
                     owed |-> {k \in match : get_mapping_entry(table, k) # NIL}]]
      /\ UNCHANGED <<hash, kind, table, alloc, mem, mark, db, held, hung>>

IterClose(h) ==
  /\ ~hung
  /\ iter[h].at = "open"
  /\ iter' = [iter EXCEPT ![h] = NoScan]
  /\ UNCHANGED <<hash, kind, table, alloc, mem, mark, db, held, hung>>

\* The slots a read visits: those in use whose key matches.
matching(h) == {s \in h.pos .. (NR_SLOTS - 1) : live(table, s) /\ table[s].key \in h.match}

\* The matching slots in front of s.
before(h, s) == Cardinality({r \in matching(h) : r < s})

\* Mutant: the next read starts behind the key that did not fit.
next_pos_skip(h) ==
  IF Cardinality(matching(h)) <= KEYS_PER_READ THEN NR_SLOTS
  ELSE 1 + CHOOSE s \in matching(h) : before(h, s) = KEYS_PER_READ

\* Where a read stops: at the first key that does not fit, or at the end.
next_pos(h) ==
  IF Cardinality(matching(h)) <= KEYS_PER_READ THEN NR_SLOTS
  ELSE CHOOSE s \in matching(h) : before(h, s) = KEYS_PER_READ

returned(h) == {table[s].key : s \in {r \in matching(h) : before(h, r) < KEYS_PER_READ}}

IterRead(h) ==
  /\ ~hung
  /\ iter[h].at = "open"
  /\ iter' = [iter EXCEPT ![h].pos = next_pos(iter[h]), ![h].owed = @ \ returned(iter[h])]
  /\ UNCHANGED <<hash, kind, table, alloc, mem, mark, db, held, hung>>

(***************************************************************************)
(* kv_init_namespace clears the handles below NR_ITER; the last one holds  *)
(* whatever kmalloc returned.                                              *)
(***************************************************************************)
Init ==
  /\ hash \in HASHES
  /\ kind \in ALLOCATORS
  /\ table = [s \in Slots |-> NoEntry]
  /\ alloc = [inserts |-> 0, latest |-> 0, small |-> 0, large |-> 0]
  /\ mem = [c \in Cells |-> NIL]
  /\ \E last \in {NoScan, [NoScan EXCEPT !.at = "garbage"]} :
       iter = [h \in 0 .. NR_ITER |-> IF h < NR_ITER THEN NoScan ELSE last]
  /\ mark = [k \in KEYS |-> 0] /\ db = Db(table, mem) /\ held = {} /\ hung = FALSE

\* The values of one batch have the same length.
Batches == UNION {[1 .. MAX_BATCH -> KEYS \X {n}] : n \in LENGTHS[kind]}

Next ==
  \/ \E k \in KEYS, n \in LENGTHS[kind] : Store(k, n)
  \/ \E sub \in Batches : Batch(sub)
  \/ \E k \in KEYS : Delete(k)
  \/ \E match \in PREFIXES : IterOpen(match)
  \/ \E h \in 1 .. NR_ITER : IterClose(h) \/ IterRead(h)

Spec == Init /\ [][Next]_vars

(***************************************************************************)
(* Properties                                                              *)
(***************************************************************************)

\* Every walk of a chain ends (the loops of get_mapping_entry and
\* find_next_slot have no bound of their own): no slot is reached from
\* itself, although deletes leave links to slots that other chains reuse.
ChainsEnd ==
  \A s \in Slots :
    LET hop[i \in 0 .. NR_SLOTS] ==
          IF i = 0 THEN s ELSE IF hop[i - 1] = NIL THEN NIL ELSE table[hop[i - 1]].next
    IN  \A i \in 1 .. NR_SLOTS : hop[i] # s

\* Two entries in use never share a cell of the device, so that a store
\* cannot change the value of another key, whichever allocator is built in.
ValuesApart ==
  \A r, s \in Slots : r # s /\ live(table, r) /\ live(table, s) =>
    \/ table[r].off + table[r].len <= table[s].off
    \/ table[s].off + table[s].len <= table[r].off

\* A scan that has reached the end of the table returned every matching key
\* that was there from its open on, whatever was stored and deleted and
\* however many reads it took.
ScanComplete ==
  \A h \in 1 .. NR_ITER :
    iter[h].at = "open" /\ iter[h].pos = NR_SLOTS => iter[h].owed = {}

Map == INSTANCE KvMap WITH NONE <- NIL

\* The device is a map in which a store is exact, of one key or of a batch,
\* an update in place and a reused slot included, and in which a delete may
\* lose other keys but never changes a value or revives a deleted key.  The
\* hang of a full table is left out.
IsKvMap == Map!Init /\ [][hung' \/ Map!Next]_db

\* A key that was stored and not deleted is found (the comment over
\* __do_perform_kv_io: only if there is no mapping entry "key doesn't
\* exist").
NothingLost == \A k \in held : hung \/ get_mapping_entry(table, k) # NIL
=============================================================================
