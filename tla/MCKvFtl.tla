------------------------------ MODULE MCKvFtl -------------------------------
(***************************************************************************)
(* Model checking of KvFtl: three keys that all collide in the last slot,  *)
(* so that their chain wraps around, or two that do and the third in the   *)
(* slot the chain wraps to.                                                *)
(***************************************************************************)
EXTENDS KvFtl

CONSTANTS k1, k2, k3

Keys == {k1, k2, k3}

Hashes ==
  {[k \in Keys |-> NR_SLOTS - 1],
   [k \in Keys |-> IF k = k3 THEN 0 ELSE NR_SLOTS - 1]}

\* The table and the allocator know nothing of each other: each hash function
\* is tried with one of the allocators.
PairedInit == Init /\ (kind = "append" <=> hash[k3] = 0)
PairedSpec == PairedInit /\ [][Next]_vars

Lengths == [append |-> {1, 2}, bitmap |-> {2, 3}]

\* Cells of no entry in use are never read again.
InUse(c) == \E s \in Slots : live(table, s) /\ c \in table[s].off .. (table[s].off + table[s].len - 1)

\* Which of a key's two marks is the current one does not matter, and no
\* action reads held.
Relative(v) == IF v = NIL THEN NIL ELSE <<v[1], v[2] = mark[v[1]]>>

LiveView == <<hash, kind, table, alloc, iter, hung,
              [c \in Cells |-> IF InUse(c) THEN Relative(mem[c]) ELSE NIL]>>

KeyPrefixes == {{k1, k3}}
=============================================================================
