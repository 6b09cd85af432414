------------------------------- MODULE KvMap --------------------------------
(***************************************************************************)
(* What the key-value command set promises the host, and the one thing     *)
(* this device withholds: a map from keys to values in which a store is    *)
(* exact for the keys it names and for all others, and in which deleting   *)
(* one key may make others disappear, but neither changes nor revives any. *)
(***************************************************************************)
CONSTANTS KEYS, NONE

VARIABLE db      \* key -> value, NONE for a key that is not there

\* The keys in the domain of new get their new values.
Put(new) ==
  /\ \A k \in DOMAIN new : new[k] # NONE
  /\ db' = [k \in KEYS |-> IF k \in DOMAIN new THEN new[k] ELSE db[k]]

Delete(k) ==
  /\ db[k] # NONE
  /\ db'[k] = NONE
  /\ \A j \in KEYS : db'[j] \in {db[j], NONE}

Init == db = [k \in KEYS |-> NONE]

\* The new values are those the step ends with.
Next == \/ \E K \in SUBSET KEYS : Put([k \in K |-> db'[k]])
        \/ \E k \in KEYS : Delete(k)

Spec == Init /\ [][Next]_db
=============================================================================
