------------------------------ MODULE Placement ------------------------------
(***************************************************************************)
(* What flexible data placement promises the host about one partition: a   *)
(* logical page written through a reclaim unit handle stays in a reclaim   *)
(* unit of that handle until the host writes it again or garbage           *)
(* collection relocates it, and relocated data goes to a unit of no handle *)
(* (tag -1).  FdpFtl implements this specification.                        *)
(***************************************************************************)
EXTENDS Integers

CONSTANTS LPNs, NR_RUH

Unwritten == -2
NoRuh     == -1

VARIABLES tag,         \* tag[n]: the handle of the reclaim unit that holds n
          collecting   \* a collection is under way

Init == tag = [n \in LPNs |-> Unwritten] /\ collecting = FALSE

Write(n, r) ==
    /\ ~collecting
    /\ tag' = [tag EXCEPT ![n] = r]
    /\ UNCHANGED collecting

Relocate(n) ==
    /\ collecting
    /\ tag[n] # Unwritten
    /\ tag' = [tag EXCEPT ![n] = NoRuh]
    /\ UNCHANGED collecting

\* A collection begins or ends: no data moves.
Toggle == collecting' = ~collecting /\ UNCHANGED tag

Next == \/ \E n \in LPNs, r \in 0 .. (NR_RUH - 1) : Write(n, r)
        \/ \E n \in LPNs : Relocate(n)
        \/ Toggle

Spec == Init /\ [][Next]_<<tag, collecting>>
=============================================================================
