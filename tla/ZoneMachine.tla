---------------------------- MODULE ZoneMachine ----------------------------
(***************************************************************************)
(* What a zoned namespace promises its host, without any bookkeeping: the  *)
(* transitions a zone may make under each command, and limits on how many  *)
(* zones are open and active at a time, counted on the zones themselves.   *)
(* A command sent to all zones moves several of them in one step.          *)
(***************************************************************************)
EXTENDS Integers, FiniteSets

CONSTANTS Zones, CAPACITY, MAX_OPEN, MAX_ACTIVE

VARIABLE zone   \* of each zone: its state, and its write pointer from the start

Opened == {"impl", "expl"}
Active == Opened \cup {"closed"}

Init == zone = [z \in Zones |-> [state |-> "empty", wp |-> 0]]

\* Zone Management Send.
Managed(action, x, y) ==
  \/ /\ action = "close" /\ x.state \in Opened
     /\ y = [x EXCEPT !.state = "closed"]
  \/ /\ action = "finish" /\ x.state \in Active \cup {"empty"}
     /\ y = [x EXCEPT !.state = "full"]
  \/ /\ action = "open" /\ x.state \in {"empty", "closed", "impl"}
     /\ y = [x EXCEPT !.state = "expl"]
  \/ /\ action = "reset"
     /\ y = [state |-> "empty", wp |-> 0]
  \/ /\ action = "flush" /\ x.state \in Active
     /\ y.wp \in x.wp + 1 .. CAPACITY
     /\ y.state = IF y.wp = CAPACITY THEN "full" ELSE x.state

\* A write opens the zone if need be; a full zone takes none.
Written(x, y) ==
  /\ x.state \in Active \cup {"empty"}
  /\ y.wp \in x.wp .. CAPACITY
  /\ y.state = IF y.wp = CAPACITY THEN "full"
               ELSE IF x.state = "expl" THEN "expl" ELSE "impl"

Within ==
  /\ Cardinality({z \in Zones : zone[z].state \in Opened}) <= MAX_OPEN
  /\ Cardinality({z \in Zones : zone[z].state \in Active}) <= MAX_ACTIVE

Next ==
  /\ zone' # zone
  /\ \/ \E action \in {"close", "finish", "open", "reset", "flush"} :
          \A z \in Zones : zone'[z] = zone[z] \/ Managed(action, zone[z], zone'[z])
     \/ \E z \in Zones :
          /\ Written(zone[z], zone'[z])
          /\ \A o \in Zones \ {z} : zone'[o] = zone[o]
  /\ DOMAIN zone' = Zones
  /\ Within'

Spec == Init /\ [][Next]_zone
=============================================================================
