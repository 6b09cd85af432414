---------------------------- MODULE ChannelModel ----------------------------
(***************************************************************************)
(* The bandwidth model of a link (channel_model.c).  Time is divided into  *)
(* intervals of UNIT_TIME_INTERVAL; a ring holds the credits left in the   *)
(* interval of cur_time (at head) and in those after it, of which          *)
(* valid_len may be less than full.  A transfer takes one credit a unit,   *)
(* from the interval of its start on.  A link is a record of that state;   *)
(* the operators give the link after a call.                               *)
(***************************************************************************)
EXTENDS Integers

CONSTANTS NR_CREDIT_ENTRIES, UNIT_TIME_INTERVAL,
          MAX_CREDITS,   \* credits of an interval; credit_t holds it
          XFER_LAT       \* time to transfer a unit

Slots == 0 .. (NR_CREDIT_ENTRIES - 1)

Interval(t) == t \div UNIT_TIME_INTERVAL

chmodel_init ==
    [head |-> 0, valid_len |-> 0, cur_time |-> 0, avail |-> [i \in Slots |-> MAX_CREDITS]]

slot(ch, k) == (ch.head + k) % NR_CREDIT_ENTRIES

\* The intervals that have passed are filled up and leave at the head.
\* Mutant: they are not filled up.
move_head_only(ch, now) ==
    LET passed == Interval(now) - Interval(ch.cur_time)
        offs   == IF passed < ch.valid_len THEN passed ELSE ch.valid_len
    IN [head |-> slot(ch, offs), valid_len |-> ch.valid_len - offs, cur_time |-> now,
        avail |-> ch.avail]

move_head(ch, now) ==
    LET passed == Interval(now) - Interval(ch.cur_time)
        offs   == IF passed < ch.valid_len THEN passed ELSE ch.valid_len
    IN [head |-> slot(ch, offs), valid_len |-> ch.valid_len - offs, cur_time |-> now,
        avail |-> [i \in Slots |-> IF \E k \in 0 .. (offs - 1) : i = slot(ch, k)
                                   THEN MAX_CREDITS ELSE ch.avail[i]]]

\* Takes credits from slot pos on, until none are wanted or the ring is used
\* up; the last slot looked at and the number of those before it.
RECURSIVE consume(_, _, _, _)
consume(ch, pos, credits, delay) ==
    LET taken == IF credits <= ch.avail[pos] THEN credits ELSE ch.avail[pos]
        left  == [ch EXCEPT !.avail[pos] = @ - taken]
        next  == (pos + 1) % NR_CREDIT_ENTRIES
    IN IF credits > taken /\ next # ch.head THEN consume(left, next, credits - taken, delay + 1)
       ELSE [ch |-> left, pos |-> pos, delay |-> delay]

\* The link and the time at which the transfer ends.
chmodel_request(ch, now, request_time, units) ==
    LET c    == move_head(ch, now)
        offs == Interval(request_time) - Interval(now)
        used == consume(c, slot(c, offs), units, 0)
        len  == 1 + ((used.pos - c.head) % NR_CREDIT_ENTRIES)
        wait == used.delay - (units \div MAX_CREDITS)
    IN IF request_time < now \/ offs >= NR_CREDIT_ENTRIES
       THEN [ch |-> c, time |-> request_time]
       ELSE [ch   |-> [used.ch EXCEPT !.valid_len = IF len > @ THEN len ELSE @],
             time |-> request_time + XFER_LAT * units
                        + (IF wait > 0 THEN wait ELSE 0) * UNIT_TIME_INTERVAL]
=============================================================================
