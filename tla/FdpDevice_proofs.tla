-------------------------- MODULE FdpDevice_proofs --------------------------
(***************************************************************************)
(* Proofs about FdpDevice, for every size of the device.  A device drives  *)
(* the translation layer by steps of FdpFtl only, so what is proved of     *)
(* FdpFtl holds in a device (DeviceRunsFtl); the events log is explained   *)
(* by what the host did; and the statistics agree with the media.          *)
(***************************************************************************)
EXTENDS FdpDevice, FdpFtlReserve_proofs

\* The command and fdp_ctx have their types, and only the page loop has pages
\* left to write.
DeviceTypes ==
    /\ cmd \in [stage : {"poll", "loop", "enqueue"}, lpns : SUBSET LPNs,
                left : SUBSET LPNs, ruh : RUH]
    /\ cmd.stage # "loop" => cmd.left = {}
    /\ ruh_attr \in [RUH -> {"UNUSED", "HOST", "CTRL"}]
    /\ mbmw \in Nat /\ mbe \in Nat
    /\ Events!TypeOK

\* Data written through a handle, in the media or by the running command, has
\* left its mark on the handle's attribute.
UsedHandles ==
    /\ \A l \in Lines, k \in Offsets :
         pg[<<l, k>>] # "free" /\ ruh[l] >= 0 => ruh_attr[ruh[l]] # "UNUSED"
    /\ cmd.stage = "loop" => ruh_attr[cmd.ruh] # "UNUSED"

-----------------------------------------------------------------------------
(* The events ring of a device                                             *)

\* The types of the ring after each kind of step a device takes on it.
LEMMA EventsTypes ==
  ASSUME Events!TypeOK,
         \/ \E type \in {"INVALID_PID", "IMPLICIT_MODIFIED_RU"}, pid \in RUH \cup BadPids :
              Events!fdp_emit_event(type, pid)
         \/ \E descs \in Events!Descs : Events!fdp_set_feature_events(descs)
         \/ UNCHANGED evVars
  PROVE  Events!TypeOK'
<1> USE DeviceAssumption DEF Events!TypeOK
<1>1. ASSUME NEW type \in {"INVALID_PID", "IMPLICIT_MODIFIED_RU"}, NEW pid \in RUH \cup BadPids,
             Events!fdp_emit_event(type, pid)
      PROVE  Events!TypeOK'
  <2>1. CASE type \in enabled
    <3>1. [type |-> type, pid |-> pid] \in Events!Records
      BY DEF Events!Records, Events!Types
    <3>2. (ring_head + 1) % FDP_NR_EVENTS \in 0 .. (FDP_NR_EVENTS - 1)
      OBVIOUS
    <3>3. Events!count_events(nr_events) \in 0 .. FDP_NR_EVENTS
      BY DEF Events!count_events
    <3> QED BY <1>1, <2>1, <3>1, <3>2, <3>3, ZenonT(30) DEF Events!fdp_emit_event
  <2>2. CASE type \notin enabled
    BY <1>1, <2>2 DEF Events!fdp_emit_event, Events!vars
  <2> QED BY <2>1, <2>2
<1>2. ASSUME NEW descs \in Events!Descs, Events!fdp_set_feature_events(descs)
      PROVE  Events!TypeOK'
  BY <1>2 DEF Events!fdp_set_feature_events
<1>3. ASSUME UNCHANGED evVars PROVE Events!TypeOK'
  BY <1>3 DEF evVars
<1> QED BY <1>1, <1>2, <1>3

\* When the head of a ring of N records goes from h to g, the walk back from
\* the head finds the slot just written first and the others one place later.
LEMMA WalkMoves ==
  ASSUME NEW N \in Nat \ {0}, NEW h \in 0 .. N - 1, NEW g, g = (h + 1) % N
  PROVE  /\ (g + N - 1 - 0) % N = h
         /\ \A k \in 1 .. N - 1 : /\ (g + N - 1 - k) % N = (h + N - 1 - (k - 1)) % N
                                  /\ (g + N - 1 - k) % N \in (0 .. N - 1) \ {h}
<1>1. ASSUME NEW a \in 0 .. 2 * N - 1 PROVE a % N = IF a < N THEN a ELSE a - N
  OBVIOUS
<1>2. g = IF h + 1 < N THEN h + 1 ELSE 0
  BY <1>1
<1>3. (g + N - 1 - 0) % N = h
  <2> DEFINE a == g + N - 1 - 0
  <2>1. a \in 0 .. 2 * N - 1 /\ a = IF h + 1 < N THEN h + N ELSE N - 1
    BY <1>2
  <2> HIDE DEF a
  <2>2. a % N = IF a < N THEN a ELSE a - N
    BY <1>1, <2>1, ZenonT(30)
  <2>3. a % N = h
    BY <2>1, <2>2
  <2> QED BY <2>3 DEF a
<1>4. ASSUME NEW k \in 1 .. N - 1
      PROVE  /\ (g + N - 1 - k) % N = (h + N - 1 - (k - 1)) % N
             /\ (g + N - 1 - k) % N \in (0 .. N - 1) \ {h}
  <2>1. (h + N - 1 - (k - 1)) % N = IF k - 1 < h THEN h - k ELSE h + N - k
    BY <1>1
  <2>2. (g + N - 1 - k) % N = IF k < g THEN g - 1 - k ELSE g + N - 1 - k
    BY <1>1, <1>2
  <2> QED BY <1>2, <2>1, <2>2
<1> QED BY <1>3, <1>4

\* A record in the log is the one just emitted or was there before.
LEMMA EmitKeeps ==
  ASSUME Events!TypeOK, NEW type, NEW pid, Events!fdp_emit_event(type, pid),
         NEW i \in DOMAIN Events!fdp_get_log_page'
  PROVE  \/ Events!fdp_get_log_page'[i] = [type |-> type, pid |-> pid]
         \/ \E j \in DOMAIN Events!fdp_get_log_page :
              Events!fdp_get_log_page'[i] = Events!fdp_get_log_page[j]
<1> DEFINE N == FDP_NR_EVENTS
           log == Events!fdp_get_log_page
<1>1. /\ N \in Nat \ {0} /\ nr_events \in 0 .. N /\ ring_head \in 0 .. N - 1
      /\ ring = [k \in 0 .. N - 1 |-> ring[k]]
  BY DeviceAssumption DEF Events!TypeOK
<1>2. /\ log = [k \in 1 .. nr_events |-> ring[(ring_head + N - 1 - (k - 1)) % N]]
      /\ log' = [k \in 1 .. nr_events' |-> ring'[(ring_head' + N - 1 - (k - 1)) % N]]
  BY DEF Events!fdp_get_log_page, Events!slot
<1>3. CASE type \notin enabled
  <2>1. log' = log
    BY <1>3 DEF Events!fdp_emit_event, Events!vars, Events!fdp_get_log_page, Events!slot
  <2> QED BY <2>1
<1>4. CASE type \in enabled
  <2> DEFINE rec == [type |-> type, pid |-> pid]
  <2>1. /\ ring' = [ring EXCEPT ![ring_head] = rec] /\ ring_head' = (ring_head + 1) % N
        /\ nr_events' \in {nr_events, nr_events + 1} /\ nr_events' <= N
    BY <1>1, <1>4 DEF Events!fdp_emit_event, Events!count_events
  <2>2. i \in 1 .. nr_events' /\ log'[i] = ring'[(ring_head' + N - 1 - (i - 1)) % N]
    <3>1. i \in DOMAIN log'
      OBVIOUS
    <3> HIDE DEF log
    <3> QED BY <1>2, <3>1
  <2> HIDE DEF rec, log, N
  <2>3. /\ (ring_head' + N - 1 - 0) % N = ring_head
        /\ \A k \in 1 .. N - 1 :
             /\ (ring_head' + N - 1 - k) % N = (ring_head + N - 1 - (k - 1)) % N
             /\ (ring_head' + N - 1 - k) % N \in (0 .. N - 1) \ {ring_head}
    BY <1>1, <2>1, WalkMoves
  <2>4. CASE i = 1
    <3>1. log'[i] = ring'[(ring_head' + N - 1 - 0) % N]
      BY <2>2, <2>4
    <3>2. log'[i] = rec
      BY <1>1, <2>1, <2>3, <3>1
    <3> QED BY <3>2, ZenonT(30) DEF rec, log
  <2>5. CASE i # 1
    <3>1. i - 1 \in 1 .. N - 1 /\ i - 1 \in 1 .. nr_events
      <4>1. N \in Nat /\ nr_events \in Nat
        BY <1>1
      <4>2. nr_events' \in Nat /\ nr_events' <= N /\ nr_events' <= nr_events + 1
        BY <2>1, <4>1
      <4>3. i \in Nat /\ i >= 1 /\ i <= nr_events'
        BY <2>2, <4>2
      <4> QED BY <2>5, <4>1, <4>2, <4>3
    <3>2. /\ (ring_head' + N - 1 - (i - 1)) % N = (ring_head + N - 1 - ((i - 1) - 1)) % N
          /\ (ring_head' + N - 1 - (i - 1)) % N \in (0 .. N - 1) \ {ring_head}
      BY <2>3, <3>1, ZenonT(30)
    <3>3. ring'[(ring_head' + N - 1 - (i - 1)) % N] = ring[(ring_head' + N - 1 - (i - 1)) % N]
      BY <1>1, <2>1, <3>2
    <3>4. log'[i] = ring[(ring_head + N - 1 - ((i - 1) - 1)) % N]
      BY <2>2, <3>2, <3>3, ZenonT(30)
    <3>5. i - 1 \in DOMAIN log /\ log[i - 1] = ring[(ring_head + N - 1 - ((i - 1) - 1)) % N]
      BY <1>2, <3>1
    <3> QED BY <3>4, <3>5, ZenonT(30) DEF log
  <2> QED BY <2>4, <2>5
<1> QED BY <1>3, <1>4

-----------------------------------------------------------------------------
(* A device takes the steps of FdpFtl                                      *)

\* Each step of a device is a step of the translation layer or leaves it be:
\* fdp_write runs the page loop with a handle it has validated.
LEMMA FtlStep ==
  ASSUME DeviceTypes, [DeviceNext]_devVars
  PROVE  [Next]_vars
<1>1. CASE HostCommand
  BY <1>1 DEF HostCommand, WriteInvalidPid, WriteNoBuffer, WriteAccepted
<1>2. ASSUME NEW n \in LPNs, WritePage(n) PROVE Next
  <2>1. cmd.ruh \in RUH
    BY DEF DeviceTypes
  <2>2. WriteNew(n, cmd.ruh) \/ Overwrite(n, cmd.ruh)
    BY <1>2, ZenonT(30) DEF WritePage
  <2> QED BY <2>1, <2>2 DEF Next, HostWrite
<1>3. CASE PlainStep
  BY <1>3 DEF PlainStep, Next, Firmware
<1>4. CASE CollectVictim
  BY <1>4 DEF CollectVictim, Next, Firmware
<1>5. CASE RelocatePage
  BY <1>5 DEF RelocatePage, Next, Firmware
<1>6. CASE EraseVictim
  BY <1>6 DEF EraseVictim, Next, Firmware
<1>7. CASE LoopDone \/ EnqueueAndCopy
  BY <1>7 DEF LoopDone, EnqueueAndCopy
<1>8. ASSUME NEW descs \in Events!Descs, SetEvents(descs) PROVE UNCHANGED vars
  BY <1>8 DEF SetEvents
<1>9. CASE UNCHANGED devVars
  BY <1>9 DEF devVars
<1> QED BY <1>1, <1>2, <1>3, <1>4, <1>5, <1>6, <1>7, <1>8, <1>9 DEF DeviceNext

\* The types of the command and of fdp_ctx.
LEMMA DeviceTypesStep ==
  ASSUME DeviceTypes, TypeOK, [DeviceNext]_devVars
  PROVE  DeviceTypes'
<1> DEFINE Cmds == [stage : {"poll", "loop", "enqueue"}, lpns : SUBSET LPNs,
                    left : SUBSET LPNs, ruh : RUH]
           CmdOK == cmd \in Cmds /\ (cmd.stage # "loop" => cmd.left = {})
           AttrOK == ruh_attr \in [RUH -> {"UNUSED", "HOST", "CTRL"}]
           StatOK == mbmw \in Nat /\ mbe \in Nat
<1>t. CmdOK /\ AttrOK /\ StatOK /\ Events!TypeOK /\ 0 \in RUH
  BY SizesAssumption DEF DeviceTypes, RUH
<1>d. SECS_PER_PG \in Nat /\ STAT_MOD \in Nat \ {0} /\ Sectors \subseteq Nat /\ PGS_PER_LINE \in Nat
  BY DeviceAssumption, SizesAssumption
<1> SUFFICES CmdOK' /\ AttrOK' /\ StatOK' /\ Events!TypeOK'
  BY DEF DeviceTypes
<1>u. ASSUME UNCHANGED <<evVars, statVars, ruh_attr>>
      PROVE  AttrOK' /\ StatOK' /\ Events!TypeOK'
  BY <1>u, <1>t, EventsTypes DEF statVars
<1>a. ASSUME NEW dir \in Directives PROVE ruh_attr_after(dir) \in [RUH -> {"UNUSED", "HOST", "CTRL"}]
  BY <1>t DEF Directives, ruh_attr_after
<1>m. ASSUME NEW a \in Nat PROVE a % STAT_MOD \in Nat
  BY <1>d
<1>1. ASSUME NEW lpns \in SUBSET LPNs, NEW pid \in BadPids, WriteInvalidPid(lpns, pid)
      PROVE  CmdOK' /\ AttrOK' /\ StatOK' /\ Events!TypeOK'
  <2>1. Events!TypeOK'
    BY <1>1, <1>t, EventsTypes DEF WriteInvalidPid
  <2>2. CmdOK'
    BY <1>1, <1>t, ZenonT(30) DEF WriteInvalidPid, NoCmd
  <2> QED BY <1>1, <1>t, <2>1, <2>2 DEF WriteInvalidPid, statVars
<1>2. ASSUME NEW lpns \in SUBSET LPNs, NEW dir \in Directives, WriteNoBuffer(lpns, dir)
      PROVE  CmdOK' /\ AttrOK' /\ StatOK' /\ Events!TypeOK'
  <2>1. Events!TypeOK'
    BY <1>2, <1>t, EventsTypes DEF WriteNoBuffer
  <2> QED BY <1>2, <1>t, <1>a, <2>1 DEF WriteNoBuffer, statVars
<1>3. ASSUME NEW lpns \in SUBSET LPNs, NEW dir \in Directives, NEW secs \in Sectors,
             WriteAccepted(lpns, dir, secs)
      PROVE  CmdOK' /\ AttrOK' /\ StatOK' /\ Events!TypeOK'
  <2>1. Events!TypeOK'
    BY <1>3, <1>t, EventsTypes DEF WriteAccepted
  <2>2. AttrOK'
    BY <1>3, <1>a DEF WriteAccepted
  <2>3. CmdOK'
    BY <1>3, <1>t DEF WriteAccepted, Directives
  <2>4. mbmw' \in Nat
    <3>1. IsFiniteSet(lpns)
      BY SizesAssumption, FS_Subset
    <3>2. Cardinality(lpns) \in Nat
      BY <3>1, FS_CardinalityType
    <3>3. mbmw + secs * Cardinality(lpns) \in Nat
      BY <1>t, <1>d, <3>2
    <3> QED BY <1>3, <1>m, <3>3 DEF WriteAccepted
  <2> QED BY <1>3, <1>t, <2>1, <2>2, <2>3, <2>4 DEF WriteAccepted
<1>4. ASSUME NEW n \in LPNs, WritePage(n)
      PROVE  CmdOK' /\ AttrOK' /\ StatOK' /\ Events!TypeOK'
  <2>1. UNCHANGED <<evVars, statVars, ruh_attr>>
    BY <1>4 DEF WritePage
  <2>2. CmdOK'
    BY <1>4, <1>t DEF WritePage
  <2> QED BY <1>u, <2>1, <2>2
<1>5. CASE PlainStep
  <2>1. UNCHANGED <<evVars, statVars, ruh_attr>> /\ cmd' = cmd
    BY <1>5 DEF PlainStep
  <2> QED BY <1>t, <1>u, <2>1
<1>6. CASE CollectVictim
  <2>1. gc_line' \in Lines /\ ReportVictim(gc_line') /\ UNCHANGED <<statVars, ruh_attr, cmd>>
    BY <1>6 DEF CollectVictim, StartGc, select_victim_line, TypeOK
  <2>2. ruh[gc_line'] >= 0 => ruh[gc_line'] \in RUH
    BY <2>1, SizesAssumption DEF TypeOK, WPs, RUH
  <2>3. Events!TypeOK'
    BY <1>t, <2>1, <2>2, EventsTypes DEF ReportVictim
  <2> QED BY <1>t, <2>1, <2>3 DEF statVars
<1>7. CASE RelocatePage
  <2>1. UNCHANGED <<evVars, mbe, ruh_attr, cmd>> /\ mbmw' = (mbmw + SECS_PER_PG) % STAT_MOD
    BY <1>7 DEF RelocatePage, CountRelocation
  <2> QED BY <1>t, <1>d, <1>m, <2>1, EventsTypes
<1>8. CASE EraseVictim
  <2>1. UNCHANGED <<evVars, mbmw, ruh_attr, cmd>>
    BY <1>8 DEF EraseVictim
  <2>2. mbe + PGS_PER_LINE * SECS_PER_PG \in Nat
    BY <1>t, <1>d
  <2>3. mbe' \in Nat
    BY <1>8, <1>m, <2>2 DEF EraseVictim
  <2> QED BY <1>t, <2>1, <2>3, EventsTypes
<1>9. CASE LoopDone \/ EnqueueAndCopy
  <2>1. UNCHANGED <<evVars, statVars, ruh_attr>>
    BY <1>9 DEF LoopDone, EnqueueAndCopy
  <2>2. CmdOK'
    BY <1>9, <1>t DEF LoopDone, EnqueueAndCopy, NoCmd
  <2> QED BY <1>u, <2>1, <2>2
<1>10. ASSUME NEW descs \in Events!Descs, SetEvents(descs)
       PROVE  CmdOK' /\ AttrOK' /\ StatOK' /\ Events!TypeOK'
  <2>1. Events!TypeOK'
    BY <1>10, <1>t, EventsTypes DEF SetEvents
  <2> QED BY <1>10, <1>t, <2>1 DEF SetEvents, statVars
<1>11. CASE UNCHANGED devVars
  <2>1. UNCHANGED <<evVars, statVars, ruh_attr>> /\ cmd' = cmd
    BY <1>11 DEF devVars
  <2> QED BY <1>t, <1>u, <2>1
<1> HIDE DEF CmdOK, AttrOK, StatOK
<1> QED BY <1>1, <1>2, <1>3, <1>4, <1>5, <1>6, <1>7, <1>8, <1>9, <1>10, <1>11
        DEF DeviceNext, HostCommand

\* The invariants of FdpFtl and the types of the device.
DeviceInv == IndInv /\ DeviceTypes

\* Initially all types are right.
LEMMA DeviceInit1 == DeviceInit => DeviceInv
<1> SUFFICES ASSUME DeviceInit PROVE DeviceInv
  OBVIOUS
<1>1. IndInv
  BY InitInv DEF DeviceInit
<1>2. Events!TypeOK
  BY DeviceAssumption DEF DeviceInit, Events!Init, Events!TypeOK
<1>3. 0 \in RUH
  BY SizesAssumption DEF RUH
<1> QED BY <1>1, <1>2, <1>3 DEF DeviceInit, DeviceInv, DeviceTypes, NoCmd

\* The translation layer inside a device keeps its invariant, for the handle
\* of every page write is one that fdp_write has validated.
THEOREM DeviceTyped == DeviceSpec => []DeviceInv
<1>1. DeviceInv /\ [DeviceNext]_devVars => DeviceInv'
  <2> SUFFICES ASSUME DeviceInv, [DeviceNext]_devVars PROVE DeviceInv'
    OBVIOUS
  <2>1. IndInv /\ DeviceTypes /\ TypeOK
    BY DEF DeviceInv, IndInv
  <2>2. [Next]_vars
    BY <2>1, FtlStep
  <2>3. IndInv'
    BY <2>1, <2>2, NextInv
  <2>4. DeviceTypes'
    BY <2>1, DeviceTypesStep
  <2> QED BY <2>3, <2>4 DEF DeviceInv
<1> QED BY <1>1, DeviceInit1, PTL DEF DeviceSpec

\* A device is an instance of the translation layer driven by fdp_write: its
\* behaviours are behaviours of FdpFtl, so everything proved of FdpFtl holds
\* while commands, events and statistics run around it.
THEOREM DeviceRunsFtl == DeviceSpec => Spec
<1>1. DeviceInit => Init
  BY DEF DeviceInit
<1>2. DeviceInv /\ [DeviceNext]_devVars => [Next]_vars
  BY FtlStep DEF DeviceInv
<1> QED BY <1>1, <1>2, DeviceTyped, PTL DEF DeviceSpec, Spec

-----------------------------------------------------------------------------
(* Events                                                                  *)

\* Handles are never marked unused again.
LEMMA AttrKept ==
  ASSUME DeviceTypes, [DeviceNext]_devVars
  PROVE  \A r \in RUH : ruh_attr[r] # "UNUSED" => ruh_attr'[r] # "UNUSED"
<1>1. ASSUME NEW dir \in Directives, ruh_attr' = ruh_attr_after(dir), NEW r \in RUH,
             ruh_attr[r] # "UNUSED"
      PROVE  ruh_attr'[r] # "UNUSED"
  BY <1>1 DEF ruh_attr_after, Directives, DeviceTypes
<1>2. CASE ruh_attr' = ruh_attr
  BY <1>2
<1>3. (\E dir \in Directives : ruh_attr' = ruh_attr_after(dir)) \/ ruh_attr' = ruh_attr
  BY ZenonT(30) DEF DeviceNext, HostCommand, WriteInvalidPid, WriteNoBuffer, WriteAccepted, WritePage,
         PlainStep, CollectVictim, RelocatePage, EraseVictim, LoopDone, EnqueueAndCopy,
         SetEvents, devVars
<1> QED BY <1>1, <1>2, <1>3

\* What a step does to the pages and tags of the lines, with the handle it is
\* done for: a page is programmed on the line of the running command's handle
\* or of the collector, an empty line gets a tag, or a line is erased.
LEMMA PagesStep ==
  ASSUME IndInv, DeviceTypes, [DeviceNext]_devVars, NEW l \in Lines, NEW k \in Offsets,
         pg'[<<l, k>>] # "free", ruh'[l] >= 0
  PROVE  /\ ruh'[l] = ruh[l]
         /\ pg[<<l, k>>] # "free" \/ (cmd.stage = "loop" /\ ruh[l] = cmd.ruh)
<1>t. TypeOK /\ PageStates /\ WpStates /\ <<l, k>> \in Pages
  BY DEF IndInv, Pages
<1>1. ASSUME pg' = pg, ruh' = ruh
      PROVE  ruh'[l] = ruh[l] /\ pg[<<l, k>>] # "free"
  BY <1>1
<1>2. CASE HostCommand \/ LoopDone \/ EnqueueAndCopy \/ UNCHANGED devVars
            \/ \E descs \in Events!Descs : SetEvents(descs)
  BY <1>1, <1>2, ZenonT(30) DEF HostCommand, WriteInvalidPid, WriteNoBuffer, WriteAccepted, LoopDone,
                    EnqueueAndCopy, SetEvents, devVars, vars
<1>3. ASSUME NEW n \in LPNs, WritePage(n)
      PROVE  /\ ruh'[l] = ruh[l]
             /\ pg[<<l, k>>] # "free" \/ (cmd.stage = "loop" /\ ruh[l] = cmd.ruh)
  <2> DEFINE r == cmd.ruh
             new == get_new_page(r)
  <2>1. r \in WPs /\ cmd.stage = "loop"
    BY <1>3, SizesAssumption DEF WritePage, DeviceTypes, RUH, WPs
  <2>2. WriteNew(n, r) \/ Overwrite(n, r)
    BY <1>3, ZenonT(30) DEF WritePage
  <2>3. pc = "idle" /\ ruh' = ruh
    BY <2>2, ZenonT(30) DEF WriteNew, Overwrite
  <2>4. ruh[wp[r].line] = r
    BY <1>t, <2>1, <2>3 DEF WpStates
  <2>5. CASE <<l, k>> = new
    BY <2>1, <2>3, <2>4, <2>5, ZenonT(30) DEF get_new_page
  <2>6. CASE <<l, k>> # new
    <3>1. CASE WriteNew(n, r)
      <4>1. pg' = [pg EXCEPT ![new] = "valid"]
        BY <3>1 DEF WriteNew
      <4> QED BY <1>t, <2>3, <2>6, <4>1, ZenonT(30) DEF TypeOK
    <3>2. CASE Overwrite(n, r)
      <4>1. pg' = [pg EXCEPT ![maptbl[n]] = "invalid", ![new] = "valid"] /\ mapped_ppa(maptbl[n])
        BY <3>2, ZenonT(30) DEF Overwrite
      <4>2. pg[maptbl[n]] = "valid"
        BY <4>1, ZenonT(30) DEF IndInv, MapConsistent
      <4> QED BY <1>t, <2>3, <2>6, <4>1, <4>2 DEF TypeOK
    <3> QED BY <2>2, <3>1, <3>2
  <2> QED BY <2>5, <2>6
<1>4. CASE PlainStep
  <2>1. CASE Rotate
    <3>1. pg' = pg
      BY <2>1 DEF Rotate
    <3>2. PICK f \in free_lines : ruh' = [ruh EXCEPT ![f] = line_tag(io)]
      BY <2>1, ZenonT(30) DEF Rotate
    <3>3. l # f
      BY <1>t, <3>1, ZenonT(30) DEF PageStates
    <3> QED BY <1>t, <3>1, <3>2, <3>3 DEF TypeOK
  <2>2. CASE RotateNull \/ consume_write_credit \/ RefillWithoutGc
    BY <1>1, <2>2 DEF RotateNull, consume_write_credit, RefillWithoutGc
  <2> QED BY <1>4, <2>1, <2>2 DEF PlainStep
<1>5. CASE CollectVictim
  BY <1>1, <1>5, ZenonT(30) DEF CollectVictim, StartGc
<1>6. CASE RelocatePage
  <2> DEFINE new == get_new_page(GC_IO)
  <2>1. pc = "gc" /\ pg' = [pg EXCEPT ![new] = "valid"] /\ ruh' = ruh
    BY <1>6 DEF RelocatePage, GcWritePage
  <2>2. ruh[wp[GC_IO].line] = GC_IO
    BY <1>t, <2>1, SizesAssumption DEF WpStates, GC_IO, WPs
  <2>3. <<l, k>> # new
    BY <2>1, <2>2 DEF get_new_page, GC_IO
  <2> QED BY <1>t, <2>1, <2>3 DEF TypeOK
<1>7. CASE EraseVictim
  <2>1. /\ pg' = [p \in Pages |-> IF p[1] = gc_line THEN "free" ELSE pg[p]]
        /\ ruh' = [ruh EXCEPT ![gc_line] = GC_IO]
    BY <1>7 DEF EraseVictim, EndGc
  <2>2. l # gc_line
    BY <1>t, <2>1, ZenonT(30)
  <2> QED BY <1>t, <2>1, <2>2 DEF TypeOK
<1> QED BY <1>2, <1>3, <1>4, <1>5, <1>6, <1>7 DEF DeviceNext

\* The running command's handle is marked, and so is every handle with data.
LEMMA UsedStep ==
  ASSUME IndInv, DeviceTypes, UsedHandles, [DeviceNext]_devVars
  PROVE  UsedHandles'
<1>1. ASSUME NEW l \in Lines, NEW k \in Offsets, pg'[<<l, k>>] # "free", ruh'[l] >= 0
      PROVE  ruh_attr'[ruh'[l]] # "UNUSED"
  <2>1. /\ ruh'[l] = ruh[l]
        /\ pg[<<l, k>>] # "free" \/ (cmd.stage = "loop" /\ ruh[l] = cmd.ruh)
    BY <1>1, PagesStep, ZenonT(30)
  <2>2. ruh[l] \in RUH
    BY <1>1, <2>1, SizesAssumption DEF IndInv, TypeOK, WPs, RUH
  <2>3. ruh_attr[ruh[l]] # "UNUSED"
    BY <1>1, <2>1 DEF UsedHandles
  <2> QED BY <2>1, <2>2, <2>3, AttrKept
<1>2. ASSUME cmd'.stage = "loop" PROVE ruh_attr'[cmd'.ruh] # "UNUSED"
  <2>1. CASE cmd.stage = "loop" /\ cmd'.ruh = cmd.ruh
    BY <2>1, AttrKept DEF UsedHandles, DeviceTypes
  <2>2. ASSUME NEW lpns \in SUBSET LPNs, NEW dir \in Directives, NEW secs \in Sectors,
               WriteAccepted(lpns, dir, secs)
        PROVE  ruh_attr'[cmd'.ruh] # "UNUSED"
    <3>1. /\ cmd'.ruh = IF dir = NoDirective THEN 0 ELSE dir
          /\ ruh_attr' = ruh_attr_after(dir)
      BY <2>2 DEF WriteAccepted
    <3>2. 0 \in RUH /\ ruh_attr \in [RUH -> {"UNUSED", "HOST", "CTRL"}]
      BY SizesAssumption DEF RUH, DeviceTypes
    <3> QED BY <3>1, <3>2 DEF ruh_attr_after, Directives
  <2>3. \/ cmd.stage = "loop" /\ cmd'.ruh = cmd.ruh
        \/ \E lpns \in SUBSET LPNs, dir \in Directives, secs \in Sectors :
             WriteAccepted(lpns, dir, secs)
    <3>1. cmd' = cmd \/ ~HostCommand => cmd.stage = "loop" /\ cmd'.ruh = cmd.ruh
      BY <1>2 DEF DeviceNext, WritePage, PlainStep, CollectVictim, RelocatePage, EraseVictim,
                  LoopDone, EnqueueAndCopy, SetEvents, devVars, NoCmd, DeviceTypes
    <3>2. CASE HostCommand
      BY <1>2, <3>1, <3>2, ZenonT(30) DEF HostCommand, WriteInvalidPid, WriteNoBuffer, NoCmd
    <3> QED BY <3>1, <3>2
  <2> QED BY <2>1, <2>2, <2>3
<1> QED BY <1>1, <1>2 DEF UsedHandles

\* A record that is explained stays explained.
LEMMA LogStaysExplained ==
  ASSUME DeviceTypes, EventsExplained, [DeviceNext]_devVars, UNCHANGED evVars
  PROVE  EventsExplained'
<1>1. Events!fdp_get_log_page' = Events!fdp_get_log_page
  BY DEF evVars, Events!fdp_get_log_page, Events!slot
<1>2. \A r \in RUH : ruh_attr[r] # "UNUSED" => ruh_attr'[r] # "UNUSED"
  BY AttrKept
<1> QED BY <1>1, <1>2 DEF EventsExplained

\* A record emitted with its cause in the state keeps the whole log explained.
LEMMA EmitExplained ==
  ASSUME DeviceTypes, EventsExplained, [DeviceNext]_devVars,
         NEW type \in {"INVALID_PID", "IMPLICIT_MODIFIED_RU"}, NEW pid \in RUH \cup BadPids,
         Events!fdp_emit_event(type, pid),
         type = "IMPLICIT_MODIFIED_RU" => pid \in RUH /\ ruh_attr[pid] # "UNUSED",
         type = "INVALID_PID" => pid \notin RUH
  PROVE  EventsExplained'
<1> DEFINE log == Events!fdp_get_log_page
           rec == [type |-> type, pid |-> pid]
<1>1. \A r \in RUH : ruh_attr[r] # "UNUSED" => ruh_attr'[r] # "UNUSED"
  BY AttrKept
<1>2. ASSUME NEW i \in DOMAIN log'
      PROVE  log'[i] = rec \/ \E j \in DOMAIN log : log'[i] = log[j]
  BY EmitKeeps DEF DeviceTypes
<1>3. ASSUME NEW i \in DOMAIN log'
      PROVE  LET e == log'[i] IN
             /\ e.type = "IMPLICIT_MODIFIED_RU" => e.pid \in RUH /\ ruh_attr'[e.pid] # "UNUSED"
             /\ e.type = "INVALID_PID" => e.pid \notin RUH
             /\ e.type # "RU_NOT_FULLY_WRITTEN"
  <2>1. CASE log'[i] = rec
    <3>1. log'[i].type = type /\ log'[i].pid = pid
      BY <2>1
    <3> QED BY <1>1, <3>1
  <2>2. ASSUME NEW j \in DOMAIN log, log'[i] = log[j]
        PROVE  LET e == log'[i] IN
               /\ e.type = "IMPLICIT_MODIFIED_RU" => e.pid \in RUH /\ ruh_attr'[e.pid] # "UNUSED"
               /\ e.type = "INVALID_PID" => e.pid \notin RUH
               /\ e.type # "RU_NOT_FULLY_WRITTEN"
    <3>1. LET e == log[j] IN
          /\ e.type = "IMPLICIT_MODIFIED_RU" => e.pid \in RUH /\ ruh_attr[e.pid] # "UNUSED"
          /\ e.type = "INVALID_PID" => e.pid \notin RUH
          /\ e.type # "RU_NOT_FULLY_WRITTEN"
      BY DEF EventsExplained
    <3> QED BY <1>1, <2>2, <3>1
  <2> QED BY <1>2, <2>1, <2>2, ZenonT(30)
<1> QED BY <1>3 DEF EventsExplained

\* Each step keeps the log explained.
LEMMA ExplainedStep ==
  ASSUME IndInv, DeviceTypes, UsedHandles, EventsExplained, [DeviceNext]_devVars
  PROVE  EventsExplained'
<1>1. ASSUME NEW lpns \in SUBSET LPNs, NEW pid \in BadPids, WriteInvalidPid(lpns, pid)
      PROVE  EventsExplained'
  <2>1. Events!fdp_emit_event("INVALID_PID", pid) /\ pid \notin RUH
    BY <1>1, DeviceAssumption DEF WriteInvalidPid
  <2> QED BY <2>1, EmitExplained
<1>2. CASE CollectVictim
  <2> DEFINE v == gc_line'
  <2>1. v \in victim_lines /\ ReportVictim(v)
    BY <1>2 DEF CollectVictim, StartGc, select_victim_line
  <2>2. CASE ruh[v] >= 0
    <3>1. v \in Lines /\ ruh[v] \in RUH
      BY <2>1, <2>2, SizesAssumption DEF IndInv, TypeOK, WPs, RUH
    <3>2. 0 \in Offsets
      BY SizesAssumption DEF Offsets
    <3>3. pg[<<v, 0>>] # "free"
      BY <2>1, <3>2 DEF IndInv, PageStates
    <3>4. ruh_attr[ruh[v]] # "UNUSED"
      BY <2>2, <3>1, <3>2, <3>3 DEF UsedHandles
    <3>5. Events!fdp_emit_event("IMPLICIT_MODIFIED_RU", ruh[v])
      BY <2>1, <2>2 DEF ReportVictim
    <3> HIDE DEF v
    <3> QED BY <3>1, <3>4, <3>5, EmitExplained
  <2>3. CASE ~(ruh[v] >= 0)
    BY <2>1, <2>3, LogStaysExplained DEF ReportVictim
  <2> QED BY <2>2, <2>3
<1>3. ASSUME NEW descs \in Events!Descs, SetEvents(descs) PROVE EventsExplained'
  <2>1. Events!fdp_get_log_page' = Events!fdp_get_log_page /\ ruh_attr' = ruh_attr
    BY <1>3 DEF SetEvents, Events!fdp_set_feature_events, Events!fdp_get_log_page, Events!slot
  <2> QED BY <2>1 DEF EventsExplained
<1>4. CASE UNCHANGED evVars
  BY <1>4, LogStaysExplained
<1>5. \/ \E lpns \in SUBSET LPNs, pid \in BadPids : WriteInvalidPid(lpns, pid)
      \/ CollectVictim \/ UNCHANGED evVars
      \/ \E descs \in Events!Descs : SetEvents(descs)
  BY DEF DeviceNext, HostCommand, WriteNoBuffer, WriteAccepted, WritePage, PlainStep,
         RelocatePage, EraseVictim, LoopDone, EnqueueAndCopy, devVars
<1> QED BY <1>1, <1>2, <1>3, <1>4, <1>5

\* Every event in the log has its cause in what the host did, whatever its
\* writes, the collections they set off and the types it enables: an
\* implicitly modified reclaim unit belongs to a handle that has been written
\* through, and an invalid identifier is none of the handles.
THEOREM EventsAreExplained == DeviceSpec => []EventsExplained
<1> DEFINE Inv == UsedHandles /\ EventsExplained
<1>1. DeviceInit => Inv
  <2> SUFFICES ASSUME DeviceInit PROVE Inv
    OBVIOUS
  <2>1. \A l \in Lines, k \in Offsets : pg[<<l, k>>] = "free"
    BY DEF DeviceInit, Init, Pages
  <2>2. DOMAIN Events!fdp_get_log_page = {} /\ cmd.stage = "poll"
    BY DEF DeviceInit, Events!Init, Events!fdp_get_log_page, NoCmd
  <2> QED BY <2>1, <2>2 DEF UsedHandles, EventsExplained
<1>2. DeviceInv /\ Inv /\ [DeviceNext]_devVars => Inv'
  BY UsedStep, ExplainedStep DEF DeviceInv
<1> QED BY <1>1, <1>2, DeviceTyped, PTL DEF DeviceSpec

-----------------------------------------------------------------------------
(* Statistics                                                              *)

\* Equality of the counters, which wrap round at STAT_MOD.
Congruent(a, b) == \E k \in Int : a - b = k * STAT_MOD

\* A counter that is advanced by d moves its difference to another one by d,
\* up to wrapping round.
LEMMA CounterStep ==
  ASSUME NEW a \in Int, NEW b \in Int, NEW x \in Int, NEW d \in Int, Congruent(a - b, x)
  PROVE  /\ Congruent(((a + d) % STAT_MOD) - b, x + d)
         /\ Congruent(a - ((b + d) % STAT_MOD), x - d)
<1>m. STAT_MOD \in Nat \ {0}
  BY DeviceAssumption
<1>1. PICK k \in Int : a - b - x = k * STAT_MOD
  BY DEF Congruent
<1>2. ASSUME NEW c \in Int
      PROVE  \E q \in Int : c % STAT_MOD \in Int /\ c % STAT_MOD = c - q * STAT_MOD
  <2>1. c \div STAT_MOD \in Int /\ c % STAT_MOD \in Int
    BY <1>m
  <2>2. c = STAT_MOD * (c \div STAT_MOD) + (c % STAT_MOD)
    BY <1>m
  <2> DEFINE q == c \div STAT_MOD
             r == c % STAT_MOD
  <2> HIDE DEF q, r
  <2>3. r = c - q * STAT_MOD /\ q \in Int /\ r \in Int
    BY <1>m, <2>1, <2>2 DEF q, r
  <2> QED BY <2>3 DEF r
<1>3. Congruent(((a + d) % STAT_MOD) - b, x + d)
  <2> DEFINE c == (a + d) % STAT_MOD
  <2>1. PICK q \in Int : c \in Int /\ c = (a + d) - q * STAT_MOD
    <3>1. a + d \in Int
      OBVIOUS
    <3> QED BY <1>2, <3>1, ZenonT(30)
  <2> HIDE DEF c
  <2>2. c - b - (x + d) = (k - q) * STAT_MOD
    BY <1>m, <1>1, <2>1
  <2>3. k - q \in Int
    OBVIOUS
  <2> QED BY <2>2, <2>3 DEF Congruent, c
<1>4. Congruent(a - ((b + d) % STAT_MOD), x - d)
  <2> DEFINE c == (b + d) % STAT_MOD
  <2>1. PICK q \in Int : c \in Int /\ c = (b + d) - q * STAT_MOD
    <3>1. b + d \in Int
      OBVIOUS
    <3> QED BY <1>2, <3>1, ZenonT(30)
  <2> HIDE DEF c
  <2>2. a - c - (x - d) = (k + q) * STAT_MOD
    BY <1>m, <1>1, <2>1
  <2>3. k + q \in Int
    OBVIOUS
  <2> QED BY <2>2, <2>3 DEF Congruent, c
<1> QED BY <1>3, <1>4

\* Congruent numbers have the same remainder.
LEMMA SameRemainder ==
  ASSUME NEW a \in Int, NEW b \in Int, Congruent(a, b)
  PROVE  a % STAT_MOD = b % STAT_MOD
<1> DEFINE M == STAT_MOD
           p == a \div M
           q == b \div M
           r == a % M
           s == b % M
<1>m. M \in Nat \ {0}
  BY DeviceAssumption
<1>1. PICK k \in Int : a - b = k * M
  BY DEF Congruent
<1>2. p \in Int /\ q \in Int /\ r \in 0 .. M - 1 /\ s \in 0 .. M - 1
  BY <1>m
<1>3. a = M * p + r /\ b = M * q + s
  BY <1>m
<1> HIDE DEF M, p, q, r, s
<1>4. (p - q - k) * M = s - r
  BY <1>m, <1>1, <1>2, <1>3
<1> DEFINE t == p - q - k
<1>5. t \in Int /\ t * M = s - r
  BY <1>2, <1>4
<1> HIDE DEF t
<1>6. CASE t >= 1
  <2>1. 1 * M <= t * M
    BY <1>m, <1>5, <1>6, TimesMonotone
  <2> QED BY <1>m, <1>2, <1>5, <2>1
<1>7. CASE t <= -1
  <2>1. t * M <= (-1) * M
    BY <1>m, <1>5, <1>7, TimesMonotone
  <2> QED BY <1>m, <1>2, <1>5, <2>1
<1>8. CASE t = 0
  BY <1>m, <1>2, <1>5, <1>8 DEF r, s, M
<1> QED BY <1>5, <1>6, <1>7, <1>8

\* The pages that hold data, valid or not, and those still to be written.
Programmed == Cardinality(Pages \ FreePages)
Due        == Programmed + Cardinality(cmd.left)
Balanced   == Congruent(mbmw - mbe, SECS_PER_PG * Due)

\* A page is free or holds data.
LEMMA ProgrammedIs ==
  /\ Programmed = Cardinality(Pages) - Left /\ Programmed \in Nat
  /\ Cardinality(Pages) \in Nat
<1>1. IsFiniteSet(Pages)
  BY PagesOfLines DEF Pages
<1>2. FreePages \subseteq Pages
  BY DEF FreePages
<1> DEFINE S == FreePages
<1>3. IsFiniteSet(S) /\ S \subseteq Pages /\ Pages \cap S = S
  BY <1>2, FreeFinite
<1> HIDE DEF S
<1>4. /\ IsFiniteSet(Pages \ S)
      /\ Cardinality(Pages \ S) = Cardinality(Pages) - Cardinality(Pages \cap S)
  BY <1>1, <1>3, FS_Difference, ZenonT(30)
<1>5. Cardinality(Pages \ S) \in Nat /\ Cardinality(Pages) \in Nat
  BY <1>1, <1>4, FS_CardinalityType
<1> QED BY <1>3, <1>4, <1>5 DEF Programmed, Left, S

\* A command is a finite set of pages.
LEMMA LeftFinite ==
  ASSUME DeviceTypes
  PROVE  IsFiniteSet(cmd.left) /\ Cardinality(cmd.left) \in Nat
<1>1. cmd.left \in SUBSET LPNs
  BY DEF DeviceTypes
<1>2. IsFiniteSet(cmd.left)
  BY <1>1, SizesAssumption, FS_Subset
<1> QED BY <1>2, FS_CardinalityType

\* The pages due are unchanged by a step on neither side.
LEMMA DueKept ==
  ASSUME pg' = pg, cmd'.left = cmd.left
  PROVE  Due' = Due
BY DEF Due, Programmed, FreePages

\* A page written leaves the command and holds data.
LEMMA WriteDue ==
  ASSUME IndInv, DeviceTypes, NEW n \in LPNs, WritePage(n)
  PROVE  Due' = Due
<1> DEFINE r == cmd.ruh
           new == get_new_page(r)
<1>1. r \in WPs /\ n \in cmd.left /\ cmd'.left = cmd.left \ {n}
  BY SizesAssumption DEF WritePage, DeviceTypes, RUH, WPs
<1>2. WriteNew(n, r) \/ Overwrite(n, r)
  BY ZenonT(30) DEF WritePage
<1>3. pc = "idle"
  BY <1>2 DEF WriteNew, Overwrite
<1>4. new \in Pages /\ pg[new] = "free"
  <2>1. pc \in {"idle", "gc"}
    BY <1>3
  <2> QED BY <1>1, <2>1, NewPage, ZenonT(30)
<1>5. \A p \in Pages : pg'[p] = "free" <=> pg[p] = "free" /\ p # new
  <2>1. pg \in [Pages -> {"free", "valid", "invalid"}]
    BY DEF IndInv, TypeOK
  <2>2. CASE WriteNew(n, r)
    <3>1. pg' = [pg EXCEPT ![new] = "valid"]
      BY <2>2 DEF WriteNew
    <3> QED BY <1>4, <2>1, <3>1
  <2>3. CASE Overwrite(n, r)
    <3>1. pg' = [pg EXCEPT ![maptbl[n]] = "invalid", ![new] = "valid"] /\ mapped_ppa(maptbl[n])
      BY <2>3 DEF Overwrite
    <3>2. maptbl[n] \in Pages /\ pg[maptbl[n]] = "valid"
      BY <3>1 DEF IndInv, TypeOK, MapConsistent, mapped_ppa
    <3> QED BY <1>4, <2>1, <3>1, <3>2
  <2> QED BY <1>2, <2>2, <2>3, ZenonT(30)
<1>6. Left' = Left - 1
  BY <1>4, <1>5, FreeProgrammed, ZenonT(30)
<1>7. Programmed' = Programmed + 1
  <2>1. Programmed' = Cardinality(Pages) - Left'
    <3>1. (Programmed = Cardinality(Pages) - Left)'
      BY ProgrammedIs, PTL
    <3> QED BY <3>1
  <2> QED BY <1>6, <2>1, ProgrammedIs, FreeFinite
<1>8. Cardinality(cmd'.left) = Cardinality(cmd.left) - 1
  BY <1>1, LeftFinite, FS_RemoveElement, ZenonT(30)
<1> QED BY <1>7, <1>8, ProgrammedIs, LeftFinite DEF Due

\* Commands of whole pages keep the balance.
LEMMA BalancedStep ==
  ASSUME IndInv, DeviceTypes, Balanced, [DeviceNext]_devVars, Sectors \subseteq {SECS_PER_PG}
  PROVE  Balanced'
<1> DEFINE S == SECS_PER_PG
<1>t. /\ S \in Nat /\ PGS_PER_LINE \in Nat /\ mbmw \in Int /\ mbe \in Int
      /\ Due \in Nat /\ S * Due \in Int /\ Programmed \in Nat /\ Left \in Nat
  BY DeviceAssumption, SizesAssumption, ProgrammedIs, LeftFinite, FreeFinite DEF DeviceTypes, Due
<1>p. Programmed' = Cardinality(Pages) - Left' /\ Cardinality(Pages) \in Nat
  <2>1. (Programmed = Cardinality(Pages) - Left)'
    BY ProgrammedIs, PTL
  <2> QED BY <2>1, ProgrammedIs
<1>u. ASSUME UNCHANGED statVars, Due' = Due PROVE Balanced'
  BY <1>u DEF statVars, Balanced, Congruent
<1>1. ASSUME NEW lpns \in SUBSET LPNs, NEW dir \in Directives, NEW secs \in Sectors,
             WriteAccepted(lpns, dir, secs)
      PROVE  Balanced'
  <2> DEFINE c == Cardinality(lpns)
  <2>1. IsFiniteSet(lpns)
    BY SizesAssumption, FS_Subset
  <2>2. c \in Nat
    BY <2>1, FS_CardinalityType, ZenonT(30)
  <2>3. cmd.left = {} /\ cmd'.left = lpns /\ pg' = pg
    BY <1>1 DEF WriteAccepted, Submit, DeviceTypes, vars
  <2>4. Due = Programmed /\ Due' = Programmed + c
    <3>1. Cardinality(cmd.left) = 0
      BY <2>3, FS_EmptySet
    <3>2. Programmed' = Programmed
      BY <2>3 DEF Programmed, FreePages
    <3> QED BY <1>t, <2>3, <3>1, <3>2 DEF Due
  <2>5. mbmw' = (mbmw + S * c) % STAT_MOD /\ mbe' = mbe
    BY <1>1 DEF WriteAccepted
  <2> HIDE DEF c, S
  <2>6. S * c \in Int /\ S * Due' = S * Due + S * c
    BY <1>t, <2>2, <2>4
  <2>7. Congruent(mbmw - mbe, S * Due)
    BY DEF Balanced, S
  <2>8. Congruent(((mbmw + S * c) % STAT_MOD) - mbe, S * Due + S * c)
    BY <1>t, <2>6, <2>7, CounterStep, ZenonT(30)
  <2> QED BY <2>5, <2>6, <2>8 DEF Balanced, S
<1>2. ASSUME NEW n \in LPNs, WritePage(n) PROVE Balanced'
  <2>1. UNCHANGED statVars
    BY <1>2 DEF WritePage
  <2> QED BY <1>2, <1>u, <2>1, WriteDue
<1>3. CASE RelocatePage
  <2>1. /\ mbmw' = (mbmw + S) % STAT_MOD /\ mbe' = mbe /\ cmd' = cmd /\ pc = "gc"
        /\ pg' = [pg EXCEPT ![get_new_page(GC_IO)] = "valid"]
    BY <1>3, ZenonT(30) DEF RelocatePage, CountRelocation, GcWritePage
  <2> DEFINE new == get_new_page(GC_IO)
  <2>2. new \in Pages /\ pg[new] = "free"
    <3>1. pc \in {"idle", "gc"} /\ GC_IO \in WPs
      BY <2>1, SizesAssumption DEF GC_IO, WPs
    <3> QED BY <3>1, NewPage
  <2>3. \A p \in Pages : pg'[p] = "free" <=> pg[p] = "free" /\ p # new
    BY <2>1, <2>2, ZenonT(30) DEF IndInv, TypeOK
  <2>4. Left' = Left - 1
    BY <2>2, <2>3, FreeProgrammed
  <2>5. Due' = Due + 1
    <3>1. Programmed' = Programmed + 1
      BY <1>t, <1>p, <2>4, ProgrammedIs
    <3>2. Cardinality(cmd'.left) = Cardinality(cmd.left) /\ Cardinality(cmd.left) \in Nat
      BY <2>1, LeftFinite
    <3> QED BY <1>t, <3>1, <3>2 DEF Due
  <2> HIDE DEF S
  <2>6. S * Due' = S * Due + S /\ S \in Int
    BY <1>t, <2>5
  <2>7. Congruent(mbmw - mbe, S * Due)
    BY DEF Balanced, S
  <2>8. Congruent(((mbmw + S) % STAT_MOD) - mbe, S * Due + S)
    BY <1>t, <2>6, <2>7, CounterStep, ZenonT(30)
  <2> QED BY <2>1, <2>6, <2>8 DEF Balanced, S
<1>4. CASE EraseVictim
  <2> DEFINE d == PGS_PER_LINE * S
  <2>1. /\ mbe' = (mbe + d) % STAT_MOD /\ mbmw' = mbmw /\ cmd' = cmd /\ pc = "gc"
        /\ pg' = [p \in Pages |-> IF p[1] = gc_line THEN "free" ELSE pg[p]]
    BY <1>4 DEF EraseVictim, EndGc
  <2>2. gc_line \in Lines /\ \A k \in Offsets : pg[<<gc_line, k>>] # "free"
    <3>1. GcStates /\ PageStates /\ TypeOK
      BY DEF IndInv
    <3>2. gc_line # NULL
      BY <2>1, <3>1 DEF GcStates
    <3> QED BY <3>1, <3>2 DEF PageStates, TypeOK
  <2>3. Left' = Left + PGS_PER_LINE
    BY <2>1, <2>2, FreeErased
  <2>4. Due' = Due - PGS_PER_LINE
    <3>1. Programmed' = Programmed - PGS_PER_LINE
      BY <1>t, <1>p, <2>3, ProgrammedIs
    <3>2. Cardinality(cmd'.left) = Cardinality(cmd.left) /\ Cardinality(cmd.left) \in Nat
      BY <2>1, LeftFinite
    <3> QED BY <1>t, <3>1, <3>2 DEF Due
  <2>5. d \in Int /\ S * Due' = S * Due - d
    BY <1>t, <2>4
  <2> HIDE DEF S, d
  <2>6. Congruent(mbmw - mbe, S * Due)
    BY DEF Balanced, S
  <2>7. Congruent(mbmw - ((mbe + d) % STAT_MOD), S * Due - d)
    BY <1>t, <2>5, <2>6, CounterStep, ZenonT(30)
  <2> QED BY <2>1, <2>5, <2>7, ZenonT(30) DEF Balanced, S
<1>5. ASSUME pg' = pg, cmd'.left = cmd.left, UNCHANGED statVars PROVE Balanced'
  BY <1>5, <1>u, DueKept, ZenonT(30)
<1>6. CASE PlainStep
  BY <1>5, <1>6 DEF PlainStep, Rotate, RotateNull, consume_write_credit, RefillWithoutGc
<1>7. CASE CollectVictim
  BY <1>5, <1>7 DEF CollectVictim, StartGc
<1>8. CASE LoopDone \/ EnqueueAndCopy
  BY <1>5, <1>8 DEF LoopDone, EnqueueAndCopy, NoCmd, DeviceTypes, vars
<1>9. ASSUME NEW descs \in Events!Descs, SetEvents(descs) PROVE Balanced'
  BY <1>5, <1>9 DEF SetEvents, vars
<1>10. CASE UNCHANGED devVars
  BY <1>5, <1>10 DEF devVars, vars
<1>11. ASSUME NEW lpns \in SUBSET LPNs,
              \/ \E pid \in BadPids : WriteInvalidPid(lpns, pid)
              \/ \E dir \in Directives : WriteNoBuffer(lpns, dir)
       PROVE  Balanced'
  BY <1>5, <1>11, ZenonT(30) DEF WriteInvalidPid, WriteNoBuffer, Submit, NoCmd, DeviceTypes, vars
<1> QED BY <1>1, <1>2, <1>3, <1>4, <1>6, <1>7, <1>8, <1>9, <1>10, <1>11
        DEF DeviceNext, HostCommand

\* The statistics log and the media agree for a host that writes whole pages,
\* for every geometry and however often the 64-bit counters wrap round: bytes
\* written less bytes erased are those of the pages that hold data, and of
\* those the running command has still to program.
THEOREM StatsAreBalanced ==
  Sectors \subseteq {SECS_PER_PG} => (DeviceSpec => []StatsBalance)
<1> SUFFICES ASSUME Sectors \subseteq {SECS_PER_PG} PROVE DeviceSpec => []StatsBalance
  OBVIOUS
<1>1. DeviceInit => Balanced
  <2> SUFFICES ASSUME DeviceInit PROVE Balanced
    OBVIOUS
  <2>1. Pages \ FreePages = {} /\ cmd.left = {} /\ mbmw = 0 /\ mbe = 0
    BY DEF DeviceInit, Init, FreePages, NoCmd
  <2>2. Due = 0
    <3>1. Programmed = 0 /\ Cardinality(cmd.left) = 0
      BY <2>1, FS_EmptySet DEF Programmed
    <3> QED BY <3>1 DEF Due
  <2>3. (mbmw - mbe) - SECS_PER_PG * Due = 0 * STAT_MOD
    BY <2>1, <2>2, DeviceAssumption
  <2> QED BY <2>3 DEF Balanced, Congruent
<1>2. DeviceInv /\ Balanced /\ [DeviceNext]_devVars => Balanced'
  BY BalancedStep DEF DeviceInv
<1>3. DeviceInv /\ Balanced => StatsBalance
  <2> SUFFICES ASSUME DeviceInv, Balanced PROVE StatsBalance
    OBVIOUS
  <2> DEFINE a == mbmw - mbe
             b == SECS_PER_PG * Due
  <2>1. a \in Int /\ b \in Int
    BY DeviceAssumption, ProgrammedIs, LeftFinite DEF DeviceInv, DeviceTypes, Due
  <2>2. Congruent(a, b)
    BY DEF Balanced
  <2>3. a % STAT_MOD = b % STAT_MOD
    <3> HIDE DEF a, b
    <3> QED BY <2>1, <2>2, SameRemainder, ZenonT(30)
  <2> QED BY <2>3 DEF StatsBalance, Due, Programmed
<1> QED BY <1>1, <1>2, <1>3, DeviceTyped, PTL DEF DeviceSpec

=============================================================================
