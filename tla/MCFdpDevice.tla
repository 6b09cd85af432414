----------------------------- MODULE MCFdpDevice -----------------------------
(***************************************************************************)
(* Model checking of FdpDevice under the view of MCFdpFtl, extended with   *)
(* the command and fdp_ctx.  Nothing in the device reads the statistics    *)
(* and the stored set: of these the view keeps mbmw - mbe, which is what   *)
(* StatsBalance reads.                                                     *)
(***************************************************************************)
EXTENDS MCFdpFtl, FdpDevice

\* Which pages and how many unmapped LPNs the command has still to write.
LeftOn(l) == [k \in Offsets |-> LPNsOn(<<l, k>>) \cap cmd.left # {}]

DeviceView ==
    <<AnonymousView, Census([l \in Lines |-> <<Portrait(l), LeftOn(l)>>]),
      cmd.stage, cmd.ruh, Cardinality(cmd.left), ruh_attr,
      (mbmw - mbe) % STAT_MOD, Events!vars>>
=============================================================================
