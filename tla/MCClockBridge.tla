--------------------------- MODULE MCClockBridge ---------------------------
(***************************************************************************)
(* The four bridges io_v2_clock_bridge.py offers: IoV2ClockBridge,         *)
(* IoV2Cdc2PhaseBeh, IoV2CdcFifoGrayBeh and IoV2CdcFifo2PhaseBeh.  Two     *)
(* requests round-trip, w1 is a write beat.                                *)
(***************************************************************************)
EXTENDS ClockBridge

CONSTANTS r1, r2, w1

Bridge(ks, kd, d) == [k_src |-> ks, k_dst |-> kd, depth |-> d]

MCConfigs == {Bridge(0, 0, 1), Bridge(1, 2, 1), Bridge(1, 2, 2), Bridge(3, 3, 2)}
=============================================================================
