------------------------- MODULE MCCaptureEngine -------------------------
(* Two sources of four packets: a restart with packets in flight, a queue  *)
(* of two and a session of three that both overflow, two link types so     *)
(* that a stale one shows, one real filter.                                *)
EXTENDS CaptureEngine
==========================================================================
