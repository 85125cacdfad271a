-------------------------- MODULE MCPacketQueue --------------------------
(* Three threads, capacity two, five packets: two blocked readers at once, *)
(* two notifications outstanding, and several evictions in a row.          *)
EXTENDS PacketQueue
==========================================================================
