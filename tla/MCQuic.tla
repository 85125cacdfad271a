------------------------------- MODULE MCQuic -------------------------------
(* Four connections in a table of two: a hello of four units in packets    *)
(* that overlap and leave holes, a whole one in a single packet, one       *)
(* without a name, one too long for the buffer.                            *)
EXTENDS QuicTracker

F(o, l) == [offset |-> o, len |-> l]
P(c, fs) == [conn |-> c, crypto |-> fs]

TheConns == {"split", "whole", "bare", "long"}
TheNeeds == [split |-> 4, whole |-> 2, bare |-> 2, long |-> 5]
TheNames == [split |-> {1, 2}, whole |-> {1}, bare |-> {}, long |-> {1}]
ThePackets ==
  {P("split", {F(0, 1)}), P("split", {F(1, 1), F(3, 1)}), P("split", {F(1, 2)}),
   P("split", {F(0, 1), F(3, 1)}), P("split", {F(3, 1)}), P("split", {}),
   P("whole", {F(1, 1)}), P("whole", {F(1, 1), F(0, 1)}),
   P("bare", {F(0, 2)}), P("long", {F(0, 2)}), P("long", {F(3, 2)})}

=============================================================================
