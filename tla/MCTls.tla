------------------------------- MODULE MCTls -------------------------------
(* Four connections: two that follow one another on one four-tuple, and    *)
(* two more, in a table of two streams.  Records of three and four bytes   *)
(* with a header of two, sequence numbers that wrap within the first, at   *)
(* most four buffered; first segments with less than a header, with part   *)
(* and with all of a record.                                               *)
EXTENDS TlsReassembler

TheConns  == {"a", "b", "c", "d"}
TheKeys   == [c \in TheConns |-> IF c \in {"a", "b"} THEN "k1" ELSE c]
TheIsns   == [a |-> 14, b |-> 4, c |-> 0, d |-> 0]
TheNeeds  == [a |-> 4, b |-> 3, c |-> 3, d |-> 3]
TheSegments ==
  {[conn |-> "a", pos |-> p, len |-> 1] : p \in 0 .. 3} \union
  {[conn |-> "a", pos |-> p, len |-> 2] : p \in {0, 1, 3}} \union
  {[conn |-> "b", pos |-> p, len |-> 1] : p \in {0, 2}} \union
  {[conn |-> "b", pos |-> 0, len |-> 2]} \union
  {[conn |-> "c", pos |-> 0, len |-> l] : l \in {2, 3}} \union
  {[conn |-> "c", pos |-> 2, len |-> 1]} \union
  {[conn |-> "d", pos |-> 0, len |-> 2], [conn |-> "d", pos |-> 2, len |-> 1]}
============================================================================
