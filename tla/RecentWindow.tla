--------------------------- MODULE RecentWindow ---------------------------
(***************************************************************************)
(* What a drop-oldest packet queue promises, without a queue: packets are  *)
(* numbered in the order they are pushed, and the packets a reader can     *)
(* still get are always a window [first .. pushed] of that stream.  A push *)
(* may only shrink the window at its old end, by one, and only when it     *)
(* holds Capacity packets; what it shrinks by is what "lost" counts.       *)
(***************************************************************************)
EXTENDS Integers

CONSTANTS Capacity  (* at least 1: the most packets in the window *)

VARIABLES
  pushed,  (* number of packets pushed so far           *)
  first,   (* number of the oldest packet still to read *)
  lost     (* packets evicted by a push                 *)

wvars == <<pushed, first, lost>>

Holds == pushed - first + 1

Init == pushed = 0 /\ first = 1 /\ lost = 0

Push ==
  /\ pushed' = pushed + 1
  /\ \/ Holds < Capacity /\ UNCHANGED <<first, lost>>
     \/ Holds = Capacity /\ first' = first + 1 /\ lost' = lost + 1

(* A reader is given the oldest packet, first.                             *)
Take ==
  /\ Holds > 0
  /\ first' = first + 1
  /\ UNCHANGED <<pushed, lost>>

Clear ==
  /\ first' = pushed + 1
  /\ UNCHANGED <<pushed, lost>>

Next == Push \/ Take \/ Clear

Spec == Init /\ [][Next]_wvars
===========================================================================
