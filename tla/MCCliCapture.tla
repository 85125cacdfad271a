---------------------------- MODULE MCCliCapture ----------------------------
(* Every combination of options, packet limits of none, zero (which is     *)
(* refused), one and two; four packets through a queue of two, so that     *)
(* packets are dropped and some are still queued when the capture stops.   *)
EXTENDS CliCapture

AllPlans == [live : BOOLEAN, filter : Filters, timed : BOOLEAN,
             limit : {NoLimit, 0, 1, 2}, output : {"-", "file"}]
MinusOne == -1
=============================================================================
