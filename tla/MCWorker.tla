------------------------------ MODULE MCWorker ------------------------------
(* Instances of Worker for the model checker.  All producers give           *)
(* positions; the main thread also offers jobs, of a kind that is emptied   *)
(* before the timers' queue with a look for positions after each job, and   *)
(* of one that is emptied after it with a look before each job.             *)
EXTENDS Worker

CONSTANT MainThread

MainOffers ==
  [p \in Producers |-> IF p = MainThread THEN {"msg", "geo"} ELSE {}]
=============================================================================
