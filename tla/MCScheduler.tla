----------------------------- MODULE MCScheduler -----------------------------
(* Finite instances of Scheduler.  EachNum and MaxSends are functions, so   *)
(* they are defined here and given to the constants by the cfg files.      *)
EXTENDS Scheduler, TLC

CONSTANTS w1, w2   \* the two workers

(* StartWorker gives worker i eachNum = 2 << i. *)
MCEachNum == [w \in Workers |-> IF w = w1 THEN 2 ELSE 4]

(* Bounds on the calls of Send: by the threads of Others, by a handler that *)
(* worker w1 runs and by one that w2 runs.                                  *)
SendBounds(others, byW1, byW2) ==
  [t \in Threads |-> IF t \in Others THEN others
                     ELSE IF t = w1 THEN byW1 ELSE byW2]

Sends2and10 == SendBounds(2, 1, 0)
Sends2and00 == SendBounds(2, 0, 0)

=============================================================================
