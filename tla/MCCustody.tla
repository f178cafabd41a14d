------------------------------ MODULE MCCustody ------------------------------
(* Instances of Custody: a request and its retry, the reconciler, the        *)
(* watcher and two deposits.                                                 *)
EXTENDS Custody, TLC

CONSTANTS r1, r2, rc, dw, api, bg

\* Different amounts, so that exchanged or repeated movements show.
MCAmount == r1 :> 2 @@ r2 :> 3

\* One process runs everything.
OneProcess == [a \in Actors |-> api]

\* The API's handler in one process, the background services in the other.
ApiAndWorker == [a \in {r1, rc, dw} |-> IF a = r1 THEN api ELSE bg]

\* Two requests through two processes, one of which also runs the reconciler.
TwoFrontEnds == [a \in {r1, r2, rc} |-> IF a = r1 THEN api ELSE bg]

MCTopologies == {OneProcess, ApiAndWorker, TwoFrontEnds}

SingleTopology == {OneProcess}

WorkerTopology == {ApiAndWorker}

\* A deposit, and one below the floor in a later block.
MCDeposits ==
  {[block |-> 1, chunk |-> 1, value |-> 7, listed |-> TRUE],
   [block |-> 2, chunk |-> 1, value |-> 1, listed |-> TRUE]}

\* Keys are interchangeable.
KeySymmetry == Permutations(Keys)

=============================================================================
