------------------------------- MODULE JobQueue -------------------------------
(***************************************************************************)
(* What the background-task queue promises its callers: a board with one   *)
(* place per type.  A job is submitted to a free place, taken once by one  *)
(* worker, and ended once, which frees the place.  Job numbers grow.       *)
(* Tables, keys, leases, clocks and faults do not appear.                  *)
(***************************************************************************)
EXTENDS Naturals

CONSTANTS Types, Workers, Nobody, Jobs

VARIABLES
  open,     \* the job on the place of each type: a set of at most one job
  worker,   \* who took each job
  result    \* how each job ended: "none" until it has

Results == {"succeeded", "failed"}

BoardInit ==
  /\ open = [ty \in Types |-> {}]
  /\ worker = [j \in Jobs |-> Nobody]
  /\ result = [j \in Jobs |-> "none"]

\* The jobs submitted so far: on the board, or ended.
Used == {j \in Jobs : result[j] # "none" \/ \E ty \in Types : j \in open[ty]}

Submit(ty) ==
  /\ open[ty] = {}
  /\ \E j \in Jobs \ Used :
       /\ \A k \in Used : k < j
       /\ open' = [open EXCEPT ![ty] = {j}]
  /\ UNCHANGED <<worker, result>>

Take(ty, w) ==
  /\ \E j \in open[ty] :
       /\ worker[j] = Nobody
       /\ worker' = [worker EXCEPT ![j] = w]
  /\ UNCHANGED <<open, result>>

End(ty) ==
  /\ \E j \in open[ty], res \in Results :
       /\ worker[j] # Nobody
       /\ result' = [result EXCEPT ![j] = res]
  /\ open' = [open EXCEPT ![ty] = {}]
  /\ UNCHANGED worker

BoardNext == \E ty \in Types : Submit(ty) \/ End(ty) \/ \E w \in Workers : Take(ty, w)

BoardSpec == BoardInit /\ [][BoardNext]_<<open, worker, result>>
=============================================================================
