----------------------------- MODULE JobPromise -----------------------------
(***************************************************************************)
(* What the Job API (src/src/routes/job.routes.ts) lets its users expect   *)
(* of a job: its status goes from pending to processing and from there to  *)
(* completed or failed, which is final.  Only a job in `disturbed` may be  *)
(* worked on again, and none ever goes back to pending or is lost.         *)
(***************************************************************************)
CONSTANT Jobs

VARIABLES
  status,     \* of each job, "none" before it is created
  disturbed   \* the jobs that may be worked on again

Init ==
  /\ status = [j \in Jobs |-> "none"]
  /\ disturbed = {}

Forward == {<<"none", "pending">>, <<"pending", "processing">>,
            <<"processing", "completed">>, <<"processing", "failed">>}

Advance(j) ==
  /\ \E s \in {"pending", "processing", "completed", "failed"} :
       <<status[j], s>> \in Forward /\ status' = [status EXCEPT ![j] = s]
  /\ UNCHANGED disturbed

Disturb(j) ==
  /\ disturbed' = disturbed \cup {j}
  /\ UNCHANGED status

Rework(j) ==
  /\ status[j] # "none"
  /\ \E s \in {"processing", "completed", "failed"} : status' = [status EXCEPT ![j] = s]
  /\ disturbed' = disturbed \cup {j}

Next == \E j \in Jobs : Advance(j) \/ Disturb(j) \/ Rework(j)

Spec == Init /\ [][Next]_<<status, disturbed>>
=============================================================================
