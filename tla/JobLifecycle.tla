---------------------------- MODULE JobLifecycle ----------------------------
(***************************************************************************)
(* What the codegen service promises of a job, seen from outside: the      *)
(* phase a reader of codegen:job:{id}:state finds, and how far the single  *)
(* execution of the job's task has come.  No keys, requests or contexts.   *)
(*                                                                         *)
(* The promises: a job is queued only before its task exists, runs at most *)
(* once, is published as done or failed at most once and only by that run, *)
(* and after the run has ended only a cancellation or the loss of the      *)
(* record can change what a reader sees.                                   *)
(***************************************************************************)
CONSTANTS Jobs, Nil

VARIABLES phase, run

lifeVars == <<phase, run>>

Init ==
    /\ phase = [j \in Jobs |-> Nil]
    /\ run = [j \in Jobs |-> "absent"]

Move(j, from, to) ==
    /\ run[j] \in from
    /\ run' = [run EXCEPT ![j] = to]

Show(j, p) == phase' = [phase EXCEPT ![j] = p]

\* The submitter announces the job before it hands it over.
Queue(j) == run[j] = "absent" /\ Show(j, "queued") /\ UNCHANGED run

\* The queue takes the job.
Accept(j) == Move(j, {"absent"}, "waiting") /\ UNCHANGED phase

\* The job's only execution begins; the announcement of it may be lost.
Begin(j) == Move(j, {"waiting"}, "busy") /\ (Show(j, "running") \/ UNCHANGED phase)

\* The execution ends and tells the outcome.
Publish(j) == Move(j, {"busy"}, "ended") /\ \E p \in {"done", "failed"} : Show(j, p)

\* The execution ends without telling: a crash, or a publication that failed.
Abandon(j) == Move(j, {"waiting", "busy"}, "ended") /\ UNCHANGED phase

\* Somebody gives the job up; its run goes its own way.
Cancel(j) == run[j] # "absent" /\ Show(j, "cancelled") /\ UNCHANGED run

\* Records are lost: their time is over, or a submission is rolled back.
Forget ==
    /\ \E gone \in SUBSET Jobs :
          phase' = [j \in Jobs |-> IF j \in gone THEN Nil ELSE phase[j]]
    /\ UNCHANGED run

Next ==
    \/ Forget
    \/ \E j \in Jobs : Queue(j) \/ Accept(j) \/ Begin(j) \/ Publish(j)
                       \/ Abandon(j) \/ Cancel(j)

Spec == Init /\ [][Next]_lifeVars
=============================================================================
