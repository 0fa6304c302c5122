---------------------------- MODULE MCCentralJobs ----------------------------
(* Two small instances in one run, one per `scene`: central jobs, and the     *)
(* connections they use.                                                      *)
EXTENDS CentralJobs, IntegrityCheck, MCConnections

CONSTANTS copy, check

VARIABLE scene

CopyAndCheck == (copy :> 1) @@ (check :> 2)

\* Two scenarios, told apart by whether the check is created first: the copy alone meets
\* every trouble there is; and the copy, which may be stopped, shares the one pool process
\* with the check, each of them waiting for the other.
Alone == creator[check] = "new"

JobStep ==
    \/ CreateStep(copy) \/ StopStep(copy)
    \/ creator[copy] = "new" /\ CreateJob(check)
    \/ QueueTask(check)
    \/ \E j \in Jobs : NodeStep(j)
    \/ \E t \in Tasks : TaskGoesOn(t)
    \/ Alone /\ (DeleteJob(copy) \/ NodeRestart \/ \E t \in TasksOf(copy) : TaskFault(t))
    \/ CentralTick

MCInit ==
    /\ CentralInit /\ ConnInit
    /\ scene \in {"jobs", "connections"}
    /\ scene = "jobs" => home = Complete1
MCNext ==
    /\ UNCHANGED scene
    /\ \/ scene = "jobs" /\ JobStep /\ UNCHANGED connVars
       \/ scene = "connections" /\ ConnStep /\ UNCHANGED centralVars

MCSpec     == MCInit /\ [][MCNext]_<<scene, centralVars, connVars>>
MCFairSpec == MCSpec /\ CentralFairness

\* A check that ended well never vouches for files that differ, whatever files and hashes
\* the two sides have (job_runner.run_hashsum, hashsum_outcome): all pairs of sides with
\* two names are compared when a check reports.  Where a cloud has a file and others below
\* its name ("a" and "a/b"), the tree ends at the first of those (file_utils.generate_file_tree
\* logs the exception and goes on with what it has): what a check says is true of the files
\* before it only, and it can say IDENTICAL of sides that differ there or later.
VerdictIsTrue ==
    \A t \in TasksOf(check) : phase[t] = "mailing" /\ exit[t] = 0 => VerdictHolds
=============================================================================
