----------------------------- MODULE JobPromise -----------------------------
(***************************************************************************)
(* What the remote workers promise the owner of a job, without a queue,    *)
(* leases or a network: rclone runs at most once, the outcome is mailed at *)
(* most once, and a success is mailed only after rclone ended well.        *)
(***************************************************************************)
CONSTANT Jobs

VARIABLES
    run,   \* what became of the job's rclone
    told   \* the outcome in the mail to the owner

promiseVars == <<run, told>>

Runs     == {"none", "active", "ok", "failed"}
Outcomes == {"nothing", "SUCCESS", "FAILED"}

PromiseInit == run = [j \in Jobs |-> "none"] /\ told = [j \in Jobs |-> "nothing"]

Start(j) ==
    /\ run[j] = "none"
    /\ \E r \in {"active", "failed"} : run' = [run EXCEPT ![j] = r]
    /\ UNCHANGED told

Succeed(j) ==
    /\ run[j] = "active"
    /\ run' = [run EXCEPT ![j] = "ok"]
    /\ UNCHANGED told

\* Several processes can die at once, with their worker.
Fail(J) ==
    /\ \A j \in J : run[j] = "active"
    /\ run' = [j \in Jobs |-> IF j \in J THEN "failed" ELSE run[j]]
    /\ UNCHANGED told

TellSuccess(j) ==
    /\ run[j] = "ok" /\ told[j] = "nothing"
    /\ told' = [told EXCEPT ![j] = "SUCCESS"]
    /\ UNCHANGED run

\* A failure can be told at any time (a lost worker may still be running rclone), and of
\* several jobs at once (a revoked worker).
TellFailure(J) ==
    /\ \A j \in J : told[j] = "nothing"
    /\ told' = [j \in Jobs |-> IF j \in J THEN "FAILED" ELSE told[j]]
    /\ UNCHANGED run

PromiseNext ==
    \/ \E j \in Jobs : Start(j) \/ Succeed(j) \/ TellSuccess(j)
    \/ \E J \in SUBSET Jobs : Fail(J) \/ TellFailure(J)

PromiseSpec == PromiseInit /\ [][PromiseNext]_promiseVars
=============================================================================
