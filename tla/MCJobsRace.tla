------------------------------ MODULE MCJobsRace ------------------------------
(* Two scenarios of MCRemoteJobs: "race", two workers and the first job; and     *)
(* "next", the first worker and both jobs.                                       *)
EXTENDS MCRemoteJobs

VARIABLE scene

RaceInit == JobsInit /\ scene \in {"race", "next"}
RaceNext ==
    /\ UNCHANGED scene
    /\ \/ scene = "race" /\ Race({j1})
       \/ scene = "next" /\ NextJob
RaceSpec == RaceInit /\ [][RaceNext]_<<jobsVars, scene>>
=============================================================================
