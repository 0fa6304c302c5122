----------------------------- MODULE RcloneTuning -----------------------------
(* rclone's performance settings (utils/rclone_tuning.py): the installation's   *)
(* defaults, caps and memory budget, read when a process starts; the overrides  *)
(* and presets of a job, accepted by one process and turned into flags, days    *)
(* later, by another.  Sizes are in MiB.                                        *)
EXTENDS Integers

CONSTANTS Envs,       \* the environments that processes are started with
          Overrides   \* what jobs ask for

Param(lo, hi, cap, backend, per_job) ==
    [lo |-> lo, hi |-> hi, cap |-> cap, backend |-> backend, per_job |-> per_job]

GiB == 1024
TiB == 1024 * GiB
PARAMS ==
    [ transfers                    |-> Param(1, 1024, "transfers", "any", TRUE),
      checkers                     |-> Param(1, 1024, "checkers", "any", TRUE),
      multi_thread_streams         |-> Param(0, 256, "multi_thread_streams", "any", TRUE),
      multi_thread_cutoff          |-> Param(1, TiB, "none", "any", TRUE),
      buffer_size                  |-> Param(0, GiB, "none", "any", FALSE),
      s3_upload_concurrency        |-> Param(1, 256, "upload_concurrency", "s3", TRUE),
      s3_chunk_size                |-> Param(5, 5 * GiB, "none", "s3", TRUE),
      azureblob_upload_concurrency |-> Param(1, 256, "upload_concurrency", "azureblob", TRUE),
      azureblob_chunk_size         |-> Param(1, 4000, "none", "azureblob", TRUE) ]
MOTUZ_DEFAULTS ==
    [transfers |-> 64, checkers |-> 128, s3_upload_concurrency |-> 8, s3_chunk_size |-> 16]
RCLONE_DEFAULTS ==
    [ transfers |-> 4, checkers |-> 8, multi_thread_streams |-> 4, multi_thread_cutoff |-> 256,
      buffer_size |-> 16, s3_upload_concurrency |-> 4, s3_chunk_size |-> 5,
      azureblob_upload_concurrency |-> 16, azureblob_chunk_size |-> 4 ]
CAPS == [transfers |-> 128, checkers |-> 256, multi_thread_streams |-> 32, upload_concurrency |-> 64]
CAP_BOUNDS == [transfers |-> <<1, 1024>>, checkers |-> <<1, 1024>>,
               multi_thread_streams |-> <<0, 256>>, upload_concurrency |-> <<1, 256>>]
CHUNKED_BACKENDS == {"s3", "azureblob"}
Destinations == CHUNKED_BACKENDS \cup {"local"}
ChunkSize   == [s3 |-> "s3_chunk_size", azureblob |-> "azureblob_chunk_size"]
Concurrency == [s3 |-> "s3_upload_concurrency", azureblob |-> "azureblob_upload_concurrency"]

\* Integers for settings that exist; which of them are refused is the code's.
ASSUME TuningAssumption ==
    /\ \A env \in Envs :
          /\ env.memory \in Nat /\ env.budget \in Nat
          /\ env.caps \in [DOMAIN env.caps -> Int] /\ DOMAIN env.caps \subseteq DOMAIN CAPS
          /\ env.set \in [DOMAIN env.set -> Int] /\ DOMAIN env.set \subseteq DOMAIN PARAMS
    /\ \A raw \in Overrides : raw \in [DOMAIN raw -> Int]

\* The settings of both; the first wins (TLC's @@, which the provers do not know).
f ++ g == [n \in DOMAIN f \cup DOMAIN g |-> IF n \in DOMAIN f THEN f[n] ELSE g[n]]
Larger(m, n)  == IF m > n THEN m ELSE n
Smaller(m, n) == IF m < n THEN m ELSE n
NoValues == [n \in {} |-> 0]
Only(values, names) == [n \in DOMAIN values \cap names |-> values[n]]

----------------------------------------------------------------------------
(* Memory.                                                                   *)

EstimateMemory(values, dst) ==
    LET v == values ++ RCLONE_DEFAULTS
        streams == v.multi_thread_streams
        chunks  == IF dst \in CHUNKED_BACKENDS
                   THEN Larger(v[Concurrency[dst]], streams) * v[ChunkSize[dst]] ELSE 0
    IN  v.transfers * (Larger(1, streams) * v.buffer_size + chunks)
FitsEverywhere(values, budget) == \A dst \in Destinations : EstimateMemory(values, dst) =< budget
DefaultBudget(memory) == Larger(4 * GiB, Smaller(64 * GiB, (memory \div (4 * GiB)) * GiB))

----------------------------------------------------------------------------
(* The installation's settings: env has what the environment sets.           *)

InBounds(n, value) == PARAMS[n].lo =< value /\ value =< PARAMS[n].hi
UnderCap(n, value, caps) == PARAMS[n].cap \in DOMAIN caps => value =< caps[PARAMS[n].cap]
Capped(n, value, caps) == IF UnderCap(n, value, caps) THEN value ELSE caps[PARAMS[n].cap]

\* The loops of _add_motuz_defaults halve a default that is unset as long as the defaults do not
\* fit and it stays at its floor or above: 8 at most once, 64 at most twice; a second round of
\* them changes nothing.
LowerOnce(added, name, floor, unset, budget) ==
    LET half == added[name] \div 2
        checkers == IF name = "transfers" /\ "checkers" \in unset
                    THEN [checkers |-> Larger(2 * half, 32)] ELSE NoValues
    IN  IF name \in unset /\ half >= floor /\ ~FitsEverywhere(added, budget)
        THEN checkers ++ [n \in {name} |-> half] ++ added ELSE added
Lowered(added, unset, budget) ==
    LET uploads == LowerOnce(added, "s3_upload_concurrency", 4, unset, budget)
        once    == LowerOnce(uploads, "transfers", 16, unset, budget)
    IN  LowerOnce(once, "transfers", 16, unset, budget)

AddMotuzDefaults(defaults, caps, budget) ==
    LET unset == DOMAIN MOTUZ_DEFAULTS \ DOMAIN defaults
        own   == [n \in unset |-> Capped(n, MOTUZ_DEFAULTS[n], caps)]
        added == Lowered(defaults ++ own, unset, budget)
    IN  IF FitsEverywhere(added, budget) THEN added ELSE defaults

\* At most one: a bad setting stops the process.
LoadSettings(env) ==
    LET caps   == env.caps ++ CAPS
        budget == IF env.budget = 0 THEN DefaultBudget(env.memory) ELSE env.budget
        values == AddMotuzDefaults(env.set, caps, budget)
    IN  { s \in {[defaults |-> values, caps |-> caps, budget |-> budget]} :
            /\ \A c \in DOMAIN env.caps : CAP_BOUNDS[c][1] =< caps[c] /\ caps[c] =< CAP_BOUNDS[c][2]
            /\ \A n \in DOMAIN env.set : InBounds(n, env.set[n]) /\ UnderCap(n, env.set[n], caps)
            /\ FitsEverywhere(values, budget) }

----------------------------------------------------------------------------
(* The overrides of a job.                                                   *)

PER_JOB == {n \in DOMAIN PARAMS : PARAMS[n].per_job}
AppliesTo(dst) == {n \in DOMAIN PARAMS : PARAMS[n].backend \in {"any", dst}}
Effective(overrides, dst, s) == Only(overrides ++ s.defaults, AppliesTo(dst))

EachIsValid(raw, allowed, s) ==
    DOMAIN raw \subseteq allowed /\ \A n \in DOMAIN raw : InBounds(n, raw[n]) /\ UnderCap(n, raw[n], s.caps)
\* validate_overrides: whether it accepts them, and what it keeps.  `legible` is FALSE for a size
\* whose stored form, bytes with more than seven digits, parse_size does not read.
AcceptsCopy(raw, dst, s) ==
    /\ EachIsValid(raw, PER_JOB, s)
    /\ EstimateMemory(Effective(Only(raw, AppliesTo(dst)), dst, s), dst) =< s.budget
AcceptsCheck(raw, s) == EachIsValid(raw, {"checkers"}, s)
Legible(raw, exact) == exact \/ DOMAIN raw \cap {"s3_chunk_size", "azureblob_chunk_size"} = {}

\* The values that become flags, of a copy and of an integrity check.
CopyFlags(overrides, dst, s, srcLocal) ==
    Effective(overrides, dst, s) ++ (IF srcLocal THEN [buffer_size |-> 0] ELSE NoValues)
HashsumFlags(overrides, s) == Only(overrides ++ s.defaults, {"checkers"})

----------------------------------------------------------------------------
(* Presets.                                                                  *)

PRESETS ==
    LET large == [ transfers |-> 32, checkers |-> 64, multi_thread_streams |-> 16,
                   multi_thread_cutoff |-> 64, s3_upload_concurrency |-> 16, s3_chunk_size |-> 16,
                   azureblob_upload_concurrency |-> 16, azureblob_chunk_size |-> 16 ]
    IN  [ default |-> NoValues,
          small_files |-> [transfers |-> 128, checkers |-> 256, s3_upload_concurrency |-> 4,
                           s3_chunk_size |-> 16],
          large_files |-> large,
          maximum     |-> [large EXCEPT !.transfers = 128, !.checkers = 256] ]

\* The loop of fit_preset: it first halves the chunk size (5 GiB at most 9 times), then
\* the streams and the concurrency (256 at most 6 times), until the values fit, transfers that
\* fit are enough, or nothing is left to halve.
Halved(value, floor, divisor) == IF value > floor THEN Larger(floor, value \div divisor) ELSE value
PowersOf2 == <<1, 2, 4, 8, 16, 32, 64, 128, 256, 512>>
Rounds == 0..15
Reduced(values, dst, round) ==
    LET chunk  == PowersOf2[Smaller(round, 9) + 1]
        others == PowersOf2[Larger(round - 9, 0) + 1]
    IN  [n \in DOMAIN values |->
            IF dst \in CHUNKED_BACKENDS /\ n = ChunkSize[dst] THEN Halved(values[n], 16, chunk)
            ELSE IF n = "multi_thread_streams" \/ (dst \in CHUNKED_BACKENDS /\ n = Concurrency[dst])
                 THEN Halved(values[n], 4, others)
            ELSE values[n]]
Fits(values, dst, s) == EstimateMemory(Effective(values, dst, s), dst) =< s.budget
Fitting(values, dst, s) == s.budget \div EstimateMemory([transfers |-> 1] ++ Effective(values, dst, s), dst)
NothingToHalve(values, dst) ==
    \A n \in DOMAIN values :
        /\ n = "multi_thread_streams" => values[n] =< 4
        /\ dst \in CHUNKED_BACKENDS =>
              (n = ChunkSize[dst] => values[n] =< 16) /\ (n = Concurrency[dst] => values[n] =< 4)
EndsLoop(values, dst, s) ==
    \/ Fits(values, dst, s)
    \/ Fitting(values, dst, s) >= Smaller(8, (Effective(values, dst, s) ++ RCLONE_DEFAULTS).transfers)
    \/ NothingToHalve(values, dst)
\* The values that fit, at most one.
Fitted(values, dst, s) ==
    LET loop(round) == Reduced(values, dst, round)
    IN  UNION { IF Fits(loop(round), dst, s) THEN {loop(round)}
                ELSE {[transfers |-> n] ++ loop(round) : n \in {Fitting(loop(round), dst, s)} \ {0}} :
                round \in { r \in Rounds : /\ EndsLoop(loop(r), dst, s)
                                         /\ \A k \in 0..(r - 1) : ~EndsLoop(loop(k), dst, s) } }
\* Mutant: the values of a preset are not clamped.
UnclampedPreset(target, dst, s) ==
    LET values == Only(target, AppliesTo(dst))
    IN  IF DOMAIN values = {} THEN {values} ELSE Fitted(values, dst, s)
FitPreset(target, dst, s) ==
    LET own == Only(target, AppliesTo(dst))
        values == [n \in DOMAIN own |-> Capped(n, own[n], s.caps)]
    IN  IF DOMAIN values = {} THEN {values} ELSE Fitted(values, dst, s)
Presets(dst, s) == UNION {FitPreset(PRESETS[p], dst, s) : p \in DOMAIN PRESETS}

----------------------------------------------------------------------------
(* An installation, the dialog of a user, a job and its integrity check.      *)

VARIABLES tuning,   \* the settings of the running processes (settings())
          dialog,   \* the New Copy Job dialog: its destination, presets, and the settings they are for
          tuned     \* the job

tuningVars == <<tuning, dialog, tuned>>

NoTuned == [state |-> "none", kind |-> "copy", dst |-> "local", srcLocal |-> FALSE,
            performance |-> NoValues, legible |-> TRUE, started |-> {}, flags |-> NoValues]
Closed  == [open |-> FALSE, dst |-> "local", presets |-> {}, from |-> {}]

TuningInit(envs) ==
    /\ tuning \in UNION {LoadSettings(env) : env \in envs}
    /\ dialog = Closed /\ tuned = NoTuned

\* A new environment; the processes that refuse it do not start.
RestartWith(env) ==
    /\ tuning' \in LoadSettings(env)
    /\ UNCHANGED <<dialog, tuned>>
Describe(dst) ==
    /\ dialog' = [open |-> TRUE, dst |-> dst, presets |-> Presets(dst, tuning), from |-> {tuning}]
    /\ UNCHANGED <<tuning, tuned>>
\* create: the overrides are validated, and stored without those for other destinations.
SubmitTuned(raw, dst, srcLocal, exact) ==
    /\ tuned.state = "none"
    /\ AcceptsCopy(raw, dst, tuning)
    /\ tuned' = [NoTuned EXCEPT !.state = "queued", !.dst = dst, !.srcLocal = srcLocal,
                                !.performance = Only(raw, AppliesTo(dst)),
                                !.legible = Legible(Only(raw, AppliesTo(dst)), exact)]
    /\ dialog' = Closed
    /\ UNCHANGED tuning
\* "Check Integrity" of a copy that has ended passes the checkers on.
SubmitCheck ==
    LET raw == Only(tuned.performance, {"checkers"}) IN
    /\ tuned.state = "ended" /\ tuned.kind = "copy"
    /\ AcceptsCheck(raw, tuning)
    /\ tuned' = [NoTuned EXCEPT !.state = "queued", !.kind = "check", !.performance = raw]
    /\ UNCHANGED <<tuning, dialog>>
\* Mutant: the overrides of an accepted job are trusted.
Trusts(j, s) == j.legible
\* copy_flags and hashsum_flags, when the job starts: the overrides are validated again.
Revalidates(j, s) ==
    /\ j.legible
    /\ IF j.kind = "copy" THEN AcceptsCopy(j.performance, j.dst, s) ELSE AcceptsCheck(j.performance, s)
StartTuned ==
    /\ tuned.state = "queued"
    /\ tuned' =
        IF Revalidates(tuned, tuning)
        THEN [tuned EXCEPT !.state = "running", !.started = {tuning},
                !.flags = IF tuned.kind = "copy"
                          THEN CopyFlags(tuned.performance, tuned.dst, tuning, tuned.srcLocal)
                          ELSE HashsumFlags(tuned.performance, tuning)]
        ELSE [tuned EXCEPT !.state = "refused"]
    /\ UNCHANGED <<tuning, dialog>>
EndTuned ==
    /\ tuned.state = "running"
    /\ tuned' = [tuned EXCEPT !.state = "ended", !.started = {}, !.flags = NoValues]
    /\ UNCHANGED <<tuning, dialog>>

TuningNext ==
    \/ \E env \in Envs : RestartWith(env)
    \/ tuned.state = "none" /\ \E dst \in Destinations : Describe(dst)
    \/ /\ dialog.open
       /\ \E raw \in Overrides \cup dialog.presets, srcLocal, exact \in BOOLEAN :
             SubmitTuned(raw, dialog.dst, srcLocal, exact)
    \/ SubmitCheck \/ StartTuned \/ EndTuned
TuningSpec == TuningInit(Envs) /\ [][TuningNext]_tuningVars

----------------------------------------------------------------------------
\* Every preset that the dialog offers as available is accepted when it is submitted, unless
\* the settings of the server changed in between: what fit_preset computes passes the caps,
\* the bounds and the budget of validate_overrides.
PresetsAreAccepted ==
    dialog.open /\ dialog.from = {tuning} =>
        \A values \in dialog.presets : AcceptsCopy(values, dialog.dst, tuning)

\* rclone never starts with more memory than the budget of the settings it starts under, nor
\* with an override above their caps, whatever they were when the job was accepted.
RunFitsBudget ==
    tuned.state = "running" => \A s \in tuned.started :
        /\ tuned.kind = "copy" => EstimateMemory(tuned.flags, tuned.dst) =< s.budget
        /\ \A n \in DOMAIN tuned.performance : UnderCap(n, tuned.flags[n], s.caps)

\* Motuz's own defaults are "lowered to their caps" (rclone_tuning.py:338, README.md:1552).
DefaultsWithinCaps ==
    \A n \in DOMAIN tuning.defaults : UnderCap(n, tuning.defaults[n], tuning.caps)
=============================================================================
