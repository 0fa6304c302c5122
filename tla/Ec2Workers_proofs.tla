-------------------------- MODULE Ec2Workers_proofs --------------------------
(***************************************************************************)
(* However many jobs, passes, lost answers and instances that die: the     *)
(* workers stay within MOTUZ_EC2_MAX_WORKERS, and none is cut off.         *)
(***************************************************************************)
EXTENDS Ec2Workers, FiniteSetTheorems, FunctionTheorems, SequenceTheorems, TLAPS

-----------------------------------------------------------------------------
(* The inductive invariant.                                                 *)

RowStates  == {"none", "failed"} \cup Opened \cup {"terminated"}
Instances  == [job : Jobs, attempt : {1, 2}, token : {"valid", "used", "expired"}, state : Alive \cup Ended,
               listed : BOOLEAN, reason : {"none", "capacity"}, age : Nat,
               agent : {"boot", "signed in", "working", "over"}]
Counters   == {"none", "rows", "known", "start", "run", "terminate", "record", "fallback", "fail"}

\* The types of machine, and what a pass has seen, are named as they come.
JobType  == job \in [Jobs -> [state : {"none", "QUEUED", "RUNNING", "DONE"}, runner : Nat]]
RowType  == \E types : row \in [Attempts -> [state : RowStates, inst : Nat, type : types, age : Nat]]
InstType == inst \in Seq(Instances)
Passes(views) == [kind : {"none", "reap", "dispatch"}, at : Attempts \cup {<<0, 0>>}, pc : Counters,
                  seen : views, todo : SUBSET Attempts, sure : BOOLEAN]
PassType ==
    /\ \E views : pass \in Passes(views)
    /\ (pass.pc = "none") <=> (pass.kind = "none")
    /\ pass.pc \notin {"none", "rows"} => pass.at \in Attempts
Ec2TypeOK == JobType /\ RowType /\ InstType /\ PassType

\* A row belongs to a job that was queued, and knows its own instance, unless it has none (yet).
Of(i) == <<inst[i].job, inst[i].attempt>>
RowTrue(r) ==
    /\ row[r].state # "none" => job[r[1]].state # "none"
    /\ row[r].state \in {"none", "launching", "failed"} <=> row[r].inst = 0
    /\ row[r].inst # 0 => row[r].inst \in DOMAIN inst /\ Of(row[r].inst) = r

\* What a row says of its instance is never ahead of it: one that stopped does not run again,
\* one that ended stays ended, and one that had no capacity was not shut down for its job.
RowNotAhead(r) ==
    LET i == row[r].inst IN
    /\ row[r].state \in {"stopping", "stopped"} => inst[i].state \notin {"pending", "running"}
    /\ row[r].state \in Ended => inst[i].state \in Ended
    /\ row[r].state = "shutting-down" /\ inst[i].reason = "capacity" => job[r[1]].state = "DONE"

\* The second attempt starts when the first has no instance any more.
NoInstance == {"failed"} \cup Ended
InTurn(j) == row[<<j, 2>>].state # "none" => row[<<j, 1>>].state \in NoInstance

\* An instance has a row, and is the only one of it. A worker that may sign in, or did, is one
\* that its row knows or still looks for.
RowFollows(i) == row[Of(i)].inst = i \/ row[Of(i)].state = "launching"
InstTrue(i) ==
    /\ row[Of(i)].state # "none"
    /\ \A k \in DOMAIN inst : Of(i) = Of(k) => i = k
    /\ ~inst[i].listed => inst[i].agent \in {"boot", "over"}
    /\ inst[i].agent = "boot" /\ inst[i].token = "valid" => RowFollows(i)
    /\ inst[i].agent \in {"signed in", "working"} => RowFollows(i)
    /\ inst[i].reason = "capacity" => inst[i].state = "terminated"

\* What a pass has seen is an older state of its instance, and whose instance it has not seen
\* has no worker that signs in before the pass ends.
SeenTrue ==
    /\ DOMAIN pass.seen \subseteq DOMAIN inst
    /\ \A i \in DOMAIN pass.seen :
          /\ pass.seen[i] \in Alive \cup Ended
          /\ pass.seen[i] \in {"stopping", "stopped"} => inst[i].state \notin {"pending", "running"}
          /\ pass.seen[i] \in Ended => inst[i].state \in Ended
          /\ pass.seen[i] = "shutting-down" => inst[i].reason # "capacity"
    /\ pass.kind # "none" =>
          \A i \in DOMAIN inst \ DOMAIN pass.seen : inst[i].agent \in {"boot", "over"}

\* The rows that are still to be looked at are open, and a row that looks for its instance is
\* among them if the instance was seen.
TodoTrue ==
    /\ \A r \in pass.todo :
          /\ row[r].state \in Opened
          /\ row[r].state = "shutting-down" /\ row[r].inst \in DOMAIN pass.seen
                => pass.seen[row[r].inst] \in Ended
    /\ pass.kind = "reap" =>
          \A i \in DOMAIN pass.seen : row[Of(i)].state = "launching" => Of(i) \in pass.todo

\* Where a pass is: why it starts an instance, terminates one, or tries again.
Justified(i) ==
    \/ job[inst[i].job].state \in {"QUEUED", "DONE"}
    \/ inst[i].age > MaxRuntime
    \/ inst[i].state \notin {"pending", "running"}
PassTrue ==
    LET r == pass.at IN
    /\ pass.pc \in {"start", "run"} =>
          row[r].state = "launching" /\ \A i \in DOMAIN pass.seen : Of(i) # r
    /\ pass.pc = "known" => r \in pass.todo /\ (row[r].state # "launching" \/ SeenFor(r) # {})
    /\ pass.pc \in {"terminate", "record"} => row[r].state \in Alive
    /\ pass.pc = "terminate" => Justified(row[r].inst)
    /\ pass.pc = "record" /\ pass.sure => inst[row[r].inst].state \in Ended
    /\ pass.pc \in {"fallback", "fail"} => row[r].state \in NoInstance
    /\ pass.pc = "fallback" => r[2] = 1

\* A slot is taken by every row that may have an instance, and kept for the attempt that a
\* pass is about to make in place of one.
Begun      == {r \in Attempts : row[r].state # "none"}
ActiveRows == {r \in Attempts : row[r].state \in Active}
Kept       == IF pass.pc = "fallback" THEN 1 ELSE 0
SlotsTrue  == IsFiniteSet(Begun) /\ Cardinality(ActiveRows) + Kept =< MaxWorkers

Ec2Inv ==
    /\ Ec2TypeOK
    /\ \A r \in Attempts : RowTrue(r) /\ RowNotAhead(r)
    /\ \A j \in Jobs : InTurn(j)
    /\ \A i \in DOMAIN inst : InstTrue(i)
    /\ SeenTrue
    /\ TodoTrue
    /\ PassTrue
    /\ SlotsTrue
    /\ WorkIsNotCut

-----------------------------------------------------------------------------
(* What a step does to jobs, rows and instances.                            *)

\* A job that was queued stays known, and one that has ended stays ended; a pass that
\* terminates its instance keeps it from being claimed.
JobMoves(j) ==
    /\ job[j].state # "none" => job'[j].state # "none"
    /\ job[j].state = "DONE" => job'[j].state = "DONE"
    /\ pass.pc = "terminate" /\ pass.at[1] = j /\ job[j].state \in {"QUEUED", "DONE"}
          => job'[j].state \in {"QUEUED", "DONE"}
JobsMove == JobType' /\ \A j \in Jobs : JobMoves(j)

\* An instance goes on: it ages, stops for good, signs in with the token it has.
InstMoves(i) ==
    /\ Of(i)' = Of(i)
    /\ inst[i].state \notin {"pending", "running"} => inst'[i].state \notin {"pending", "running"}
    /\ inst[i].state \in Ended => inst'[i].state \in Ended
    /\ inst[i].age > MaxRuntime => inst'[i].age > MaxRuntime
    /\ ~inst'[i].listed => inst'[i].agent \in {"boot", "over"}
    /\ inst'[i].agent = "boot" /\ inst'[i].token = "valid" => inst[i].agent = "boot" /\ inst[i].token = "valid"
    /\ inst'[i].agent \in {"signed in", "working"} =>
          \/ inst[i].agent \in {"signed in", "working"}
          \/ inst[i].agent = "boot" /\ inst[i].token = "valid"
    /\ inst'[i].reason = "capacity" => /\ inst'[i].state = "terminated"
                                       /\ inst[i].reason = "capacity" \/ inst[i].state \in {"pending", "running"}
    /\ pass.kind # "none" /\ i \notin DOMAIN pass.seen /\ inst[i].agent \in {"boot", "over"}
          => inst'[i].agent \in {"boot", "over"}
\* Instances go on, and a new one may be started.
InstsMove ==
    /\ InstType' /\ DOMAIN inst \subseteq DOMAIN inst'
    /\ \A i \in DOMAIN inst : InstMoves(i)
    /\ \A i \in DOMAIN inst' \ DOMAIN inst : InstTrue(i)' /\ inst'[i].agent = "boot"

\* A row stays with its instance, or is written: then nobody that signs in is lost by it.
SameRow(r) == row'[r].state = row[r].state /\ row'[r].inst = row[r].inst
SignsIn(i) ==
    \/ inst[i].agent = "boot" /\ inst[i].token = "valid"
    \/ inst[i].agent \in {"signed in", "working"}
Written(r) ==
    /\ row'[r].state # "none" /\ RowTrue(r)' /\ RowNotAhead(r)'
    /\ \A i \in DOMAIN inst : Of(i) = r /\ SignsIn(i)' => RowFollows(i)'
    /\ row[<<r[1], 2>>].state # "none" /\ r[2] = 1 => row'[r].state \in NoInstance
    /\ row[r].state = "none" /\ r[2] = 2 => row'[<<r[1], 1>>].state \in NoInstance
RowsMove == RowType' /\ \A r \in Attempts : SameRow(r) \/ Written(r)

-----------------------------------------------------------------------------
(* Sequences of instances and records of rows.                              *)

LEMMA InstanceShape ==
    ASSUME InstType PROVE  /\ Len(inst) \in Nat /\ DOMAIN inst = 1 .. Len(inst)
                           /\ 0 \notin DOMAIN inst
                           /\ \A i \in DOMAIN inst : /\ inst[i] \in Instances /\ Of(i) \in Attempts
                                                     /\ inst[i].age \in Nat
<1>1. Len(inst) \in Nat /\ DOMAIN inst = 1 .. Len(inst) /\ \A i \in DOMAIN inst : inst[i] \in Instances
  BY DEF InstType
<1>2. ASSUME NEW i \in DOMAIN inst PROVE Of(i) \in Attempts /\ inst[i].age \in Nat
  BY <1>1 DEF Instances, Of, Attempts
<1> QED BY <1>1, <1>2

\* A function over the same numbers is a sequence.
LEMMA SameLength ==
    ASSUME NEW S, NEW s \in Seq(S), NEW t, t = [i \in DOMAIN s |-> t[i]], \A i \in DOMAIN s : t[i] \in S
    PROVE  t \in Seq(S) /\ DOMAIN t = DOMAIN s
<1>1. DOMAIN s = 1 .. Len(s) /\ Len(s) \in Nat
  OBVIOUS
<1>2. t \in [1 .. Len(s) -> S]
  BY <1>1
<1> QED BY <1>1, <1>2

\* An instance that stays as it is.
LEMMA InstStays ==
    ASSUME NEW i \in DOMAIN inst, InstType, InstTrue(i), inst'[i] = inst[i] PROVE InstMoves(i)
<1>1. Of(i)' = Of(i)
  BY DEF Of
<1>2. inst[i].age > MaxRuntime => inst'[i].age > MaxRuntime
  OBVIOUS
<1>3. ~inst'[i].listed => inst'[i].agent \in {"boot", "over"}
  BY DEF InstTrue
<1>4. inst'[i].reason = "capacity" => inst'[i].state = "terminated"
  BY DEF InstTrue
<1> QED BY <1>1, <1>2, <1>3, <1>4 DEF InstMoves

\* One instance changes.
LEMMA OneMoves ==
    ASSUME InstType, \A k \in DOMAIN inst : InstTrue(k), NEW i \in DOMAIN inst, NEW x \in Instances,
           inst' = [inst EXCEPT ![i] = x], InstMoves(i)
    PROVE  InstsMove /\ DOMAIN inst' = DOMAIN inst
<1>1. inst' = [k \in DOMAIN inst |-> inst'[k]] /\ \A k \in DOMAIN inst : inst'[k] = IF k = i THEN x ELSE inst[k]
  OBVIOUS
<1>2. \A k \in DOMAIN inst : inst'[k] \in Instances
  BY <1>1, InstanceShape
<1>3. InstType' /\ DOMAIN inst' = DOMAIN inst
  BY <1>1, <1>2, SameLength DEF InstType
<1>4. ASSUME NEW k \in DOMAIN inst, k # i PROVE InstMoves(k)
  BY <1>1, <1>4, InstStays
<1> QED BY <1>3, <1>4 DEF InstsMove

\* Nothing happens to the instances.
LEMMA NoneMoves ==
    ASSUME InstType, \A k \in DOMAIN inst : InstTrue(k), UNCHANGED inst PROVE InstsMove
<1>1. ASSUME NEW k \in DOMAIN inst PROVE InstMoves(k)
  BY InstStays
<1> QED BY <1>1 DEF InstsMove, InstType

\* The token of a row's instance is made invalid.
LEMMA ExpiredMoves ==
    ASSUME InstType, \A k \in DOMAIN inst : InstTrue(k), NEW r, inst' = Expired(r)
    PROVE  /\ InstsMove /\ DOMAIN inst' = DOMAIN inst
           /\ \A i \in DOMAIN inst : /\ inst'[i].agent = inst[i].agent /\ inst'[i].state = inst[i].state
                                     /\ inst'[i].reason = inst[i].reason /\ inst'[i].age = inst[i].age
                                     /\ Of(i)' = Of(i)
                                     /\ Of(i) = r => inst'[i].token # "valid"
<1>1. inst' = [i \in DOMAIN inst |-> inst'[i]]
  BY DEF Expired
<1>2. ASSUME NEW i \in DOMAIN inst
      PROVE  /\ inst'[i] \in Instances
             /\ inst'[i].token # "valid" \/ (Of(i) # r /\ inst'[i].token = inst[i].token)
             /\ inst'[i].agent = inst[i].agent /\ inst'[i].state = inst[i].state
             /\ inst'[i].reason = inst[i].reason /\ inst'[i].age = inst[i].age
             /\ inst'[i].listed = inst[i].listed
             /\ Of(i)' = Of(i)
  <2>1. inst[i] \in Instances
    BY InstanceShape
  <2>2. inst'[i] = IF Of(i) = r /\ inst[i].token = "valid" THEN [inst[i] EXCEPT !.token = "expired"] ELSE inst[i]
    BY DEF Expired, Started, Of
  <2>3. CASE Of(i) = r /\ inst[i].token = "valid"
    <3>1. inst'[i] = [inst[i] EXCEPT !.token = "expired"]
      BY <2>2, <2>3
    <3>2. /\ inst'[i] \in Instances /\ inst'[i].token = "expired"
          /\ inst'[i].agent = inst[i].agent /\ inst'[i].state = inst[i].state
          /\ inst'[i].reason = inst[i].reason /\ inst'[i].age = inst[i].age
          /\ inst'[i].listed = inst[i].listed
          /\ inst'[i].job = inst[i].job /\ inst'[i].attempt = inst[i].attempt
      BY <2>1, <3>1 DEF Instances
    <3>3. Of(i)' = Of(i)
      BY <3>2 DEF Of
    <3> QED BY <3>2, <3>3
  <2>4. CASE ~(Of(i) = r /\ inst[i].token = "valid")
    <3>1. inst'[i] = inst[i]
      BY <2>2, <2>4
    <3> QED BY <2>1, <2>4, <3>1 DEF Of
  <2> QED BY <2>3, <2>4
<1>3. InstType' /\ DOMAIN inst' = DOMAIN inst
  BY <1>1, <1>2, SameLength DEF InstType
<1>4. ASSUME NEW i \in DOMAIN inst PROVE InstMoves(i)
  <2>1. inst[i].age > MaxRuntime => inst'[i].age > MaxRuntime
    BY <1>2
  <2>2. /\ ~inst[i].listed => inst[i].agent \in {"boot", "over"}
        /\ inst[i].reason = "capacity" => inst[i].state = "terminated"
    BY DEF InstTrue
  <2> QED BY <1>2, <2>1, <2>2 DEF InstMoves
<1> QED BY <1>2, <1>3, <1>4 DEF InstsMove

-----------------------------------------------------------------------------
(* What each part of the invariant asks of a step.                          *)

\* An instance is the one its row knows or, while the row looks for it, the only one started.
LEMMA RowUse ==
    ASSUME Ec2Inv, NEW r \in Attempts
    PROVE  /\ row[r].state \in RowStates /\ row[r].inst \in Nat
           /\ row[r].state \notin {"none", "launching", "failed"} =>
                 row[r].inst \in DOMAIN inst /\ Of(row[r].inst) = r
           /\ r = <<r[1], r[2]>> /\ r[1] \in Jobs /\ r[2] \in {1, 2}
<1>1. row[r].state \in RowStates /\ row[r].inst \in Nat
  BY DEF Ec2Inv, Ec2TypeOK, RowType
<1>2. RowTrue(r)
  BY DEF Ec2Inv
<1>3. r = <<r[1], r[2]>> /\ r[1] \in Jobs /\ r[2] \in {1, 2}
  BY DEF Attempts
<1> QED BY <1>1, <1>2, <1>3 DEF RowTrue

LEMMA RowsCore ==
    ASSUME Ec2Inv, JobsMove, InstsMove, RowsMove
    PROVE  \A r \in Attempts : RowTrue(r)' /\ RowNotAhead(r)'
<1> SUFFICES ASSUME NEW r \in Attempts PROVE RowTrue(r)' /\ RowNotAhead(r)'
  OBVIOUS
<1>1. CASE Written(r)
  BY <1>1 DEF Written
<1>2. CASE SameRow(r)
  <2>1. RowTrue(r) /\ RowNotAhead(r) /\ r[1] \in Jobs /\ JobMoves(r[1])
    BY RowUse DEF Ec2Inv, JobsMove
  <2>2. ASSUME row[r].inst # 0
        PROVE  row[r].inst \in DOMAIN inst /\ Of(row[r].inst) = r /\ InstMoves(row[r].inst)
    BY <2>1, <2>2 DEF RowTrue, InstsMove
  <2>3. RowTrue(r)'
    <3>1. row'[r].inst # 0 => row'[r].inst \in DOMAIN inst' /\ Of(row[r].inst)' = r
      BY <1>2, <2>2 DEF SameRow, InstMoves, InstsMove, Of
    <3> QED BY <1>2, <2>1, <3>1 DEF SameRow, RowTrue, JobMoves
  <2>4. RowNotAhead(r)'
    <3>1. CASE row[r].inst = 0
      BY <1>2, <2>1, <3>1 DEF SameRow, RowTrue, RowNotAhead, Ended
    <3>2. CASE row[r].inst # 0
      <4>1. /\ row[r].state \in {"stopping", "stopped"} => inst'[row[r].inst].state \notin {"pending", "running"}
            /\ row[r].state \in Ended => inst'[row[r].inst].state \in Ended
        BY <2>1, <2>2, <3>2 DEF RowNotAhead, InstMoves
      <4>2. ASSUME row[r].state = "shutting-down", inst'[row[r].inst].reason = "capacity"
            PROVE  job'[r[1]].state = "DONE"
        BY <2>1, <2>2, <3>2, <4>2 DEF RowNotAhead, InstMoves, JobMoves, Ended
      <4> QED BY <1>2, <4>1, <4>2 DEF SameRow, RowNotAhead
    <3> QED BY <3>1, <3>2
  <2> QED BY <2>3, <2>4
<1> QED BY <1>1, <1>2 DEF RowsMove

LEMMA TurnsCore ==
    ASSUME Ec2Inv, RowsMove PROVE \A j \in Jobs : InTurn(j)'
<1> SUFFICES ASSUME NEW j \in Jobs, row'[<<j, 2>>].state # "none" PROVE row'[<<j, 1>>].state \in NoInstance
  BY DEF InTurn
<1>1. InTurn(j) /\ <<j, 1>> \in Attempts /\ <<j, 2>> \in Attempts
  BY DEF Ec2Inv, Attempts
<1>2. CASE row[<<j, 2>>].state # "none"
  <2>1. SameRow(<<j, 1>>) \/ Written(<<j, 1>>)
    BY <1>1 DEF RowsMove
  <2> QED BY <1>1, <1>2, <2>1 DEF InTurn, SameRow, Written
<1>3. CASE row[<<j, 2>>].state = "none"
  <2>1. Written(<<j, 2>>)
    BY <1>1, <1>3 DEF RowsMove, SameRow
  <2> QED BY <1>3, <2>1 DEF Written
<1> QED BY <1>2, <1>3

LEMMA InstsCore ==
    ASSUME Ec2Inv, InstsMove, RowsMove PROVE \A i \in DOMAIN inst' : InstTrue(i)'
<1> SUFFICES ASSUME NEW i \in DOMAIN inst, InstMoves(i) PROVE InstTrue(i)'
  BY DEF InstsMove
<1>1. /\ row[Of(i)].state # "none"
      /\ \A k \in DOMAIN inst : Of(i) = Of(k) => i = k
      /\ SignsIn(i) => RowFollows(i)
  BY DEF Ec2Inv, InstTrue, SignsIn
<1>2. Of(i) \in Attempts /\ Of(i)' = Of(i)
  BY InstanceShape DEF InstMoves, Ec2Inv, Ec2TypeOK
<1>3. row'[Of(i)].state # "none"
  BY <1>1, <1>2 DEF RowsMove, SameRow, Written
<1>4. ASSUME NEW k \in DOMAIN inst', Of(i)' = Of(k)' PROVE i = k
  <2>1. CASE k \in DOMAIN inst
    BY <1>1, <1>2, <1>4, <2>1 DEF InstsMove, InstMoves
  <2>2. CASE k \notin DOMAIN inst
    <3>1. InstTrue(k)' /\ i \in DOMAIN inst'
      BY <2>2 DEF InstsMove
    <3> QED BY <1>4, <3>1 DEF InstTrue
  <2> QED BY <2>1, <2>2
<1>5. SignsIn(i)' => RowFollows(i)'
  <2> SUFFICES ASSUME SignsIn(i)' PROVE RowFollows(i)'
    OBVIOUS
  <2>1. SignsIn(i)
    BY DEF SignsIn, InstMoves
  <2>2. CASE SameRow(Of(i))
    BY <1>1, <1>2, <2>1, <2>2 DEF SameRow, RowFollows
  <2>3. CASE Written(Of(i))
    BY <2>3 DEF Written
  <2> QED BY <1>2, <2>2, <2>3 DEF RowsMove
<1>6. /\ ~inst'[i].listed => inst'[i].agent \in {"boot", "over"}
      /\ inst'[i].reason = "capacity" => inst'[i].state = "terminated"
  BY DEF InstMoves
<1> QED BY <1>2, <1>3, <1>4, <1>5, <1>6 DEF InstTrue, SignsIn

\* A pass that goes on with what it has seen.
LEMMA SeenCore ==
    ASSUME Ec2Inv, InstsMove, pass'.seen = pass.seen, pass'.kind = pass.kind PROVE SeenTrue'
<1>1. SeenTrue
  BY DEF Ec2Inv
<1>2. DOMAIN pass'.seen \subseteq DOMAIN inst'
  BY <1>1 DEF SeenTrue, InstsMove
<1>3. ASSUME NEW i \in DOMAIN pass.seen
      PROVE  /\ pass.seen[i] \in Alive \cup Ended
             /\ pass.seen[i] \in {"stopping", "stopped"} => inst'[i].state \notin {"pending", "running"}
             /\ pass.seen[i] \in Ended => inst'[i].state \in Ended
             /\ pass.seen[i] = "shutting-down" => inst'[i].reason # "capacity"
  <2>1. i \in DOMAIN inst /\ InstMoves(i)
    BY <1>1 DEF SeenTrue, InstsMove
  <2>2. /\ pass.seen[i] \in Alive \cup Ended
        /\ pass.seen[i] \in {"stopping", "stopped"} => inst[i].state \notin {"pending", "running"}
        /\ pass.seen[i] \in Ended => inst[i].state \in Ended
        /\ pass.seen[i] = "shutting-down" => inst[i].reason # "capacity"
    BY <1>1 DEF SeenTrue
  <2>3. pass.seen[i] = "shutting-down" => inst[i].state \notin {"pending", "running"}
    BY <2>2 DEF Ended
  <2> QED BY <2>1, <2>2, <2>3 DEF InstMoves
<1>4. ASSUME pass.kind # "none", NEW i \in DOMAIN inst' \ DOMAIN pass.seen
      PROVE  inst'[i].agent \in {"boot", "over"}
  <2>1. CASE i \in DOMAIN inst
    <3>1. inst[i].agent \in {"boot", "over"} /\ InstMoves(i)
      BY <1>1, <1>4, <2>1 DEF SeenTrue, InstsMove
    <3> QED BY <1>4, <3>1 DEF InstMoves
  <2>2. CASE i \notin DOMAIN inst
    BY <2>2 DEF InstsMove
  <2> QED BY <2>1, <2>2
<1> QED BY <1>2, <1>3, <1>4 DEF SeenTrue

\* A pass that has done with some rows: of those it writes, none is one it has still to look at.
LEMMA TodoCore ==
    ASSUME Ec2Inv, InstsMove, pass'.seen = pass.seen, pass'.kind = pass.kind,
           pass'.todo \subseteq pass.todo,
           \A r \in Attempts : \/ SameRow(r) /\ (r \in pass.todo => r \in pass'.todo)
                               \/ /\ r \in pass'.todo => row'[r].state \in Alive
                                  /\ row'[r].state = "launching" => \A i \in DOMAIN pass.seen : Of(i) # r
    PROVE  TodoTrue'
<1>1. TodoTrue /\ SeenTrue
  BY DEF Ec2Inv
<1>2. \A r \in pass.todo : r \in Attempts
  BY DEF Ec2Inv, Ec2TypeOK, PassType, Passes
<1>3. \A i \in DOMAIN pass.seen : i \in DOMAIN inst /\ Of(i)' = Of(i) /\ Of(i) \in Attempts
  BY <1>1, InstanceShape DEF SeenTrue, InstsMove, InstMoves, Ec2Inv, Ec2TypeOK
<1>4. ASSUME NEW r \in pass'.todo
      PROVE  /\ row'[r].state \in Opened
             /\ row'[r].state = "shutting-down" /\ row'[r].inst \in DOMAIN pass.seen
                   => pass.seen[row'[r].inst] \in Ended
  <2>1. r \in pass.todo /\ r \in Attempts
    BY <1>2
  <2>2. CASE SameRow(r)
    BY <1>1, <2>1, <2>2 DEF TodoTrue, SameRow
  <2>3. CASE row'[r].state \in Alive
    BY <2>3 DEF Alive, Opened, Active
  <2> QED BY <2>1, <2>2, <2>3
<1>5. ASSUME pass.kind = "reap", NEW i \in DOMAIN pass.seen, row'[Of(i)].state = "launching"
      PROVE  Of(i) \in pass'.todo
  BY <1>1, <1>3, <1>5 DEF TodoTrue, SameRow
<1> QED BY <1>3, <1>4, <1>5 DEF TodoTrue

-----------------------------------------------------------------------------
(* Slots.                                                                   *)

LEMMA SlotsFinite ==
    ASSUME SlotsTrue
    PROVE  /\ ActiveRows \subseteq Begun /\ IsFiniteSet(ActiveRows) /\ Cardinality(ActiveRows) \in Nat
           /\ Kept \in {0, 1} /\ MaxWorkers \in Nat
<1>1. ActiveRows \subseteq Begun
  BY DEF ActiveRows, Begun, Active, Alive
<1>2. IsFiniteSet(ActiveRows)
  BY <1>1, FS_Subset DEF SlotsTrue
<1> QED BY <1>1, <1>2, FS_CardinalityType, Ec2Assumption DEF Kept

\* No row is added.
LEMMA SlotsLess ==
    ASSUME SlotsTrue, ActiveRows' \subseteq ActiveRows, Begun' \subseteq Begun, Kept' \in {0, Kept}
    PROVE  SlotsTrue'
<1>1. Cardinality(ActiveRows') =< Cardinality(ActiveRows) /\ Cardinality(ActiveRows') \in Nat
  BY SlotsFinite, FS_Subset, FS_CardinalityType
<1>2. IsFiniteSet(Begun')
  BY FS_Subset DEF SlotsTrue
<1>3. Kept' =< Kept /\ Kept' \in Nat /\ Kept \in Nat
  BY SlotsFinite
<1>4. Cardinality(ActiveRows') + Kept' =< MaxWorkers
  BY <1>1, <1>3, SlotsFinite DEF SlotsTrue
<1> QED BY <1>2, <1>4 DEF SlotsTrue

\* A row is active no longer: its slot may be kept for the next attempt.
LEMMA SlotFreed ==
    ASSUME SlotsTrue, NEW r \in ActiveRows, ActiveRows' \subseteq ActiveRows \ {r}, Begun' \subseteq Begun
    PROVE  SlotsTrue'
<1>1. Cardinality(ActiveRows \ {r}) = Cardinality(ActiveRows) - 1 /\ IsFiniteSet(ActiveRows \ {r})
  BY SlotsFinite, FS_RemoveElement
<1>2. Cardinality(ActiveRows') =< Cardinality(ActiveRows \ {r}) /\ Cardinality(ActiveRows') \in Nat
  BY <1>1, FS_Subset, FS_CardinalityType
<1>3. IsFiniteSet(Begun')
  BY FS_Subset DEF SlotsTrue
<1>4. Kept' \in {0, 1}
  BY DEF Kept
<1>5. Cardinality(ActiveRows') + Kept' =< MaxWorkers
  BY <1>1, <1>2, <1>4, SlotsFinite DEF SlotsTrue
<1> QED BY <1>3, <1>5 DEF SlotsTrue

\* A slot is taken, if there is one.
LEMMA SlotTaken ==
    ASSUME SlotsTrue, NEW r, Cardinality(ActiveRows) < MaxWorkers, ActiveRows' \subseteq ActiveRows \cup {r},
           Begun' \subseteq Begun \cup {r}, Kept' = 0
    PROVE  SlotsTrue'
<1>1. Cardinality(ActiveRows \cup {r}) =< Cardinality(ActiveRows) + 1 /\ IsFiniteSet(ActiveRows \cup {r})
  BY SlotsFinite, FS_AddElement
<1>2. Cardinality(ActiveRows') =< Cardinality(ActiveRows \cup {r}) /\ Cardinality(ActiveRows') \in Nat
  BY <1>1, FS_Subset, FS_CardinalityType
<1>3. Cardinality(ActiveRows \cup {r}) \in Nat
  BY <1>1, FS_CardinalityType
<1>4. IsFiniteSet(Begun')
  <2>1. IsFiniteSet(Begun \cup {r})
    BY FS_AddElement DEF SlotsTrue
  <2> QED BY <2>1, FS_Subset
<1>5. Cardinality(ActiveRows') + Kept' =< MaxWorkers
  BY <1>1, <1>2, <1>3, SlotsFinite DEF SlotsTrue
<1> QED BY <1>4, <1>5 DEF SlotsTrue

\* Rows that stay as they are keep their slots.
LEMMA SameSlots ==
    ASSUME NEW r \in Attempts, SameRow(r)
    PROVE  /\ r \in ActiveRows' <=> r \in ActiveRows
           /\ r \in Begun' <=> r \in Begun
BY DEF SameRow, ActiveRows, Begun

-----------------------------------------------------------------------------
(* The start, and the steps that no pass makes.                             *)

LEMMA Ec2InitInv == Ec2Init => Ec2Inv
<1> SUFFICES ASSUME Ec2Init PROVE Ec2Inv
  OBVIOUS
<1>1. \A r \in Attempts : row[r].state = "none" /\ row[r].inst = 0
  BY DEF Ec2Init, NoRow
<1>2. inst = << >> /\ DOMAIN inst = {} /\ DOMAIN pass.seen = {}
  BY DEF Ec2Init, NoPass
<1>3. Ec2TypeOK
  <2>1. JobType
    BY DEF Ec2Init, JobType
  <2>2. RowType
    <3>1. row \in [Attempts -> [state : RowStates, inst : Nat, type : {"none"}, age : Nat]]
      BY DEF Ec2Init, NoRow, RowStates
    <3> QED BY <3>1 DEF RowType
  <2>3. InstType
    BY <1>2 DEF InstType
  <2>4. PassType
    <3>1. pass \in Passes({pass.seen})
      BY DEF Ec2Init, NoPass, Counters, Passes
    <3> QED BY <3>1 DEF PassType, Ec2Init, NoPass
  <2> QED BY <2>1, <2>2, <2>3, <2>4 DEF Ec2TypeOK
<1>4. \A r \in Attempts : RowTrue(r) /\ RowNotAhead(r)
  BY <1>1 DEF RowTrue, RowNotAhead, Ended
<1>5. \A j \in Jobs : InTurn(j)
  <2> SUFFICES ASSUME NEW j \in Jobs PROVE InTurn(j)
    OBVIOUS
  <2>1. <<j, 2>> \in Attempts
    BY DEF Attempts
  <2> QED BY <1>1, <2>1 DEF InTurn
<1>6. SeenTrue /\ TodoTrue /\ PassTrue
  <2>1. pass.pc = "none" /\ pass.kind = "none" /\ pass.todo = {}
    BY DEF Ec2Init, NoPass
  <2> QED BY <1>2, <2>1 DEF SeenTrue, TodoTrue, PassTrue
<1>7. SlotsTrue
  <2>1. Begun = {} /\ ActiveRows = {} /\ Kept = 0
    BY <1>1 DEF Begun, ActiveRows, Active, Alive, Kept, Ec2Init, NoPass
  <2> QED BY <2>1, FS_EmptySet, Ec2Assumption DEF SlotsTrue
<1> QED BY <1>2, <1>3, <1>4, <1>5, <1>6, <1>7 DEF Ec2Inv, WorkIsNotCut, Ec2Init

\* What the pass has seen of a row's instance.
LEMMA SeenForRow == ASSUME Ec2Inv, NEW r PROVE SeenFor(r) = {i \in DOMAIN pass.seen : Of(i) = r}
BY DEF Ec2Inv, SeenTrue, SeenFor, Started, Of

\* The reason to terminate an instance stays one.
LEMMA ReasonStays ==
    ASSUME Ec2Inv, InstsMove, JobsMove, pass.pc = "terminate", \A r \in Attempts : SameRow(r), UNCHANGED pass
    PROVE  Justified(row[pass.at].inst)'
<1>1. pass.at \in Attempts /\ row[pass.at].state \in Alive /\ Justified(row[pass.at].inst)
  BY DEF Ec2Inv, PassTrue, Ec2TypeOK, PassType
<1> DEFINE i == row[pass.at].inst
<1>2. i \in DOMAIN inst /\ Of(i) = pass.at
  BY <1>1, RowUse DEF Alive
<1>3. inst[i].job = pass.at[1] /\ pass.at[1] \in Jobs
  BY <1>1, <1>2, RowUse DEF Of
<1>4. InstMoves(i) /\ JobMoves(pass.at[1])
  BY <1>2, <1>3 DEF InstsMove, JobsMove
<1>5. row'[pass'.at].inst = i /\ inst'[i].job = inst[i].job
  BY <1>1, <1>4 DEF SameRow, InstMoves, Of
<1>6. inst[i].age > MaxRuntime => inst'[i].age > MaxRuntime
  BY <1>4 DEF InstMoves
<1> QED BY <1>1, <1>3, <1>4, <1>5, <1>6 DEF Justified, JobMoves, InstMoves

\* Jobs and instances go on while no row is written and the pass, if there is one, stays where
\* it is.
LEMMA QuietStep ==
    ASSUME Ec2Inv, JobsMove, InstsMove, RowType', \A r \in Attempts : SameRow(r), UNCHANGED <<pass, cut>>
    PROVE  Ec2Inv'
<1>1. RowsMove
  BY DEF RowsMove
<1>2. PassType'
  BY DEF Ec2Inv, Ec2TypeOK, PassType
<1>3. SeenTrue'
  BY SeenCore
<1>4. TodoTrue'
  BY TodoCore
<1>5. PassTrue'
  <2>1. PassTrue /\ pass.pc \notin {"none", "rows"} => pass.at \in Attempts /\ SameRow(pass.at)
    BY DEF Ec2Inv, Ec2TypeOK, PassType
  <2>2. \A i \in DOMAIN pass.seen : i \in DOMAIN inst /\ Of(i)' = Of(i)
    BY DEF Ec2Inv, SeenTrue, InstsMove, InstMoves
  <2>3. \A r : SeenFor(r)' = SeenFor(r)
    <3>1. DOMAIN inst \subseteq DOMAIN inst'
      BY DEF InstsMove
    <3> QED BY <2>2, <3>1 DEF SeenFor, Started, Of
  <2>4. pass.pc = "record" /\ pass.sure => inst'[row[pass.at].inst].state \in Ended
    <3> SUFFICES ASSUME pass.pc = "record", pass.sure PROVE inst'[row[pass.at].inst].state \in Ended
      OBVIOUS
    <3>1. pass.at \in Attempts /\ row[pass.at].state \in Alive /\ inst[row[pass.at].inst].state \in Ended
      BY <2>1 DEF PassTrue, Ec2Inv
    <3>2. row[pass.at].inst \in DOMAIN inst
      BY <3>1, RowUse DEF Alive
    <3> QED BY <3>1, <3>2 DEF InstsMove, InstMoves
  <2>5. pass.pc = "terminate" => Justified(row[pass.at].inst)'
    BY ReasonStays
  <2> QED BY <2>1, <2>2, <2>3, <2>4, <2>5 DEF Ec2Inv, PassTrue, SameRow
<1>6. SlotsTrue'
  <2>1. SlotsTrue /\ ActiveRows' \subseteq ActiveRows /\ Begun' \subseteq Begun
    BY SameSlots DEF Ec2Inv, ActiveRows, Begun
  <2>2. Kept' = Kept
    BY DEF Kept
  <2> QED BY <2>1, <2>2, SlotsLess
<1>7. Ec2TypeOK'
  BY <1>2 DEF JobsMove, InstsMove, Ec2TypeOK
<1>8. WorkIsNotCut'
  BY DEF Ec2Inv, WorkIsNotCut
<1> QED BY <1>1, <1>3, <1>4, <1>5, <1>6, <1>7, <1>8, RowsCore, TurnsCore, InstsCore DEF Ec2Inv

-----------------------------------------------------------------------------
(* Jobs, instances and their workers, outside of passes.                    *)

LEMMA JobsStay == ASSUME Ec2Inv, UNCHANGED job PROVE JobsMove
BY DEF Ec2Inv, Ec2TypeOK, JobType, JobsMove, JobMoves

LEMMA RowsStay == ASSUME Ec2Inv, UNCHANGED row PROVE RowType' /\ RowsMove /\ \A r \in Attempts : SameRow(r)
BY DEF Ec2Inv, Ec2TypeOK, RowType, RowsMove, SameRow

LEMMA InstsStay == ASSUME Ec2Inv, UNCHANGED inst PROVE InstsMove
BY NoneMoves DEF Ec2Inv, Ec2TypeOK

\* The state of one job changes.
LEMMA OneJob ==
    ASSUME Ec2Inv, NEW j \in Jobs, NEW state \in {"QUEUED", "RUNNING", "DONE"}, NEW runner \in Nat,
           job' = [job EXCEPT ![j] = [state |-> state, runner |-> runner]],
           job[j].state # "DONE" \/ state = "DONE",
           (pass.pc = "terminate" /\ pass.at[1] = j /\ job[j].state \in {"QUEUED", "DONE"}) => state # "RUNNING"
    PROVE  JobsMove
<1>1. job \in [Jobs -> [state : {"none", "QUEUED", "RUNNING", "DONE"}, runner : Nat]]
  BY DEF Ec2Inv, Ec2TypeOK, JobType
<1>2. JobType' /\ job'[j].state = state /\ \A k \in Jobs : k # j => job'[k] = job[k]
  BY <1>1 DEF JobType
<1> QED BY <1>2 DEF JobsMove, JobMoves
LEMMA OneState ==
    ASSUME Ec2Inv, NEW j \in Jobs, NEW state \in {"QUEUED", "RUNNING", "DONE"},
           job' = [job EXCEPT ![j].state = state],
           job[j].state # "DONE" \/ state = "DONE",
           (pass.pc = "terminate" /\ pass.at[1] = j /\ job[j].state \in {"QUEUED", "DONE"}) => state # "RUNNING"
    PROVE  JobsMove
<1>1. job \in [Jobs -> [state : {"none", "QUEUED", "RUNNING", "DONE"}, runner : Nat]]
  BY DEF Ec2Inv, Ec2TypeOK, JobType
<1>2. /\ job[j].runner \in Nat
      /\ [job[j] EXCEPT !.state = state] = [state |-> state, runner |-> job[j].runner]
  BY <1>1
<1>3. job' = [job EXCEPT ![j] = [state |-> state, runner |-> job[j].runner]]
  <2>1. job' = [job EXCEPT ![j] = [job[j] EXCEPT !.state = state]]
    OBVIOUS
  <2> QED BY <1>2, <2>1
<1>4. job[j].runner \in Nat
  BY <1>2
<1> QED BY <1>3, <1>4, OneJob

LEMMA QueueJobInv == ASSUME NEW j \in Jobs PROVE Ec2Inv /\ QueueJob(j) => Ec2Inv'
<1> SUFFICES ASSUME Ec2Inv, QueueJob(j) PROVE Ec2Inv'
  OBVIOUS
<1>1. JobsMove
  BY OneState DEF QueueJob
<1> QED BY <1>1, InstsStay, RowsStay, QuietStep DEF QueueJob

LEMMA StopJobInv == ASSUME NEW j \in Jobs PROVE Ec2Inv /\ StopJob(j) => Ec2Inv'
<1> SUFFICES ASSUME Ec2Inv, StopJob(j) PROVE Ec2Inv'
  OBVIOUS
<1>1. JobsMove
  BY OneState DEF StopJob
<1> QED BY <1>1, InstsStay, RowsStay, QuietStep DEF StopJob

LEMMA LeaseExpiresInv == ASSUME NEW j \in Jobs PROVE Ec2Inv /\ LeaseExpires(j) => Ec2Inv'
<1> SUFFICES ASSUME Ec2Inv, LeaseExpires(j) PROVE Ec2Inv'
  OBVIOUS
<1>1. JobsMove
  BY OneState DEF LeaseExpires
<1> QED BY <1>1, InstsStay, RowsStay, QuietStep DEF LeaseExpires

\* One instance gets another state, worker, token or reason, or is listed.
LEMMA OneInstance ==
    ASSUME Ec2Inv, NEW i \in DOMAIN inst, NEW x,
           inst' = [inst EXCEPT ![i] = x], x \in Instances,
           x.job = inst[i].job, x.attempt = inst[i].attempt, x.age = inst[i].age,
           inst[i].state \notin {"pending", "running"} => x.state \notin {"pending", "running"},
           inst[i].state \in Ended => x.state \in Ended,
           ~x.listed => x.agent \in {"boot", "over"},
           x.agent = "boot" /\ x.token = "valid" => inst[i].agent = "boot" /\ inst[i].token = "valid",
           x.agent \in {"signed in", "working"} => SignsIn(i),
           x.reason = "capacity" => /\ x.state = "terminated"
                                    /\ inst[i].reason = "capacity" \/ inst[i].state \in {"pending", "running"},
           pass.kind # "none" /\ i \notin DOMAIN pass.seen /\ inst[i].agent \in {"boot", "over"}
               => x.agent \in {"boot", "over"}
    PROVE  InstsMove /\ DOMAIN inst' = DOMAIN inst
<1>1. InstType /\ \A k \in DOMAIN inst : InstTrue(k)
  BY DEF Ec2Inv, Ec2TypeOK
<1>2. inst'[i] = x
  OBVIOUS
<1>3. Of(i)' = Of(i)
  BY <1>2 DEF Of
<1>4. InstMoves(i)
  BY <1>2, <1>3 DEF InstMoves, SignsIn
<1> QED BY <1>1, <1>4, OneMoves

LEMMA InstanceFacts ==
    ASSUME Ec2Inv, NEW i \in DOMAIN inst
    PROVE  /\ inst[i] \in Instances /\ inst[i].job \in Jobs /\ inst[i].state \in Alive \cup Ended
           /\ ~inst[i].listed => inst[i].agent \in {"boot", "over"}
           /\ inst[i].reason = "capacity" => inst[i].state = "terminated"
           /\ i \in Nat
<1>1. inst[i] \in Instances /\ i \in Nat
  BY InstanceShape DEF Ec2Inv, Ec2TypeOK
<1>2. InstTrue(i)
  BY DEF Ec2Inv
<1> QED BY <1>1, <1>2 DEF Instances, InstTrue

LEMMA ListedInv == ASSUME NEW i \in DOMAIN inst PROVE Ec2Inv /\ Listed(i) => Ec2Inv'
<1> SUFFICES ASSUME Ec2Inv, Listed(i) PROVE Ec2Inv'
  OBVIOUS
<1> DEFINE x == [inst[i] EXCEPT !.listed = TRUE]
<1>1. inst' = [inst EXCEPT ![i] = x]
  BY DEF Listed
<1>2. /\ x \in Instances /\ x.listed = TRUE
      /\ x.job = inst[i].job /\ x.attempt = inst[i].attempt /\ x.age = inst[i].age
      /\ x.state = inst[i].state /\ x.agent = inst[i].agent /\ x.token = inst[i].token /\ x.reason = inst[i].reason
  BY InstanceFacts DEF Instances
<1> HIDE DEF x
<1>3. InstsMove
  BY <1>1, <1>2, InstanceFacts, OneInstance DEF SignsIn
<1> QED BY <1>3, JobsStay, RowsStay, QuietStep DEF Listed

LEMMA SignInInv == ASSUME NEW i \in DOMAIN inst PROVE Ec2Inv /\ SignIn(i) => Ec2Inv'
<1> SUFFICES ASSUME Ec2Inv, SignIn(i) PROVE Ec2Inv'
  OBVIOUS
<1>1. /\ inst[i].agent = "boot" /\ inst[i].state \in {"pending", "running"} /\ inst[i].listed
      /\ pass.kind # "none" => i \in DOMAIN pass.seen
  BY DEF SignIn, Booted
<1>2. inst[i].reason # "capacity" /\ inst[i].state \notin Ended
  BY <1>1, InstanceFacts DEF Ended
<1>3. ASSUME NEW token \in {"used", "valid", "expired"}, NEW agent \in {"boot", "signed in", "over"},
             inst' = [inst EXCEPT ![i] = [inst[i] EXCEPT !.state = "running", !.token = token, !.agent = agent]],
             agent = "signed in" => inst[i].token = "valid", agent = "boot" => token = "used"
      PROVE  InstsMove
  <2> DEFINE x == [inst[i] EXCEPT !.state = "running", !.token = token, !.agent = agent]
  <2>1. /\ x \in Instances /\ x.listed = inst[i].listed
        /\ x.job = inst[i].job /\ x.attempt = inst[i].attempt /\ x.age = inst[i].age
        /\ x.state = "running" /\ x.agent = agent /\ x.token = token /\ x.reason = inst[i].reason
    BY InstanceFacts DEF Instances, Alive
  <2>2. inst' = [inst EXCEPT ![i] = x]
    BY <1>3
  <2> HIDE DEF x
  <2>3. /\ ~x.listed => x.agent \in {"boot", "over"}
        /\ ~(x.agent = "boot" /\ x.token = "valid")
        /\ x.agent \in {"signed in", "working"} => SignsIn(i)
        /\ x.reason # "capacity"
        /\ pass.kind # "none" => i \in DOMAIN pass.seen
    BY <1>1, <1>2, <1>3, <2>1 DEF SignsIn
  <2> QED BY <1>1, <1>2, <2>1, <2>2, <2>3, OneInstance
<1>4. InstsMove
  <2>1. CASE Usable(i) /\ inst' = [inst EXCEPT ![i].state = "running", ![i].token = "used", ![i].agent = "signed in"]
    BY <1>3, <2>1 DEF Usable
  <2>2. CASE inst' = [inst EXCEPT ![i].state = "running", ![i].token = "used"]
    <3>1. [inst[i] EXCEPT !.state = "running", !.token = "used"]
              = [inst[i] EXCEPT !.state = "running", !.token = "used", !.agent = "boot"]
      BY <1>1, InstanceFacts DEF Instances
    <3> QED BY <1>3, <2>2, <3>1
  <2>3. CASE inst' = [inst EXCEPT ![i].state = "running", ![i].agent = "over"]
    <3>1. /\ [inst[i] EXCEPT !.state = "running", !.agent = "over"]
                 = [inst[i] EXCEPT !.state = "running", !.token = inst[i].token, !.agent = "over"]
          /\ inst[i].token \in {"used", "valid", "expired"}
      BY InstanceFacts DEF Instances
    <3> QED BY <1>3, <2>3, <3>1
  <2> QED BY <2>1, <2>2, <2>3 DEF SignIn
<1> QED BY <1>4, JobsStay, RowsStay, QuietStep DEF SignIn

LEMMA ClaimJobInv == ASSUME NEW i \in DOMAIN inst PROVE Ec2Inv /\ ClaimJob(i) => Ec2Inv'
<1> SUFFICES ASSUME Ec2Inv, ClaimJob(i) PROVE Ec2Inv'
  OBVIOUS
<1> DEFINE x == [inst[i] EXCEPT !.agent = "working"]
<1>1. inst' = [inst EXCEPT ![i] = x] /\ inst[i].agent = "signed in"
  BY DEF ClaimJob
<1>2. /\ x \in Instances /\ x.listed = inst[i].listed
      /\ x.job = inst[i].job /\ x.attempt = inst[i].attempt /\ x.age = inst[i].age
      /\ x.state = inst[i].state /\ x.agent = "working" /\ x.token = inst[i].token /\ x.reason = inst[i].reason
  BY InstanceFacts DEF Instances
<1> HIDE DEF x
<1>3. InstsMove
  BY <1>1, <1>2, InstanceFacts, OneInstance DEF SignsIn
<1>4. JobsMove
  BY InstanceFacts, OneJob DEF ClaimJob, Claimable, Locked
<1> QED BY <1>3, <1>4, RowsStay, QuietStep DEF ClaimJob

\* The worker ends.
LEMMA Ends ==
    ASSUME Ec2Inv, NEW i \in DOMAIN inst, inst' = [inst EXCEPT ![i].agent = "over"] PROVE InstsMove
<1> DEFINE x == [inst[i] EXCEPT !.agent = "over"]
<1>1. inst' = [inst EXCEPT ![i] = x]
  OBVIOUS
<1>2. /\ x \in Instances /\ x.listed = inst[i].listed
      /\ x.job = inst[i].job /\ x.attempt = inst[i].attempt /\ x.age = inst[i].age
      /\ x.state = inst[i].state /\ x.agent = "over" /\ x.token = inst[i].token /\ x.reason = inst[i].reason
  BY InstanceFacts DEF Instances
<1> HIDE DEF x
<1>3. /\ inst[i].state \notin {"pending", "running"} => x.state \notin {"pending", "running"}
      /\ inst[i].state \in Ended => x.state \in Ended
      /\ ~x.listed => x.agent \in {"boot", "over"}
      /\ x.agent = "boot" /\ x.token = "valid" => inst[i].agent = "boot" /\ inst[i].token = "valid"
      /\ x.agent \in {"signed in", "working"} => SignsIn(i)
      /\ x.agent \in {"boot", "over"}
  BY <1>2
<1>4. x.reason = "capacity" => /\ x.state = "terminated"
                               /\ inst[i].reason = "capacity" \/ inst[i].state \in {"pending", "running"}
  BY <1>2, InstanceFacts
<1> QED BY <1>1, <1>2, <1>3, <1>4, OneInstance

LEMMA FinishInv == ASSUME NEW i \in DOMAIN inst PROVE Ec2Inv /\ Finish(i) => Ec2Inv'
<1> SUFFICES ASSUME Ec2Inv, Finish(i) PROVE Ec2Inv'
  OBVIOUS
<1>1. InstsMove
  BY Ends DEF Finish
<1>2. JobsMove
  BY InstanceFacts, OneState, JobsStay DEF Finish
<1> QED BY <1>1, <1>2, RowsStay, QuietStep DEF Finish

LEMMA NoJobInv == ASSUME NEW i \in DOMAIN inst PROVE Ec2Inv /\ NoJob(i) => Ec2Inv'
BY Ends, JobsStay, RowsStay, QuietStep DEF NoJob

\* The instance ends, or stops for good.
LEMMA Dead ==
    ASSUME Ec2Inv, NEW i \in DOMAIN inst, NEW state \in {"stopped", "terminated", "shutting-down"},
           NEW reason \in {"none", "capacity"},
           inst' = [inst EXCEPT ![i].state = state, ![i].reason = reason, ![i].agent = "over"],
           inst[i].state \in Ended => state \in Ended,
           reason = "capacity" => /\ state = "terminated"
                                  /\ inst[i].reason = "capacity" \/ inst[i].state \in {"pending", "running"}
    PROVE  InstsMove /\ DOMAIN inst' = DOMAIN inst
<1> DEFINE x == [inst[i] EXCEPT !.state = state, !.reason = reason, !.agent = "over"]
<1>1. inst' = [inst EXCEPT ![i] = x]
  OBVIOUS
<1>2. /\ x \in Instances /\ x.listed = inst[i].listed
      /\ x.job = inst[i].job /\ x.attempt = inst[i].attempt /\ x.age = inst[i].age
      /\ x.state = state /\ x.agent = "over" /\ x.token = inst[i].token /\ x.reason = reason
  BY InstanceFacts DEF Instances, Alive, Ended
<1> HIDE DEF x
<1>3. /\ inst[i].state \notin {"pending", "running"} => x.state \notin {"pending", "running"}
      /\ inst[i].state \in Ended => x.state \in Ended
      /\ ~x.listed => x.agent \in {"boot", "over"}
      /\ x.agent = "boot" /\ x.token = "valid" => inst[i].agent = "boot" /\ inst[i].token = "valid"
      /\ x.agent \in {"signed in", "working"} => SignsIn(i)
      /\ x.agent \in {"boot", "over"}
  BY <1>2
<1>4. x.reason = "capacity" => /\ x.state = "terminated"
                               /\ inst[i].reason = "capacity" \/ inst[i].state \in {"pending", "running"}
  BY <1>2, InstanceFacts
<1> QED BY <1>1, <1>2, <1>3, <1>4, OneInstance

LEMMA ShutsDownInv == ASSUME NEW i \in DOMAIN inst PROVE Ec2Inv /\ ShutsDown(i) => Ec2Inv'
<1> SUFFICES ASSUME Ec2Inv, ShutsDown(i) PROVE Ec2Inv'
  OBVIOUS
<1>1. inst[i].reason \in {"none", "capacity"}
  BY InstanceFacts DEF Instances
<1>2. inst' = [inst EXCEPT ![i].state = "terminated", ![i].reason = inst[i].reason, ![i].agent = "over"]
  BY InstanceFacts DEF ShutsDown, Instances
<1>3. InstsMove
  BY <1>1, <1>2, Dead DEF Ended
<1> QED BY <1>3, JobsStay, RowsStay, QuietStep DEF ShutsDown

LEMMA DiesInv == ASSUME NEW i \in DOMAIN inst PROVE Ec2Inv /\ Dies(i) => Ec2Inv'
<1> SUFFICES ASSUME Ec2Inv, Dies(i) PROVE Ec2Inv'
  OBVIOUS
<1>1. inst[i].state \in {"pending", "running"} /\ inst[i].state \notin Ended
  BY DEF Dies, Ended
<1>2. InstsMove
  BY <1>1, Dead DEF Dies
<1> QED BY <1>2, JobsStay, RowsStay, QuietStep DEF Dies

LEMMA TerminatedInv == ASSUME NEW i \in DOMAIN inst PROVE Ec2Inv /\ Terminated(i) => Ec2Inv'
<1> SUFFICES ASSUME Ec2Inv, Terminated(i) PROVE Ec2Inv'
  OBVIOUS
<1> DEFINE x == [inst[i] EXCEPT !.state = "terminated"]
<1>1. inst' = [inst EXCEPT ![i] = x] /\ inst[i].state = "shutting-down"
  BY DEF Terminated
<1>2. /\ x \in Instances /\ x.listed = inst[i].listed
      /\ x.job = inst[i].job /\ x.attempt = inst[i].attempt /\ x.age = inst[i].age
      /\ x.state = "terminated" /\ x.agent = inst[i].agent /\ x.token = inst[i].token /\ x.reason = inst[i].reason
  BY InstanceFacts DEF Instances, Ended
<1> HIDE DEF x
<1>3. InstsMove
  BY <1>1, <1>2, InstanceFacts, OneInstance DEF SignsIn, Ended
<1> QED BY <1>3, JobsStay, RowsStay, QuietStep DEF Terminated

\* Time passes: instances and rows that look for theirs get older, and nothing else.
LEMMA Ec2TickInv == Ec2Inv /\ Ec2Tick => Ec2Inv'
<1> SUFFICES ASSUME Ec2Inv, Ec2Tick PROVE Ec2Inv'
  OBVIOUS
<1>1. \A age \in Nat : Older(age) \in Nat /\ (age > MaxRuntime => Older(age) > MaxRuntime)
  BY Ec2Assumption DEF Older
<1>2. ASSUME NEW i \in DOMAIN inst
      PROVE  inst'[i] \in Instances /\ InstMoves(i)
  <2> DEFINE age == IF inst[i].state \in Alive THEN Older(inst[i].age) ELSE inst[i].age
  <2>1. inst'[i] = [inst[i] EXCEPT !.age = age] /\ inst[i] \in Instances /\ inst[i].age \in Nat
    BY InstanceShape DEF Ec2Tick, Ec2Inv, Ec2TypeOK
  <2>2. age \in Nat /\ (inst[i].age > MaxRuntime => age > MaxRuntime)
    BY <1>1, <2>1
  <2> HIDE DEF age
  <2>3. /\ inst'[i] \in Instances /\ inst'[i].listed = inst[i].listed /\ inst'[i].age = age
        /\ inst'[i].job = inst[i].job /\ inst'[i].attempt = inst[i].attempt
        /\ inst'[i].state = inst[i].state /\ inst'[i].agent = inst[i].agent
        /\ inst'[i].token = inst[i].token /\ inst'[i].reason = inst[i].reason
    BY <2>1, <2>2 DEF Instances
  <2>4. Of(i)' = Of(i)
    BY <2>3 DEF Of
  <2> QED BY <2>2, <2>3, <2>4, InstanceFacts DEF InstMoves
<1>3. InstsMove
  <2>1. inst' = [i \in DOMAIN inst |-> inst'[i]]
    BY DEF Ec2Tick
  <2>2. InstType' /\ DOMAIN inst' = DOMAIN inst
    BY <1>2, <2>1, SameLength DEF InstType, Ec2Inv, Ec2TypeOK
  <2> QED BY <1>2, <2>2 DEF InstsMove
<1>4. RowType' /\ \A r \in Attempts : SameRow(r)
  <2>1. PICK types : row \in [Attempts -> [state : RowStates, inst : Nat, type : types, age : Nat]]
    BY DEF Ec2Inv, Ec2TypeOK, RowType
  <2>2. row' = [r \in Attempts |-> row'[r]]
    BY DEF Ec2Tick
  <2>3. ASSUME NEW r \in Attempts
        PROVE  row'[r] \in [state : RowStates, inst : Nat, type : types, age : Nat] /\ SameRow(r)
    <3>1. row'[r] = [row[r] EXCEPT !.age = IF row[r].state = "launching" THEN Older(@) ELSE @]
      BY DEF Ec2Tick
    <3> QED BY <1>1, <2>1, <3>1 DEF SameRow
  <2> QED BY <2>2, <2>3 DEF RowType
<1> QED BY <1>3, <1>4, JobsStay, QuietStep DEF Ec2Tick

-----------------------------------------------------------------------------
(* Passes: what they have in common.                                        *)

\* A step of a pass, part by part.
LEMMA PassStepInv ==
    ASSUME Ec2Inv, JobsMove, InstsMove, RowsMove, PassType', SeenTrue', TodoTrue', PassTrue', SlotsTrue',
           UNCHANGED cut
    PROVE  Ec2Inv'
<1>1. Ec2TypeOK'
  BY DEF JobsMove, InstsMove, RowsMove, Ec2TypeOK
<1>2. WorkIsNotCut'
  BY DEF Ec2Inv, WorkIsNotCut
<1> QED BY <1>1, <1>2, RowsCore, TurnsCore, InstsCore DEF Ec2Inv

\* The pass goes on.
LEMMA RowDoneForm ==
    ASSUME Ec2Inv, pass.pc # "none", RowDone
    PROVE  /\ PassType' /\ PassTrue' /\ pass'.kind = pass.kind /\ pass'.seen = pass.seen
           /\ pass'.pc = "rows" /\ pass'.todo = pass.todo \ {pass.at} /\ Kept' = 0
<1>1. PICK views : pass \in Passes(views)
  BY DEF Ec2Inv, Ec2TypeOK, PassType
<1>2. /\ pass' \in Passes(views) /\ pass'.kind = pass.kind /\ pass'.seen = pass.seen
      /\ pass'.pc = "rows" /\ pass'.todo = pass.todo \ {pass.at}
  BY <1>1 DEF RowDone, Passes, Counters
<1>3. PassType'
  BY <1>2 DEF PassType, Ec2Inv, Ec2TypeOK
<1>4. PassTrue'
  BY <1>2 DEF PassTrue
<1> QED BY <1>2, <1>3, <1>4 DEF Kept

\* It goes elsewhere, and sees what it saw.
Moved(pc, at, todo, sure) == pass' = [pass EXCEPT !.pc = pc, !.at = at, !.todo = todo, !.sure = sure]
Places == Counters \ {"none", "rows"}

LEMMA PassForm ==
    ASSUME Ec2Inv, pass.pc # "none", NEW pc \in Places,
           NEW at \in Attempts, NEW todo \in SUBSET Attempts, NEW sure \in BOOLEAN, Moved(pc, at, todo, sure)
    PROVE  /\ PassType' /\ pass'.kind = pass.kind /\ pass'.seen = pass.seen
           /\ pass'.pc = pc /\ pass'.at = at /\ pass'.todo = todo /\ pass'.sure = sure
<1>1. PICK views : pass \in Passes(views)
  BY DEF Ec2Inv, Ec2TypeOK, PassType
<1>2. /\ pass' \in Passes(views) /\ pass'.kind = pass.kind /\ pass'.seen = pass.seen
      /\ pass'.pc = pc /\ pass'.at = at /\ pass'.todo = todo /\ pass'.sure = sure
  BY <1>1 DEF Passes, Moved, Places
<1>3. PassType'
  BY <1>2 DEF PassType, Ec2Inv, Ec2TypeOK, Places
<1> QED BY <1>2, <1>3

\* The forms in which a step writes where the pass is.
LEMMA PassRecord ==
    ASSUME Ec2Inv
    PROVE  /\ \A pc : pass' = [pass EXCEPT !.pc = pc] => Moved(pc, pass.at, pass.todo, pass.sure)
           /\ \A pc, todo : pass' = [pass EXCEPT !.pc = pc, !.todo = todo] => Moved(pc, pass.at, todo, pass.sure)
           /\ \A pc, at : pass' = [pass EXCEPT !.at = at, !.pc = pc] => Moved(pc, at, pass.todo, pass.sure)
           /\ \A pc, at, todo : pass' = [pass EXCEPT !.at = at, !.todo = todo, !.pc = pc] => Moved(pc, at, todo, pass.sure)
           /\ \A pc, sure : pass' = [pass EXCEPT !.pc = pc, !.sure = sure] => Moved(pc, pass.at, pass.todo, sure)
           /\ pass.todo \in SUBSET Attempts /\ pass.sure \in BOOLEAN
<1>1. PICK views : pass \in Passes(views)
  BY DEF Ec2Inv, Ec2TypeOK, PassType
<1> QED BY <1>1 DEF Passes, Moved

LEMMA SomePlaces == {"known", "start", "run", "terminate", "record", "fallback", "fail"} \subseteq Places
BY DEF Places, Counters

\* The forms in which it writes a row.
LEMMA RowState ==
    ASSUME Ec2Inv, NEW r \in Attempts, NEW state \in RowStates, row' = [row EXCEPT ![r].state = state]
    PROVE  /\ RowType' /\ \A q \in Attempts : q # r => SameRow(q)
           /\ row'[r].state = state /\ row'[r].inst = row[r].inst
<1>1. PICK types : row \in [Attempts -> [state : RowStates, inst : Nat, type : types, age : Nat]]
  BY DEF Ec2Inv, Ec2TypeOK, RowType
<1>2. row' \in [Attempts -> [state : RowStates, inst : Nat, type : types, age : Nat]]
  BY <1>1
<1> QED BY <1>1, <1>2 DEF RowType, SameRow

LEMMA RowAdopts ==
    ASSUME Ec2Inv, NEW r \in Attempts, NEW state \in RowStates, NEW i \in Nat,
           row' = [row EXCEPT ![r].state = state, ![r].inst = i, ![r].age = 0]
    PROVE  /\ RowType' /\ \A q \in Attempts : q # r => SameRow(q)
           /\ row'[r].state = state /\ row'[r].inst = i
<1>1. PICK types : row \in [Attempts -> [state : RowStates, inst : Nat, type : types, age : Nat]]
  BY DEF Ec2Inv, Ec2TypeOK, RowType
<1>2. row' \in [Attempts -> [state : RowStates, inst : Nat, type : types, age : Nat]]
  BY <1>1
<1> QED BY <1>1, <1>2 DEF RowType, SameRow

LEMMA RowLaunches ==
    ASSUME Ec2Inv, NEW r \in Attempts, NEW type,
           row' = [row EXCEPT ![r].state = "launching", ![r].type = type]
    PROVE  /\ RowType' /\ \A q \in Attempts : q # r => SameRow(q)
           /\ row'[r].state = "launching" /\ row'[r].inst = row[r].inst
<1>1. PICK types : row \in [Attempts -> [state : RowStates, inst : Nat, type : types, age : Nat]]
  BY DEF Ec2Inv, Ec2TypeOK, RowType
<1>2. row' \in [Attempts -> [state : RowStates, inst : Nat, type : types \cup {type}, age : Nat]]
  BY <1>1 DEF RowStates, Opened, Active
<1> QED BY <1>1, <1>2 DEF RowType, SameRow

\* A row that has one state among those with an instance, or among those without, keeps its slot.
LEMMA NoRowMore ==
    ASSUME Ec2Inv, NEW r \in Attempts, \A q \in Attempts : q # r => SameRow(q),
           row[r].state # "none" \/ row'[r].state = "none",
           row[r].state \in Active \/ row'[r].state \notin Active
    PROVE  /\ SlotsTrue /\ ActiveRows' \subseteq ActiveRows /\ Begun' \subseteq Begun
           /\ row'[r].state \notin Active => ActiveRows' \subseteq ActiveRows \ {r}
<1>1. \A q \in Attempts : q # r => (q \in ActiveRows' <=> q \in ActiveRows) /\ (q \in Begun' <=> q \in Begun)
  BY SameSlots
<1>2. /\ r \in ActiveRows' => r \in ActiveRows /\ row'[r].state \in Active
      /\ r \in Begun' => r \in Begun
  BY DEF ActiveRows, Begun
<1>3. ActiveRows' \subseteq Attempts /\ Begun' \subseteq Attempts
  BY DEF ActiveRows, Begun, Attempts
<1> QED BY <1>1, <1>2, <1>3 DEF Ec2Inv

\* Nothing is written to the rows.
LEMMA SlotsStay == ASSUME Ec2Inv, UNCHANGED row, Kept' \in {0, Kept} PROVE SlotsTrue'
<1>1. ActiveRows' = ActiveRows /\ Begun' = Begun
  BY DEF ActiveRows, Begun
<1> QED BY <1>1, SlotsLess DEF Ec2Inv

-----------------------------------------------------------------------------
(* Passes begin and end.                                                    *)

LEMMA StartPassInv == ASSUME NEW kind \in {"reap", "dispatch"} PROVE Ec2Inv /\ StartPass(kind) => Ec2Inv'
<1> SUFFICES ASSUME Ec2Inv, StartPass(kind) PROVE Ec2Inv'
  OBVIOUS
<1> DEFINE seen == [i \in {k \in DOMAIN inst : inst[k].listed} |-> inst[i].state]
           todo == IF kind = "reap" THEN {r \in Attempts : row[r].state \in Opened} ELSE {}
<1>1. /\ pass' = [kind |-> kind, at |-> <<0, 0>>, pc |-> "rows", seen |-> seen, todo |-> todo, sure |-> FALSE]
      /\ pass.kind = "none" /\ UNCHANGED <<job, row, inst, cut>>
  BY DEF StartPass, NoPass
<1>2. /\ pass'.kind = kind /\ pass'.pc = "rows" /\ pass'.seen = seen /\ pass'.todo = todo
      /\ pass' \in Passes({seen})
  BY <1>1 DEF Passes, Counters
<1>3. PassType'
  BY <1>2 DEF PassType
<1>4. /\ DOMAIN seen \subseteq DOMAIN inst
      /\ \A i \in DOMAIN seen : seen[i] = inst[i].state /\ inst[i].listed
      /\ \A i \in DOMAIN inst \ DOMAIN seen : ~inst[i].listed
  OBVIOUS
<1>5. SeenTrue'
  <2>1. ASSUME NEW i \in DOMAIN seen
        PROVE  /\ seen[i] \in Alive \cup Ended
               /\ seen[i] \in {"stopping", "stopped"} => inst[i].state \notin {"pending", "running"}
               /\ seen[i] \in Ended => inst[i].state \in Ended
               /\ seen[i] = "shutting-down" => inst[i].reason # "capacity"
    BY <1>4, InstanceFacts
  <2>2. \A i \in DOMAIN inst \ DOMAIN seen : inst[i].agent \in {"boot", "over"}
    BY <1>4, InstanceFacts
  <2> HIDE DEF seen, todo
  <2> QED BY <1>1, <1>2, <1>4, <2>1, <2>2 DEF SeenTrue
<1>6. TodoTrue'
  <2>1. ASSUME NEW r \in todo
        PROVE  /\ row[r].state \in Opened
               /\ row[r].state = "shutting-down" /\ row[r].inst \in DOMAIN seen => seen[row[r].inst] \in Ended
    <3>1. r \in Attempts /\ row[r].state \in Opened
      BY <2>1
    <3>2. row[r].state = "shutting-down" => inst[row[r].inst].state \in Ended
      BY <3>1 DEF Ec2Inv, RowNotAhead, Ended
    <3> QED BY <1>4, <3>1, <3>2
  <2>2. ASSUME kind = "reap", NEW i \in DOMAIN seen, row[Of(i)].state = "launching" PROVE Of(i) \in todo
    <3>1. Of(i) \in Attempts
      BY <1>4, InstanceShape DEF Ec2Inv, Ec2TypeOK
    <3> QED BY <2>2, <3>1 DEF Opened, Active
  <2>3. \A i : Of(i)' = Of(i)
    BY <1>1 DEF Of
  <2> HIDE DEF seen, todo
  <2> QED BY <1>1, <1>2, <2>1, <2>2, <2>3 DEF TodoTrue
<1>7. PassTrue'
  BY <1>2 DEF PassTrue
<1>8. SlotsTrue'
  BY <1>1, <1>2, SlotsStay DEF Kept
<1> QED BY <1>1, <1>3, <1>5, <1>6, <1>7, <1>8, JobsStay, RowsStay, InstsStay, PassStepInv

\* The locks are free.
LEMMA PassOver == ASSUME Ec2Inv, pass' = NoPass, UNCHANGED <<job, row, inst, cut>> PROVE Ec2Inv'
<1>1. /\ pass'.kind = "none" /\ pass'.pc = "none" /\ pass'.todo = {} /\ DOMAIN pass'.seen = {}
      /\ pass' \in Passes({<< >>})
  BY DEF NoPass, Passes, Counters
<1>2. PassType' /\ PassTrue' /\ SeenTrue' /\ TodoTrue'
  BY <1>1 DEF PassType, PassTrue, SeenTrue, TodoTrue
<1>3. SlotsTrue'
  BY <1>1, SlotsStay DEF Kept
<1> QED BY <1>2, <1>3, JobsStay, RowsStay, InstsStay, PassStepInv

-----------------------------------------------------------------------------
(* Passes: rows that have no instance (yet).                                *)

\* A row is done: it does not look for an instance that was seen.
LEMMA RowDoneTodo ==
    ASSUME Ec2Inv, InstsMove, NEW r, pass'.seen = pass.seen, pass'.kind = pass.kind,
           pass'.todo = pass.todo \ {r}, \A q \in Attempts : q # r => SameRow(q),
           r \in Attempts => \/ row'[r].state # "launching"
                             \/ \A i \in DOMAIN pass.seen : Of(i) # r
    PROVE  SeenTrue' /\ TodoTrue'
BY SeenCore, TodoCore

\* The job fails, unless it has ended.
LEMMA JobFails ==
    ASSUME Ec2Inv, NEW j \in Jobs, job' = Failed(j) PROVE JobsMove /\ job'[j].state = "DONE"
<1>1. CASE job[j].state = "DONE"
  BY <1>1, JobsStay DEF Failed
<1>2. CASE job[j].state # "DONE"
  <2>1. job' = [job EXCEPT ![j].state = "DONE"]
    BY <1>2 DEF Failed
  <2> QED BY <2>1, OneState DEF Ec2Inv, Ec2TypeOK, JobType
<1> QED BY <1>1, <1>2

LEMMA FailTheJobInv == Ec2Inv /\ FailTheJob => Ec2Inv'
<1> SUFFICES ASSUME Ec2Inv, FailTheJob PROVE Ec2Inv'
  OBVIOUS
<1>1. pass.pc = "fail" /\ pass.at \in Attempts /\ pass.at[1] \in Jobs
  BY RowUse DEF FailTheJob, ThePass, Ec2Inv, Ec2TypeOK, PassType
<1>2. JobsMove
  BY <1>1, JobFails DEF FailTheJob
<1>3. row[pass.at].state # "launching"
  BY <1>1 DEF Ec2Inv, PassTrue, NoInstance, Ended
<1>4. SeenTrue' /\ TodoTrue'
  BY <1>1, <1>3, RowDoneForm, RowDoneTodo, RowsStay, InstsStay DEF FailTheJob
<1>5. SlotsTrue'
  BY <1>1, RowDoneForm, SlotsStay DEF FailTheJob
<1> QED BY <1>1, <1>2, <1>4, <1>5, RowDoneForm, RowsStay, InstsStay, PassStepInv DEF FailTheJob

\* There is no instance for a row: what was started for it has a token that is not valid any
\* more, and has not signed in.
LEMMA RowFails ==
    ASSUME Ec2Inv, NEW r \in Attempts, row[r].state = "launching", pass.kind # "none",
           \A i \in DOMAIN pass.seen : Of(i) # r,
           row' = [row EXCEPT ![r].state = "failed"], inst' = Expired(r), UNCHANGED job
    PROVE  /\ JobsMove /\ InstsMove /\ RowsMove /\ SlotsTrue'
           /\ row'[r].state = "failed" /\ \A q \in Attempts : q # r => SameRow(q)
<1>1. /\ RowType' /\ \A q \in Attempts : q # r => SameRow(q)
      /\ row'[r].state = "failed" /\ row'[r].inst = row[r].inst
  BY RowState DEF RowStates
<1>2. /\ InstsMove
      /\ \A i \in DOMAIN inst : inst'[i].agent = inst[i].agent /\ (Of(i) = r => inst'[i].token # "valid")
  BY ExpiredMoves DEF Ec2Inv, Ec2TypeOK
<1>3. ASSUME NEW i \in DOMAIN inst, Of(i) = r PROVE ~SignsIn(i)'
  <2>1. inst[i].agent \in {"boot", "over"}
    BY <1>3 DEF Ec2Inv, SeenTrue
  <2> QED BY <1>2, <1>3, <2>1 DEF SignsIn
<1>4. RowTrue(r)' /\ RowNotAhead(r)'
  <2>1. RowTrue(r)
    BY DEF Ec2Inv
  <2> QED BY <1>1, <2>1 DEF RowTrue, RowNotAhead, Ended
<1>5. Written(r)
  BY <1>1, <1>3, <1>4 DEF Written, NoInstance
<1>6. RowsMove
  BY <1>1, <1>5 DEF RowsMove
<1>7. SlotsTrue'
  <2>1. r \in ActiveRows
    BY DEF ActiveRows, Active
  <2>2. row'[r].state \notin Active
    BY <1>1 DEF Active, Alive
  <2> QED BY <1>1, <2>1, <2>2, NoRowMore, SlotFreed DEF ActiveRows
<1> QED BY <1>1, <1>2, <1>6, <1>7, JobsStay

\* ... and the pass goes on with the next attempt, or the job's failure.
LEMMA LaunchFailedInv ==
    ASSUME Ec2Inv, NEW r \in Attempts, row[r].state = "launching", pass.kind # "none",
           \A i \in DOMAIN pass.seen : Of(i) # r,
           NEW capacity \in BOOLEAN, LaunchFailed(r, capacity), UNCHANGED <<job, cut>>
    PROVE  Ec2Inv'
<1>1. /\ JobsMove /\ InstsMove /\ RowsMove /\ SlotsTrue'
      /\ row'[r].state = "failed" /\ \A q \in Attempts : q # r => SameRow(q)
  BY RowFails DEF LaunchFailed
<1>2. PICK pc \in {"fallback", "fail"} :
            /\ pass' = [pass EXCEPT !.at = r, !.todo = pass.todo \ {r}, !.pc = pc]
            /\ pc = "fallback" => r[2] = 1
  BY DEF LaunchFailed
<1>3. /\ PassType' /\ pass'.kind = pass.kind /\ pass'.seen = pass.seen
      /\ pass'.pc = pc /\ pass'.at = r /\ pass'.todo = pass.todo \ {r}
  <2>1. Moved(pc, r, pass.todo \ {r}, pass.sure)
    BY <1>2, PassRecord
  <2>2. pass.pc # "none" /\ pass.todo \ {r} \in SUBSET Attempts /\ pass.sure \in BOOLEAN
    BY PassRecord DEF Ec2Inv, Ec2TypeOK, PassType
  <2> QED BY <2>1, <2>2, PassForm, SomePlaces
<1>4. SeenTrue' /\ TodoTrue'
  BY <1>1, <1>3, RowDoneTodo
<1>5. PassTrue'
  BY <1>1, <1>2, <1>3 DEF PassTrue, NoInstance
<1> QED BY <1>1, <1>3, <1>4, <1>5, PassStepInv

\* The pass takes a row.
LEMMA TakeRowInv == ASSUME NEW r \in Attempts PROVE Ec2Inv /\ TakeRow(r) => Ec2Inv'
<1> SUFFICES ASSUME Ec2Inv, TakeRow(r) PROVE Ec2Inv'
  OBVIOUS
<1>1. /\ pass.pc = "rows" /\ pass.kind = "reap" /\ r \in pass.todo
      /\ UNCHANGED <<job, cut>>
  BY DEF TakeRow, ThePass
<1>2. SeenFor(r) = {i \in DOMAIN pass.seen : Of(i) = r}
  BY SeenForRow
<1>3. CASE /\ row[r].state # "launching" \/ SeenFor(r) # {}
           /\ pass' = [pass EXCEPT !.at = r, !.pc = "known"] /\ UNCHANGED <<row, inst>>
  <2>1. /\ PassType' /\ pass'.kind = pass.kind /\ pass'.seen = pass.seen
        /\ pass'.pc = "known" /\ pass'.at = r /\ pass'.todo = pass.todo
    <3>1. Moved("known", r, pass.todo, pass.sure)
      BY <1>3, PassRecord
    <3>2. pass.pc # "none" /\ pass.todo \in SUBSET Attempts /\ pass.sure \in BOOLEAN
      BY <1>1, PassRecord
    <3> QED BY <3>1, <3>2, PassForm, SomePlaces
  <2>2. SeenTrue' /\ TodoTrue'
    BY <1>3, <2>1, SeenCore, TodoCore, RowsStay, InstsStay
  <2>3. PassTrue'
    <3>1. SeenFor(r)' = SeenFor(r)
      BY <1>3, <2>1 DEF SeenFor, Started
    <3> QED BY <1>1, <1>3, <2>1, <3>1 DEF PassTrue
  <2>4. SlotsTrue'
    BY <1>3, <2>1, SlotsStay DEF Kept
  <2> QED BY <1>1, <1>3, <2>1, <2>2, <2>3, <2>4, JobsStay, RowsStay, InstsStay, PassStepInv
<1>4. CASE row[r].state = "launching" /\ SeenFor(r) = {}
  <2>1. \A i \in DOMAIN pass.seen : Of(i) # r
    BY <1>2, <1>4
  <2>2. ASSUME pass' = [pass EXCEPT !.todo = @ \ {r}]
        PROVE  /\ PassType' /\ PassTrue' /\ pass'.kind = pass.kind /\ pass'.seen = pass.seen
               /\ pass'.todo = pass.todo \ {r} /\ Kept' = 0
    <3>1. PICK views : pass \in Passes(views)
      BY DEF Ec2Inv, Ec2TypeOK, PassType
    <3>2. /\ pass' \in Passes(views) /\ pass'.kind = pass.kind /\ pass'.seen = pass.seen
          /\ pass'.pc = "rows" /\ pass'.todo = pass.todo \ {r}
      BY <1>1, <2>2, <3>1 DEF Passes
    <3> QED BY <1>1, <3>2 DEF PassType, PassTrue, Kept
  <2>3. CASE /\ row' = [row EXCEPT ![r].state = "failed"] /\ inst' = Expired(r)
             /\ pass' = [pass EXCEPT !.todo = @ \ {r}]
    <3>1. /\ JobsMove /\ InstsMove /\ RowsMove /\ SlotsTrue'
          /\ row'[r].state = "failed" /\ \A q \in Attempts : q # r => SameRow(q)
      BY <1>1, <1>4, <2>1, <2>3, RowFails
    <3>2. SeenTrue' /\ TodoTrue'
      BY <2>2, <2>3, <3>1, RowDoneTodo
    <3> QED BY <1>1, <2>2, <2>3, <3>1, <3>2, PassStepInv
  <2>4. CASE LaunchFailed(r, FALSE)
    BY <1>1, <1>4, <2>1, <2>4, LaunchFailedInv
  <2>5. CASE pass' = [pass EXCEPT !.at = r, !.pc = "start"] /\ UNCHANGED <<row, inst>>
    <3>1. /\ PassType' /\ pass'.kind = pass.kind /\ pass'.seen = pass.seen
          /\ pass'.pc = "start" /\ pass'.at = r /\ pass'.todo = pass.todo
      <4>1. Moved("start", r, pass.todo, pass.sure)
        BY <2>5, PassRecord
      <4>2. pass.pc # "none" /\ pass.todo \in SUBSET Attempts /\ pass.sure \in BOOLEAN
        BY <1>1, PassRecord
      <4> QED BY <4>1, <4>2, PassForm, SomePlaces
    <3>2. SeenTrue' /\ TodoTrue'
      BY <2>5, <3>1, SeenCore, TodoCore, RowsStay, InstsStay
    <3>3. PassTrue'
      <4>1. \A i : Of(i)' = Of(i)
        BY <2>5 DEF Of
      <4> QED BY <1>4, <2>1, <2>5, <3>1, <4>1 DEF PassTrue
    <3>4. SlotsTrue'
      BY <2>5, <3>1, SlotsStay DEF Kept
    <3> QED BY <1>1, <2>5, <3>1, <3>2, <3>3, <3>4, JobsStay, RowsStay, InstsStay, PassStepInv
  <2>6. CASE pass' = [pass EXCEPT !.todo = @ \ {r}] /\ UNCHANGED <<row, inst>>
    <3>1. SeenTrue' /\ TodoTrue'
      BY <2>1, <2>2, <2>6, RowDoneTodo, RowsStay, InstsStay
    <3>2. SlotsTrue'
      BY <2>2, <2>6, SlotsStay
    <3> QED BY <1>1, <2>2, <2>6, <3>1, <3>2, JobsStay, RowsStay, InstsStay, PassStepInv
  <2> QED BY <1>4, <2>3, <2>4, <2>5, <2>6 DEF TakeRow
<1> QED BY <1>3, <1>4 DEF TakeRow

-----------------------------------------------------------------------------
(* Passes: an attempt is made, and its instance started.                    *)

\* Only the place of the pass changes.
LEMMA GoesForm ==
    ASSUME Ec2Inv, pass.pc \notin {"none", "rows"}, NEW pc \in Places, Goes(pc)
    PROVE  /\ PassType' /\ pass'.kind = pass.kind /\ pass'.seen = pass.seen
           /\ pass'.pc = pc /\ pass'.at = pass.at /\ pass'.todo = pass.todo
<1>1. Moved(pc, pass.at, pass.todo, pass.sure)
  BY PassRecord DEF Goes
<1>2. pass.todo \in SUBSET Attempts /\ pass.sure \in BOOLEAN /\ pass.at \in Attempts
  BY PassRecord DEF Ec2Inv, Ec2TypeOK, PassType
<1> QED BY <1>1, <1>2, PassForm

LEMMA LaunchInv ==
    ASSUME Ec2Inv, pass.pc # "none", NEW j \in Jobs, NEW attempt \in {1, 2}, NEW type, Launch(j, attempt, type),
           attempt = 2 => row[<<j, 1>>].state \in NoInstance,
           Cardinality(ActiveRows) < MaxWorkers, UNCHANGED <<job, inst, cut>>
    PROVE  Ec2Inv'
<1> DEFINE r == <<j, attempt>>
<1>0. r \in Attempts /\ r[1] = j /\ r[2] = attempt /\ <<j, 1>> \in Attempts /\ <<j, 2>> \in Attempts
  BY DEF Attempts
<1>1. row[r].state = "none" /\ row[r].inst = 0 /\ job[j].state = "QUEUED"
  BY DEF Launch, NoRow
<1>2. row' = [row EXCEPT ![r].state = "launching", ![r].type = type]
  BY DEF Launch
<1> HIDE DEF r
<1>3. /\ RowType' /\ \A q \in Attempts : q # r => SameRow(q)
      /\ row'[r].state = "launching" /\ row'[r].inst = 0
  BY <1>0, <1>1, <1>2, RowLaunches
<1>4. \A i \in DOMAIN inst : Of(i) # r
  BY <1>1 DEF Ec2Inv, InstTrue
<1>5. r \notin pass.todo
  BY <1>1 DEF Ec2Inv, TodoTrue, Opened, Active, Alive
<1>6. Written(r)
  <2>1. RowTrue(r)' /\ RowNotAhead(r)'
    BY <1>0, <1>1, <1>3 DEF RowTrue, RowNotAhead, Ended
  <2>2. ASSUME attempt = 1 PROVE row[<<j, 2>>].state = "none"
    <3>1. InTurn(j) /\ r = <<j, 1>>
      BY <2>2 DEF Ec2Inv, r
    <3> QED BY <1>1, <3>1 DEF InTurn, NoInstance, Ended
  <2>3. ASSUME attempt = 2 PROVE row'[<<j, 1>>].state \in NoInstance
    <3>1. SameRow(<<j, 1>>)
      BY <1>0, <1>3, <2>3
    <3> QED BY <2>3, <3>1 DEF SameRow
  <2> QED BY <1>0, <1>3, <1>4, <2>1, <2>2, <2>3 DEF Written
<1>7. RowsMove
  BY <1>3, <1>6 DEF RowsMove
<1>8. /\ PassType' /\ pass'.kind = pass.kind /\ pass'.seen = pass.seen
      /\ pass'.pc = "start" /\ pass'.at = r /\ pass'.todo = pass.todo
  <2>1. Moved("start", r, pass.todo, pass.sure)
    BY PassRecord DEF Launch, r
  <2>2. pass.todo \in SUBSET Attempts /\ pass.sure \in BOOLEAN
    BY PassRecord
  <2>3. "start" \in Places /\ r \in Attempts
    BY <1>0, SomePlaces
  <2> QED BY <2>1, <2>2, <2>3, PassForm
<1>9. DOMAIN pass.seen \subseteq DOMAIN inst
  BY DEF Ec2Inv, SeenTrue
<1>10. SeenTrue' /\ TodoTrue'
  BY <1>3, <1>4, <1>5, <1>8, <1>9, SeenCore, TodoCore, InstsStay
<1>11. PassTrue'
  <2>1. \A i : Of(i)' = Of(i)
    BY DEF Of
  <2> QED BY <1>3, <1>4, <1>8, <1>9, <2>1 DEF PassTrue
<1>12. SlotsTrue'
  <2>1. \A q \in Attempts : q # r => (q \in ActiveRows' <=> q \in ActiveRows) /\ (q \in Begun' <=> q \in Begun)
    BY <1>3, SameSlots
  <2>2. ActiveRows' \subseteq Attempts /\ Begun' \subseteq Attempts
    BY DEF ActiveRows, Begun, Attempts
  <2>3. Kept' = 0
    BY <1>8 DEF Kept
  <2> QED BY <2>1, <2>2, <2>3, SlotTaken DEF Ec2Inv
<1> QED BY <1>7, <1>8, <1>10, <1>11, <1>12, JobsStay, InstsStay, PassStepInv

\* The attempt after one without capacity takes the slot that was kept for it.
LEMMA FallbackInv == Ec2Inv /\ Fallback => Ec2Inv'
<1> SUFFICES ASSUME Ec2Inv, Fallback PROVE Ec2Inv'
  OBVIOUS
<1> DEFINE j == pass.at[1]
<1>1. /\ pass.pc = "fallback" /\ pass.at \in Attempts /\ UNCHANGED <<job, inst, cut>>
      /\ pass.at[2] = 1 /\ row[pass.at].state \in NoInstance
  BY DEF Fallback, ThePass, Ec2Inv, Ec2TypeOK, PassType, PassTrue
<1>2. pass.at = <<j, 1>> /\ j \in Jobs
  BY <1>1, RowUse
<1>3. Cardinality(ActiveRows) < MaxWorkers
  <2>1. Kept = 1 /\ SlotsTrue
    BY <1>1 DEF Kept, Ec2Inv
  <2> QED BY <2>1, SlotsFinite DEF SlotsTrue
<1>4. CASE Launch(j, 2, FallbackType(row[pass.at].type))
  BY <1>1, <1>2, <1>3, <1>4, LaunchInv
<1>5. CASE Goes("fail") /\ UNCHANGED row
  <2>1. /\ PassType' /\ pass'.kind = pass.kind /\ pass'.seen = pass.seen
        /\ pass'.pc = "fail" /\ pass'.at = pass.at /\ pass'.todo = pass.todo
    BY <1>1, <1>5, GoesForm, SomePlaces
  <2>2. SeenTrue' /\ TodoTrue'
    BY <1>1, <1>5, <2>1, SeenCore, TodoCore, RowsStay, InstsStay
  <2>3. PassTrue'
    BY <1>1, <1>5, <2>1 DEF PassTrue
  <2>4. SlotsTrue'
    BY <1>5, <2>1, SlotsStay DEF Kept
  <2> QED BY <1>1, <1>5, <2>1, <2>2, <2>3, <2>4, JobsStay, RowsStay, InstsStay, PassStepInv
<1> QED BY <1>4, <1>5 DEF Fallback

\* A launcher counts at least the rows that are active.
LEMMA DispatchInv == Ec2Inv /\ Dispatch => Ec2Inv'
<1> SUFFICES ASSUME Ec2Inv, Dispatch PROVE Ec2Inv'
  OBVIOUS
<1>1. pass.pc = "rows" /\ UNCHANGED <<job, inst, cut>> /\ ActiveCount < MaxWorkers
  BY DEF Dispatch, ThePass
<1>2. Cardinality(ActiveRows) < MaxWorkers
  <2> DEFINE others == {i \in DOMAIN pass.seen : pass.seen[i] \in Alive} \ Known
  <2>1. IsFiniteSet(others)
    <3>1. IsFiniteSet(DOMAIN inst)
      BY InstanceShape, FS_Interval DEF Ec2Inv, Ec2TypeOK
    <3>2. others \subseteq DOMAIN inst
      BY DEF Ec2Inv, SeenTrue
    <3> QED BY <3>1, <3>2, FS_Subset
  <2>2. Cardinality(others) \in Nat
    BY <2>1, FS_CardinalityType
  <2>3. ActiveCount = Cardinality(ActiveRows) + Cardinality(others)
    BY DEF ActiveCount, ActiveRows
  <2> QED BY <1>1, <2>2, <2>3, SlotsFinite DEF Ec2Inv
<1>3. PICK j \in Waiting : Launch(j, 1, ChooseType(Bytes[j]))
  BY DEF Dispatch
<1> QED BY <1>1, <1>2, <1>3, LaunchInv DEF Waiting

\* A token for the instance, or no instance if the job does not wait any more.
LEMMA MakeTokenInv == Ec2Inv /\ MakeToken => Ec2Inv'
<1> SUFFICES ASSUME Ec2Inv, MakeToken PROVE Ec2Inv'
  OBVIOUS
<1> DEFINE r == pass.at
<1>1. /\ pass.pc = "start" /\ r \in Attempts /\ UNCHANGED <<job, cut>> /\ inst' = Expired(r)
      /\ row[r].state = "launching" /\ \A i \in DOMAIN pass.seen : Of(i) # r
      /\ pass.kind # "none"
  BY DEF MakeToken, ThePass, Ec2Inv, Ec2TypeOK, PassType, PassTrue
<1>2. CASE Goes("run") /\ UNCHANGED row
  <2>1. /\ PassType' /\ pass'.kind = pass.kind /\ pass'.seen = pass.seen
        /\ pass'.pc = "run" /\ pass'.at = r /\ pass'.todo = pass.todo
    BY <1>1, <1>2, GoesForm, SomePlaces
  <2>2. InstsMove /\ \A i \in DOMAIN inst : Of(i)' = Of(i)
    BY <1>1, ExpiredMoves DEF Ec2Inv, Ec2TypeOK
  <2>3. SeenTrue' /\ TodoTrue'
    BY <1>1, <1>2, <2>1, <2>2, SeenCore, TodoCore, RowsStay
  <2>4. PassTrue'
    <3>1. DOMAIN pass.seen \subseteq DOMAIN inst
      BY DEF Ec2Inv, SeenTrue
    <3> QED BY <1>1, <1>2, <2>1, <2>2, <3>1 DEF PassTrue
  <2>5. SlotsTrue'
    BY <1>2, <2>1, SlotsStay DEF Kept
  <2> QED BY <1>1, <1>2, <2>1, <2>2, <2>3, <2>4, <2>5, JobsStay, RowsStay, PassStepInv
<1>3. CASE row' = [row EXCEPT ![r].state = "failed"] /\ RowDone
  <2>1. /\ JobsMove /\ InstsMove /\ RowsMove /\ SlotsTrue'
        /\ row'[r].state = "failed" /\ \A q \in Attempts : q # r => SameRow(q)
    BY <1>1, <1>3, RowFails
  <2>2. /\ PassType' /\ PassTrue' /\ pass'.kind = pass.kind /\ pass'.seen = pass.seen
        /\ pass'.todo = pass.todo \ {r}
    BY <1>1, <1>3, RowDoneForm
  <2>3. SeenTrue' /\ TodoTrue'
    BY <2>1, <2>2, RowDoneTodo
  <2> QED BY <1>1, <2>1, <2>2, <2>3, PassStepInv
<1> QED BY <1>2, <1>3 DEF MakeToken

\* Where RunInstances is called.
LEMMA AtRun ==
    ASSUME Ec2Inv, ThePass("run")
    PROVE  /\ pass.pc = "run" /\ pass.pc # "none" /\ pass.kind # "none" /\ pass.at \in Attempts
           /\ row[pass.at].state = "launching" /\ \A i \in DOMAIN pass.seen : Of(i) # pass.at
BY DEF ThePass, Ec2Inv, Ec2TypeOK, PassType, PassTrue

LEMMA RunRefusedInv == Ec2Inv /\ RunRefused => Ec2Inv'
BY AtRun, LaunchFailedInv DEF RunRefused

\* A row that looks for its instance takes it.
LEMMA RowTakes ==
    ASSUME Ec2Inv, NEW r \in Attempts, row[r].state = "launching", JobsMove, InstType', NEW i \in DOMAIN inst',
           row' = AdoptedRow(r, i), Of(i)' = r, \A k \in DOMAIN inst : Of(k) = r => k = i
    PROVE  /\ RowsMove /\ row'[r].state = "pending" /\ row'[r].inst = i
           /\ \A q \in Attempts : q # r => SameRow(q)
           /\ Begun' \subseteq Begun /\ ActiveRows' \subseteq ActiveRows
<1>1. i \in Nat /\ i # 0
  <2>1. DOMAIN inst' = 1 .. Len(inst')
    BY DEF InstType
  <2> QED BY <2>1
<1>2. /\ RowType' /\ \A q \in Attempts : q # r => SameRow(q)
      /\ row'[r].state = "pending" /\ row'[r].inst = i
  BY <1>1, RowAdopts DEF AdoptedRow, RowStates, Opened, Active, Alive
<1>3. RowTrue(r) /\ InTurn(r[1]) /\ r[1] \in Jobs /\ r = <<r[1], r[2]>>
  BY RowUse DEF Ec2Inv
<1>4. RowTrue(r)'
  <2>1. job'[r[1]].state # "none"
    BY <1>3 DEF RowTrue, JobsMove, JobMoves
  <2>2. row'[r].inst \in DOMAIN inst' /\ Of(i)' = r /\ row'[r].inst = i
    BY <1>2
  <2>3. Of(row[r].inst)' = r
    BY <2>2 DEF Of
  <2> QED BY <1>1, <1>2, <2>1, <2>2, <2>3 DEF RowTrue
<1>5. RowNotAhead(r)'
  BY <1>2 DEF RowNotAhead, Ended
<1>6. \A k \in DOMAIN inst : Of(k) = r => RowFollows(k)'
  BY <1>2 DEF RowFollows
<1>7. ~(r[2] = 1 /\ row[<<r[1], 2>>].state # "none")
  BY <1>3 DEF InTurn, NoInstance, Ended
<1>8. Written(r)
  BY <1>2, <1>4, <1>5, <1>6, <1>7 DEF Written
<1>9. RowsMove
  BY <1>2, <1>8 DEF RowsMove
<1> QED BY <1>2, <1>9, NoRowMore DEF Active

LEMMA RunAgainInv == Ec2Inv /\ RunAgain => Ec2Inv'
<1> SUFFICES ASSUME Ec2Inv, RunAgain PROVE Ec2Inv'
  OBVIOUS
<1> DEFINE r == pass.at
<1>1. /\ pass.pc # "none" /\ r \in Attempts /\ UNCHANGED <<job, inst, cut>> /\ RowDone
      /\ row[r].state = "launching" /\ \A i \in DOMAIN pass.seen : Of(i) # r
  BY AtRun DEF RunAgain
<1>2. /\ PassType' /\ PassTrue' /\ pass'.kind = pass.kind /\ pass'.seen = pass.seen
      /\ pass'.todo = pass.todo \ {r} /\ Kept' = 0
  BY <1>1, RowDoneForm
<1>3. JobsMove /\ InstsMove
  BY <1>1, JobsStay, InstsStay
<1>4. CASE \E i \in Started(r) : inst[i].listed
  <2>1. PICK i \in DOMAIN inst : Of(i) = r /\ row' = AdoptedRow(r, i)
    BY <1>4 DEF RunAgain, Started, Of
  <2>2. \A k \in DOMAIN inst : Of(k) = r => k = i
    BY <2>1 DEF Ec2Inv, InstTrue
  <2>3. i \in DOMAIN inst' /\ Of(i)' = r /\ InstType'
    BY <1>1, <1>3, <2>1 DEF InstsMove, Of
  <2>4. /\ RowsMove /\ row'[r].state = "pending" /\ \A q \in Attempts : q # r => SameRow(q)
        /\ Begun' \subseteq Begun /\ ActiveRows' \subseteq ActiveRows
    BY <1>1, <1>3, <2>1, <2>2, <2>3, RowTakes
  <2>5. SeenTrue' /\ TodoTrue'
    BY <1>2, <1>3, <2>4, RowDoneTodo
  <2>6. SlotsTrue'
    BY <1>2, <2>4, SlotsLess DEF Ec2Inv
  <2> QED BY <1>1, <1>2, <1>3, <2>4, <2>5, <2>6, PassStepInv
<1>5. CASE UNCHANGED row
  <2>1. SeenTrue' /\ TodoTrue'
    BY <1>1, <1>2, <1>3, <1>5, RowsStay, RowDoneTodo
  <2>2. SlotsTrue'
    BY <1>2, <1>5, SlotsStay
  <2> QED BY <1>1, <1>2, <1>3, <1>5, <2>1, <2>2, RowsStay, PassStepInv
<1> QED BY <1>4, <1>5 DEF RunAgain

\* A new instance is the first of its row, which knows it or looks for it.
LEMMA NewInstance ==
    ASSUME Ec2Inv, NEW r \in Attempts, Started(r) = {}, inst' = Append(inst, Instance(r)),
           NEW n, n = Len(inst) + 1,
           row'[r].state # "none", row'[r].inst = n \/ row'[r].state = "launching"
    PROVE  InstsMove /\ n \in DOMAIN inst' /\ Of(n)' = r
<1>1. InstType /\ DOMAIN inst = 1 .. Len(inst) /\ Len(inst) \in Nat
  BY InstanceShape DEF Ec2Inv, Ec2TypeOK
<1>2. Instance(r) \in Instances
  BY RowUse DEF Instance, Instances, Alive
<1>3. InstType' /\ Len(inst') = n /\ inst'[n] = Instance(r) /\ \A i \in DOMAIN inst : inst'[i] = inst[i]
  BY <1>1, <1>2 DEF InstType
<1>4. DOMAIN inst' = 1 .. n
  BY <1>3 DEF InstType
<1>5. n \in DOMAIN inst' /\ n \notin DOMAIN inst /\ DOMAIN inst' \ DOMAIN inst = {n}
  BY <1>1, <1>4
<1>6. \A i \in DOMAIN inst : i \in DOMAIN inst' /\ InstMoves(i)
  BY <1>1, <1>3, <1>4, InstStays DEF Ec2Inv
<1>7. Of(n)' = r
  BY <1>3, RowUse DEF Of, Instance
<1>8. ASSUME NEW k \in DOMAIN inst', Of(n)' = Of(k)' PROVE n = k
  <2>1. SUFFICES ASSUME k \in DOMAIN inst PROVE FALSE
    BY <1>5
  <2>2. Of(k) = r
    BY <1>6, <1>7, <1>8, <2>1 DEF InstMoves
  <2> QED BY <2>1, <2>2 DEF Started, Of
<1>9. /\ ~inst'[n].listed /\ inst'[n].agent = "boot" /\ inst'[n].reason = "none"
  BY <1>3 DEF Instance
<1>10. InstTrue(n)'
  <2>1. row'[Of(n)'].state # "none" /\ (row'[Of(n)'].inst = n \/ row'[Of(n)'].state = "launching")
    BY <1>7
  <2>2. RowFollows(n)'
    BY <2>1 DEF RowFollows
  <2> QED BY <1>8, <1>9, <2>1, <2>2 DEF InstTrue
<1> QED BY <1>3, <1>5, <1>6, <1>7, <1>9, <1>10 DEF InstsMove

LEMMA RunInstanceInv == Ec2Inv /\ RunInstance => Ec2Inv'
<1> SUFFICES ASSUME Ec2Inv, RunInstance PROVE Ec2Inv'
  OBVIOUS
<1> DEFINE r == pass.at
<1>0. PICK n : n = Len(inst) + 1
  OBVIOUS
<1>1. /\ pass.pc # "none" /\ r \in Attempts /\ UNCHANGED <<job, cut>> /\ RowDone /\ Started(r) = {}
      /\ row[r].state = "launching" /\ \A i \in DOMAIN pass.seen : Of(i) # r
      /\ inst' = Append(inst, Instance(r)) /\ row' = AdoptedRow(r, n)
  BY <1>0, AtRun DEF RunInstance
<1>2. /\ PassType' /\ PassTrue' /\ pass'.kind = pass.kind /\ pass'.seen = pass.seen
      /\ pass'.todo = pass.todo \ {r} /\ Kept' = 0
  BY <1>1, RowDoneForm
<1>3. row'[r].state = "pending" /\ row'[r].inst = n
  <2>1. n \in Nat
    BY <1>0, InstanceShape DEF Ec2Inv, Ec2TypeOK
  <2> QED BY <1>1, <2>1, RowAdopts DEF AdoptedRow, RowStates, Opened, Active, Alive
<1>4. InstsMove /\ n \in DOMAIN inst' /\ Of(n)' = r
  BY <1>0, <1>1, <1>3, NewInstance
<1>5. JobsMove /\ InstType' /\ \A k \in DOMAIN inst : Of(k) = r => k = n
  BY <1>1, <1>4, JobsStay DEF InstsMove, Started, Of
<1>6. /\ RowsMove /\ \A q \in Attempts : q # r => SameRow(q)
      /\ Begun' \subseteq Begun /\ ActiveRows' \subseteq ActiveRows
  BY <1>1, <1>4, <1>5, RowTakes
<1>7. SeenTrue' /\ TodoTrue'
  BY <1>2, <1>3, <1>4, <1>6, RowDoneTodo
<1>8. SlotsTrue'
  BY <1>2, <1>6, SlotsLess DEF Ec2Inv
<1> QED BY <1>1, <1>2, <1>4, <1>5, <1>6, <1>7, <1>8, PassStepInv

\* Whether an instance was started or not, the row goes on looking for it.
LEMMA RunUnsureInv == Ec2Inv /\ RunUnsure => Ec2Inv'
<1> SUFFICES ASSUME Ec2Inv, RunUnsure PROVE Ec2Inv'
  OBVIOUS
<1> DEFINE r == pass.at
<1>1. /\ pass.pc # "none" /\ r \in Attempts /\ UNCHANGED <<job, row, cut>> /\ RowDone /\ Started(r) = {}
      /\ row[r].state = "launching" /\ \A i \in DOMAIN pass.seen : Of(i) # r
      /\ inst' = Append(inst, Instance(r)) \/ UNCHANGED inst
  BY AtRun DEF RunUnsure
<1>2. /\ PassType' /\ PassTrue' /\ pass'.kind = pass.kind /\ pass'.seen = pass.seen
      /\ pass'.todo = pass.todo \ {r} /\ Kept' = 0
  BY <1>1, RowDoneForm
<1>3. InstsMove
  BY <1>1, NewInstance, InstsStay
<1>4. SeenTrue' /\ TodoTrue'
  BY <1>1, <1>2, <1>3, RowsStay, RowDoneTodo
<1>5. SlotsTrue'
  BY <1>1, <1>2, SlotsStay
<1> QED BY <1>1, <1>2, <1>3, <1>4, <1>5, JobsStay, RowsStay, PassStepInv

-----------------------------------------------------------------------------
(* Passes: rows whose instance is known, and instances that have to go.     *)

\* The instance of a row that was taken, and what is known of its state.
LEMMA AtKnown ==
    ASSUME Ec2Inv, NEW r, r = pass.at, ThePass("known")
    PROVE  /\ r \in Attempts /\ row[r].state \in Opened /\ job[r[1]].state # "none" /\ r[1] \in Jobs
           /\ InstanceOf(r) \in DOMAIN inst /\ Of(InstanceOf(r)) = r
           /\ \A k \in DOMAIN inst : Of(k) = r => k = InstanceOf(r)
           /\ SeenState(r) \in Alive \cup Ended
           /\ SeenState(r) \in {"stopping", "stopped"} => inst[InstanceOf(r)].state \notin {"pending", "running"}
           /\ SeenState(r) \in Ended => inst[InstanceOf(r)].state \in Ended
           /\ SeenState(r) = "shutting-down" /\ inst[InstanceOf(r)].reason = "capacity" => job[r[1]].state = "DONE"
           /\ row[r].state = "shutting-down" =>
                 /\ SeenState(r) \in Ended
                 /\ inst[InstanceOf(r)].reason = "capacity" => job[r[1]].state = "DONE"
<1>1. pass.pc = "known" /\ r \in Attempts /\ r \in pass.todo /\ (row[r].state # "launching" \/ SeenFor(r) # {})
  BY DEF ThePass, Ec2Inv, Ec2TypeOK, PassType, PassTrue
<1>2. row[r].state \in Opened /\ RowTrue(r) /\ RowNotAhead(r) /\ r[1] \in Jobs
  BY <1>1, RowUse DEF Ec2Inv, TodoTrue
<1>3. job[r[1]].state # "none"
  BY <1>2 DEF RowTrue, Opened, Active, Alive
<1>4. \A i \in DOMAIN inst : Of(i) = r => \A k \in DOMAIN inst : Of(k) = r => k = i
  BY DEF Ec2Inv, InstTrue
<1>5. ASSUME NEW i \in DOMAIN pass.seen
      PROVE  /\ i \in DOMAIN inst /\ pass.seen[i] \in Alive \cup Ended
             /\ pass.seen[i] \in {"stopping", "stopped"} => inst[i].state \notin {"pending", "running"}
             /\ pass.seen[i] \in Ended => inst[i].state \in Ended
             /\ pass.seen[i] = "shutting-down" => inst[i].reason # "capacity"
  BY DEF Ec2Inv, SeenTrue
<1>6. CASE row[r].state = "launching"
  <2>1. PICK i \in SeenFor(r) : InstanceOf(r) = i /\ SeenState(r) = pass.seen[i]
    BY <1>1, <1>6 DEF InstanceOf, SeenState
  <2>2. i \in DOMAIN pass.seen /\ Of(i) = r
    BY SeenForRow
  <2>3. /\ i \in DOMAIN inst /\ pass.seen[i] \in Alive \cup Ended
        /\ pass.seen[i] \in {"stopping", "stopped"} => inst[i].state \notin {"pending", "running"}
        /\ pass.seen[i] \in Ended => inst[i].state \in Ended
        /\ pass.seen[i] = "shutting-down" => inst[i].reason # "capacity"
    BY <1>5, <2>2
  <2> QED BY <1>1, <1>2, <1>3, <1>4, <1>6, <2>1, <2>2, <2>3
<1>7. CASE row[r].state # "launching"
  <2>1. PICK i : i = row[r].inst
    OBVIOUS
  <2>2. InstanceOf(r) = i /\ SeenState(r) = IF i \in DOMAIN pass.seen THEN pass.seen[i] ELSE row[r].state
    BY <1>7, <2>1 DEF InstanceOf, SeenState
  <2>3. i \in DOMAIN inst /\ Of(i) = r /\ row[r].state \in Alive \cup {"shutting-down"}
    BY <1>1, <1>2, <1>7, <2>1, RowUse DEF Opened, Active, Alive
  <2>4. /\ row[r].state \in {"stopping", "stopped"} => inst[i].state \notin {"pending", "running"}
        /\ row[r].state \in Ended => inst[i].state \in Ended
        /\ row[r].state = "shutting-down" /\ inst[i].reason = "capacity" => job[r[1]].state = "DONE"
    BY <1>2, <2>1 DEF RowNotAhead
  <2>5. CASE i \in DOMAIN pass.seen
    <3>1. row[r].state = "shutting-down" => pass.seen[i] \in Ended
      BY <1>1, <2>1, <2>5 DEF Ec2Inv, TodoTrue
    <3> QED BY <1>1, <1>2, <1>3, <1>4, <1>5, <2>2, <2>3, <2>4, <2>5, <3>1
  <2>6. CASE i \notin DOMAIN pass.seen
    BY <1>1, <1>2, <1>3, <1>4, <2>2, <2>3, <2>4, <2>6 DEF Ended
  <2> QED BY <2>5, <2>6
<1> QED BY <1>6, <1>7

\* A row that knows the instance there is for it, and is written.
LEMMA RowLearns ==
    ASSUME Ec2Inv, NEW r \in Attempts, row[r].state \in Opened, JobsMove, InstsMove, RowType',
           \A q \in Attempts : q # r => SameRow(q),
           row'[r].state \in Alive \cup Ended, row'[r].state \in Ended \/ row[r].state # "shutting-down",
           NEW i \in DOMAIN inst, row'[r].inst = i, Of(i) = r, RowNotAhead(r)'
    PROVE  /\ RowsMove
           /\ ActiveRows' \subseteq ActiveRows /\ Begun' \subseteq Begun
           /\ row'[r].state \in Ended => ActiveRows' \subseteq ActiveRows \ {r}
<1>1. i \in Nat /\ i # 0 /\ i \in DOMAIN inst' /\ Of(i)' = r
  <2>1. i \in Nat /\ i # 0
    BY InstanceShape DEF Ec2Inv, Ec2TypeOK
  <2>2. i \in DOMAIN inst' /\ InstMoves(i)
    BY DEF InstsMove
  <2>3. Of(i)' = Of(i)
    BY <2>2 DEF InstMoves
  <2> QED BY <2>1, <2>2, <2>3
<1>2. RowTrue(r) /\ InTurn(r[1]) /\ r[1] \in Jobs /\ r = <<r[1], r[2]>>
  BY RowUse DEF Ec2Inv
<1>3. row[r].state # "none" /\ row[r].state \notin {"failed", "terminated"}
  BY DEF Opened, Active, Alive
<1>4. RowTrue(r)'
  <2>1. job'[r[1]].state # "none"
    BY <1>2, <1>3 DEF RowTrue, JobsMove, JobMoves
  <2>2. Of(row[r].inst)' = r
    BY <1>1 DEF Of
  <2>3. row'[r].state \notin {"none", "launching", "failed"}
    BY DEF Alive, Ended
  <2> QED BY <1>1, <2>1, <2>2, <2>3 DEF RowTrue
<1>5. \A k \in DOMAIN inst : Of(k) = r /\ SignsIn(k)' => RowFollows(k)'
  <2> SUFFICES ASSUME NEW k \in DOMAIN inst, Of(k) = r PROVE RowFollows(k)'
    OBVIOUS
  <2>1. k = i
    BY DEF Ec2Inv, InstTrue
  <2> QED BY <1>1, <2>1 DEF RowFollows
<1>6. row[<<r[1], 2>>].state # "none" /\ r[2] = 1 => row'[r].state \in NoInstance
  <2> SUFFICES ASSUME row[<<r[1], 2>>].state # "none", r[2] = 1 PROVE row'[r].state \in Ended
    BY DEF NoInstance
  <2>1. row[r].state \in NoInstance
    BY <1>2 DEF InTurn
  <2>2. row[r].state = "shutting-down"
    BY <1>3, <2>1 DEF NoInstance, Ended
  <2> QED BY <2>2
<1>7. Written(r)
  <2>1. row'[r].state # "none"
    BY DEF Alive, Ended
  <2> QED BY <1>3, <1>4, <1>5, <1>6, <2>1 DEF Written
<1>8. RowsMove
  BY <1>7 DEF RowsMove
<1>9. row[r].state \in Active \/ row'[r].state \notin Active
  BY DEF Opened, Active, Alive, Ended
<1>10. row'[r].state \in Ended => row'[r].state \notin Active
  BY DEF Active, Alive, Ended
<1> QED BY <1>3, <1>8, <1>9, <1>10, NoRowMore

LEMMA RowKnows ==
    ASSUME Ec2Inv, NEW r \in Attempts, NEW i \in DOMAIN inst, NEW state \in Alive \cup Ended,
           row' = [row EXCEPT ![r].state = state, ![r].inst = i, ![r].age = 0]
    PROVE  /\ RowType' /\ \A q \in Attempts : q # r => SameRow(q)
           /\ row'[r].state = state /\ row'[r].inst = i
<1>1. i \in Nat
  BY InstanceFacts
<1>2. state \in RowStates
  BY DEF RowStates, Opened, Active, Ended
<1> QED BY <1>1, <1>2, RowAdopts

\* The reaper looks at an instance: it may stay, has to go, or is gone.
LEMMA LookAtRowInv == Ec2Inv /\ LookAtRow => Ec2Inv'
<1> SUFFICES ASSUME Ec2Inv, LookAtRow PROVE Ec2Inv'
  OBVIOUS
<1>1. PICK r : r = pass.at
  OBVIOUS
<1>2. ThePass("known") /\ pass.pc = "known" /\ UNCHANGED cut
  BY DEF LookAtRow, ThePass
<1>3. PICK i : i = InstanceOf(r)
  OBVIOUS
<1>4. PICK state : state = SeenState(r)
  OBVIOUS
<1>5. /\ r \in Attempts /\ row[r].state \in Opened /\ job[r[1]].state # "none" /\ r[1] \in Jobs
      /\ i \in DOMAIN inst /\ Of(i) = r /\ \A k \in DOMAIN inst : Of(k) = r => k = i
      /\ state \in Alive \cup Ended
      /\ state \in {"stopping", "stopped"} => inst[i].state \notin {"pending", "running"}
      /\ state \in Ended => inst[i].state \in Ended
      /\ state = "shutting-down" /\ inst[i].reason = "capacity" => job[r[1]].state = "DONE"
      /\ row[r].state = "shutting-down" =>
            state \in Ended /\ (inst[i].reason = "capacity" => job[r[1]].state = "DONE")
  BY <1>1, <1>2, <1>3, <1>4, AtKnown
<1>6. ASSUME state \in Alive, row' = [row EXCEPT ![r].state = state, ![r].inst = i, ![r].age = 0],
             ((~Open(r[1]) \/ Failing(r)) /\ Goes("terminate")) \/ RowDone, UNCHANGED <<job, inst>>
      PROVE  Ec2Inv'
  <2>1. state \notin Ended
    BY <1>6 DEF Alive, Ended
  <2>2. JobsMove /\ InstsMove
    BY <1>6, JobsStay, InstsStay
  <2>3. /\ RowsMove /\ \A q \in Attempts : q # r => SameRow(q)
        /\ row'[r].state = state /\ row'[r].inst = i
        /\ ActiveRows' \subseteq ActiveRows /\ Begun' \subseteq Begun
    <3>1. /\ RowType' /\ \A q \in Attempts : q # r => SameRow(q)
          /\ row'[r].state = state /\ row'[r].inst = i
      BY <1>5, <1>6, RowKnows
    <3>2. RowNotAhead(r)'
      BY <1>5, <1>6, <2>1, <3>1 DEF RowNotAhead, Ended
    <3> QED BY <1>5, <1>6, <2>2, <3>1, <3>2, RowLearns
  <2>4. CASE (~Open(r[1]) \/ Failing(r)) /\ Goes("terminate")
    <3>1. /\ PassType' /\ pass'.kind = pass.kind /\ pass'.seen = pass.seen
          /\ pass'.pc = "terminate" /\ pass'.at = r /\ pass'.todo = pass.todo
      BY <1>1, <1>2, <2>4, GoesForm, SomePlaces
    <3>2. Justified(i)
      <4>1. inst[i].job = r[1]
        BY <1>5 DEF Of
      <4>2. ~Open(r[1]) => job[r[1]].state = "DONE"
        BY <1>5 DEF Ec2Inv, Ec2TypeOK, JobType, Open
      <4>3. Failing(r) => \/ inst[i].state \notin {"pending", "running"} \/ inst[i].age > MaxRuntime
                          \/ job[r[1]].state = "QUEUED"
        BY <1>3, <1>4, <1>5 DEF Failing, TooLong, NotBooted
      <4> QED BY <2>4, <4>1, <4>2, <4>3 DEF Justified
    <3>3. Justified(i)'
      BY <1>6, <3>2 DEF Justified
    <3>4. PassTrue'
      BY <1>6, <2>3, <3>1, <3>3 DEF PassTrue
    <3>5. SeenTrue' /\ TodoTrue'
      BY <1>6, <2>1, <2>2, <2>3, <3>1, SeenCore, TodoCore DEF Alive
    <3>6. SlotsTrue'
      BY <2>3, <3>1, SlotsLess DEF Ec2Inv, Kept
    <3> QED BY <1>2, <2>2, <2>3, <3>1, <3>4, <3>5, <3>6, PassStepInv
  <2>5. CASE RowDone
    <3>1. /\ PassType' /\ PassTrue' /\ pass'.kind = pass.kind /\ pass'.seen = pass.seen
          /\ pass'.todo = pass.todo \ {r} /\ Kept' = 0
      BY <1>1, <1>2, <2>5, RowDoneForm
    <3>2. row'[r].state # "launching"
      BY <1>6, <2>3 DEF Alive
    <3>3. SeenTrue' /\ TodoTrue'
      BY <2>2, <2>3, <3>1, <3>2, RowDoneTodo
    <3>4. SlotsTrue'
      BY <2>3, <3>1, SlotsLess DEF Ec2Inv
    <3> QED BY <1>2, <2>2, <2>3, <3>1, <3>3, <3>4, PassStepInv
  <2> QED BY <1>6, <2>4, <2>5
<1>7. ASSUME state \in Ended, row' = [row EXCEPT ![r].state = state, ![r].inst = i, ![r].age = 0],
             inst' = Expired(r), JobsMove
      PROVE  /\ InstsMove /\ RowsMove /\ \A q \in Attempts : q # r => SameRow(q)
             /\ row'[r].state = state
             /\ ActiveRows' \subseteq ActiveRows \ {r} /\ Begun' \subseteq Begun
  <2>1. InstsMove /\ \A k \in DOMAIN inst : inst'[k].state = inst[k].state /\ inst'[k].reason = inst[k].reason
    BY <1>7, ExpiredMoves DEF Ec2Inv, Ec2TypeOK
  <2>2. job[r[1]].state = "DONE" => job'[r[1]].state = "DONE"
    BY <1>5, <1>7 DEF JobsMove, JobMoves
  <2>3. /\ RowType' /\ \A q \in Attempts : q # r => SameRow(q)
        /\ row'[r].state = state /\ row'[r].inst = i
    BY <1>5, <1>7, RowKnows
  <2>4. RowNotAhead(r)'
    BY <1>5, <2>1, <2>2, <2>3 DEF RowNotAhead
  <2> QED BY <1>5, <1>7, <2>1, <2>3, <2>4, RowLearns
<1>8. ASSUME state \in Ended, row' = [row EXCEPT ![r].state = state, ![r].inst = i, ![r].age = 0],
             inst' = Expired(r), Open(r[1]), r[2] = 1, inst[i].reason = "capacity",
             pass' = [pass EXCEPT !.pc = "fallback", !.todo = @ \ {r}], UNCHANGED job
      PROVE  Ec2Inv'
  <2>1. JobsMove
    BY <1>8, JobsStay
  <2>2. /\ InstsMove /\ RowsMove /\ \A q \in Attempts : q # r => SameRow(q)
        /\ row'[r].state = state
        /\ ActiveRows' \subseteq ActiveRows \ {r} /\ Begun' \subseteq Begun
    BY <1>7, <1>8, <2>1
  <2>3. /\ PassType' /\ pass'.kind = pass.kind /\ pass'.seen = pass.seen
        /\ pass'.pc = "fallback" /\ pass'.at = r /\ pass'.todo = pass.todo \ {r}
    <3>1. Moved("fallback", r, pass.todo \ {r}, pass.sure)
      BY <1>1, <1>8, PassRecord
    <3>2. pass.pc # "none" /\ pass.todo \ {r} \in SUBSET Attempts /\ pass.sure \in BOOLEAN
      BY <1>2, PassRecord
    <3> QED BY <1>5, <3>1, <3>2, PassForm, SomePlaces
  <2>4. SeenTrue' /\ TodoTrue'
    BY <1>8, <2>2, <2>3, RowDoneTodo DEF Ended
  <2>5. PassTrue'
    BY <1>8, <2>2, <2>3 DEF PassTrue, NoInstance
  <2>6. SlotsTrue'
    <3>1. row[r].state # "shutting-down"
      BY <1>5, <1>8 DEF Open
    <3>2. r \in ActiveRows
      BY <1>5, <3>1 DEF Opened, ActiveRows
    <3> QED BY <2>2, <3>2, SlotFreed DEF Ec2Inv
  <2> QED BY <1>2, <2>1, <2>2, <2>3, <2>4, <2>5, <2>6, PassStepInv
<1>9. ASSUME state \in Ended, row' = [row EXCEPT ![r].state = state, ![r].inst = i, ![r].age = 0],
             inst' = Expired(r), RowDone, job' = Failed(r[1])
      PROVE  Ec2Inv'
  <2>1. JobsMove
    BY <1>5, <1>9, JobFails
  <2>2. /\ InstsMove /\ RowsMove /\ \A q \in Attempts : q # r => SameRow(q)
        /\ row'[r].state = state
        /\ ActiveRows' \subseteq ActiveRows \ {r} /\ Begun' \subseteq Begun
    BY <1>7, <1>9, <2>1
  <2>3. /\ PassType' /\ PassTrue' /\ pass'.kind = pass.kind /\ pass'.seen = pass.seen
        /\ pass'.todo = pass.todo \ {r} /\ Kept' = 0
    BY <1>1, <1>2, <1>9, RowDoneForm
  <2>4. SeenTrue' /\ TodoTrue'
    BY <1>9, <2>2, <2>3, RowDoneTodo DEF Ended
  <2>5. SlotsTrue'
    BY <2>2, <2>3, SlotsLess DEF Ec2Inv
  <2> QED BY <1>2, <2>1, <2>2, <2>3, <2>4, <2>5, PassStepInv
<1>10. CASE state \in Alive
  <2>1. /\ row' = [row EXCEPT ![r].state = state, ![r].inst = i, ![r].age = 0]
        /\ ((~Open(r[1]) \/ Failing(r)) /\ Goes("terminate")) \/ RowDone
        /\ UNCHANGED <<job, inst>>
    BY <1>1, <1>3, <1>4, <1>10 DEF LookAtRow
  <2> QED BY <1>6, <1>10, <2>1
<1>11. CASE state \notin Alive
  <2>1. /\ row' = [row EXCEPT ![r].state = state, ![r].inst = i, ![r].age = 0]
        /\ inst' = Expired(r)
        /\ \/ /\ Open(r[1]) /\ r[2] = 1 /\ inst[i].reason = "capacity"
              /\ pass' = [pass EXCEPT !.pc = "fallback", !.todo = @ \ {r}] /\ UNCHANGED job
           \/ RowDone /\ job' = Failed(r[1])
    BY <1>1, <1>3, <1>4, <1>11 DEF LookAtRow, InstanceLost
  <2> QED BY <1>5, <1>8, <1>9, <1>11, <2>1
<1> QED BY <1>10, <1>11

\* TerminateInstances: the instance ends, and its worker with it.
LEMMA GoneMoves ==
    ASSUME Ec2Inv, NEW i \in DOMAIN inst, inst' = Gone(i)
    PROVE  InstsMove /\ inst'[i].state \in Ended
<1>1. /\ inst[i].state \in Alive \cup Ended /\ inst[i].reason \in {"none", "capacity"}
      /\ inst[i].reason = "capacity" => inst[i].state = "terminated"
  BY InstanceFacts DEF Instances
<1>2. PICK state : state = IF inst[i].state = "terminated" THEN "terminated" ELSE "shutting-down"
  OBVIOUS
<1>3. inst' = [inst EXCEPT ![i].state = state, ![i].reason = inst[i].reason, ![i].agent = "over"]
  <2>1. [inst[i] EXCEPT !.state = state, !.agent = "over"]
            = [inst[i] EXCEPT !.state = state, !.reason = inst[i].reason, !.agent = "over"]
    BY InstanceFacts DEF Instances
  <2>2. inst' = [inst EXCEPT ![i] = [inst[i] EXCEPT !.state = state, !.agent = "over"]]
    BY <1>2 DEF Gone
  <2> QED BY <2>1, <2>2
<1>4. InstsMove
  BY <1>1, <1>2, <1>3, Dead DEF Ended
<1>5. inst'[i].state = state
  <2>1. inst[i] \in Instances
    BY InstanceFacts
  <2> QED BY <1>3, <2>1 DEF Instances
<1> QED BY <1>2, <1>4, <1>5 DEF Ended

\* The reaper terminates an instance: its worker does not run the job in time.
LEMMA TerminateInv == Ec2Inv /\ Terminate => Ec2Inv'
<1> SUFFICES ASSUME Ec2Inv, Terminate PROVE Ec2Inv'
  OBVIOUS
<1>1. PICK r : r = pass.at
  OBVIOUS
<1>2. PICK i : i = row[r].inst
  OBVIOUS
<1>3. pass.pc = "terminate" /\ r \in Attempts /\ row[r].state \in Alive /\ Justified(i) /\ UNCHANGED <<job, row>>
  BY <1>1, <1>2 DEF Terminate, ThePass, Ec2Inv, Ec2TypeOK, PassType, PassTrue
<1>4. i \in DOMAIN inst
  BY <1>2, <1>3, RowUse DEF Alive
<1>5. PICK sure \in BOOLEAN :
            /\ pass' = [pass EXCEPT !.pc = "record", !.sure = sure]
            /\ sure => inst' = Gone(i)
            /\ ~sure => UNCHANGED inst
  BY <1>1, <1>2 DEF Terminate
<1>6. /\ PassType' /\ pass'.kind = pass.kind /\ pass'.seen = pass.seen
      /\ pass'.pc = "record" /\ pass'.at = r /\ pass'.todo = pass.todo /\ pass'.sure = sure
  <2>1. Moved("record", r, pass.todo, sure)
    BY <1>1, <1>5, PassRecord
  <2>2. pass.pc # "none" /\ pass.todo \in SUBSET Attempts
    BY <1>3, PassRecord
  <2> QED BY <1>3, <2>1, <2>2, PassForm, SomePlaces
<1>7. InstsMove /\ (sure => inst'[i].state \in Ended)
  BY <1>4, <1>5, GoneMoves, InstsStay
<1>8. UNCHANGED cut
  <2>1. ~(Works(i) /\ inst[i].age =< MaxRuntime /\ inst[i].state = "running")
    <3>1. inst[i].age \in Nat /\ MaxRuntime \in Nat
      BY <1>4, InstanceShape, Ec2Assumption DEF Ec2Inv, Ec2TypeOK
    <3> QED BY <1>3, <3>1 DEF Justified, Works
  <2> QED BY <1>1, <1>2, <2>1 DEF Terminate
<1>9. SeenTrue' /\ TodoTrue'
  BY <1>3, <1>6, <1>7, SeenCore, TodoCore, RowsStay
<1>10. PassTrue'
  BY <1>2, <1>3, <1>6, <1>7 DEF PassTrue
<1>11. SlotsTrue'
  BY <1>3, <1>6, SlotsStay DEF Kept
<1> QED BY <1>3, <1>6, <1>7, <1>8, <1>9, <1>10, <1>11, JobsStay, RowsStay, PassStepInv

\* What was terminated is recorded, and the job of it ends.
LEMMA RecordInv == Ec2Inv /\ Record => Ec2Inv'
<1> SUFFICES ASSUME Ec2Inv, Record PROVE Ec2Inv'
  OBVIOUS
<1>1. PICK r : r = pass.at
  OBVIOUS
<1>2. PICK i : i = row[r].inst
  OBVIOUS
<1>3. /\ pass.pc = "record" /\ r \in Attempts /\ r[1] \in Jobs /\ row[r].state \in Alive
      /\ pass.sure => inst[i].state \in Ended
      /\ RowDone /\ job' = Failed(r[1]) /\ UNCHANGED cut
  BY <1>1, <1>2, RowUse DEF Record, ThePass, Ec2Inv, Ec2TypeOK, PassType, PassTrue
<1>4. i \in DOMAIN inst /\ Of(i) = r /\ \A k \in DOMAIN inst : Of(k) = r => k = i
  <2>1. i \in DOMAIN inst /\ Of(i) = r
    BY <1>2, <1>3, RowUse DEF Alive
  <2> QED BY <2>1 DEF Ec2Inv, InstTrue
<1>5. /\ PassType' /\ PassTrue' /\ pass'.kind = pass.kind /\ pass'.seen = pass.seen
      /\ pass'.todo = pass.todo \ {r} /\ Kept' = 0
  BY <1>1, <1>3, RowDoneForm
<1>6. JobsMove /\ job'[r[1]].state = "DONE"
  BY <1>3, JobFails
<1>7. InstsMove
  <2>1. inst' = Expired(r) \/ UNCHANGED inst
    BY <1>1 DEF Record
  <2> QED BY <2>1, ExpiredMoves, InstsStay DEF Ec2Inv, Ec2TypeOK
<1>8. CASE pass.sure /\ row' = [row EXCEPT ![r].state = "shutting-down"]
  <2>1. /\ RowType' /\ \A q \in Attempts : q # r => SameRow(q)
        /\ row'[r].state = "shutting-down" /\ row'[r].inst = i
    BY <1>2, <1>3, <1>8, RowState DEF RowStates, Opened
  <2>2. inst'[i].state \in Ended
    BY <1>3, <1>4, <1>7, <1>8 DEF InstsMove, InstMoves
  <2>3. RowNotAhead(r)'
    BY <1>6, <2>1, <2>2 DEF RowNotAhead
  <2>4. /\ RowsMove /\ ActiveRows' \subseteq ActiveRows /\ Begun' \subseteq Begun
    BY <1>3, <1>4, <1>6, <1>7, <2>1, <2>3, RowLearns DEF Opened, Active, Ended
  <2>5. SeenTrue' /\ TodoTrue'
    BY <1>5, <1>7, <2>1, RowDoneTodo
  <2>6. SlotsTrue'
    BY <1>5, <2>4, SlotsLess DEF Ec2Inv
  <2> QED BY <1>3, <1>5, <1>6, <1>7, <2>4, <2>5, <2>6, PassStepInv
<1>9. CASE UNCHANGED row
  <2>1. SeenTrue' /\ TodoTrue'
    <3>1. row'[r].state # "launching"
      BY <1>3, <1>9 DEF Alive
    <3> QED BY <1>5, <1>7, <1>9, <3>1, RowDoneTodo, RowsStay
  <2>2. SlotsTrue'
    BY <1>5, <1>9, SlotsStay
  <2> QED BY <1>3, <1>5, <1>6, <1>7, <1>9, <2>1, <2>2, RowsStay, PassStepInv
<1> QED BY <1>1, <1>8, <1>9 DEF Record

\* An instance that no row knows runs no job: the rows that look for theirs were looked at.
LEMMA TerminateUnknownInv == ASSUME NEW i \in DOMAIN inst PROVE Ec2Inv /\ TerminateUnknown(i) => Ec2Inv'
<1> SUFFICES ASSUME Ec2Inv, TerminateUnknown(i) PROVE Ec2Inv'
  OBVIOUS
<1>1. /\ pass.kind = "reap" /\ pass.todo = {} /\ i \in DOMAIN pass.seen /\ i \notin Known
      /\ inst' = Gone(i) /\ UNCHANGED <<job, row, pass>>
  BY DEF TerminateUnknown, Unknown
<1>2. Of(i) \in Attempts /\ InstTrue(i)
  BY InstanceShape DEF Ec2Inv, Ec2TypeOK
<1>3. inst[i].agent # "working"
  <2> SUFFICES ASSUME inst[i].agent = "working" PROVE FALSE
    OBVIOUS
  <2>1. row[Of(i)].inst = i \/ row[Of(i)].state = "launching"
    BY <1>2 DEF InstTrue, RowFollows
  <2>2. CASE row[Of(i)].inst = i
    BY <1>1, <1>2, <2>2 DEF Known
  <2>3. CASE row[Of(i)].state = "launching"
    BY <1>1, <2>3 DEF Ec2Inv, TodoTrue
  <2> QED BY <2>1, <2>2, <2>3
<1>4. UNCHANGED cut
  BY <1>3 DEF TerminateUnknown, Works
<1> QED BY <1>1, <1>4, GoneMoves, JobsStay, RowsStay, QuietStep

-----------------------------------------------------------------------------
(* Every step keeps the invariant.                                          *)

LEMMA PassCrashInv == Ec2Inv /\ PassCrash => Ec2Inv'
BY PassOver DEF PassCrash

LEMMA EndPassInv == Ec2Inv /\ EndPass => Ec2Inv'
BY PassOver DEF EndPass

LEMMA Ec2Stutters == Ec2Inv /\ UNCHANGED ec2Vars => Ec2Inv'
BY JobsStay, InstsStay, RowsStay, QuietStep DEF ec2Vars

LEMMA Ec2Step == Ec2Inv /\ [Ec2Next]_ec2Vars => Ec2Inv'
<1> SUFFICES ASSUME Ec2Inv, [Ec2Next]_ec2Vars PROVE Ec2Inv'
  OBVIOUS
<1>1. CASE \E j \in Jobs : QueueJob(j) \/ StopJob(j) \/ LeaseExpires(j)
  BY <1>1, QueueJobInv, StopJobInv, LeaseExpiresInv
<1>2. CASE StartPass("reap") \/ StartPass("dispatch")
  BY <1>2, StartPassInv
<1>3. CASE PassStep
  <2>1. CASE \E r \in Attempts : TakeRow(r)
    BY <2>1, TakeRowInv
  <2>2. CASE FailTheJob \/ Fallback
    BY <2>2, FailTheJobInv, FallbackInv
  <2>3. CASE MakeToken \/ RunAgain \/ RunInstance \/ RunUnsure \/ RunRefused
    BY <2>3, MakeTokenInv, RunAgainInv, RunInstanceInv, RunUnsureInv, RunRefusedInv
  <2>4. CASE LookAtRow \/ Terminate \/ Record
    BY <2>4, LookAtRowInv, TerminateInv, RecordInv
  <2>5. CASE \E i \in DOMAIN inst : TerminateUnknown(i)
    BY <2>5, TerminateUnknownInv
  <2>6. CASE Dispatch \/ EndPass
    BY <2>6, DispatchInv, EndPassInv
  <2> QED BY <1>3, <2>1, <2>2, <2>3, <2>4, <2>5, <2>6 DEF PassStep
<1>4. CASE PassCrash
  BY <1>4, PassCrashInv
<1>5. CASE \E i \in DOMAIN inst : InstanceStep(i) \/ Dies(i)
  <2>1. PICK i \in DOMAIN inst : InstanceStep(i) \/ Dies(i)
    BY <1>5
  <2>2. CASE InstanceStep(i)
    BY <2>2, ListedInv, SignInInv, ClaimJobInv, FinishInv, NoJobInv, ShutsDownInv, TerminatedInv DEF InstanceStep
  <2>3. CASE Dies(i)
    BY <2>3, DiesInv
  <2> QED BY <2>1, <2>2, <2>3
<1>6. CASE Ec2Tick
  BY <1>6, Ec2TickInv
<1>7. CASE UNCHANGED ec2Vars
  BY <1>7, Ec2Stutters
<1> QED BY <1>1, <1>2, <1>3, <1>4, <1>5, <1>6, <1>7 DEF Ec2Next

-----------------------------------------------------------------------------
(* The theorems.                                                            *)

\* The invariant of the launcher and the reaper, however their passes, jobs, instances and
\* workers interleave, and whatever is lost, fails or dies.
THEOREM Ec2Invariant == Ec2Spec => []Ec2Inv
BY Ec2InitInv, Ec2Step, PTL DEF Ec2Spec

\* Jobs, rows, instances and the pass keep their types.
THEOREM Ec2TypeCorrect == Ec2Spec => []Ec2TypeOK
<1>1. Ec2Inv => Ec2TypeOK
  BY DEF Ec2Inv
<1> QED BY <1>1, Ec2Invariant, PTL

\* The reaper never cuts a worker off that runs its job within MOTUZ_EC2_MAX_RUNTIME: not for a
\* slow boot, for what it saw before the worker claimed the job, nor as an unknown instance.
THEOREM WorkersAreNotCut == Ec2Spec => []WorkIsNotCut
<1>1. Ec2Inv => WorkIsNotCut
  BY DEF Ec2Inv
<1> QED BY <1>1, Ec2Invariant, PTL

\* An instance that is alive and that a row knows, or looks for, has an active row.
LEMMA AliveTakesSlot ==
    ASSUME Ec2Inv, NEW i \in InState(Alive),
           i \in Known \/ \E r \in Attempts : row[r].state = "launching" /\ i \in Started(r)
    PROVE  i \in DOMAIN inst /\ Of(i) \in ActiveRows
<1>1. i \in DOMAIN inst /\ inst[i].state \in Alive
  BY DEF InState
<1>2. CASE i \in Known
  <2>1. PICK r \in Attempts : row[r].inst = i
    BY <1>2 DEF Known
  <2>2. RowTrue(r) /\ RowNotAhead(r) /\ i # 0 /\ row[r].state \in RowStates
    BY <1>1, InstanceShape, RowUse DEF Ec2Inv, Ec2TypeOK
  <2>3. Of(i) = r /\ row[r].state \notin {"none", "failed"} \cup Ended
    BY <1>1, <2>1, <2>2 DEF RowTrue, RowNotAhead, Alive, Ended
  <2>4. row[r].state \in Active
    BY <2>2, <2>3 DEF RowStates, Opened, Ended
  <2> QED BY <1>1, <2>3, <2>4 DEF ActiveRows
<1>3. CASE \E r \in Attempts : row[r].state = "launching" /\ i \in Started(r)
  BY <1>1, <1>3 DEF ActiveRows, Active, Started, Of
<1> QED BY <1>2, <1>3

\* Two attempts of a job are never active at once.
LEMMA OneAttempt ==
    ASSUME Ec2Inv, NEW r \in ActiveRows, NEW q \in ActiveRows, r[1] = q[1] PROVE r = q
<1>1. /\ r \in Attempts /\ q \in Attempts /\ row[r].state \in Active /\ row[q].state \in Active
      /\ r = <<r[1], r[2]>> /\ q = <<r[1], q[2]>> /\ r[1] \in Jobs /\ r[2] \in {1, 2} /\ q[2] \in {1, 2}
  BY RowUse DEF ActiveRows
<1>2. InTurn(r[1])
  BY <1>1 DEF Ec2Inv
<1>3. Active \cap NoInstance = {} /\ "none" \notin Active
  BY DEF Active, Alive, NoInstance, Ended
<1> QED BY <1>1, <1>2, <1>3 DEF InTurn

\* Never more than MOTUZ_EC2_MAX_WORKERS instances that a row accounts for are alive, retries
\* and second attempts included, and never two for the same job: each takes a slot of its own.
THEOREM WorkersStayWithinLimit == Ec2Spec => []InstancesWithinLimit
<1>1. Ec2Inv => InstancesWithinLimit
  <2> SUFFICES ASSUME Ec2Inv PROVE InstancesWithinLimit
    OBVIOUS
  <2> DEFINE alive == {i \in InState(Alive) : i \in Known \/ \E r \in Attempts :
                                                  row[r].state = "launching" /\ i \in Started(r)}
             slot  == [i \in alive |-> Of(i)]
  <2>1. \A i \in alive : i \in DOMAIN inst /\ Of(i) \in ActiveRows
    BY AliveTakesSlot
  <2>2. \A i, k \in alive : Of(i) = Of(k) => i = k
    BY <2>1 DEF Ec2Inv, InstTrue
  <2> HIDE DEF alive
  <2>3. slot \in Injection(alive, ActiveRows)
    BY <2>1, <2>2 DEF Injection, IsInjective
  <2>4. Cardinality(alive) =< Cardinality(ActiveRows) /\ Cardinality(alive) \in Nat
    BY <2>3, SlotsFinite, FS_Injection, FS_CardinalityType DEF Ec2Inv
  <2>5. Cardinality(alive) =< MaxWorkers
    BY <2>4, SlotsFinite DEF Ec2Inv, SlotsTrue
  <2>6. ASSUME NEW i \in alive, NEW k \in alive, inst[i].job = inst[k].job PROVE i = k
    <3>1. Of(i)[1] = Of(k)[1]
      BY <2>6 DEF Of
    <3> QED BY <2>1, <2>2, <2>6, <3>1, OneAttempt
  <2> QED BY <2>5, <2>6 DEF InstancesWithinLimit, alive
<1> QED BY <1>1, Ec2Invariant, PTL
=============================================================================
