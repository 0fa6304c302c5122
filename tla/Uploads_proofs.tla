---------------------------- MODULE Uploads_proofs ----------------------------
(***************************************************************************)
(* However many files, requests, processes, retries and restarts there     *)
(* are: SuccessIsTrue, ReplacedIsKept, RoomIsKept and                      *)
(* SettledJobsDoNotExpire of Uploads.                                      *)
(***************************************************************************)
EXTENDS Uploads, Integers, FiniteSetTheorems, SequenceTheorems, WellFoundedInduction, TLAPS

-----------------------------------------------------------------------------
(* The inductive invariant.                                                 *)

Places == {"free", "arrived", "starting", "spawning", "finding", "writing", "finishing",
           "waiting", "renaming", "committing", "aborting", "counting", "verdict"}
Results == {"none", "more", "done", "failed", "SUCCESS", "FAILED"}
Chunks == [pc : Places, file : Files \cup {"none"}, offset : Int, pipe : Nat, live : BOOLEAN,
           result : Results, full : BOOLEAN]
Rcats  == [file : Files, written : Nat, stdin : {"open", "closed", "signalled", "cut"},
           exit : {"no", "well", "badly"}, inode : Nat]
Pages  == [pc : {"ready", "waiting", "over"}, offset : Int, conflicts : Nat, attempts : Nat]

UploadTypeOK ==
    /\ job \in {"none", "PROGRESS", "SUCCESS", "FAILED", "STOPPED"}
    /\ local \in BOOLEAN
    /\ state \in [Files -> {"pending", "skipped", "done", "failed"}]
    /\ quiet \in BOOLEAN
    /\ pipes \in [Files -> Nat]
    /\ rcat \in Seq(Rcats)
    /\ data \in Seq(Nat) /\ Len(data) = Len(rcat)
    /\ temp \in [Files -> Nat]
    /\ path \in [Files -> Nat \cup {Removed}]
    /\ req \in [Threads -> Chunks]
    /\ page \in [Files -> Pages]
    /\ stopping \in {"no", "committing", "aborting", "done"}
    /\ expiring \in {"no", "aborting", "committing"}
    /\ lost \in Nat /\ restarts \in Nat
    /\ overtaken \subseteq Files

\* Who refers to which process: a request that handles a chunk, the dictionary, an inode, a
\* temporary name, a path.
OfFile(i, f)   == i \in DOMAIN rcat /\ rcat[i].file = f
HasFile(t)     == req[t].pc # "free" => req[t].file \in Files
Handling       == {"writing", "finishing", "waiting", "renaming"}
HasPipe(t)     == req[t].pc \in Handling => OfFile(req[t].pipe, req[t].file)
PipeIsOpen(f)  == pipes[f] # 0 => /\ OfFile(pipes[f], f)
                                  /\ rcat[pipes[f]].stdin = "open" /\ rcat[pipes[f]].exit # "well"
InodeIsOwn(i)  == /\ rcat[i].inode \in 1 .. i /\ rcat[rcat[i].inode].file = rcat[i].file
                  /\ rcat[i].written =< Size[rcat[i].file]
NamesAreOwn(f) == /\ temp[f] # 0 => local /\ OfFile(temp[f], f)
                  /\ path[f] \notin {0, Removed} =>
                         OfFile(path[f], f) /\ (local \/ rcat[path[f]].exit = "well")

PlacesInv ==
    /\ \A t \in Threads : HasFile(t) /\ HasPipe(t)
    /\ \A f \in Files : PipeIsOpen(f) /\ NamesAreOwn(f)
    /\ \A i \in DOMAIN rcat : InodeIsOwn(i)

\* A file that was never written by two processes at once is written by one, which the
\* dictionary or the one request that waits for it knows; it is the last that was started.
OneWriter(f) ==
    /\ \A i \in WritersOf(f), k \in DOMAIN rcat : rcat[k].file = f => k =< i
    /\ \A i, k \in WritersOf(f) : i = k
    /\ \A i \in WritersOf(f) : pipes[f] # 0 => pipes[f] = i
    /\ \A i \in WritersOf(f), t \in Finishing(f) : req[t].pipe = i
    /\ \A t \in Finishing(f) : pipes[f] = 0
    /\ \A t, u \in Finishing(f) : t = u
WritersInv == \A f \in Files \ overtaken : OneWriter(f)

\* What the processes have written is where their files' names say.
WritesToTemp(i) ==
    local /\ Alive(i) => /\ temp[rcat[i].file] = rcat[i].inode
                         /\ data[rcat[i].inode] = rcat[i].written
\* rcat got all it was to get before it was closed: an object's is signalled otherwise.
ClosedWhenWhole(i) ==
    ~local /\ Alive(i) /\ rcat[i].stdin = "closed" => rcat[i].written = Size[rcat[i].file]
EndedWell(i) == ~local /\ rcat[i].exit = "well" => Complete(rcat[i].file) \/ CutAfter(i)
GotAll(t) ==
    req[t].pc = "finishing" => LET r == rcat[req[t].pipe] IN
        r.exit # "no" \/ r.stdin # "open" \/ r.written = Size[req[t].file]
WaitsForWhole(t) ==
    LET f == req[t].file
        r == rcat[req[t].pipe] IN
    /\ req[t].pc = "renaming" => local /\ r.exit = "well"
    /\ local /\ req[t].pc \in {"waiting", "renaming"} /\ f \notin overtaken /\ r.exit = "well" =>
           temp[f] \in {0, r.inode} /\ data[r.inode] = Size[f]
\* The whole new file, which nobody writes to any more, or what an rcat that was cut short left.
KeptWhole(f) == \/ path[f] = 0 \/ (Complete(f) /\ temp[f] # path[f])
                \/ ~local /\ path[f] = Removed /\ CutShort(f)

DataInv ==
    /\ \A i \in DOMAIN rcat : rcat[i].file \notin overtaken =>
                                  WritesToTemp(i) /\ ClosedWhenWhole(i) /\ EndedWell(i)
    /\ \A t \in Threads : GotAll(t) /\ WaitsForWhole(t)
    /\ \A f \in Files \ overtaken : KeptWhole(f)

\* What was committed, and what a request is about to commit, is so.
Brought(f) == f \in overtaken \/ state[f] = "skipped" \/ Complete(f) \/ Undone(f)
CommitsTruth(t) ==
    /\ req[t].pc \notin {"free", "arrived"} => state[req[t].file] # "skipped"
    /\ req[t].pc = "committing" => req[t].result \in {"more", "done", "failed"}
    /\ req[t].pc = "committing" /\ req[t].result = "done" => Brought(req[t].file)
    /\ req[t].pc = "verdict" => req[t].result \in {"SUCCESS", "FAILED"}
    /\ req[t].pc = "verdict" /\ req[t].result = "SUCCESS" => \A f \in Files : Brought(f)
VerdictInv ==
    /\ \A f \in Files : state[f] = "done" => Brought(f)
    /\ \A t \in Threads : CommitsTruth(t)
    /\ job = "SUCCESS" => \A f \in Files : Brought(f)
    /\ job = "none" => \A t \in Threads : req[t].pc = "free"

UploadInv == UploadTypeOK /\ PlacesInv /\ WritersInv /\ DataInv /\ VerdictInv

-----------------------------------------------------------------------------
(* Sequences.                                                               *)

\* A sequence with one element replaced.
LEMMA UpdatedSeq ==
    ASSUME NEW S, NEW s \in Seq(S), NEW i \in DOMAIN s, NEW x \in S
    PROVE  /\ [s EXCEPT ![i] = x] \in Seq(S) /\ Len([s EXCEPT ![i] = x]) = Len(s)
           /\ DOMAIN [s EXCEPT ![i] = x] = DOMAIN s
           /\ \A k \in DOMAIN s : [s EXCEPT ![i] = x][k] = IF k = i THEN x ELSE s[k]
<1>1. DOMAIN s = 1 .. Len(s) /\ Len(s) \in Nat /\ s \in [1 .. Len(s) -> S]
  BY SeqDef
<1>2. [s EXCEPT ![i] = x] \in [1 .. Len(s) -> S]
  BY <1>1
<1> QED BY <1>1, <1>2, SeqDef

\* A function on the indices of a sequence is one.
LEMMA MappedSeq ==
    ASSUME NEW S, NEW n \in Nat, NEW g \in [1 .. n -> S]
    PROVE  g \in Seq(S) /\ Len(g) = n /\ DOMAIN g = 1 .. n
BY SeqDef

\* The elements of a longer sequence.
LEMMA AppendedSeq ==
    ASSUME NEW S, NEW s \in Seq(S), NEW x \in S
    PROVE  /\ Append(s, x) \in Seq(S) /\ Len(Append(s, x)) = Len(s) + 1
           /\ DOMAIN Append(s, x) = 1 .. Len(s) + 1 /\ DOMAIN s = 1 .. Len(s) /\ Len(s) \in Nat
           /\ \A k \in DOMAIN s : Append(s, x)[k] = s[k]
           /\ Append(s, x)[Len(s) + 1] = x
BY AppendProperties, LenProperties

-----------------------------------------------------------------------------
(* What the steps do to the processes and to what they have written, told    *)
(* element by element.                                                       *)

\* The processes that are there stay, with their files and inodes.
RcatsStay == /\ rcat' \in Seq(Rcats) /\ DOMAIN rcat' = DOMAIN rcat /\ Len(rcat') = Len(rcat)
             /\ \A k \in DOMAIN rcat : /\ rcat'[k].file = rcat[k].file
                                       /\ rcat'[k].inode = rcat[k].inode
DataStays == data' = data /\ Len(data') = Len(rcat')

\* Some files lose their entries, and the processes of these are told to end.
Dropped(fs) ==
    /\ RcatsStay /\ DataStays /\ UNCHANGED <<temp, path, overtaken>>
    /\ pipes' \in [Files -> Nat] /\ \A f \in Files : pipes'[f] = IF f \in fs THEN 0 ELSE pipes[f]
    /\ \A k \in DOMAIN rcat :
          /\ rcat'[k].written = rcat[k].written /\ rcat'[k].exit = rcat[k].exit
          /\ rcat'[k].stdin = IF \E f \in fs \cap Files : pipes[f] = k
                              THEN IF local THEN "closed" ELSE "signalled"
                              ELSE rcat[k].stdin

\* What abort_job and the reaper do, process by process.
LEMMA DropFields ==
    ASSUME UploadTypeOK, NEW fs \in SUBSET Files, Drop(fs)
    PROVE  Dropped(fs)
<1>1. rcat \in Seq(Rcats) /\ Len(rcat) \in Nat /\ DOMAIN rcat = 1 .. Len(rcat)
  BY LenProperties DEF UploadTypeOK
<1>2. \A k \in DOMAIN rcat : rcat[k] \in Rcats
  BY <1>1, ElementOfSeq
<1>3. \A k \in DOMAIN rcat : Aborted(k) \in Rcats
  BY <1>2 DEF Aborted, Rcats
<1> DEFINE S == {pipes[f] : f \in fs} \ {0}
<1>4. rcat' = [k \in DOMAIN rcat |-> IF k \in S THEN Aborted(k) ELSE rcat[k]]
  BY DEF Drop, AbortAll
<1>5. rcat' \in [1 .. Len(rcat) -> Rcats]
  BY <1>1, <1>2, <1>3, <1>4
<1>6. rcat' \in Seq(Rcats) /\ Len(rcat') = Len(rcat) /\ DOMAIN rcat' = DOMAIN rcat
  BY <1>1, <1>5, MappedSeq
<1>7. \A k \in DOMAIN rcat : k \in S <=> \E f \in fs \cap Files : pipes[f] = k
  BY <1>1
<1>8. \A k \in DOMAIN rcat : /\ rcat'[k].file = rcat[k].file /\ rcat'[k].inode = rcat[k].inode
                             /\ rcat'[k].written = rcat[k].written /\ rcat'[k].exit = rcat[k].exit
                             /\ rcat'[k].stdin = IF k \in S THEN IF local THEN "closed" ELSE "signalled"
                                                 ELSE rcat[k].stdin
  <2> SUFFICES ASSUME NEW k \in DOMAIN rcat
               PROVE  /\ rcat'[k].file = rcat[k].file /\ rcat'[k].inode = rcat[k].inode
                      /\ rcat'[k].written = rcat[k].written /\ rcat'[k].exit = rcat[k].exit
                      /\ rcat'[k].stdin = IF k \in S THEN IF local THEN "closed" ELSE "signalled"
                                          ELSE rcat[k].stdin
    OBVIOUS
  <2>1. rcat'[k] = IF k \in S THEN Aborted(k) ELSE rcat[k]
    BY <1>4
  <2>2. rcat[k] \in Rcats
    BY <1>2
  <2> HIDE DEF S
  <2> QED BY <2>1, <2>2 DEF Aborted, Rcats
<1>9. pipes' \in [Files -> Nat] /\ \A f \in Files : pipes'[f] = IF f \in fs THEN 0 ELSE pipes[f]
  BY DEF Drop, UploadTypeOK
<1>10. UNCHANGED <<data, temp, path, overtaken>> /\ Len(data) = Len(rcat)
  BY DEF Drop, UploadTypeOK
<1> HIDE DEF S
<1> QED BY <1>6, <1>7, <1>8, <1>9, <1>10 DEF Dropped, RcatsStay, DataStays

\* A step that touches neither processes nor files, told in the same words.
LEMMA NothingDropped ==
    ASSUME UploadTypeOK, UNCHANGED server
    PROVE  Dropped({})
BY DEF UploadTypeOK, server, Dropped, RcatsStay, DataStays

\* A process ends, by itself or because it was told to.
Ended(i, well) ==
    /\ RcatsStay /\ Len(data') = Len(rcat')
    /\ \A k \in DOMAIN rcat :
          /\ rcat'[k].written = rcat[k].written /\ rcat'[k].stdin = rcat[k].stdin
          /\ rcat'[k].exit = IF k = i THEN IF well THEN "well" ELSE "badly" ELSE rcat[k].exit
    /\ UNCHANGED <<pipes, overtaken, local, req>>
ExitWell(i) == rcat[i].stdin = "closed" /\ rcat[i].written = Size[rcat[i].file]

\* Exits, told once for both.
LEMMA ExitFields ==
    ASSUME UploadTypeOK, NEW i \in DOMAIN rcat, NEW status \in {"well", "badly"},
           rcat' = [rcat EXCEPT ![i].exit = status]
    PROVE  /\ RcatsStay
           /\ \A k \in DOMAIN rcat :
                 /\ rcat'[k].written = rcat[k].written /\ rcat'[k].stdin = rcat[k].stdin
                 /\ rcat'[k].exit = IF k = i THEN status ELSE rcat[k].exit
<1>1. rcat \in Seq(Rcats) /\ \A k \in DOMAIN rcat : rcat[k] \in Rcats
  BY ElementOfSeq DEF UploadTypeOK
<1>2. PICK r \in Rcats : r = [rcat[i] EXCEPT !.exit = status]
  BY <1>1 DEF Rcats
<1>3. rcat' = [rcat EXCEPT ![i] = r]
  BY <1>2
<1>4. /\ r.file = rcat[i].file /\ r.inode = rcat[i].inode /\ r.written = rcat[i].written
      /\ r.stdin = rcat[i].stdin /\ r.exit = status
  BY <1>1, <1>2 DEF Rcats
<1>5. /\ rcat' \in Seq(Rcats) /\ Len(rcat') = Len(rcat) /\ DOMAIN rcat' = DOMAIN rcat
      /\ \A k \in DOMAIN rcat : rcat'[k] = IF k = i THEN r ELSE rcat[k]
  BY <1>1, <1>3, UpdatedSeq
<1> QED BY <1>4, <1>5 DEF RcatsStay

\* A process that comes to its end, and what is then at its file's names.
LEMMA RcatEndsFields ==
    ASSUME UploadTypeOK, NEW i \in DOMAIN rcat, RcatEnds(i)
    PROVE  /\ Ended(i, ExitWell(i)) /\ Alive(i) /\ rcat[i].stdin # "open"
           /\ temp' \in [Files -> Nat] /\ path' \in [Files -> Nat \cup {Removed}] /\ data' \in Seq(Nat)
           /\ \A g \in Files : /\ temp'[g] = IF local /\ ~ExitWell(i) /\ g = rcat[i].file THEN 0 ELSE temp[g]
                               /\ path'[g] = IF local \/ rcat[i].stdin = "signalled" \/ g # rcat[i].file
                                             THEN path[g] ELSE IF ExitWell(i) THEN i ELSE Removed
           /\ \A k \in DOMAIN rcat :
                 data'[k] = IF ~local /\ ExitWell(i) /\ k = i THEN Size[rcat[i].file] ELSE data[k]
<1>1. rcat \in Seq(Rcats) /\ DOMAIN rcat = 1 .. Len(rcat) /\ Len(rcat) \in Nat
  BY LenProperties DEF UploadTypeOK
<1>2. rcat[i] \in Rcats /\ rcat[i].file \in Files /\ Size[rcat[i].file] \in Nat
  <2>1. rcat[i] \in Rcats
    BY <1>1, ElementOfSeq
  <2> QED BY <2>1, UploadAssumption DEF Rcats
<1>3. PICK f \in Files : f = rcat[i].file
  BY <1>2
<1>4. PICK well \in BOOLEAN : well <=> ExitWell(i)
  OBVIOUS
<1>5. /\ rcat' = [rcat EXCEPT ![i].exit = IF well THEN "well" ELSE "badly"]
      /\ temp' = IF local /\ ~well THEN [temp EXCEPT ![f] = 0] ELSE temp
      /\ path' = IF local \/ rcat[i].stdin = "signalled" THEN path
                 ELSE [path EXCEPT ![f] = IF well THEN i ELSE Removed]
      /\ data' = IF ~local /\ well THEN [data EXCEPT ![i] = Size[f]] ELSE data
      /\ Alive(i) /\ rcat[i].stdin # "open" /\ UNCHANGED <<pipes, overtaken, local, req>>
  BY <1>3, <1>4 DEF RcatEnds, ExitWell, start
<1>6. RcatsStay /\ \A k \in DOMAIN rcat :
                 /\ rcat'[k].written = rcat[k].written /\ rcat'[k].stdin = rcat[k].stdin
                 /\ rcat'[k].exit = IF k = i THEN IF well THEN "well" ELSE "badly" ELSE rcat[k].exit
  <2>1. PICK status \in {"well", "badly"} : status = IF well THEN "well" ELSE "badly"
    OBVIOUS
  <2>2. rcat' = [rcat EXCEPT ![i].exit = status]
    BY <1>5, <2>1
  <2> QED BY <2>1, <2>2, ExitFields
<1>7. temp' \in [Files -> Nat] /\ path' \in [Files -> Nat \cup {Removed}]
  BY <1>1, <1>5 DEF UploadTypeOK
<1>8. \A g \in Files : /\ temp'[g] = IF local /\ ~well /\ g = f THEN 0 ELSE temp[g]
                       /\ path'[g] = IF local \/ rcat[i].stdin = "signalled" \/ g # f
                                     THEN path[g] ELSE IF well THEN i ELSE Removed
  BY <1>5 DEF UploadTypeOK
<1>9. data \in Seq(Nat) /\ DOMAIN data = DOMAIN rcat /\ Len(data) = Len(rcat)
  BY <1>1, LenProperties DEF UploadTypeOK
<1>10. /\ data' \in Seq(Nat) /\ Len(data') = Len(data)
       /\ \A k \in DOMAIN rcat : data'[k] = IF ~local /\ well /\ k = i THEN Size[f] ELSE data[k]
  BY <1>2, <1>3, <1>5, <1>9, UpdatedSeq
<1> QED BY <1>3, <1>4, <1>5, <1>6, <1>7, <1>8, <1>9, <1>10 DEF Ended, RcatsStay

\* A process that fails by itself.
LEMMA RcatFailsFields ==
    ASSUME UploadTypeOK, NEW i \in DOMAIN rcat, RcatFails(i)
    PROVE  /\ Ended(i, FALSE) /\ Alive(i) /\ UNCHANGED <<data, path>>
           /\ temp' \in [Files -> Nat]
           /\ \A g \in Files : temp'[g] = temp[g] \/ (local /\ g = rcat[i].file /\ temp'[g] = 0)
<1>1. /\ rcat' = [rcat EXCEPT ![i].exit = "badly"] /\ Alive(i)
      /\ UNCHANGED <<pipes, overtaken, local, req, data, path>>
      /\ \/ local /\ temp' = [temp EXCEPT ![rcat[i].file] = 0]
         \/ UNCHANGED temp
  BY DEF RcatFails, start
<1>2. RcatsStay /\ \A k \in DOMAIN rcat :
                 /\ rcat'[k].written = rcat[k].written /\ rcat'[k].stdin = rcat[k].stdin
                 /\ rcat'[k].exit = IF k = i THEN "badly" ELSE rcat[k].exit
  BY <1>1, ExitFields
<1>3. temp' \in [Files -> Nat] /\ \A g \in Files : temp'[g] = temp[g] \/ (local /\ g = rcat[i].file /\ temp'[g] = 0)
  <2>1. temp \in [Files -> Nat]
    BY DEF UploadTypeOK
  <2>2. CASE UNCHANGED temp
    BY <2>1, <2>2
  <2>3. CASE local /\ temp' = [temp EXCEPT ![rcat[i].file] = 0]
    BY <2>1, <2>3
  <2> QED BY <1>1, <2>2, <2>3
<1>4. Len(data') = Len(rcat')
  BY <1>1, <1>2 DEF UploadTypeOK, RcatsStay
<1> QED BY <1>1, <1>2, <1>3, <1>4 DEF Ended

\* The entry of a process that loses it to another one is closed.
Replaced(k, f) == IF k = pipes[f] THEN "closed" ELSE rcat[k].stdin

\* A new process n for the file f.
Spawned(f, n) ==
    /\ f \in Files /\ n \in Nat /\ n > 0 /\ n \notin DOMAIN rcat
    /\ rcat' \in Seq(Rcats) /\ Len(rcat') = n /\ DOMAIN rcat' = DOMAIN rcat \cup {n}
    /\ \A k \in DOMAIN rcat :
          /\ rcat'[k].file = rcat[k].file /\ rcat'[k].inode = rcat[k].inode
          /\ rcat'[k].written = rcat[k].written /\ rcat'[k].exit = rcat[k].exit
          /\ rcat'[k].stdin = Replaced(k, f)
    /\ rcat'[n].file = f /\ rcat'[n].written = 0
    /\ rcat'[n].stdin = "open" /\ rcat'[n].exit = "no"
    /\ rcat'[n].inode = IF local /\ temp[f] # 0 THEN temp[f] ELSE n
    /\ data' \in Seq(Nat) /\ Len(data') = n /\ DOMAIN data' = DOMAIN rcat'
    /\ \A k \in DOMAIN rcat' : data'[k] = IF k = n \/ k = rcat'[n].inode THEN 0 ELSE data[k]
    /\ temp' \in [Files -> Nat]
    /\ \A g \in Files : temp'[g] = IF local /\ g = f THEN rcat'[n].inode ELSE temp[g]
    /\ pipes' \in [Files -> Nat] /\ \A g \in Files : pipes'[g] = IF g = f THEN n ELSE pipes[g]
    /\ overtaken' = IF WritersOf(f) # {} \/ Finishing(f) # {} THEN overtaken \cup {f} ELSE overtaken
    /\ UNCHANGED <<path, local>>

\* The process that a request starts.
LEMMA SpawnFields ==
    ASSUME UploadTypeOK, PlacesInv, NEW t \in Threads, Spawn(t)
    PROVE  Spawned(req[t].file, Len(rcat) + 1)
<1>f. PICK f : f = req[t].file
  OBVIOUS
<1>n. PICK n : n = Len(rcat) + 1
  OBVIOUS
<1>1. rcat \in Seq(Rcats) /\ DOMAIN rcat = 1 .. Len(rcat) /\ Len(rcat) \in Nat
  BY LenProperties DEF UploadTypeOK
<1>2. \A k \in DOMAIN rcat : rcat[k] \in Rcats
  BY <1>1, ElementOfSeq
<1>3. f \in Files
  BY <1>f DEF Spawn, At, PlacesInv, HasFile
<1>4. PICK ino : ino = IF local /\ temp[f] # 0 THEN temp[f] ELSE n
  OBVIOUS
<1>5. ino \in 1 .. n
  <2>1. temp[f] # 0 => temp[f] \in DOMAIN rcat
    BY <1>3 DEF PlacesInv, NamesAreOwn, OfFile
  <2> QED BY <1>1, <1>4, <1>n, <2>1
<1>6. PICK old : old = [k \in DOMAIN rcat |-> IF k = pipes[f] THEN [rcat[k] EXCEPT !.stdin = "closed"] ELSE rcat[k]]
  OBVIOUS
<1>7. PICK new : new = [file |-> f, written |-> 0, stdin |-> "open", exit |-> "no", inode |-> ino]
  OBVIOUS
<1>8. /\ rcat' = Append(old, new)
      /\ data' = [Append(data, 0) EXCEPT ![ino] = 0]
      /\ temp' = IF local THEN [temp EXCEPT ![f] = ino] ELSE temp
      /\ pipes' = [pipes EXCEPT ![f] = n]
      /\ overtaken' = IF WritersOf(f) # {} \/ Finishing(f) # {} THEN overtaken \cup {f} ELSE overtaken
      /\ UNCHANGED <<path, local>>
  BY <1>f, <1>n, <1>4, <1>6, <1>7 DEF Spawn, Quietly, start
<1>9. new \in Rcats
  BY <1>3, <1>5, <1>7 DEF Rcats
<1>10. \A k \in DOMAIN rcat : [rcat[k] EXCEPT !.stdin = "closed"] \in Rcats
  BY <1>2 DEF Rcats
<1>11. old \in Seq(Rcats) /\ Len(old) = Len(rcat) /\ DOMAIN old = DOMAIN rcat
  <2>1. old \in [1 .. Len(rcat) -> Rcats]
    BY <1>1, <1>2, <1>6, <1>10
  <2> QED BY <1>1, <2>1, MappedSeq
<1>12. /\ rcat' \in Seq(Rcats) /\ Len(rcat') = n /\ DOMAIN rcat' = 1 .. n
       /\ \A k \in DOMAIN rcat : rcat'[k] = old[k]
       /\ rcat'[n] = new
  BY <1>n, <1>1, <1>8, <1>9, <1>11, AppendedSeq
<1>13. \A k \in DOMAIN rcat :
                 /\ rcat'[k].file = rcat[k].file /\ rcat'[k].inode = rcat[k].inode
                 /\ rcat'[k].written = rcat[k].written /\ rcat'[k].exit = rcat[k].exit
                 /\ rcat'[k].stdin = Replaced(k, f)
  <2> SUFFICES ASSUME NEW k \in DOMAIN rcat
               PROVE  /\ rcat'[k].file = rcat[k].file /\ rcat'[k].inode = rcat[k].inode
                      /\ rcat'[k].written = rcat[k].written /\ rcat'[k].exit = rcat[k].exit
                      /\ rcat'[k].stdin = Replaced(k, f)
    OBVIOUS
  <2>1. rcat'[k] = IF k = pipes[f] THEN [rcat[k] EXCEPT !.stdin = "closed"] ELSE rcat[k]
    BY <1>6, <1>12
  <2>2. rcat[k] \in Rcats
    BY <1>2
  <2> QED BY <2>1, <2>2 DEF Replaced, Rcats
<1>14. /\ rcat'[n].file = f /\ rcat'[n].written = 0 /\ rcat'[n].stdin = "open"
       /\ rcat'[n].exit = "no" /\ rcat'[n].inode = ino
  BY <1>7, <1>12
<1>15. /\ data' \in Seq(Nat) /\ Len(data') = n /\ DOMAIN data' = 1 .. n
       /\ \A k \in 1 .. n : data'[k] = IF k = n \/ k = ino THEN 0 ELSE data[k]
  <2>1. data \in Seq(Nat) /\ Len(data) = Len(rcat)
    BY DEF UploadTypeOK
  <2>2. PICK more : more = Append(data, 0)
    OBVIOUS
  <2>3. /\ more \in Seq(Nat) /\ Len(more) = n /\ DOMAIN more = 1 .. n
        /\ \A k \in 1 .. Len(rcat) : more[k] = data[k]
        /\ more[n] = 0
    BY <1>n, <2>1, <2>2, AppendedSeq
  <2>4. data' = [more EXCEPT ![ino] = 0]
    BY <1>8, <2>2
  <2>5. /\ data' \in Seq(Nat) /\ Len(data') = n /\ DOMAIN data' = 1 .. n
        /\ \A k \in 1 .. n : data'[k] = IF k = ino THEN 0 ELSE more[k]
    <3>1. ino \in DOMAIN more
      BY <1>5, <2>3
    <3>2. 0 \in Nat
      OBVIOUS
    <3>3. /\ data' \in Seq(Nat) /\ Len(data') = Len(more) /\ DOMAIN data' = DOMAIN more
          /\ \A k \in DOMAIN more : data'[k] = IF k = ino THEN 0 ELSE more[k]
      BY <2>3, <2>4, <3>1, <3>2, UpdatedSeq
    <3> QED BY <2>3, <3>3
  <2>6. \A k \in 1 .. n : more[k] = IF k = n THEN 0 ELSE data[k]
    <3> SUFFICES ASSUME NEW k \in 1 .. n, k # n
                 PROVE  more[k] = data[k]
      BY <2>3
    <3>1. k \in 1 .. Len(rcat)
      BY <1>1, <1>n
    <3> QED BY <2>3, <3>1
  <2> QED BY <2>5, <2>6
<1>16. temp' \in [Files -> Nat] /\ \A g \in Files : temp'[g] = IF local /\ g = f THEN ino ELSE temp[g]
  <2>1. temp \in [Files -> Nat] /\ ino \in Nat
    BY <1>5 DEF UploadTypeOK
  <2> QED BY <1>8, <2>1
<1>17. pipes' \in [Files -> Nat] /\ \A g \in Files : pipes'[g] = IF g = f THEN n ELSE pipes[g]
  <2>1. pipes \in [Files -> Nat] /\ n \in Nat
    BY <1>1, <1>n DEF UploadTypeOK
  <2> QED BY <1>8, <2>1
<1>18. Spawned(f, n)
  BY <1>1, <1>n, <1>3, <1>4, <1>8, <1>12, <1>13, <1>14, <1>15, <1>16, <1>17 DEF Spawned
<1> QED BY <1>f, <1>n, <1>18

\* The chunk that a request has, or its beginning, is written.
LEMMA WriteFields ==
    ASSUME UploadTypeOK, PlacesInv, NEW t \in Threads, WriteChunk(t)
    PROVE  \E n \in Nat, i \in DOMAIN rcat, f \in Files :
              /\ i = req[t].pipe /\ f = req[t].file /\ rcat[i].file = f /\ At(t, "writing")
              /\ Writable(i) /\ rcat[i].written + n =< Size[f]
              /\ RcatsStay /\ Len(data') = Len(rcat') /\ data' \in Seq(Nat)
              /\ \A k \in DOMAIN rcat :
                    /\ rcat'[k].written = IF k = i THEN rcat[k].written + n ELSE rcat[k].written
                    /\ rcat'[k].stdin = rcat[k].stdin /\ rcat'[k].exit = rcat[k].exit
                    /\ data'[k] = IF local /\ k = rcat[i].inode THEN rcat[i].written + n ELSE data[k]
              /\ UNCHANGED <<pipes, temp, path, overtaken, local>>
              /\ \/ Answer(t, Moved(Page(t), 0))
                 \/ rcat[i].written + n = Size[f] /\ Go(t, "finishing") /\ UNCHANGED page
                 \/ Result(t, "more", FALSE) /\ UNCHANGED page
<1>1. rcat \in Seq(Rcats) /\ DOMAIN rcat = 1 .. Len(rcat) /\ Len(rcat) \in Nat
  BY LenProperties DEF UploadTypeOK
<1>2. PICK f \in Files : f = req[t].file
  BY DEF WriteChunk, At, PlacesInv, HasFile
<1>3. PICK i \in DOMAIN rcat : i = req[t].pipe /\ rcat[i].file = f
  BY <1>2 DEF WriteChunk, At, PlacesInv, HasPipe, Handling, OfFile
<1>4. rcat[i] \in Rcats /\ rcat[i].inode \in 1 .. i /\ rcat[i].written =< Size[f] /\ Size[f] \in Nat
  <2>1. rcat[i] \in Rcats
    BY <1>1, ElementOfSeq
  <2> QED BY <1>2, <1>3, <2>1, UploadAssumption DEF PlacesInv, InodeIsOwn
<1>5. PICK n \in 0 .. Units(f, rcat[i].written) :
          /\ rcat' = [rcat EXCEPT ![i].written = @ + n]
          /\ data' = IF local THEN [data EXCEPT ![rcat[i].inode] = rcat[i].written + n] ELSE data
          /\ \/ Answer(t, Moved(Page(t), 0))
             \/ rcat[i].written + n = Size[f] /\ Go(t, "finishing") /\ UNCHANGED page
             \/ Result(t, "more", FALSE) /\ UNCHANGED page
  BY <1>2, <1>3 DEF WriteChunk
<1>6. n \in Nat /\ rcat[i].written \in Nat /\ rcat[i].written + n =< Size[f]
  BY <1>4, <1>5, UploadAssumption DEF Units, Rcats
<1>7. PICK r \in Rcats : r = [rcat[i] EXCEPT !.written = rcat[i].written + n]
  <2>1. PICK x \in Nat : x = rcat[i].written + n
    BY <1>6
  <2>2. [rcat[i] EXCEPT !.written = x] \in Rcats
    BY <1>4 DEF Rcats
  <2> QED BY <2>1, <2>2
<1>8. rcat' = [rcat EXCEPT ![i] = r]
  BY <1>5, <1>7
<1>9. /\ r.file = rcat[i].file /\ r.inode = rcat[i].inode /\ r.written = rcat[i].written + n
      /\ r.stdin = rcat[i].stdin /\ r.exit = rcat[i].exit
  BY <1>4, <1>7 DEF Rcats
<1>10. /\ rcat' \in Seq(Rcats) /\ Len(rcat') = Len(rcat) /\ DOMAIN rcat' = DOMAIN rcat
       /\ \A k \in DOMAIN rcat : rcat'[k] = IF k = i THEN r ELSE rcat[k]
  BY <1>1, <1>8, UpdatedSeq
<1>11. data \in Seq(Nat) /\ DOMAIN data = DOMAIN rcat /\ Len(data) = Len(rcat)
  BY <1>1, LenProperties DEF UploadTypeOK
<1>12. /\ data' \in Seq(Nat) /\ Len(data') = Len(data)
       /\ \A k \in DOMAIN rcat : data'[k] = IF local /\ k = rcat[i].inode THEN rcat[i].written + n ELSE data[k]
  <2>1. rcat[i].inode \in DOMAIN data /\ rcat[i].written + n \in Nat
    BY <1>1, <1>4, <1>6, <1>11
  <2>2. PICK x \in Nat : x = rcat[i].written + n
    BY <2>1
  <2>3. PICK ino \in DOMAIN data : ino = rcat[i].inode
    BY <2>1
  <2>4. data' = IF local THEN [data EXCEPT ![ino] = x] ELSE data
    BY <1>5, <2>2, <2>3
  <2>5. CASE local
    BY <2>2, <2>3, <2>4, <2>5, <1>11, UpdatedSeq
  <2>6. CASE ~local
    BY <2>4, <2>6, <1>11
  <2> QED BY <2>5, <2>6
<1>13. /\ At(t, "writing") /\ Writable(i) /\ UNCHANGED <<pipes, temp, path, overtaken, local>>
  BY <1>3 DEF WriteChunk, Quietly, start
<1>14. RcatsStay /\ Len(data') = Len(rcat')
  BY <1>9, <1>10, <1>11, <1>12 DEF RcatsStay
<1>15. \A k \in DOMAIN rcat :
                    /\ rcat'[k].written = IF k = i THEN rcat[k].written + n ELSE rcat[k].written
                    /\ rcat'[k].stdin = rcat[k].stdin /\ rcat'[k].exit = rcat[k].exit
  BY <1>9, <1>10
<1> WITNESS n \in Nat, i \in DOMAIN rcat, f \in Files
<1> QED BY <1>2, <1>3, <1>5, <1>6, <1>12, <1>13, <1>14, <1>15

\* The owner of a pipe closes it.
LEMMA FinishFields ==
    ASSUME UploadTypeOK, PlacesInv, NEW t \in Threads, Finish(t), OwnsPipe(t)
    PROVE  /\ At(t, "finishing") /\ req[t].file \in Files /\ OfFile(req[t].pipe, req[t].file)
           /\ pipes[req[t].file] = req[t].pipe
           /\ RcatsStay /\ DataStays /\ UNCHANGED <<temp, path, overtaken, local>>
           /\ pipes' \in [Files -> Nat]
           /\ \A g \in Files : pipes'[g] = IF g = req[t].file THEN 0 ELSE pipes[g]
           /\ \A k \in DOMAIN rcat :
                 /\ rcat'[k].written = rcat[k].written /\ rcat'[k].exit = rcat[k].exit
                 /\ rcat'[k].stdin = IF k = req[t].pipe THEN "closed" ELSE rcat[k].stdin
           /\ Go(t, "waiting") /\ UNCHANGED page
<1>1. rcat \in Seq(Rcats) /\ \A k \in DOMAIN rcat : rcat[k] \in Rcats
  BY ElementOfSeq DEF UploadTypeOK
<1>2. PICK f \in Files : f = req[t].file
  BY DEF Finish, At, PlacesInv, HasFile
<1>3. PICK i \in DOMAIN rcat : i = req[t].pipe /\ rcat[i].file = f
  BY <1>2 DEF Finish, At, PlacesInv, HasPipe, Handling, OfFile
<1>4. /\ pipes' = [pipes EXCEPT ![f] = 0]
      /\ rcat' = [rcat EXCEPT ![i].stdin = "closed"]
      /\ UNCHANGED <<data, temp, path, overtaken, local, page>> /\ Go(t, "waiting") /\ At(t, "finishing")
  BY <1>2, <1>3 DEF Finish, Quietly, start
<1>5. PICK r \in Rcats : r = [rcat[i] EXCEPT !.stdin = "closed"]
  BY <1>1 DEF Rcats
<1>6. rcat' = [rcat EXCEPT ![i] = r]
  BY <1>4, <1>5
<1>7. /\ r.file = rcat[i].file /\ r.inode = rcat[i].inode /\ r.written = rcat[i].written
      /\ r.stdin = "closed" /\ r.exit = rcat[i].exit
  BY <1>1, <1>5 DEF Rcats
<1>8. /\ rcat' \in Seq(Rcats) /\ Len(rcat') = Len(rcat) /\ DOMAIN rcat' = DOMAIN rcat
      /\ \A k \in DOMAIN rcat : rcat'[k] = IF k = i THEN r ELSE rcat[k]
  BY <1>1, <1>6, UpdatedSeq
<1>9. pipes' \in [Files -> Nat] /\ \A g \in Files : pipes'[g] = IF g = f THEN 0 ELSE pipes[g]
  BY <1>4 DEF UploadTypeOK
<1>10. Len(data) = Len(rcat)
  BY DEF UploadTypeOK
<1> QED BY <1>2, <1>3, <1>4, <1>7, <1>8, <1>9, <1>10 DEF RcatsStay, DataStays, OfFile, OwnsPipe

\* rcat's exit status is there.
LEMMA AwaitedFields ==
    ASSUME UploadTypeOK, PlacesInv, NEW t \in Threads, RcatAwaited(t), NEW f, f = req[t].file,
           NEW well, well = (rcat[req[t].pipe].exit = "well")
    PROVE  /\ At(t, "waiting") /\ f \in Files /\ OfFile(req[t].pipe, f) /\ ~Alive(req[t].pipe)
           /\ temp' \in [Files -> Nat]
           /\ \A g \in Files : temp'[g] = IF local /\ ~well /\ g = f THEN 0 ELSE temp[g]
           /\ UNCHANGED <<pipes, rcat, data, path, overtaken, local, page>>
           /\ IF well /\ local THEN Go(t, "renaming")
              ELSE \E full \in BOOLEAN : Result(t, IF well THEN "done" ELSE "failed", full)
<1>1. f \in Files /\ OfFile(req[t].pipe, f)
  BY DEF RcatAwaited, At, PlacesInv, HasFile, HasPipe, Handling
<1>2. temp' = IF local /\ ~well THEN [temp EXCEPT ![f] = 0] ELSE temp
  BY DEF RcatAwaited
<1>3. temp' \in [Files -> Nat] /\ \A g \in Files : temp'[g] = IF local /\ ~well /\ g = f THEN 0 ELSE temp[g]
  BY <1>2 DEF UploadTypeOK
<1>4. IF well /\ local THEN Go(t, "renaming")
      ELSE \E full \in BOOLEAN : Result(t, IF well THEN "done" ELSE "failed", full)
  <2>1. local \in BOOLEAN
    BY DEF UploadTypeOK
  <2> QED BY <2>1 DEF RcatAwaited
<1>5. At(t, "waiting") /\ ~Alive(req[t].pipe) /\ UNCHANGED <<pipes, rcat, data, path, overtaken, local, page>>
  BY DEF RcatAwaited, Quietly, start
<1> QED BY <1>1, <1>3, <1>4, <1>5

\* What is at the temporary name gets the file's name.
RenameEffect(t, f) ==
    /\ At(t, "renaming") /\ f \in Files /\ OfFile(req[t].pipe, f)
    /\ temp' \in [Files -> Nat] /\ path' \in [Files -> Nat \cup {Removed}]
    /\ \A g \in Files : /\ temp'[g] = IF g = f THEN 0 ELSE temp[g]
                        /\ path'[g] = IF g = f /\ temp[f] # 0 THEN temp[f] ELSE path[g]
    /\ UNCHANGED <<pipes, rcat, data, overtaken, local, page>>
    /\ Result(t, IF temp[f] # 0 THEN "done" ELSE "failed", FALSE)
LEMMA RenameFields ==
    ASSUME UploadTypeOK, PlacesInv, NEW t \in Threads, Rename(t)
    PROVE  RenameEffect(t, req[t].file)
<1>f. PICK f : f = req[t].file
  OBVIOUS
<1>1. f \in Files /\ OfFile(req[t].pipe, f)
  BY <1>f DEF Rename, At, PlacesInv, HasFile, HasPipe, Handling
<1>2. /\ path' = IF temp[f] # 0 THEN [path EXCEPT ![f] = temp[f]] ELSE path
      /\ temp' = [temp EXCEPT ![f] = 0]
  BY <1>f DEF Rename
<1>3. /\ temp' \in [Files -> Nat] /\ path' \in [Files -> Nat \cup {Removed}]
      /\ \A g \in Files : /\ temp'[g] = IF g = f THEN 0 ELSE temp[g]
                          /\ path'[g] = IF g = f /\ temp[f] # 0 THEN temp[f] ELSE path[g]
  <2>1. temp \in [Files -> Nat] /\ path \in [Files -> Nat \cup {Removed}]
    BY DEF UploadTypeOK
  <2> QED BY <1>1, <1>2, <2>1
<1>4. /\ At(t, "renaming") /\ UNCHANGED <<pipes, rcat, data, overtaken, local, page>>
      /\ Result(t, IF temp[f] # 0 THEN "done" ELSE "failed", FALSE)
  BY <1>f DEF Rename, Quietly, start
<1> QED BY <1>f, <1>1, <1>3, <1>4 DEF RenameEffect

\* A restart ends every request, and every process or the pipes of those that are left.
LEMMA RestartFields ==
    ASSUME UploadTypeOK, NEW alone \in BOOLEAN, NEW first, Restart(alone, first)
    PROVE  /\ RcatsStay /\ DataStays /\ UNCHANGED <<temp, path, overtaken, local, state, job>>
           /\ pipes' \in [Files -> Nat] /\ \A f \in Files : pipes'[f] = 0
           /\ \A k \in DOMAIN rcat :
                 /\ rcat'[k].written = rcat[k].written
                 /\ rcat'[k].exit = rcat[k].exit \/ (Alive(k) /\ rcat'[k].exit = "badly")
                 /\ \/ rcat'[k].stdin = rcat[k].stdin
                    \/ /\ Alive(k) /\ rcat[k].stdin \notin {"closed", "cut"}
                       /\ rcat'[k].stdin = IF local \/ rcat[k].written = Size[rcat[k].file]
                                           THEN "closed" ELSE "cut"
           /\ req' = [t \in Threads |-> Free] /\ job # "none"
<1>1. rcat \in Seq(Rcats) /\ Len(rcat) \in Nat /\ DOMAIN rcat = 1 .. Len(rcat)
  BY LenProperties DEF UploadTypeOK
<1>2. \A k \in DOMAIN rcat : rcat[k] \in Rcats
  BY <1>1, ElementOfSeq
<1>3. rcat' = [k \in DOMAIN rcat |-> IF ~Alive(k) THEN rcat[k] ELSE IF alone THEN Left(k, first)
                                    ELSE [rcat[k] EXCEPT !.exit = "badly"]]
  BY DEF Restart
<1>4. \A k \in DOMAIN rcat : [rcat[k] EXCEPT !.exit = "badly"] \in Rcats /\ EndOfFile(k) \in Rcats
  BY <1>2 DEF Rcats, EndOfFile
<1>5. rcat' \in [1 .. Len(rcat) -> Rcats]
  BY <1>1, <1>2, <1>3, <1>4 DEF Left
<1>6. rcat' \in Seq(Rcats) /\ Len(rcat') = Len(rcat) /\ DOMAIN rcat' = DOMAIN rcat
  BY <1>1, <1>5, MappedSeq
<1>7. ASSUME NEW k \in DOMAIN rcat
      PROVE  /\ rcat'[k].file = rcat[k].file /\ rcat'[k].inode = rcat[k].inode
             /\ rcat'[k].written = rcat[k].written
             /\ rcat'[k].exit = rcat[k].exit \/ (Alive(k) /\ rcat'[k].exit = "badly")
             /\ \/ rcat'[k].stdin = rcat[k].stdin
                \/ /\ Alive(k) /\ rcat[k].stdin \notin {"closed", "cut"}
                   /\ rcat'[k].stdin = IF local \/ rcat[k].written = Size[rcat[k].file]
                                       THEN "closed" ELSE "cut"
  <2>1. rcat[k] \in Rcats
    BY <1>2
  <2>2. CASE rcat'[k] = rcat[k]
    BY <2>2
  <2>3. CASE Alive(k) /\ rcat'[k] = [rcat[k] EXCEPT !.exit = "badly"]
    BY <2>1, <2>3 DEF Rcats
  <2>4. CASE Alive(k) /\ rcat[k].stdin \notin {"closed", "cut"} /\ rcat'[k] = EndOfFile(k)
    BY <2>1, <2>4 DEF Rcats, EndOfFile
  <2> QED BY <1>3, <2>2, <2>3, <2>4 DEF Left
<1>8. pipes' \in [Files -> Nat] /\ \A f \in Files : pipes'[f] = 0
  BY DEF Restart
<1>9. UNCHANGED <<temp, path, overtaken, local, data, state, job>> /\ Len(data) = Len(rcat)
      /\ req' = [t \in Threads |-> Free] /\ job # "none"
  BY DEF Restart, UploadTypeOK, start
<1> QED BY <1>6, <1>7, <1>8, <1>9 DEF RcatsStay, DataStays

-----------------------------------------------------------------------------
(* What the steps do to the requests and to the page.                        *)

OthersStay(t) == req' \in [Threads -> Chunks] /\ \A u \in Threads \ {t} : req'[u] = req[u]

\* A thread without a request.
LEMMA FreeType == Free \in Chunks
BY DEF Free, Chunks, Places, Results

\* A request is replaced by another one.
LEMMA RequestBecomes ==
    ASSUME UploadTypeOK, NEW t \in Threads, NEW r \in Chunks, req' = [req EXCEPT ![t] = r]
    PROVE  OthersStay(t) /\ req'[t] = r
BY DEF UploadTypeOK, OthersStay

\* A request that goes on.
LEMMA GoFields ==
    ASSUME UploadTypeOK, NEW t \in Threads, NEW where \in Places, Go(t, where)
    PROVE  /\ OthersStay(t) /\ req'[t].pc = where /\ req'[t].file = req[t].file
           /\ req'[t].pipe = req[t].pipe /\ req'[t].result = req[t].result
<1>1. req[t] \in Chunks
  BY DEF UploadTypeOK
<1>2. PICK r \in Chunks : r = [req[t] EXCEPT !.pc = where]
  BY <1>1 DEF Chunks
<1>3. req' = [req EXCEPT ![t] = r]
  BY <1>2 DEF Go
<1>4. r.pc = where /\ r.file = req[t].file /\ r.pipe = req[t].pipe /\ r.result = req[t].result
  BY <1>1, <1>2 DEF Chunks
<1> QED BY <1>3, <1>4, RequestBecomes

\* A request with what became of its file.
LEMMA ResultFields ==
    ASSUME UploadTypeOK, NEW t \in Threads, NEW what \in Results, NEW full \in BOOLEAN, Result(t, what, full)
    PROVE  /\ OthersStay(t) /\ req'[t].pc = "committing" /\ req'[t].file = req[t].file
           /\ req'[t].result = what
<1>1. req[t] \in Chunks
  BY DEF UploadTypeOK
<1>2. PICK r \in Chunks : r = [req[t] EXCEPT !.pc = "committing", !.result = what, !.full = full]
  BY <1>1 DEF Chunks, Places
<1>3. req' = [req EXCEPT ![t] = r]
  BY <1>2 DEF Result
<1>4. r.pc = "committing" /\ r.file = req[t].file /\ r.result = what
  BY <1>1, <1>2 DEF Chunks
<1> QED BY <1>3, <1>4, RequestBecomes

\* A request with the pipe it has found.
LEMMA PipeFields ==
    ASSUME UploadTypeOK, NEW t \in Threads, NEW where \in Places, NEW i \in Nat,
           req' = [req EXCEPT ![t].pc = where, ![t].pipe = i]
    PROVE  /\ OthersStay(t) /\ req'[t].pc = where /\ req'[t].file = req[t].file
           /\ req'[t].pipe = i
<1>1. req[t] \in Chunks
  BY DEF UploadTypeOK
<1>2. PICK r \in Chunks : r = [req[t] EXCEPT !.pc = where, !.pipe = i]
  BY <1>1 DEF Chunks
<1>3. req' = [req EXCEPT ![t] = r]
  BY <1>2
<1>4. r.pc = where /\ r.file = req[t].file /\ r.pipe = i
  BY <1>1, <1>2 DEF Chunks
<1> QED BY <1>3, <1>4, RequestBecomes

\* A request that is to finish the job.
LEMMA VerdictFields ==
    ASSUME UploadTypeOK, NEW t \in Threads, NEW what \in Results,
           req' = [req EXCEPT ![t].pc = "verdict", ![t].result = what]
    PROVE  /\ OthersStay(t) /\ req'[t].pc = "verdict" /\ req'[t].file = req[t].file
           /\ req'[t].result = what
<1>1. req[t] \in Chunks
  BY DEF UploadTypeOK
<1>2. PICK r \in Chunks : r = [req[t] EXCEPT !.pc = "verdict", !.result = what]
  BY <1>1 DEF Chunks, Places
<1>3. req' = [req EXCEPT ![t] = r]
  BY <1>2
<1>4. r.pc = "verdict" /\ r.file = req[t].file /\ r.result = what
  BY <1>1, <1>2 DEF Chunks
<1> QED BY <1>3, <1>4, RequestBecomes

\* A request whose answer nobody waits for any more.
LEMMA UnheardFields ==
    ASSUME UploadTypeOK, NEW t \in Threads, req' = [req EXCEPT ![t].live = FALSE]
    PROVE  /\ OthersStay(t) /\ req'[t].pc = req[t].pc /\ req'[t].file = req[t].file
           /\ req'[t].pipe = req[t].pipe /\ req'[t].result = req[t].result
<1>1. req[t] \in Chunks
  BY DEF UploadTypeOK
<1>2. PICK r \in Chunks : r = [req[t] EXCEPT !.live = FALSE]
  BY <1>1 DEF Chunks
<1>3. req' = [req EXCEPT ![t] = r]
  BY <1>2
<1>4. r.pc = req[t].pc /\ r.file = req[t].file /\ r.pipe = req[t].pipe /\ r.result = req[t].result
  BY <1>1, <1>2 DEF Chunks
<1> QED BY <1>3, <1>4, RequestBecomes

\* The same for all, when the tab is closed.
LEMMA ClosedFields ==
    ASSUME UploadTypeOK, CloseTab
    PROVE  /\ req' \in [Threads -> Chunks]
           /\ \A t \in Threads : /\ req'[t].pc = req[t].pc /\ req'[t].file = req[t].file
                                 /\ req'[t].pipe = req[t].pipe /\ req'[t].result = req[t].result
<1>1. req' = [t \in Threads |-> [req[t] EXCEPT !.live = FALSE]]
  BY DEF CloseTab
<1>2. \A t \in Threads : req[t] \in Chunks
  BY DEF UploadTypeOK
<1>3. \A t \in Threads : [req[t] EXCEPT !.live = FALSE] \in Chunks
  BY <1>2 DEF Chunks
<1>4. req' \in [Threads -> Chunks]
  BY <1>1, <1>3
<1>5. ASSUME NEW t \in Threads
      PROVE  /\ req'[t].pc = req[t].pc /\ req'[t].file = req[t].file
             /\ req'[t].pipe = req[t].pipe /\ req'[t].result = req[t].result
  <2>1. req'[t] = [req[t] EXCEPT !.live = FALSE] /\ req[t] \in Chunks
    BY <1>1, <1>2
  <2> QED BY <2>1 DEF Chunks
<1> QED BY <1>4, <1>5

\* A new request.
LEMMA SentFields ==
    ASSUME UploadTypeOK, NEW f \in Files, SendChunk(f)
    PROVE  \E t \in Threads : /\ req[t].pc = "free" /\ OthersStay(t)
                              /\ req'[t].pc = "arrived" /\ req'[t].file = f
<1>1. PICK t \in Threads : /\ req[t].pc = "free"
                           /\ req' = [req EXCEPT ![t] = [Free EXCEPT !.pc = "arrived", !.file = f,
                                                    !.offset = page[f].offset, !.live = TRUE]]
  BY DEF SendChunk
<1>2. page[f].offset \in Int
  BY DEF UploadTypeOK, Pages
<1>3. PICK r \in Chunks : r = [Free EXCEPT !.pc = "arrived", !.file = f,
                                                    !.offset = page[f].offset, !.live = TRUE]
  BY <1>2 DEF Chunks, Free, Places, Results
<1>4. r.pc = "arrived" /\ r.file = f
  BY <1>3 DEF Free
<1>5. req' = [req EXCEPT ![t] = r]
  BY <1>1, <1>3
<1> QED BY <1>1, <1>4, <1>5, RequestBecomes

\* The page's next tries.
LEMMA PageTypes ==
    ASSUME NEW p \in Pages, NEW at \in Int
    PROVE  {Again(p), Moved(p, at), Went(p, at), Over(p)} \subseteq Pages
<1>1. Over(p) \in Pages
  BY DEF Over, Pages
<1>2. Went(p, at) \in Pages
  BY DEF Went, Pages
<1>3. Moved(p, at) \in Pages
  <2>1. CASE p.conflicts < MaxConflicts
    <3>1. PICK n \in Nat : n = p.conflicts + 1
      BY DEF Pages
    <3>2. [p EXCEPT !.pc = "ready", !.conflicts = n, !.offset = at] \in Pages
      BY DEF Pages
    <3>3. Moved(p, at) = [p EXCEPT !.pc = "ready", !.conflicts = n, !.offset = at]
      BY <2>1, <3>1 DEF Moved
    <3> QED BY <3>2, <3>3
  <2>2. CASE ~(p.conflicts < MaxConflicts)
    <3>1. Moved(p, at) = Over(p)
      BY <2>2 DEF Moved, Over
    <3> QED BY <1>1, <3>1
  <2> QED BY <2>1, <2>2
<1>4. Again(p) \in Pages
  <2>1. CASE p.attempts < MaxAttempts
    <3>1. PICK n \in Nat : n = p.attempts + 1
      BY DEF Pages
    <3>2. [p EXCEPT !.pc = "ready", !.attempts = n] \in Pages
      BY DEF Pages
    <3>3. Again(p) = [p EXCEPT !.pc = "ready", !.attempts = n]
      BY <2>1, <3>1 DEF Again
    <3> QED BY <3>2, <3>3
  <2>2. CASE ~(p.attempts < MaxAttempts)
    <3>1. Again(p) = Over(p)
      BY <2>2 DEF Again, Over
    <3> QED BY <1>1, <3>1
  <2> QED BY <2>1, <2>2
<1> QED BY <1>1, <1>2, <1>3, <1>4

\* The worker of the page that a request belongs to.
LEMMA PageType ==
    ASSUME UploadTypeOK, PlacesInv, NEW t \in Threads, req[t].pc # "free"
    PROVE  Page(t) \in Pages
BY DEF UploadTypeOK, PlacesInv, HasFile, Page

\* A request that is answered.
LEMMA AnswerFields ==
    ASSUME UploadTypeOK, NEW t \in Threads, NEW next \in Pages, Answer(t, next)
    PROVE  OthersStay(t) /\ req'[t] = Free /\ page' \in [Files -> Pages]
<1>1. OthersStay(t) /\ req'[t] = Free
  BY FreeType, RequestBecomes DEF Answer
<1>2. page' \in [Files -> Pages]
  <2>1. page \in [Files -> Pages]
    BY DEF UploadTypeOK
  <2>2. page' = page \/ page' = [page EXCEPT ![req[t].file] = next]
    BY DEF Answer
  <2> QED BY <2>1, <2>2
<1> QED BY <1>1, <1>2

-----------------------------------------------------------------------------
(* Steps that leave the files alone: entries may leave the dictionary, and   *)
(* requests may come, go and find their pipes.                               *)

\* A request ends, comes, or goes on with its file: to a result only when more is to come, to
\* a verdict only when none is pending. One that handles a pipe did so before, or has just
\* found it in the dictionary, or found that it cannot be written to.
SamePipe(t)  == req'[t].file = req[t].file /\ req'[t].pipe = req[t].pipe
GoesOn(t) ==
    \/ req'[t].pc = "free" \/ (req'[t].pc = "arrived" /\ job # "none")
    \/ /\ req'[t].pc = req[t].pc /\ req'[t].file = req[t].file /\ req'[t].result = req[t].result
    \/ /\ req[t].pc # "free" /\ req'[t].file = req[t].file
       /\ req'[t].pc \notin {"arrived", "verdict"} /\ (req'[t].pc = "committing" => req'[t].result = "more")
       /\ req[t].pc = "arrived" => state[req[t].file] # "skipped"
    \/ /\ req'[t].pc = "verdict" /\ req[t].pc = "counting" /\ req'[t].file = req[t].file
       /\ NoneIsPending(t) /\ req'[t].result = Verdict(t)
HandlesOn(t) ==
    /\ GoesOn(t)
    /\ req'[t].pc # "free" => req'[t].file \in Files
    /\ req'[t].pc \in Handling =>
          \/ req'[t].pc = req[t].pc /\ SamePipe(t)
          \/ req'[t].pc = "writing" /\ req'[t].pipe # 0 /\ pipes[req'[t].file] = req'[t].pipe
          \/ req'[t].pc = "finishing" /\ req[t].pc = "writing" /\ SamePipe(t) /\ ~Writable(req[t].pipe)
Quiet ==
    /\ \E fs \in SUBSET Files : Dropped(fs)
    /\ local' = local
    /\ \A t \in Threads : HandlesOn(t)
ClientTypes == req' \in [Threads -> Chunks] /\ page' \in [Files -> Pages]

\* The requests that nothing happens to.
LEMMA OthersHandle ==
    ASSUME UploadTypeOK, PlacesInv, NEW t \in Threads, OthersStay(t), HandlesOn(t)
    PROVE  req' \in [Threads -> Chunks] /\ \A u \in Threads : HandlesOn(u)
BY DEF OthersStay, HandlesOn, GoesOn, SamePipe, PlacesInv, HasFile

\* The same where no request is touched.
LEMMA NoneHandles ==
    ASSUME UploadTypeOK, PlacesInv, req' = req
    PROVE  req' \in [Threads -> Chunks] /\ \A u \in Threads : HandlesOn(u)
BY DEF HandlesOn, GoesOn, SamePipe, PlacesInv, HasFile, UploadTypeOK

\* A request that is answered.
LEMMA AnswerHandles ==
    ASSUME UploadTypeOK, PlacesInv, NEW t \in Threads, NEW next \in Pages, Answer(t, next)
    PROVE  ClientTypes /\ \A u \in Threads : HandlesOn(u)
<1>1. OthersStay(t) /\ req'[t] = Free /\ page' \in [Files -> Pages]
  BY AnswerFields
<1>2. HandlesOn(t)
  BY <1>1 DEF HandlesOn, GoesOn, Free, Handling
<1> QED BY <1>1, <1>2, OthersHandle DEF ClientTypes

\* A request that goes on to where it handles no pipe.
LEMMA GoHandles ==
    ASSUME UploadTypeOK, PlacesInv, NEW t \in Threads, req[t].pc # "free",
           NEW where \in {"starting", "spawning", "finding", "aborting", "counting"},
           req[t].pc = "arrived" => state[req[t].file] # "skipped", Go(t, where), page' = page
    PROVE  ClientTypes /\ \A u \in Threads : HandlesOn(u)
<1>1. OthersStay(t) /\ req'[t].pc = where /\ req'[t].file = req[t].file
  BY GoFields DEF Places
<1>2. HandlesOn(t)
  BY <1>1 DEF HandlesOn, GoesOn, Handling, PlacesInv, HasFile
<1> QED BY <1>1, <1>2, OthersHandle DEF ClientTypes, UploadTypeOK

\* A request that finishes a file without being the owner of its pipe is among them.
QuietStep ==
    \/ \E skipped \in SUBSET Files, limits \in Limits : CreateUpload(skipped, limits)
    \/ \E f \in Files : SendChunk(f) \/ Reap(f)
    \/ \E t \in Threads : \/ LoseAnswer(t) \/ LookAtRows(t) \/ AbortOld(t) \/ Busy(t) \/ FindPipe(t)
                          \/ WrongOffset(t) \/ PipeBroken(t) \/ (Finish(t) /\ ~OwnsPipe(t))
                          \/ CommitChunk(t) \/ AbortTheOthers(t) \/ CountPending(t) \/ FinishJob(t)
    \/ AskStop \/ Stopping \/ TimePasses \/ Expiring \/ CloseTab
    \/ UNCHANGED uploadVars

\* They are such steps.
LEMMA QuietSteps ==
    ASSUME UploadTypeOK, PlacesInv, QuietStep
    PROVE  Quiet /\ ClientTypes
<1> DEFINE Requests == ClientTypes /\ \A u \in Threads : HandlesOn(u)
<1>0. /\ \A fs \in SUBSET Files : Drop(fs) => Dropped(fs)
      /\ UNCHANGED server => Dropped({})
  BY DropFields, NothingDropped
<1>1. Requests /\ UNCHANGED <<local, server>> => Quiet /\ ClientTypes
  BY <1>0 DEF Quiet
<1>2. ASSUME NEW fs \in SUBSET Files, Drop(fs), Requests, local' = local
      PROVE  Quiet /\ ClientTypes
  BY <1>0, <1>2 DEF Quiet
<1>3. ASSUME UNCHANGED <<req, page>> PROVE Requests
  BY <1>3, NoneHandles DEF ClientTypes, UploadTypeOK
<1>4. ASSUME NEW t \in Threads, NEW next \in Pages, Answer(t, next) PROVE Requests
  BY <1>4, AnswerHandles
<1>5. ASSUME NEW t \in Threads, req[t].pc # "free", 
             NEW where \in {"starting", "spawning", "finding", "aborting", "counting"},
             req[t].pc = "arrived" => state[req[t].file] # "skipped", Go(t, where), UNCHANGED page
      PROVE  Requests
  BY <1>5, GoHandles
<1>6. page \in [Files -> Pages] /\ rcat \in Seq(Rcats) /\ \A k \in DOMAIN rcat : rcat[k] \in Rcats
  BY ElementOfSeq DEF UploadTypeOK
<1>7. \A t \in Threads : req[t] \in Chunks
  BY DEF UploadTypeOK
<1>8. ASSUME NEW t \in Threads, req[t].pc # "free"
      PROVE  /\ Page(t) \in Pages /\ Over(Page(t)) \in Pages /\ Again(Page(t)) \in Pages
             /\ \A at \in Int : Moved(Page(t), at) \in Pages /\ Went(Page(t), at) \in Pages
  BY <1>8, PageType, PageTypes
<1> HIDE DEF Requests
<1>11. ASSUME NEW skipped \in SUBSET Files, NEW limits \in Limits, CreateUpload(skipped, limits)
       PROVE  Quiet /\ ClientTypes
  <2>1. \A f \in Files : [NewPage EXCEPT !.pc = IF f \in skipped THEN "over" ELSE "ready"] \in Pages
    BY DEF NewPage, Pages
  <2>2. page' \in [Files -> Pages] /\ UNCHANGED <<local, server, req>>
    BY <1>11, <2>1 DEF CreateUpload
  <2> QED BY <1>1, <2>2, NoneHandles DEF ClientTypes, Requests
<1>12. ASSUME NEW f \in Files, SendChunk(f) PROVE Quiet /\ ClientTypes
  <2>1. PICK t \in Threads : /\ req[t].pc = "free" /\ OthersStay(t)
                             /\ req'[t].pc = "arrived" /\ req'[t].file = f
    BY <1>12, SentFields
  <2>2. page' \in [Files -> Pages]
    <3>1. page[f] \in Pages
      BY <1>6
    <3>2. PICK p \in Pages : p = [page[f] EXCEPT !.pc = "waiting"]
      BY <3>1 DEF Pages
    <3>3. page' = [page EXCEPT ![f] = p]
      BY <1>12, <3>2 DEF SendChunk
    <3> QED BY <1>6, <3>3
  <2>3. HandlesOn(t)
    BY <1>12, <2>1 DEF HandlesOn, GoesOn, Handling, SendChunk
  <2>4. Requests
    BY <2>1, <2>2, <2>3, OthersHandle DEF ClientTypes, Requests
  <2> QED BY <1>1, <1>12, <2>4 DEF SendChunk, start
<1>13. ASSUME NEW f \in Files, Reap(f) PROVE Quiet /\ ClientTypes
  BY <1>2, <1>3, <1>13 DEF Reap, start
<1>14. ASSUME NEW t \in Threads, LoseAnswer(t) PROVE Quiet /\ ClientTypes
  <2>1. OthersStay(t) /\ req'[t].pc = req[t].pc /\ SamePipe(t) /\ req'[t].result = req[t].result
    BY <1>14, UnheardFields DEF LoseAnswer, SamePipe
  <2>2. page' \in [Files -> Pages]
    <3>1. CASE req[t].file \in Files
      <4>1. Again(page[req[t].file]) \in Pages
        BY <1>6, <3>1, PageTypes
      <4> QED BY <1>6, <1>14, <4>1 DEF LoseAnswer
    <3>2. CASE req[t].file \notin Files
      BY <1>6, <1>14, <3>2 DEF LoseAnswer
    <3> QED BY <3>1, <3>2
  <2>3. HandlesOn(t)
    BY <2>1 DEF HandlesOn, GoesOn, SamePipe, PlacesInv, HasFile
  <2>4. Requests
    BY <2>1, <2>2, <2>3, OthersHandle DEF ClientTypes, Requests
  <2> QED BY <1>1, <1>14, <2>4 DEF LoseAnswer, start
<1>15. ASSUME NEW t \in Threads, LookAtRows(t) PROVE Quiet /\ ClientTypes
  <2>1. Requests
    <3>1. CASE Answer(t, Over(Page(t)))
      BY <1>4, <1>8, <1>15, <3>1 DEF LookAtRows, At
    <3>2. CASE /\ \E where \in {"starting", "finding"} : Go(t, where) /\ UNCHANGED page
               /\ state[req[t].file] = "pending"
      BY <1>5, <1>15, <3>2 DEF LookAtRows, At, Places, Handling
    <3> QED BY <1>15, <3>1, <3>2 DEF LookAtRows
  <2> QED BY <1>1, <1>15, <2>1 DEF LookAtRows, Quietly, start
<1>16. ASSUME NEW t \in Threads, AbortOld(t) PROVE Quiet /\ ClientTypes
  <2>1. PICK i \in Nat : i = pipes[req[t].file]
    BY <1>16 DEF AbortOld, At, PlacesInv, HasFile, UploadTypeOK
  <2>2. req' = [req EXCEPT ![t].pc = "spawning", ![t].pipe = i]
    BY <1>16, <2>1 DEF AbortOld
  <2>3. OthersStay(t) /\ req'[t].pc = "spawning" /\ req'[t].file = req[t].file
    BY <2>2, PipeFields DEF Places
  <2>4. HandlesOn(t)
    BY <1>16, <2>3 DEF AbortOld, At, HandlesOn, GoesOn, Handling, PlacesInv, HasFile
  <2>5. Requests
    BY <1>16, <2>3, <2>4, OthersHandle DEF ClientTypes, Requests, AbortOld, UploadTypeOK
  <2>6. {req[t].file} \in SUBSET Files /\ Drop({req[t].file}) /\ local' = local
    BY <1>16 DEF AbortOld, At, PlacesInv, HasFile, Quietly, start
  <2> QED BY <1>2, <2>5, <2>6
<1>17. ASSUME NEW t \in Threads, Busy(t) PROVE Quiet /\ ClientTypes
  <2>1. Requests
    BY <1>4, <1>8, <1>17 DEF Busy, At
  <2> QED BY <1>1, <1>17, <2>1 DEF Busy, Quietly, start
<1>18. ASSUME NEW t \in Threads, FindPipe(t) PROVE Quiet /\ ClientTypes
  <2>1. PICK i \in Nat : i = pipes[req[t].file]
    BY <1>18 DEF FindPipe, At, PlacesInv, HasFile, UploadTypeOK
  <2>2. CASE i = 0
    <3>1. Requests
      BY <1>4, <1>8, <1>18, <2>1, <2>2 DEF FindPipe, At
    <3> QED BY <1>1, <1>18, <3>1 DEF FindPipe, Quietly, start
  <2>3. CASE i # 0
    <3>1. req' = [req EXCEPT ![t].pc = "writing", ![t].pipe = i] /\ UNCHANGED <<page, server, local>>
      BY <1>18, <2>1, <2>3 DEF FindPipe, Quietly, start
    <3>2. OthersStay(t) /\ req'[t].pc = "writing" /\ req'[t].file = req[t].file /\ req'[t].pipe = i
      BY <3>1, PipeFields DEF Places
    <3>3. HandlesOn(t)
      BY <1>18, <2>1, <2>3, <3>2 DEF FindPipe, At, HandlesOn, GoesOn, Handling, PlacesInv, HasFile
    <3>4. Requests
      BY <3>1, <3>2, <3>3, OthersHandle DEF ClientTypes, Requests, UploadTypeOK
    <3> QED BY <1>1, <3>1, <3>4
  <2> QED BY <2>2, <2>3
<1>19. ASSUME NEW t \in Threads, WrongOffset(t) PROVE Quiet /\ ClientTypes
  <2>1. req[t].pipe \in DOMAIN rcat
    BY <1>19 DEF WrongOffset, At, PlacesInv, HasPipe, Handling, OfFile
  <2>2. rcat[req[t].pipe].written \in Int
    BY <1>6, <2>1 DEF Rcats
  <2>3. Requests
    BY <1>4, <1>8, <1>19, <2>2 DEF WrongOffset, At
  <2> QED BY <1>1, <1>19, <2>3 DEF WrongOffset, Quietly, start
<1>20. ASSUME NEW t \in Threads, PipeBroken(t) PROVE Quiet /\ ClientTypes
  <2>1. OthersStay(t) /\ req'[t].pc = "finishing" /\ SamePipe(t)
    BY <1>20, GoFields DEF PipeBroken, Places, SamePipe
  <2>2. HandlesOn(t)
    BY <1>20, <2>1 DEF PipeBroken, At, HandlesOn, GoesOn, SamePipe, Handling, PlacesInv, HasFile
  <2>3. Requests
    BY <1>20, <2>1, <2>2, OthersHandle DEF ClientTypes, Requests, PipeBroken, UploadTypeOK
  <2> QED BY <1>1, <1>20, <2>3 DEF PipeBroken, Quietly, start
<1>21. ASSUME NEW t \in Threads, Finish(t), ~OwnsPipe(t) PROVE Quiet /\ ClientTypes
  <2>1. PICK f \in Files : f = req[t].file
    BY <1>21 DEF Finish, At, PlacesInv, HasFile
  <2>2. (IF pipes[f] = 0 THEN 0 ELSE rcat[pipes[f]].written) \in Int
    BY <1>6, <2>1 DEF PlacesInv, PipeIsOpen, OfFile, Rcats
  <2>3. Answer(t, Moved(Page(t), IF pipes[f] = 0 THEN 0 ELSE rcat[pipes[f]].written))
    BY <1>21, <2>1 DEF Finish
  <2>4. Requests
    BY <1>4, <1>8, <1>21, <2>2, <2>3 DEF Finish, At
  <2> QED BY <1>1, <1>21, <2>4 DEF Finish, Quietly, start, server
<1>22. ASSUME NEW t \in Threads, CommitChunk(t) PROVE Quiet /\ ClientTypes
  <2>1. CASE \E where \in {"aborting", "counting"} : Go(t, where)
    <3>1. Requests
      BY <1>5, <1>22, <2>1 DEF CommitChunk, At, Places, Handling
    <3> QED BY <1>1, <1>22, <3>1 DEF CommitChunk, start
  <2> QED BY <1>22, <2>1 DEF CommitChunk
<1>23. ASSUME NEW t \in Threads, AbortTheOthers(t) PROVE Quiet /\ ClientTypes
  <2>1. Requests
    BY <1>5, <1>23 DEF AbortTheOthers, At, Places, Handling
  <2> QED BY <1>2, <1>23, <2>1 DEF AbortTheOthers, Quietly, start
<1>24. ASSUME NEW t \in Threads, req[t].pc # "free", Reply(t) PROVE Requests
  <2>1. req[t].offset + Units(req[t].file, req[t].offset) \in Int
    BY <1>7, <1>24, UploadAssumption DEF Units, Chunks, PlacesInv, HasFile
  <2>2. Page(t) \in Pages /\ Over(Page(t)) \in Pages
        /\ Went(Page(t), req[t].offset + Units(req[t].file, req[t].offset)) \in Pages
    BY <1>8, <1>24, <2>1
  <2>3. \E next \in Pages : Answer(t, next)
    BY <1>24, <2>2 DEF Reply
  <2> QED BY <1>4, <2>3
<1>25. ASSUME NEW t \in Threads, CountPending(t) PROVE Quiet /\ ClientTypes
  <2>1. CASE Reply(t)
    BY <1>1, <1>24, <1>25, <2>1 DEF CountPending, At, Quietly, start
  <2>2. CASE /\ req' = [req EXCEPT ![t].pc = "verdict", ![t].result = Verdict(t)] /\ UNCHANGED page
             /\ NoneIsPending(t)
    <3>1. OthersStay(t) /\ req'[t].pc = "verdict" /\ req'[t].file = req[t].file /\ req'[t].result = Verdict(t)
      <4>1. PICK what \in {"SUCCESS", "FAILED"} : what = Verdict(t)
        BY DEF Verdict
      <4>2. req' = [req EXCEPT ![t].pc = "verdict", ![t].result = what]
        BY <2>2, <4>1
      <4> QED BY <4>1, <4>2, VerdictFields DEF Results
    <3>2. HandlesOn(t)
      BY <1>25, <2>2, <3>1 DEF CountPending, At, HandlesOn, GoesOn, Handling, PlacesInv, HasFile
    <3>3. Requests
      BY <2>2, <3>1, <3>2, OthersHandle DEF ClientTypes, Requests, UploadTypeOK
    <3> QED BY <1>1, <1>25, <3>3 DEF CountPending, Quietly, start
  <2> QED BY <1>25, <2>1, <2>2 DEF CountPending
<1>26. ASSUME NEW t \in Threads, FinishJob(t) PROVE Quiet /\ ClientTypes
  BY <1>1, <1>24, <1>26 DEF FinishJob, At, start
<1>27. ASSUME AskStop \/ StopCommit \/ TimePasses \/ ExpireRead \/ ExpireCommit \/ UNCHANGED uploadVars
       PROVE  Quiet /\ ClientTypes
  <2>1. UNCHANGED <<req, page, local, server>>
    BY <1>27 DEF AskStop, StopCommit, TimePasses, ExpireRead, ExpireCommit, uploadVars, NoRequest, start, server
  <2> QED BY <1>1, <1>3, <2>1
<1>28. ASSUME StopAbort \/ ExpireAbort PROVE Quiet /\ ClientTypes
  <2>1. UNCHANGED <<req, page, local>> /\ Drop(Files)
    BY <1>28 DEF StopAbort, ExpireAbort, NoRequest, start
  <2> QED BY <1>2, <1>3, <2>1
<1>29. ASSUME CloseTab PROVE Quiet /\ ClientTypes
  <2>1. /\ req' \in [Threads -> Chunks]
        /\ \A t \in Threads : req'[t].pc = req[t].pc /\ SamePipe(t) /\ req'[t].result = req[t].result
    BY <1>29, ClosedFields DEF SamePipe
  <2>2. \A t \in Threads : HandlesOn(t)
    BY <2>1 DEF HandlesOn, GoesOn, SamePipe, PlacesInv, HasFile
  <2>3. \A f \in Files : Over(page[f]) \in Pages
    BY <1>6, PageTypes
  <2>4. page' \in [Files -> Pages]
    BY <1>29, <2>3 DEF CloseTab
  <2> QED BY <1>1, <1>29, <2>1, <2>2, <2>4 DEF CloseTab, start, ClientTypes, Requests
<1> QED
  BY <1>11, <1>12, <1>13, <1>14, <1>15, <1>16, <1>17, <1>18, <1>19, <1>20, <1>21, <1>22, <1>23,
     <1>25, <1>26, <1>27, <1>28, <1>29 DEF QuietStep, Stopping, Expiring

\* The references between requests, dictionary, processes and names stay right.
LEMMA QuietPlaces ==
    ASSUME UploadTypeOK, PlacesInv, Quiet
    PROVE  PlacesInv'
<1>1. PICK fs \in SUBSET Files : Dropped(fs)
  BY DEF Quiet
<1>2. /\ DOMAIN rcat' = DOMAIN rcat
      /\ \A k \in DOMAIN rcat : rcat'[k].file = rcat[k].file /\ rcat'[k].inode = rcat[k].inode
      /\ UNCHANGED <<temp, path, local>>
      /\ \A k \in DOMAIN rcat : rcat'[k].written = rcat[k].written /\ rcat'[k].exit = rcat[k].exit
  BY <1>1 DEF Quiet, Dropped, RcatsStay
<1>3. \A i, f : OfFile(i, f)' <=> OfFile(i, f)
  BY <1>2 DEF OfFile
<1>4. ASSUME NEW t \in Threads PROVE HasFile(t)' /\ HasPipe(t)'
  <2>1. HandlesOn(t)
    BY DEF Quiet
  <2>2. HasFile(t)'
    BY <2>1 DEF HandlesOn, HasFile
  <2>3. ASSUME req'[t].pc \in Handling PROVE OfFile(req'[t].pipe, req'[t].file)
    <3>1. req'[t].file \in Files
      BY <2>1, <2>3 DEF HandlesOn, Handling
    <3>2. PipeIsOpen(req'[t].file) /\ HasPipe(t)
      BY <3>1 DEF PlacesInv
    <3> QED BY <2>1, <2>3, <3>2 DEF HandlesOn, SamePipe, HasPipe, PipeIsOpen, Handling
  <2>4. OfFile(req'[t].pipe, req'[t].file) => OfFile(req[t].pipe, req[t].file)'
    BY <1>2 DEF OfFile
  <2> QED BY <2>2, <2>3, <2>4 DEF HasPipe
<1>5. ASSUME NEW f \in Files PROVE PipeIsOpen(f)' /\ NamesAreOwn(f)'
  <2>1. NamesAreOwn(f)'
    BY <1>2, <1>3 DEF PlacesInv, NamesAreOwn, OfFile
  <2>2. ASSUME pipes'[f] # 0 PROVE PipeIsOpen(f)'
    <3>1. PICK k \in DOMAIN rcat : k = pipes[f] /\ k = pipes'[f] /\ f \notin fs /\ rcat[k].file = f
      BY <1>1, <2>2 DEF Dropped, PlacesInv, PipeIsOpen, OfFile
    <3>2. rcat[k].stdin = "open" /\ rcat[k].exit # "well"
      BY <2>2, <3>1, <1>1 DEF PlacesInv, PipeIsOpen, Dropped
    <3>3. \A g \in fs \cap Files : pipes[g] # k
      BY <2>2, <3>1, <1>1 DEF PlacesInv, PipeIsOpen, OfFile, Dropped
    <3>4. rcat'[k].stdin = "open" /\ rcat'[k].exit # "well" /\ rcat'[k].file = f
      BY <1>1, <1>2, <3>1, <3>2, <3>3 DEF Dropped
    <3> QED BY <1>2, <3>1, <3>4 DEF PipeIsOpen, OfFile
  <2> QED BY <2>1, <2>2 DEF PipeIsOpen
<1>6. ASSUME NEW i \in DOMAIN rcat' PROVE InodeIsOwn(i)'
  <2>1. InodeIsOwn(i) /\ i \in DOMAIN rcat
    BY <1>2, <1>6 DEF PlacesInv
  <2>2. DOMAIN rcat = 1 .. Len(rcat) /\ Len(rcat) \in Nat
    BY LenProperties DEF UploadTypeOK
  <2>3. rcat[i].inode \in DOMAIN rcat
    BY <2>1, <2>2 DEF InodeIsOwn
  <2> QED BY <1>2, <2>1, <2>3 DEF InodeIsOwn
<1> QED BY <1>4, <1>5, <1>6 DEF PlacesInv

\* What has ended well, or was cut short, stays so.
Persist ==
    \A k \in DOMAIN rcat : /\ k \in DOMAIN rcat' /\ rcat'[k].file = rcat[k].file
                           /\ rcat[k].exit = "well" => rcat'[k].exit = "well"
                           /\ rcat[k].stdin = "cut" => rcat'[k].stdin = "cut"
LEMMA CutsStay ==
    ASSUME Persist
    PROVE  /\ \A k \in DOMAIN rcat : CutAfter(k) => CutAfter(k)'
           /\ \A f \in Files : (CutShort(f) => CutShort(f)') /\ (Undone(f) => Undone(f)')
<1>1. ASSUME NEW k \in DOMAIN rcat, CutAfter(k) PROVE CutAfter(k)'
  <2>1. PICK i \in DOMAIN rcat : i > k /\ rcat[i].file = rcat[k].file /\ rcat[i].stdin = "cut"
    BY <1>1 DEF CutAfter
  <2>2. i \in DOMAIN rcat' /\ rcat'[i].file = rcat'[k].file /\ rcat'[i].stdin = "cut"
    BY <2>1 DEF Persist
  <2> QED BY <2>1, <2>2 DEF CutAfter
<1>2. ASSUME NEW f \in Files, CutShort(f) PROVE CutShort(f)'
  <2>1. PICK i \in DOMAIN rcat : rcat[i].file = f /\ rcat[i].stdin = "cut"
    BY <1>2 DEF CutShort
  <2>2. i \in DOMAIN rcat' /\ rcat'[i].file = f /\ rcat'[i].stdin = "cut"
    BY <2>1 DEF Persist
  <2> QED BY <2>2 DEF CutShort
<1>3. ASSUME NEW f \in Files, Undone(f) PROVE Undone(f)'
  <2>1. PICK k \in DOMAIN rcat : rcat[k].file = f /\ rcat[k].exit = "well" /\ CutAfter(k)
    BY <1>3 DEF Undone
  <2>2. k \in DOMAIN rcat' /\ rcat'[k].file = f /\ rcat'[k].exit = "well" /\ CutAfter(k)'
    BY <1>1, <2>1 DEF Persist
  <2> QED BY <2>2 DEF Undone
<1> QED BY <1>1, <1>2, <1>3

\* What ended well did, where no complete file changes.
LEMMA StillEnded ==
    ASSUME Persist, local' = local, NEW k \in DOMAIN rcat, EndedWell(k),
           rcat'[k].exit = "well" => rcat[k].exit = "well",
           ~local /\ Complete(rcat[k].file) => Complete(rcat[k].file)'
    PROVE  EndedWell(k)'
<1>1. CutAfter(k) => CutAfter(k)'
  BY CutsStay
<1>2. rcat'[k].file = rcat[k].file
  BY DEF Persist
<1>3. PICK f : f = rcat[k].file /\ f = rcat'[k].file
  BY <1>2
<1>4. ~local /\ Complete(f) => Complete(f)'
  BY <1>3 DEF Complete
<1> QED BY <1>1, <1>3, <1>4 DEF EndedWell, Complete

LEMMA StillKept ==
    ASSUME Persist, local' = local, NEW f \in Files, KeptWhole(f), path'[f] = path[f],
           Complete(f) /\ temp[f] # path[f] => Complete(f)' /\ temp'[f] # path[f]
    PROVE  KeptWhole(f)'
<1>1. CutShort(f) => CutShort(f)'
  BY CutsStay
<1> QED BY <1>1 DEF KeptWhole

LEMMA QuietPersists ==
    ASSUME UploadTypeOK, PlacesInv, Quiet
    PROVE  Persist
<1>1. PICK fs \in SUBSET Files : Dropped(fs)
  BY DEF Quiet
<1>2. ASSUME NEW k \in DOMAIN rcat, rcat[k].stdin = "cut" PROVE rcat'[k].stdin = "cut"
  <2>1. ASSUME NEW f \in Files, pipes[f] = k PROVE FALSE
    <3>1. PipeIsOpen(f) /\ k # 0
      BY LenProperties DEF PlacesInv, UploadTypeOK
    <3> QED BY <1>2, <2>1, <3>1 DEF PipeIsOpen
  <2> QED BY <1>1, <1>2, <2>1 DEF Dropped
<1> QED BY <1>1, <1>2 DEF Dropped, RcatsStay, Persist

\* No writer, and nobody who waits for one, appears.
LEMMA QuietWriters ==
    ASSUME UploadTypeOK, PlacesInv, WritersInv, Quiet
    PROVE  WritersInv'
<1>1. PICK fs \in SUBSET Files : Dropped(fs)
  BY DEF Quiet
<1>2. /\ DOMAIN rcat' = DOMAIN rcat /\ overtaken' = overtaken
      /\ \A k \in DOMAIN rcat : rcat'[k].file = rcat[k].file /\ rcat'[k].exit = rcat[k].exit
      /\ \A f \in Files : pipes'[f] = 0 \/ pipes'[f] = pipes[f]
  BY <1>1 DEF Dropped, RcatsStay
<1>3. ASSUME NEW f \in Files \ overtaken PROVE OneWriter(f)'
  <2>1. OneWriter(f)
    BY <1>3 DEF WritersInv
  <2>2. WritersOf(f)' = WritersOf(f)
    BY <1>2 DEF WritersOf, Alive
  <2>3. \A t \in Finishing(f)' : t \in Finishing(f) /\ req'[t].pipe = req[t].pipe
    BY DEF Finishing, Quiet, HandlesOn, Handling, SamePipe
  <2> QED BY <1>2, <2>1, <2>2, <2>3 DEF OneWriter
<1> QED BY <1>2, <1>3 DEF WritersInv

\* What is written stays, and is what the names say.
LEMMA QuietData ==
    ASSUME UploadTypeOK, PlacesInv, DataInv, Quiet
    PROVE  DataInv'
<1>1. PICK fs \in SUBSET Files : Dropped(fs)
  BY DEF Quiet
<1>2. /\ DOMAIN rcat' = DOMAIN rcat
      /\ \A k \in DOMAIN rcat : /\ rcat'[k].file = rcat[k].file /\ rcat'[k].inode = rcat[k].inode
                                /\ rcat'[k].written = rcat[k].written /\ rcat'[k].exit = rcat[k].exit
      /\ \A k \in DOMAIN rcat : \/ rcat'[k].stdin = rcat[k].stdin
                                \/ rcat'[k].stdin = "closed" /\ local
                                \/ rcat'[k].stdin = "signalled"
      /\ UNCHANGED <<temp, path, data, overtaken, local>>
  BY <1>1 DEF Quiet, Dropped, RcatsStay, DataStays
<1>3. \A f : Complete(f)' <=> Complete(f)
  BY <1>2 DEF Complete
<1>7. /\ \A k \in DOMAIN rcat : CutAfter(k) => CutAfter(k)'
      /\ \A f \in Files : CutShort(f) => CutShort(f)'
  BY QuietPersists, CutsStay
<1>4. ASSUME NEW i \in DOMAIN rcat', rcat'[i].file \notin overtaken'
      PROVE  (WritesToTemp(i) /\ ClosedWhenWhole(i) /\ EndedWell(i))'
  <2>1. i \in DOMAIN rcat /\ WritesToTemp(i) /\ ClosedWhenWhole(i) /\ EndedWell(i)
    BY <1>2, <1>4 DEF DataInv
  <2>2. rcat'[i].stdin = "closed" /\ ~local => rcat[i].stdin = "closed"
    BY <1>2, <2>1
  <2>3. WritesToTemp(i)'
    BY <1>2, <2>1 DEF WritesToTemp, Alive
  <2>4. ClosedWhenWhole(i)'
    BY <1>2, <2>1, <2>2 DEF ClosedWhenWhole, Alive
  <2>5. EndedWell(i)'
    BY <1>2, <1>7, <2>1 DEF EndedWell, Complete
  <2> QED BY <2>3, <2>4, <2>5
<1>5. ASSUME NEW t \in Threads PROVE GotAll(t)' /\ WaitsForWhole(t)'
  <2>1. HandlesOn(t) /\ GotAll(t) /\ WaitsForWhole(t)
    BY DEF Quiet, DataInv
  <2>2. ASSUME req'[t].pc \in {"finishing", "waiting", "renaming"}
        PROVE  /\ SamePipe(t) /\ req[t].pipe \in DOMAIN rcat
               /\ req[t].pc = req'[t].pc \/ (req'[t].pc = "finishing" /\ ~Writable(req[t].pipe))
    BY <2>1, <2>2 DEF HandlesOn, SamePipe, PlacesInv, HasPipe, Handling, OfFile
  <2>3. GotAll(t)'
    <3> SUFFICES ASSUME req'[t].pc = "finishing"
                 PROVE  \/ rcat'[req'[t].pipe].exit # "no" \/ rcat'[req'[t].pipe].stdin # "open"
                        \/ rcat'[req'[t].pipe].written = Size[req'[t].file]
      BY DEF GotAll
    <3>1. PICK k \in DOMAIN rcat : k = req[t].pipe /\ k = req'[t].pipe
      BY <2>2 DEF SamePipe
    <3>2. \/ rcat[k].exit # "no" \/ rcat[k].stdin # "open" \/ rcat[k].written = Size[req[t].file]
      BY <2>1, <2>2, <3>1 DEF GotAll, Writable, Alive
    <3> QED BY <1>2, <2>2, <3>1, <3>2 DEF SamePipe
  <2>4. WaitsForWhole(t)'
    <3>1. CASE req'[t].pc \in {"waiting", "renaming"}
      <4>1. PICK k \in DOMAIN rcat : k = req[t].pipe /\ k = req'[t].pipe
        BY <2>2, <3>1 DEF SamePipe
      <4>2. req'[t].pc = req[t].pc /\ req'[t].file = req[t].file
        BY <2>2, <3>1 DEF SamePipe
      <4> QED BY <1>2, <2>1, <4>1, <4>2 DEF WaitsForWhole
    <3> QED BY <3>1 DEF WaitsForWhole
  <2> QED BY <2>3, <2>4
<1>6. ASSUME NEW f \in Files \ overtaken' PROVE KeptWhole(f)'
  BY <1>2, <1>6, <1>7 DEF DataInv, KeptWhole, Complete
<1> QED BY <1>4, <1>5, <1>6 DEF DataInv

-----------------------------------------------------------------------------
(* Steps that change what the files are.                                     *)

ServerTypes == /\ rcat' \in Seq(Rcats) /\ data' \in Seq(Nat) /\ Len(data') = Len(rcat')
               /\ pipes' \in [Files -> Nat] /\ temp' \in [Files -> Nat]
               /\ path' \in [Files -> Nat \cup {Removed}] /\ overtaken' \subseteq Files

\* The references stay right when no process and no name for one appears.
LEMMA PlacesStay ==
    ASSUME UploadTypeOK, PlacesInv, RcatsStay, local' = local,
           \A f \in Files : /\ pipes'[f] \in {0, pipes[f]} /\ temp'[f] \in {0, temp[f]}
                            /\ pipes'[f] # 0 => /\ rcat'[pipes[f]].stdin = "open"
                                                /\ rcat'[pipes[f]].exit # "well"
                            /\ \/ path'[f] \in {0, Removed, path[f]}
                               \/ OfFile(path'[f], f) /\ (local \/ rcat'[path'[f]].exit = "well"),
           Persist,
           \A k \in DOMAIN rcat : rcat'[k].written =< Size[rcat[k].file],
           \A t \in Threads : /\ req'[t].pc # "free" => req'[t].file \in Files
                              /\ req'[t].pc \in Handling => OfFile(req'[t].pipe, req'[t].file)
    PROVE  PlacesInv'
<1>1. /\ DOMAIN rcat' = DOMAIN rcat
      /\ \A k \in DOMAIN rcat : rcat'[k].file = rcat[k].file /\ rcat'[k].inode = rcat[k].inode
  BY DEF RcatsStay
<1>2. ASSUME NEW t \in Threads PROVE HasFile(t)' /\ HasPipe(t)'
  BY <1>1 DEF HasFile, HasPipe, OfFile
<1>3. ASSUME NEW f \in Files PROVE PipeIsOpen(f)' /\ NamesAreOwn(f)'
  <2>1. PipeIsOpen(f)'
    BY <1>1 DEF PlacesInv, PipeIsOpen, OfFile
  <2>2. NamesAreOwn(f)'
    <3>1. temp'[f] # 0 => local /\ temp'[f] \in DOMAIN rcat' /\ rcat'[temp'[f]].file = f
      BY <1>1 DEF PlacesInv, NamesAreOwn, OfFile
    <3>2. ASSUME path'[f] \notin {0, Removed}
          PROVE  path'[f] \in DOMAIN rcat' /\ rcat'[path'[f]].file = f /\ (local \/ rcat'[path'[f]].exit = "well")
      <4>1. CASE path'[f] = path[f]
        <5>1. OfFile(path[f], f) /\ (local \/ rcat[path[f]].exit = "well")
          BY <3>2, <4>1 DEF PlacesInv, NamesAreOwn
        <5>2. PICK k \in DOMAIN rcat : k = path[f] /\ k = path'[f]
          BY <4>1, <5>1 DEF OfFile
        <5> QED BY <1>1, <5>1, <5>2 DEF OfFile, Persist
      <4>2. CASE OfFile(path'[f], f) /\ (local \/ rcat'[path'[f]].exit = "well")
        BY <1>1, <4>2 DEF OfFile
      <4> QED BY <3>2, <4>1, <4>2
    <3> QED BY <3>1, <3>2 DEF NamesAreOwn, OfFile
  <2> QED BY <2>1, <2>2
<1>4. ASSUME NEW i \in DOMAIN rcat' PROVE InodeIsOwn(i)'
  <2>1. InodeIsOwn(i) /\ i \in DOMAIN rcat
    BY <1>1, <1>4 DEF PlacesInv
  <2>2. DOMAIN rcat = 1 .. Len(rcat) /\ Len(rcat) \in Nat
    BY LenProperties DEF UploadTypeOK
  <2>3. rcat[i].inode \in DOMAIN rcat
    BY <2>1, <2>2 DEF InodeIsOwn
  <2> QED BY <1>1, <2>1, <2>3 DEF InodeIsOwn
<1> QED BY <1>2, <1>3, <1>4 DEF PlacesInv

\* Nor does a second writer.
LEMMA WritersStay ==
    ASSUME UploadTypeOK, WritersInv, RcatsStay, overtaken' = overtaken,
           \A k \in DOMAIN rcat : rcat'[k].exit = "no" => rcat[k].exit = "no",
           \A f \in Files : pipes'[f] \in {0, pipes[f]},
           \A t \in Threads : req'[t].pc \in {"waiting", "renaming"} =>
                                  req[t].pc \in {"waiting", "renaming"} /\ SamePipe(t)
    PROVE  WritersInv'
<1>1. ASSUME NEW f \in Files \ overtaken PROVE OneWriter(f)'
  <2>1. OneWriter(f)
    BY <1>1 DEF WritersInv
  <2>2. \A k \in WritersOf(f)' : k \in WritersOf(f)
    BY DEF WritersOf, Alive, RcatsStay
  <2>3. \A t \in Finishing(f)' : t \in Finishing(f) /\ req'[t].pipe = req[t].pipe
    BY DEF Finishing, SamePipe
  <2>4. \A k \in DOMAIN rcat' : k \in DOMAIN rcat /\ rcat'[k].file = rcat[k].file
    BY DEF RcatsStay
  <2> QED BY <2>1, <2>2, <2>3, <2>4 DEF OneWriter
<1> QED BY <1>1 DEF WritersInv

\* A file that was not overtaken has one writer at most.
LEMMA OnlyWriter ==
    ASSUME WritersInv, NEW i \in DOMAIN rcat, NEW k \in DOMAIN rcat, Alive(i), Alive(k),
           rcat[i].file = rcat[k].file, rcat[i].file \in Files \ overtaken
    PROVE  i = k
BY DEF WritersInv, OneWriter, WritersOf

\* Where the processes and the names of different files are, is different.
LEMMA InodesDiffer ==
    ASSUME PlacesInv, UploadTypeOK, NEW i \in DOMAIN rcat
    PROVE  /\ rcat[i] \in Rcats /\ rcat[i].inode \in DOMAIN rcat /\ i \in Nat /\ i > 0
           /\ rcat[rcat[i].inode].file = rcat[i].file
           /\ DOMAIN rcat = 1 .. Len(rcat) /\ DOMAIN data = DOMAIN rcat /\ Len(rcat) \in Nat
<1>1. DOMAIN rcat = 1 .. Len(rcat) /\ Len(rcat) \in Nat /\ DOMAIN data = DOMAIN rcat
  BY LenProperties DEF UploadTypeOK
<1>2. InodeIsOwn(i)
  BY DEF PlacesInv
<1>3. rcat[i] \in Rcats
  BY ElementOfSeq, <1>1 DEF UploadTypeOK
<1> QED BY <1>1, <1>2, <1>3 DEF InodeIsOwn

\* RcatEnds: what a process leaves behind when it ends is the whole file or what was there.
LEMMA EndsKeeps ==
    ASSUME UploadTypeOK, PlacesInv, WritersInv, DataInv, NEW i \in DOMAIN rcat, RcatEnds(i)
    PROVE  ServerTypes /\ PlacesInv' /\ WritersInv' /\ DataInv' /\ Persist
<1>1. /\ Ended(i, ExitWell(i)) /\ Alive(i) /\ rcat[i].stdin # "open"
      /\ temp' \in [Files -> Nat] /\ path' \in [Files -> Nat \cup {Removed}] /\ data' \in Seq(Nat)
      /\ \A g \in Files : /\ temp'[g] = IF local /\ ~ExitWell(i) /\ g = rcat[i].file THEN 0 ELSE temp[g]
                          /\ path'[g] = IF local \/ rcat[i].stdin = "signalled" \/ g # rcat[i].file
                                        THEN path[g] ELSE IF ExitWell(i) THEN i ELSE Removed
      /\ \A k \in DOMAIN rcat :
            data'[k] = IF ~local /\ ExitWell(i) /\ k = i THEN Size[rcat[i].file] ELSE data[k]
  BY RcatEndsFields
<1>2. /\ RcatsStay /\ Len(data') = Len(rcat')
      /\ DOMAIN rcat' = DOMAIN rcat /\ DOMAIN data' = DOMAIN rcat /\ DOMAIN data = DOMAIN rcat
      /\ DOMAIN rcat = 1 .. Len(rcat) /\ Len(rcat) \in Nat
      /\ UNCHANGED <<pipes, overtaken, local, req>>
      /\ \A k \in DOMAIN rcat :
            /\ rcat'[k].file = rcat[k].file /\ rcat'[k].inode = rcat[k].inode
            /\ rcat'[k].written = rcat[k].written /\ rcat'[k].stdin = rcat[k].stdin
            /\ rcat'[k].exit = IF k = i THEN IF ExitWell(i) THEN "well" ELSE "badly" ELSE rcat[k].exit
  <2>1. RcatsStay /\ Len(data') = Len(rcat') /\ UNCHANGED <<pipes, overtaken, local, req>>
    BY <1>1 DEF Ended
  <2>2. /\ DOMAIN rcat' = 1 .. Len(rcat') /\ DOMAIN data' = 1 .. Len(data') /\ DOMAIN data = DOMAIN rcat
        /\ DOMAIN rcat = 1 .. Len(rcat) /\ Len(rcat) \in Nat
    BY <1>1, <2>1, LenProperties DEF RcatsStay, UploadTypeOK
  <2> QED BY <1>1, <2>1, <2>2 DEF Ended, RcatsStay
<1>3. PICK f \in Files : f = rcat[i].file
  BY InodesDiffer DEF Rcats
<1>4. ServerTypes
  BY <1>1, <1>2 DEF ServerTypes, RcatsStay, UploadTypeOK
<1>p. Persist
  BY <1>1, <1>2 DEF Persist, Alive
<1>c. /\ \A k \in DOMAIN rcat : CutAfter(k) => CutAfter(k)'
      /\ \A g \in Files : CutShort(g) => CutShort(g)'
  BY <1>p, CutsStay
<1>5. PlacesInv'
  <2>1. \A g \in Files : /\ pipes'[g] \in {0, pipes[g]} /\ temp'[g] \in {0, temp[g]}
                         /\ \/ path'[g] \in {0, Removed, path[g]}
                            \/ OfFile(path'[g], g) /\ (local \/ rcat'[path'[g]].exit = "well")
    BY <1>1, <1>2 DEF OfFile
  <2>2. ASSUME NEW g \in Files, pipes'[g] # 0
        PROVE  rcat'[pipes[g]].stdin = "open" /\ rcat'[pipes[g]].exit # "well"
    <3>1. pipes[g] \in DOMAIN rcat /\ rcat[pipes[g]].stdin = "open" /\ rcat[pipes[g]].exit # "well"
      BY <1>2, <2>2 DEF PlacesInv, PipeIsOpen, OfFile
    <3> QED BY <1>1, <1>2, <3>1
  <2>3. \A k \in DOMAIN rcat : rcat'[k].written =< Size[rcat[k].file]
    BY <1>2 DEF PlacesInv, InodeIsOwn
  <2>4. \A t \in Threads : /\ req'[t].pc # "free" => req'[t].file \in Files
                           /\ req'[t].pc \in Handling => OfFile(req'[t].pipe, req'[t].file)
    BY <1>2 DEF PlacesInv, HasFile, HasPipe
  <2> QED BY <1>2, <1>p, <2>1, <2>2, <2>3, <2>4, PlacesStay
<1>6. WritersInv'
  BY <1>2, WritersStay DEF SamePipe
<1>7. ASSUME NEW k \in DOMAIN rcat, Alive(k), k # i, rcat[k].file \notin overtaken
      PROVE  rcat[k].file # f
  BY <1>1, <1>3, <1>7, OnlyWriter
<1>8. ASSUME NEW g \in Files \ overtaken, ~local, Complete(g) \/ (g = f /\ ExitWell(i)),
             g = f => rcat[i].stdin # "cut"
      PROVE  Complete(g)'
  <2>1. g = f => rcat[i].stdin = "signalled" \/ ExitWell(i)
    <3>1. rcat[i].stdin \in {"open", "closed", "signalled", "cut"}
      BY InodesDiffer DEF Rcats
    <3> QED BY <1>1, <1>3, <1>8, <3>1 DEF DataInv, ClosedWhenWhole, ExitWell
  <2>2. ExitWell(i) => rcat[i].stdin # "signalled"
    BY DEF ExitWell
  <2>3. CASE g = f /\ ExitWell(i)
    BY <1>1, <1>2, <1>3, <1>8, <2>2, <2>3 DEF Complete
  <2>4. CASE ~(g = f /\ ExitWell(i)) /\ path[g] # 0 /\ path[g] # Removed
    <3>1. path'[g] = path[g] /\ OfFile(path[g], g)
      BY <1>1, <1>3, <2>1, <2>4 DEF PlacesInv, NamesAreOwn
    <3>2. data'[path[g]] = data[path[g]]
      BY <1>1, <1>3, <2>4, <3>1 DEF OfFile
    <3> QED BY <1>2, <1>8, <2>4, <3>1, <3>2 DEF Complete
  <2>5. path[g] = 0 \/ path[g] = Removed => ~Complete(g)
    BY <1>2 DEF Complete, Removed
  <2> QED BY <1>8, <2>3, <2>4, <2>5
<1>9. DataInv'
  <2>1. ASSUME NEW k \in DOMAIN rcat', rcat'[k].file \notin overtaken'
        PROVE  (WritesToTemp(k) /\ ClosedWhenWhole(k) /\ EndedWell(k))'
    <3>1. k \in DOMAIN rcat /\ rcat[k].file \in Files \ overtaken
      BY <1>2, <2>1, InodesDiffer DEF Rcats
    <3>2. WritesToTemp(k) /\ ClosedWhenWhole(k) /\ EndedWell(k)
      BY <3>1 DEF DataInv
    <3>3. WritesToTemp(k)'
      <4> SUFFICES ASSUME local, rcat'[k].exit = "no"
                   PROVE  temp'[rcat[k].file] = rcat[k].inode /\ data'[rcat[k].inode] = rcat[k].written
        BY <1>2, <3>1 DEF WritesToTemp, Alive
      <4>1. k # i /\ Alive(k)
        BY <1>2, <3>1 DEF Alive
      <4>2. temp[rcat[k].file] = rcat[k].inode /\ data[rcat[k].inode] = rcat[k].written
        BY <3>2, <4>1 DEF WritesToTemp
      <4>3. rcat[k].file # f /\ rcat[k].inode \in DOMAIN rcat
        BY <1>7, <3>1, <4>1, InodesDiffer
      <4> QED BY <1>1, <1>3, <3>1, <4>2, <4>3
    <3>4. ClosedWhenWhole(k)'
      BY <1>2, <3>1, <3>2 DEF ClosedWhenWhole, Alive
    <3>5. EndedWell(k)'
      <4>1. PICK g \in Files \ overtaken : g = rcat[k].file /\ g = rcat'[k].file
        BY <1>2, <3>1
      <4> SUFFICES ASSUME ~local, rcat'[k].exit = "well"
                   PROVE  Complete(g)' \/ CutAfter(k)'
        BY <1>2, <4>1 DEF EndedWell, Complete
      <4>2. k = i => ExitWell(i) /\ rcat[i].stdin # "cut"
        BY <1>2, <3>1 DEF ExitWell
      <4>3. k # i => Complete(g) \/ CutAfter(k)
        BY <1>2, <3>1, <3>2, <4>1 DEF EndedWell, Complete
      <4>4. CASE g = f /\ rcat[i].stdin = "cut"
        <5>1. k < i
          <6>1. i \in WritersOf(f) /\ OneWriter(f) /\ k # i
            BY <1>1, <1>3, <4>1, <4>2, <4>4 DEF WritersOf, WritersInv
          <6>2. k =< i
            BY <3>1, <4>1, <4>4, <6>1 DEF OneWriter
          <6>3. k \in Nat /\ i \in Nat
            BY <3>1, InodesDiffer
          <6> QED BY <6>1, <6>2, <6>3
        <5>2. CutAfter(k)'
          BY <1>2, <3>1, <4>1, <1>3, <4>4, <5>1 DEF CutAfter
        <5> QED BY <5>2
      <4>5. CASE ~(g = f /\ rcat[i].stdin = "cut")
        BY <1>3, <1>8, <1>c, <3>1, <4>1, <4>2, <4>3, <4>5
      <4> QED BY <4>4, <4>5
    <3> QED BY <3>3, <3>4, <3>5
  <2>2. ASSUME NEW t \in Threads PROVE GotAll(t)' /\ WaitsForWhole(t)'
    <3>1. CASE req[t].pc \in {"finishing", "waiting", "renaming"}
      <4>1. PICK k \in DOMAIN rcat : k = req[t].pipe /\ rcat[k].file = req[t].file
        BY <3>1 DEF PlacesInv, HasPipe, Handling, OfFile
      <4>2. GotAll(t) /\ WaitsForWhole(t)
        BY DEF DataInv
      <4>3. GotAll(t)'
        BY <1>2, <4>1, <4>2 DEF GotAll
      <4>4. (req[t].pc = "renaming" => local /\ rcat[k].exit = "well" /\ k # i)
        BY <1>1, <4>1, <4>2 DEF WaitsForWhole, Alive
      <4>5. ASSUME local, req[t].pc \in {"waiting", "renaming"}, req[t].file \notin overtaken,
                   rcat'[k].exit = "well"
            PROVE  temp'[rcat[k].file] \in {0, rcat[k].inode} /\ data'[rcat[k].inode] = Size[rcat[k].file]
        <5>1. rcat[k].file \in Files /\ rcat[k].inode \in DOMAIN rcat
          BY <4>1, InodesDiffer DEF Rcats
        <5>2. CASE k = i
          <6>1. ExitWell(i)
            BY <1>2, <4>5, <5>2
          <6>2. WritesToTemp(i)
            BY <4>1, <4>5, <5>2 DEF DataInv
          <6>3. temp[f] = rcat[i].inode /\ data[rcat[i].inode] = Size[f]
            BY <1>1, <1>3, <4>5, <6>1, <6>2 DEF WritesToTemp, ExitWell
          <6> QED BY <1>1, <1>3, <4>5, <5>1, <5>2, <6>1, <6>3
        <5>3. CASE k # i
          <6>1. temp[rcat[k].file] \in {0, rcat[k].inode} /\ data[rcat[k].inode] = Size[rcat[k].file]
            BY <1>2, <4>1, <4>2, <4>5, <5>3 DEF WaitsForWhole
          <6> QED BY <1>1, <4>5, <5>1, <6>1
        <5> QED BY <5>2, <5>3
      <4>6. WaitsForWhole(t)'
        BY <1>2, <4>1, <4>4, <4>5 DEF WaitsForWhole
      <4> QED BY <4>3, <4>6
    <3> QED BY <1>2, <3>1 DEF GotAll, WaitsForWhole
  <2>3. ASSUME NEW g \in Files \ overtaken PROVE KeptWhole(g)'
    <3>1. KeptWhole(g)
      BY <2>3 DEF DataInv
    <3>2. CASE local
      BY <1>1, <1>2, <2>3, <3>1, <3>2 DEF KeptWhole, Complete
    <3>3. CASE ~local
      <4>1. temp[g] = 0 /\ temp'[g] = 0
        BY <1>1, <3>3 DEF PlacesInv, NamesAreOwn
      <4>5. CASE g = f /\ rcat[i].stdin = "cut"
        <5>1. path'[g] = Removed
          BY <1>1, <1>3, <3>3, <4>5 DEF ExitWell
        <5>2. CutShort(g)'
          BY <1>2, <1>3, <4>5 DEF CutShort
        <5> QED BY <1>2, <3>3, <5>1, <5>2 DEF KeptWhole
      <4>2. CASE ~(g = f /\ rcat[i].stdin = "cut") /\ (Complete(g) \/ (g = f /\ ExitWell(i)))
        <5>1. Complete(g)'
          BY <1>8, <2>3, <3>3, <4>2
        <5>2. path'[g] # 0
          BY <1>2, <5>1 DEF Complete
        <5> QED BY <4>1, <5>1, <5>2 DEF KeptWhole
      <4>3. CASE ~(g = f /\ rcat[i].stdin = "cut") /\ ~(Complete(g) \/ (g = f /\ ExitWell(i)))
        <5>1. path[g] = 0 \/ (path[g] = Removed /\ CutShort(g))
          BY <3>1, <4>3 DEF KeptWhole
        <5>2. g = f => rcat[i].stdin = "signalled"
          <6>1. rcat[i].stdin \in {"open", "closed", "signalled", "cut"}
            BY InodesDiffer DEF Rcats
          <6> QED BY <1>1, <1>3, <2>3, <3>3, <4>3, <6>1 DEF DataInv, ClosedWhenWhole, ExitWell
        <5>3. path'[g] = path[g]
          BY <1>1, <1>3, <5>2
        <5> QED BY <1>2, <1>c, <2>3, <3>3, <5>1, <5>3 DEF KeptWhole
      <4> QED BY <4>2, <4>3, <4>5
    <3> QED BY <3>2, <3>3
  <2> QED BY <1>2, <2>1, <2>2, <2>3 DEF DataInv
<1> QED BY <1>4, <1>5, <1>6, <1>9, <1>p

\* RcatFails: nothing of it is anybody's.
LEMMA FailsKeeps ==
    ASSUME UploadTypeOK, PlacesInv, WritersInv, DataInv, NEW i \in DOMAIN rcat, RcatFails(i)
    PROVE  ServerTypes /\ PlacesInv' /\ WritersInv' /\ DataInv' /\ Persist
<1>1. /\ Ended(i, FALSE) /\ Alive(i) /\ UNCHANGED <<data, path>>
      /\ temp' \in [Files -> Nat]
      /\ \A g \in Files : temp'[g] = temp[g] \/ (local /\ g = rcat[i].file /\ temp'[g] = 0)
  BY RcatFailsFields
<1>2. /\ RcatsStay /\ Len(data') = Len(rcat')
      /\ DOMAIN rcat' = DOMAIN rcat
      /\ UNCHANGED <<pipes, overtaken, local, req>>
      /\ \A k \in DOMAIN rcat :
            /\ rcat'[k].file = rcat[k].file /\ rcat'[k].inode = rcat[k].inode
            /\ rcat'[k].written = rcat[k].written /\ rcat'[k].stdin = rcat[k].stdin
            /\ rcat'[k].exit = IF k = i THEN "badly" ELSE rcat[k].exit
  BY <1>1 DEF Ended, RcatsStay
<1>3. PICK f \in Files : f = rcat[i].file
  BY InodesDiffer DEF Rcats
<1>4. ServerTypes
  BY <1>1, <1>2 DEF ServerTypes, RcatsStay, UploadTypeOK
<1>p. Persist
  BY <1>1, <1>2 DEF Persist, Alive
<1>5. PlacesInv'
  <2>1. \A g \in Files : /\ pipes'[g] \in {0, pipes[g]} /\ temp'[g] \in {0, temp[g]}
                         /\ path'[g] \in {0, Removed, path[g]}
                         /\ pipes'[g] # 0 => rcat'[pipes[g]].stdin = "open" /\ rcat'[pipes[g]].exit # "well"
    BY <1>1, <1>2 DEF PlacesInv, PipeIsOpen, OfFile
  <2>2. \A k \in DOMAIN rcat : rcat'[k].written =< Size[rcat[k].file]
    BY <1>2 DEF PlacesInv, InodeIsOwn
  <2>3. \A t \in Threads : /\ req'[t].pc # "free" => req'[t].file \in Files
                           /\ req'[t].pc \in Handling => OfFile(req'[t].pipe, req'[t].file)
    BY <1>2 DEF PlacesInv, HasFile, HasPipe
  <2> QED BY <1>2, <1>p, <2>1, <2>2, <2>3, PlacesStay
<1>6. WritersInv'
  BY <1>2, WritersStay DEF SamePipe
<1>7. DataInv'
  <2>1. ASSUME NEW k \in DOMAIN rcat', rcat'[k].file \notin overtaken'
        PROVE  (WritesToTemp(k) /\ ClosedWhenWhole(k) /\ EndedWell(k))'
    <3>1. k \in DOMAIN rcat /\ rcat[k].file \in Files \ overtaken
      BY <1>2, <2>1, InodesDiffer DEF Rcats
    <3>2. WritesToTemp(k) /\ ClosedWhenWhole(k) /\ EndedWell(k)
      BY <3>1 DEF DataInv
    <3>3. Alive(k) /\ k # i => rcat[k].file # f
      BY <1>1, <1>3, <3>1, OnlyWriter
    <3>4. WritesToTemp(k)'
      BY <1>1, <1>2, <1>3, <3>1, <3>2, <3>3 DEF WritesToTemp, Alive
    <3>5. ClosedWhenWhole(k)'
      BY <1>2, <3>1, <3>2 DEF ClosedWhenWhole, Alive
    <3>6. EndedWell(k)'
      <4>1. Complete(rcat[k].file) => Complete(rcat[k].file)'
        BY <1>1, <1>2 DEF Complete
      <4>2. rcat'[k].exit = "well" => rcat[k].exit = "well"
        BY <1>2, <3>1
      <4> QED BY <1>2, <1>p, <3>1, <3>2, <4>1, <4>2, StillEnded
    <3> QED BY <3>4, <3>5, <3>6
  <2>2. ASSUME NEW t \in Threads PROVE GotAll(t)' /\ WaitsForWhole(t)'
    <3>1. CASE req[t].pc \in {"finishing", "waiting", "renaming"}
      <4>1. PICK k \in DOMAIN rcat : k = req[t].pipe /\ rcat[k].file = req[t].file
        BY <3>1 DEF PlacesInv, HasPipe, Handling, OfFile
      <4>2. GotAll(t) /\ WaitsForWhole(t)
        BY DEF DataInv
      <4>3. rcat[k].file \in Files /\ (temp'[rcat[k].file] = temp[rcat[k].file] \/ temp'[rcat[k].file] = 0)
        BY <1>1, InodesDiffer DEF Rcats
      <4>4. GotAll(t)'
        BY <1>2, <4>1, <4>2 DEF GotAll
      <4>5. WaitsForWhole(t)'
        BY <1>1, <1>2, <4>1, <4>2, <4>3 DEF WaitsForWhole, Alive
      <4> QED BY <4>4, <4>5
    <3> QED BY <1>2, <3>1 DEF GotAll, WaitsForWhole
  <2>3. ASSUME NEW g \in Files \ overtaken PROVE KeptWhole(g)'
    <3>1. KeptWhole(g) /\ path'[g] = path[g]
      BY <1>1, <2>3 DEF DataInv
    <3>2. Complete(g) => Complete(g)' /\ path[g] # 0
      BY <1>1, <1>2, InodesDiffer, LenProperties DEF Complete, UploadTypeOK
    <3>3. temp[g] # path[g] /\ path[g] # 0 => temp'[g] # path[g]
      BY <1>1, <2>3
    <3> QED BY <1>2, <1>p, <2>3, <3>1, <3>2, <3>3, StillKept
  <2> QED BY <1>2, <2>1, <2>2, <2>3 DEF DataInv
<1> QED BY <1>4, <1>5, <1>6, <1>7, <1>p

\* Spawn: a new process, at the temporary name. Where the file had a writer, or a request
\* that has one's outcome still to use, the file is overtaken.
LEMMA SpawnKeeps ==
    ASSUME UploadTypeOK, PlacesInv, WritersInv, DataInv, NEW t \in Threads, Spawn(t)
    PROVE  ServerTypes /\ ClientTypes /\ PlacesInv' /\ WritersInv' /\ DataInv' /\ Persist
<1>1. PICK f : f = req[t].file
  OBVIOUS
<1>2. PICK n : n = Len(rcat) + 1
  OBVIOUS
<1>3. /\ f \in Files /\ n \in Nat /\ n > 0 /\ n \notin DOMAIN rcat
      /\ rcat' \in Seq(Rcats) /\ Len(rcat') = n /\ DOMAIN rcat' = DOMAIN rcat \cup {n}
      /\ \A k \in DOMAIN rcat :
            /\ rcat'[k].file = rcat[k].file /\ rcat'[k].inode = rcat[k].inode
            /\ rcat'[k].written = rcat[k].written /\ rcat'[k].exit = rcat[k].exit
            /\ rcat'[k].stdin = Replaced(k, f)
      /\ rcat'[n].file = f /\ rcat'[n].written = 0
      /\ rcat'[n].stdin = "open" /\ rcat'[n].exit = "no"
      /\ rcat'[n].inode = IF local /\ temp[f] # 0 THEN temp[f] ELSE n
      /\ data' \in Seq(Nat) /\ Len(data') = n /\ DOMAIN data' = DOMAIN rcat'
      /\ \A k \in DOMAIN rcat' : data'[k] = IF k = n \/ k = rcat'[n].inode THEN 0 ELSE data[k]
      /\ temp' \in [Files -> Nat]
      /\ \A g \in Files : temp'[g] = IF local /\ g = f THEN rcat'[n].inode ELSE temp[g]
      /\ pipes' \in [Files -> Nat] /\ \A g \in Files : pipes'[g] = IF g = f THEN n ELSE pipes[g]
      /\ overtaken' = IF WritersOf(f) # {} \/ Finishing(f) # {} THEN overtaken \cup {f} ELSE overtaken
      /\ UNCHANGED <<path, local>>
  <2>1. Spawned(f, n)
    BY <1>1, <1>2, SpawnFields
  <2> QED BY <2>1 DEF Spawned
<1>4. PICK ino : ino = rcat'[n].inode
  OBVIOUS
<1>5. /\ DOMAIN rcat = 1 .. Len(rcat) /\ Len(rcat) \in Nat /\ DOMAIN data = DOMAIN rcat
      /\ \A k \in DOMAIN rcat : /\ rcat[k].inode \in DOMAIN rcat /\ rcat[rcat[k].inode].file = rcat[k].file
                                /\ rcat[k].file \in Files
  <2>1. DOMAIN rcat = 1 .. Len(rcat) /\ Len(rcat) \in Nat /\ DOMAIN data = DOMAIN rcat
    BY LenProperties DEF UploadTypeOK
  <2> QED BY <2>1, InodesDiffer DEF Rcats
<1>6. \/ ino = n
      \/ local /\ ino = temp[f] /\ temp[f] # 0 /\ ino \in DOMAIN rcat /\ rcat[ino].file = f
  BY <1>3, <1>4 DEF PlacesInv, NamesAreOwn, OfFile
<1>7. /\ req' \in [Threads -> Chunks] /\ req'[t].pc = "finding" /\ req'[t].file = f
      /\ \A u \in Threads \ {t} : req'[u] = req[u]
  BY <1>1, GoFields DEF Spawn, Places, OthersStay
<1>8. ServerTypes /\ ClientTypes
  BY <1>3, <1>7 DEF ServerTypes, ClientTypes, UploadTypeOK, Spawn
<1>p. Persist
  <2>1. ASSUME NEW k \in DOMAIN rcat, rcat[k].stdin = "cut" PROVE rcat'[k].stdin = "cut"
    <3>1. k # pipes[f]
      BY <1>3, <1>5, <2>1 DEF PlacesInv, PipeIsOpen
    <3> QED BY <1>3, <2>1, <3>1 DEF Replaced
  <2> QED BY <1>3, <2>1 DEF Persist
<1>9. PlacesInv'
  <2>1. ASSUME NEW u \in Threads PROVE HasFile(u)' /\ HasPipe(u)'
    <3>1. CASE u = t
      BY <1>3, <1>7, <3>1 DEF HasFile, HasPipe, Handling
    <3>2. CASE u # t
      <4>1. req'[u] = req[u] /\ HasFile(u) /\ HasPipe(u)
        BY <1>7, <3>2 DEF PlacesInv
      <4> QED BY <1>3, <4>1 DEF HasFile, HasPipe, OfFile
    <3> QED BY <3>1, <3>2
  <2>2. ASSUME NEW g \in Files PROVE PipeIsOpen(g)'
    <3>1. CASE g = f
      BY <1>3, <3>1 DEF PipeIsOpen, OfFile
    <3>2. CASE g # f /\ pipes[g] # 0
      <4>1. pipes[g] \in DOMAIN rcat /\ rcat[pipes[g]].file = g /\ rcat[pipes[g]].stdin = "open"
            /\ rcat[pipes[g]].exit # "well"
        BY <3>2 DEF PlacesInv, PipeIsOpen, OfFile
      <4>2. pipes[g] # pipes[f]
        BY <1>3, <3>2, <4>1 DEF PlacesInv, PipeIsOpen, OfFile
      <4> QED BY <1>3, <3>2, <4>1, <4>2 DEF PipeIsOpen, OfFile, Replaced
    <3>3. CASE g # f /\ pipes[g] = 0
      BY <1>3, <3>3 DEF PipeIsOpen
    <3> QED BY <3>1, <3>2, <3>3
  <2>3. ASSUME NEW g \in Files PROVE NamesAreOwn(g)'
    <3>1. NamesAreOwn(g)
      BY DEF PlacesInv
    <3>2. ASSUME temp'[g] # 0 PROVE local /\ temp'[g] \in DOMAIN rcat' /\ rcat'[temp'[g]].file = g
      <4>1. CASE g = f /\ local
        <5>1. temp'[g] = ino
          BY <1>3, <1>4, <4>1
        <5>2. ino \in DOMAIN rcat' /\ rcat'[ino].file = f
          BY <1>3, <1>6
        <5> QED BY <4>1, <5>1, <5>2
      <4>2. CASE ~(g = f /\ local)
        <5>1. temp'[g] = temp[g]
          BY <1>3, <4>2
        <5>2. local /\ temp[g] \in DOMAIN rcat /\ rcat[temp[g]].file = g
          BY <3>1, <3>2, <5>1 DEF NamesAreOwn, OfFile
        <5> QED BY <1>3, <5>1, <5>2
      <4> QED BY <4>1, <4>2
    <3>3. path'[g] \notin {0, Removed} => /\ path'[g] \in DOMAIN rcat' /\ rcat'[path'[g]].file = g
                                          /\ local \/ rcat'[path'[g]].exit = "well"
      <4>1. path'[g] = path[g]
        BY <1>3
      <4>2. path[g] \notin {0, Removed} => /\ path[g] \in DOMAIN rcat /\ rcat[path[g]].file = g
                                           /\ local \/ rcat[path[g]].exit = "well"
        BY <3>1 DEF NamesAreOwn, OfFile
      <4> QED BY <1>3, <4>1, <4>2
    <3>4. local' = local
      BY <1>3
    <3> QED BY <3>2, <3>3, <3>4 DEF NamesAreOwn, OfFile
  <2>4. ASSUME NEW k \in DOMAIN rcat' PROVE InodeIsOwn(k)'
    <3>1. CASE k = n
      <4>1. ino \in 1 .. n /\ rcat'[ino].file = f
        BY <1>2, <1>3, <1>5, <1>6
      <4>2. rcat'[n].inode = ino /\ rcat'[n].file = f /\ rcat'[n].written = 0
        BY <1>3, <1>4
      <4>3. Size[f] \in Nat
        BY <1>3, UploadAssumption
      <4> QED BY <3>1, <4>1, <4>2, <4>3 DEF InodeIsOwn
    <3>2. CASE k # n
      <4>1. k \in DOMAIN rcat /\ InodeIsOwn(k)
        BY <1>3, <3>2 DEF PlacesInv
      <4> QED BY <1>3, <1>5, <4>1 DEF InodeIsOwn
    <3> QED BY <3>1, <3>2
  <2> QED BY <2>1, <2>2, <2>3, <2>4 DEF PlacesInv
<1>10. f \in Files \ overtaken' => WritersOf(f) = {} /\ Finishing(f) = {}
  BY <1>3
<1>11. overtaken \subseteq overtaken'
  BY <1>3
<1>12. WritersInv'
  <2> SUFFICES ASSUME NEW g \in Files \ overtaken' PROVE OneWriter(g)'
    BY DEF WritersInv
  <2>1. OneWriter(g)
    BY <1>11 DEF WritersInv
  <2>2. \A u \in Finishing(g)' : u \in Finishing(g) /\ req'[u] = req[u]
    BY <1>7 DEF Finishing
  <2>3. CASE g = f
    <3>1. Finishing(g)' = {}
      BY <1>10, <2>2, <2>3
    <3>2. \A k \in WritersOf(g)' : k = n
      BY <1>3, <1>10, <2>3 DEF WritersOf, Alive
    <3>3. \A k \in DOMAIN rcat' : k =< n
      BY <1>2, <1>3, <1>5
    <3> QED BY <1>3, <2>3, <3>1, <3>2, <3>3 DEF OneWriter
  <2>4. CASE g # f
    <3>1. \A k \in WritersOf(g)' : k \in WritersOf(g)
      BY <1>3, <2>4 DEF WritersOf, Alive
    <3>2. pipes'[g] = pipes[g]
      BY <1>3, <2>4
    <3>3. \A k \in DOMAIN rcat' : rcat'[k].file = g => k \in DOMAIN rcat /\ rcat[k].file = g
      BY <1>3, <2>4
    <3> QED BY <2>1, <2>2, <3>1, <3>2, <3>3 DEF OneWriter
  <2> QED BY <2>3, <2>4
<1>13. ASSUME NEW k \in DOMAIN rcat, k = ino => rcat[k].file # f
       PROVE  data'[k] = data[k] /\ k \in DOMAIN data'
  BY <1>3, <1>4, <1>6, <1>13
<1>14. DataInv'
  <2>1. ASSUME NEW k \in DOMAIN rcat', rcat'[k].file \notin overtaken'
        PROVE  (WritesToTemp(k) /\ ClosedWhenWhole(k) /\ EndedWell(k))'
    <3>1. CASE k = n
      <4>1. rcat'[n].file = f /\ rcat'[n].written = 0 /\ rcat'[n].stdin = "open" /\ rcat'[n].exit = "no"
            /\ rcat'[n].inode = ino /\ local' = local
        BY <1>3, <1>4
      <4>2. local => temp'[f] = ino
        BY <1>3, <1>4
      <4>3. data'[ino] = 0
        BY <1>3, <1>4, <1>6
      <4> QED BY <3>1, <4>1, <4>2, <4>3 DEF WritesToTemp, ClosedWhenWhole, EndedWell
    <3>2. CASE k # n
      <4>1. k \in DOMAIN rcat /\ rcat'[k].file = rcat[k].file
        BY <1>3, <3>2
      <4>2. PICK g \in Files \ overtaken' : g = rcat[k].file /\ g = rcat'[k].file
        BY <1>5, <2>1, <4>1
      <4>3. WritesToTemp(k) /\ ClosedWhenWhole(k) /\ EndedWell(k)
        BY <1>11, <4>1, <4>2 DEF DataInv
      <4>4. Alive(k) => g # f
        BY <1>10, <4>1, <4>2 DEF WritersOf
      <4>5. WritesToTemp(k)'
        <5> SUFFICES ASSUME local, Alive(k)
                     PROVE  temp'[g] = rcat[k].inode /\ data'[rcat[k].inode] = rcat[k].written
          BY <1>3, <4>1, <4>2 DEF WritesToTemp, Alive
        <5>1. temp[g] = rcat[k].inode /\ data[rcat[k].inode] = rcat[k].written
          BY <4>2, <4>3 DEF WritesToTemp
        <5>2. data'[rcat[k].inode] = data[rcat[k].inode]
          BY <1>5, <1>13, <4>1, <4>2, <4>4
        <5> QED BY <1>3, <4>4, <5>1, <5>2
      <4>6. ClosedWhenWhole(k)'
        <5>1. Alive(k) => k # pipes[f]
          BY <1>3, <4>1, <4>2, <4>4, <1>5 DEF PlacesInv, PipeIsOpen, OfFile
        <5> QED BY <1>3, <4>1, <4>2, <4>3, <5>1 DEF ClosedWhenWhole, Alive, Replaced
      <4>7. EndedWell(k)'
        <5> SUFFICES ASSUME ~local, Complete(g) PROVE Complete(g)'
          BY <1>3, <1>p, <4>1, <4>2, <4>3, StillEnded DEF Complete
        <5>1. Complete(g)
          OBVIOUS
        <5>2. path[g] \in DOMAIN rcat /\ path'[g] = path[g] /\ path[g] # ino
          BY <1>3, <1>5, <1>6, <5>1 DEF Complete
        <5> QED BY <1>13, <5>1, <5>2 DEF Complete
      <4> QED BY <4>5, <4>6, <4>7
    <3> QED BY <3>1, <3>2
  <2>2. ASSUME NEW u \in Threads PROVE GotAll(u)' /\ WaitsForWhole(u)'
    <3>1. CASE req'[u].pc \in {"finishing", "waiting", "renaming"}
      <4>1. req'[u] = req[u]
        BY <1>7, <3>1
      <4>2. PICK k \in DOMAIN rcat : k = req[u].pipe /\ rcat[k].file = req[u].file
        BY <3>1, <4>1 DEF PlacesInv, HasPipe, Handling, OfFile
      <4>3. GotAll(u) /\ WaitsForWhole(u)
        BY DEF DataInv
      <4>4. GotAll(u)'
        <5>1. /\ rcat'[k].exit = rcat[k].exit /\ rcat'[k].written = rcat[k].written
              /\ rcat'[k].stdin = "open" => rcat[k].stdin = "open"
          BY <1>3 DEF Replaced
        <5> QED BY <4>1, <4>2, <4>3, <5>1 DEF GotAll
      <4>5. WaitsForWhole(u)'
        <5>1. ASSUME local, req[u].pc \in {"waiting", "renaming"}, req[u].file \notin overtaken',
                     rcat[k].exit = "well"
              PROVE  temp'[rcat[k].file] \in {0, rcat[k].inode} /\ data'[rcat[k].inode] = Size[rcat[k].file]
          <6>1. rcat[k].file # f
            <7>1. rcat[k].file = f => u \in Finishing(f)
              BY <4>2, <5>1 DEF Finishing
            <7> QED BY <1>3, <1>10, <4>2, <5>1, <7>1
          <6>2. temp[rcat[k].file] \in {0, rcat[k].inode} /\ data[rcat[k].inode] = Size[rcat[k].file]
            BY <1>11, <4>2, <4>3, <5>1 DEF WaitsForWhole
          <6>3. data'[rcat[k].inode] = data[rcat[k].inode]
            BY <1>5, <1>13, <6>1
          <6>4. rcat[k].file \in Files
            BY <1>5
          <6> QED BY <1>3, <6>1, <6>2, <6>3, <6>4
        <5>2. req[u].pc = "renaming" => local /\ rcat[k].exit = "well"
          BY <4>2, <4>3 DEF WaitsForWhole
        <5>3. /\ rcat'[k].exit = rcat[k].exit /\ rcat'[k].inode = rcat[k].inode /\ local' = local
          BY <1>3
        <5> QED BY <4>1, <4>2, <5>1, <5>2, <5>3 DEF WaitsForWhole
      <4> QED BY <4>4, <4>5
    <3> QED BY <3>1 DEF GotAll, WaitsForWhole
  <2>3. ASSUME NEW g \in Files \ overtaken' PROVE KeptWhole(g)'
    <3>1. KeptWhole(g) /\ path'[g] = path[g]
      BY <1>3, <1>11 DEF DataInv
    <3>2. CASE path[g] # 0 /\ Complete(g) /\ temp[g] # path[g]
      <4>1. Complete(g) /\ temp[g] # path[g]
        BY <3>2
      <4>2. path[g] \in DOMAIN rcat /\ rcat[path[g]].file = g
        BY <1>5, <3>2, <4>1 DEF Complete, PlacesInv, NamesAreOwn, OfFile, Removed
      <4>3. path[g] # ino
        BY <1>3, <1>6, <4>1, <4>2
      <4>4. temp'[g] # path'[g]
        BY <1>3, <1>4, <3>1, <4>1, <4>3
      <4>5. Complete(g)'
        BY <1>13, <3>1, <4>1, <4>2, <4>3 DEF Complete
      <4> QED BY <4>4, <4>5 DEF KeptWhole
    <3>3. CASE path[g] = 0
      BY <3>1, <3>3 DEF KeptWhole
    <3>4. CASE ~(Complete(g) /\ temp[g] # path[g])
      BY <1>3, <1>p, <3>1, <3>4, StillKept
    <3> QED BY <3>2, <3>3, <3>4
  <2> QED BY <2>1, <2>2, <2>3 DEF DataInv
<1> QED BY <1>8, <1>9, <1>12, <1>14, <1>p

\* The requests of others keep what they handle.
LEMMA OthersKeep ==
    ASSUME PlacesInv, NEW t \in Threads, OthersStay(t), req'[t].file = req[t].file,
           req[t].pc # "free", req'[t].pc \in Handling => OfFile(req'[t].pipe, req[t].file)
    PROVE  \A u \in Threads : /\ req'[u].pc # "free" => req'[u].file \in Files
                              /\ req'[u].pc \in Handling => OfFile(req'[u].pipe, req'[u].file)
BY DEF OthersStay, PlacesInv, HasFile, HasPipe

\* WriteChunk: only the process of the temporary name grows. Who waits for another process
\* of the file, or keeps what one left, is not concerned unless the file was overtaken.
LEMMA WriteKeeps ==
    ASSUME UploadTypeOK, PlacesInv, WritersInv, DataInv, NEW t \in Threads, WriteChunk(t)
    PROVE  ServerTypes /\ ClientTypes /\ PlacesInv' /\ WritersInv' /\ DataInv' /\ Persist
<1>1. PICK n \in Nat, i \in DOMAIN rcat, f \in Files :
              /\ i = req[t].pipe /\ f = req[t].file /\ rcat[i].file = f /\ At(t, "writing")
              /\ Writable(i) /\ rcat[i].written + n =< Size[f]
              /\ RcatsStay /\ Len(data') = Len(rcat') /\ data' \in Seq(Nat)
              /\ \A k \in DOMAIN rcat :
                    /\ rcat'[k].written = IF k = i THEN rcat[k].written + n ELSE rcat[k].written
                    /\ rcat'[k].stdin = rcat[k].stdin /\ rcat'[k].exit = rcat[k].exit
                    /\ data'[k] = IF local /\ k = rcat[i].inode THEN rcat[i].written + n ELSE data[k]
              /\ UNCHANGED <<pipes, temp, path, overtaken, local>>
              /\ \/ Answer(t, Moved(Page(t), 0))
                 \/ rcat[i].written + n = Size[f] /\ Go(t, "finishing") /\ UNCHANGED page
                 \/ Result(t, "more", FALSE) /\ UNCHANGED page
  BY WriteFields
<1>2. /\ DOMAIN rcat' = DOMAIN rcat /\ DOMAIN data = DOMAIN rcat /\ DOMAIN data' = DOMAIN rcat
      /\ \A k \in DOMAIN rcat : rcat'[k].file = rcat[k].file /\ rcat'[k].inode = rcat[k].inode
      /\ \A k \in DOMAIN rcat : rcat'[k].stdin = rcat[k].stdin /\ rcat'[k].exit = rcat[k].exit
      /\ UNCHANGED <<pipes, temp, path, overtaken, local>>
      /\ i > 0
  <2>1. DOMAIN rcat' = 1 .. Len(rcat') /\ DOMAIN data' = 1 .. Len(data') /\ DOMAIN data = DOMAIN rcat
    BY <1>1, LenProperties DEF RcatsStay, UploadTypeOK
  <2> QED BY <1>1, <2>1, InodesDiffer DEF RcatsStay
<1>3. /\ \A k \in DOMAIN rcat : k # i => rcat'[k].written = rcat[k].written
      /\ rcat'[i].written = rcat[i].written + n /\ rcat[i].written \in Nat /\ Size[f] \in Nat
  BY <1>1, InodesDiffer, UploadAssumption DEF Rcats
<1>4. /\ req' \in [Threads -> Chunks] /\ page' \in [Files -> Pages]
      /\ \A u \in Threads \ {t} : req'[u] = req[u]
      /\ \/ req'[t].pc \in {"free", "committing"} /\ req'[t].file \in Files \cup {"none"}
            /\ (req'[t].pc # "free" => req'[t].file = f)
         \/ req'[t].pc = "finishing" /\ SamePipe(t) /\ rcat[i].written + n = Size[f]
  <2>1. CASE Answer(t, Moved(Page(t), 0))
    <3>1. req[t].pc # "free"
      BY <1>1 DEF At
    <3>2. Page(t) \in Pages
      BY <1>1, <3>1, PageType
    <3>3. Moved(Page(t), 0) \in Pages
      BY <3>2, PageTypes
    <3>4. OthersStay(t) /\ req'[t] = Free /\ page' \in [Files -> Pages]
      BY <1>1, <2>1, <3>3, AnswerFields
    <3> QED BY <3>4 DEF OthersStay, Free
  <2>2. CASE rcat[i].written + n = Size[f] /\ Go(t, "finishing") /\ UNCHANGED page
    BY <2>2, GoFields DEF OthersStay, SamePipe, Places, UploadTypeOK
  <2>3. CASE Result(t, "more", FALSE) /\ UNCHANGED page
    <3>1. OthersStay(t) /\ req'[t].pc = "committing" /\ req'[t].file = req[t].file
      BY <2>3, ResultFields DEF Results
    <3>2. f = req[t].file
      BY <1>1
    <3> QED BY <2>3, <3>1, <3>2 DEF OthersStay, UploadTypeOK
  <2> QED BY <1>1, <2>1, <2>2, <2>3
<1>5. ServerTypes /\ ClientTypes
  BY <1>1, <1>4 DEF ServerTypes, ClientTypes, RcatsStay, UploadTypeOK
<1>p. Persist
  BY <1>1, <1>2 DEF Persist
<1>6. PlacesInv'
  <2>1. \A g \in Files : pipes'[g] # 0 => rcat'[pipes[g]].stdin = "open" /\ rcat'[pipes[g]].exit # "well"
    BY <1>2 DEF PlacesInv, PipeIsOpen, OfFile
  <2>2. \A k \in DOMAIN rcat : rcat'[k].written =< Size[rcat[k].file]
    BY <1>1, <1>3 DEF PlacesInv, InodeIsOwn
  <2>3. \A u \in Threads : /\ req'[u].pc # "free" => req'[u].file \in Files
                           /\ req'[u].pc \in Handling => OfFile(req'[u].pipe, req'[u].file)
    BY <1>1, <1>4 DEF PlacesInv, HasFile, HasPipe, Handling, SamePipe, At
  <2>4. \A g \in Files : pipes'[g] \in {0, pipes[g]} /\ temp'[g] \in {0, temp[g]} /\ path'[g] \in {0, Removed, path[g]}
    BY <1>2
  <2> QED BY <1>1, <1>2, <1>p, <2>1, <2>2, <2>3, <2>4, PlacesStay
<1>7. WritersInv'
  <2>1. \A u \in Threads : req'[u].pc \in {"waiting", "renaming"} =>
                                  req[u].pc \in {"waiting", "renaming"} /\ SamePipe(u)
    BY <1>4 DEF SamePipe
  <2> QED BY <1>1, <1>2, <2>1, WritersStay
<1>8. ASSUME NEW k \in DOMAIN rcat, rcat[k].inode # rcat[i].inode \/ ~local
      PROVE  data'[rcat[k].inode] = data[rcat[k].inode]
  BY <1>1, <1>8, InodesDiffer
<1>9. ASSUME NEW k \in DOMAIN rcat, rcat[k].file # f PROVE rcat[k].inode # rcat[i].inode
  <2>1. rcat[rcat[k].inode].file = rcat[k].file /\ rcat[rcat[i].inode].file = f
    BY <1>1, InodesDiffer
  <2> QED BY <1>9, <2>1
<1>10. Alive(i)
  BY <1>1 DEF Writable
<1>11. DataInv'
  <2>1. ASSUME NEW k \in DOMAIN rcat', rcat'[k].file \notin overtaken'
        PROVE  (WritesToTemp(k) /\ ClosedWhenWhole(k) /\ EndedWell(k))'
    <3>1. k \in DOMAIN rcat /\ rcat[k].file \in Files \ overtaken
      BY <1>2, <2>1, InodesDiffer DEF Rcats
    <3>2. WritesToTemp(k) /\ ClosedWhenWhole(k) /\ EndedWell(k)
      BY <3>1 DEF DataInv
    <3>3. WritesToTemp(k)'
      <4> SUFFICES ASSUME local, Alive(k)
                   PROVE  temp[rcat[k].file] = rcat[k].inode /\ data'[rcat[k].inode] = rcat'[k].written
        BY <1>2, <3>1 DEF WritesToTemp, Alive
      <4>1. temp[rcat[k].file] = rcat[k].inode /\ data[rcat[k].inode] = rcat[k].written
        BY <3>2 DEF WritesToTemp
      <4>2. CASE k = i
        <5>1. rcat[i].inode \in DOMAIN rcat
          BY InodesDiffer
        <5> QED BY <1>1, <1>3, <4>1, <4>2, <5>1
      <4>3. CASE k # i
        <5>1. rcat[k].file # f
          BY <1>1, <1>10, <3>1, <4>3, OnlyWriter
        <5> QED BY <1>3, <1>8, <1>9, <3>1, <4>1, <4>3, <5>1
      <4> QED BY <4>2, <4>3
    <3>4. ClosedWhenWhole(k)'
      <4>1. rcat[k].stdin = "closed" => k # i
        BY <1>1 DEF Writable
      <4> QED BY <1>2, <1>3, <3>1, <3>2, <4>1 DEF ClosedWhenWhole, Alive
    <3>5. EndedWell(k)'
      <4>1. ~local => \A j \in DOMAIN rcat : data'[j] = data[j]
        BY <1>1
      <4>2. ~local /\ Complete(rcat[k].file) => Complete(rcat[k].file)'
        BY <1>2, <4>1 DEF Complete
      <4> QED BY <1>2, <1>p, <3>1, <3>2, <4>2, StillEnded DEF EndedWell
    <3> QED BY <3>3, <3>4, <3>5
  <2>2. ASSUME NEW u \in Threads PROVE GotAll(u)'
    <3>1. CASE req'[u].pc = "finishing" /\ u # t
      <4>1. PICK k \in DOMAIN rcat : k = req[u].pipe /\ rcat[k].file = req[u].file /\ req'[u] = req[u]
        BY <1>4, <3>1 DEF PlacesInv, HasPipe, Handling, OfFile
      <4>2. rcat[k].exit # "no" \/ rcat[k].stdin # "open" \/ rcat[k].written = Size[req[u].file]
        BY <3>1, <4>1 DEF DataInv, GotAll
      <4>3. rcat[k].written = Size[req[u].file] => rcat'[k].written = Size[req[u].file]
        <5>1. CASE k = i
          <6>1. rcat[i].written + n =< Size[f] /\ f = req[u].file
            BY <1>1, <4>1, <5>1
          <6> QED BY <1>3, <5>1, <6>1
        <5>2. CASE k # i
          BY <1>3, <5>2
        <5> QED BY <5>1, <5>2
      <4> QED BY <1>2, <4>1, <4>2, <4>3 DEF GotAll
    <3>2. CASE req'[u].pc = "finishing" /\ u = t
      BY <1>1, <1>3, <1>4, <3>2 DEF GotAll, SamePipe
    <3> QED BY <3>1, <3>2 DEF GotAll
  <2>3. ASSUME NEW u \in Threads PROVE WaitsForWhole(u)'
    <3>1. CASE req'[u].pc \in {"waiting", "renaming"}
      <4>1. req'[u] = req[u]
        BY <1>4, <3>1
      <4>2. PICK k \in DOMAIN rcat : k = req[u].pipe /\ rcat[k].file = req[u].file
        BY <3>1, <4>1 DEF PlacesInv, HasPipe, Handling, OfFile
      <4>3. WaitsForWhole(u)
        BY DEF DataInv
      <4>4. rcat[k].file \notin overtaken /\ rcat[k].exit = "well" => rcat[k].file # f
        <5> SUFFICES ASSUME rcat[k].file = f, f \notin overtaken, rcat[k].exit = "well" PROVE FALSE
          OBVIOUS
        <5>1. u \in Finishing(f) /\ i \in WritersOf(f)
          BY <1>1, <1>10, <3>1, <4>1, <4>2 DEF Finishing, WritersOf
        <5>2. k = i
          BY <4>2, <5>1 DEF WritersInv, OneWriter
        <5> QED BY <1>10, <5>2 DEF Alive
      <4>5. rcat[k].file \notin overtaken /\ rcat[k].exit = "well" => data'[rcat[k].inode] = data[rcat[k].inode]
        BY <1>8, <1>9, <4>4
      <4>6. rcat'[k].exit = rcat[k].exit /\ rcat'[k].inode = rcat[k].inode /\ UNCHANGED <<temp, local, overtaken>>
        BY <1>2
      <4> QED BY <4>1, <4>2, <4>3, <4>5, <4>6 DEF WaitsForWhole
    <3> QED BY <3>1 DEF WaitsForWhole
  <2>4. ASSUME NEW g \in Files \ overtaken' PROVE KeptWhole(g)'
    <3>1. KeptWhole(g) /\ g \in Files \ overtaken
      BY <1>2, <2>4 DEF DataInv
    <3>2. CASE path[g] # 0 /\ Complete(g) /\ temp[g] # path[g]
      <4>1. Complete(g) /\ temp[g] # path[g]
        BY <3>2
      <4>2. path[g] \in DOMAIN rcat /\ rcat[path[g]].file = g
        <5>1. path[g] \in DOMAIN rcat /\ DOMAIN rcat = 1 .. Len(rcat) /\ Len(rcat) \in Nat
          BY <1>2, <4>1, InodesDiffer DEF Complete
        <5> QED BY <3>2, <5>1 DEF PlacesInv, NamesAreOwn, OfFile, Removed
      <4>3. local => path[g] # rcat[i].inode
        <5>1. CASE g = f
          BY <1>1, <1>10, <3>1, <4>1, <5>1 DEF DataInv, WritesToTemp
        <5>2. CASE g # f
          <6>1. rcat[rcat[i].inode].file = f
            BY <1>1, InodesDiffer
          <6> QED BY <4>2, <5>2, <6>1
        <5> QED BY <5>1, <5>2
      <4>4. data'[path[g]] = data[path[g]]
        BY <1>1, <4>2, <4>3
      <4> QED BY <1>2, <4>1, <4>4 DEF KeptWhole, Complete
    <3>3. CASE path[g] = 0
      BY <1>2, <3>3 DEF KeptWhole
    <3>4. CASE ~(Complete(g) /\ temp[g] # path[g])
      BY <1>2, <1>p, <2>4, <3>1, <3>4, StillKept
    <3> QED BY <3>2, <3>3, <3>4
  <2> QED BY <1>2, <2>1, <2>2, <2>3, <2>4 DEF DataInv
<1> QED BY <1>5, <1>6, <1>7, <1>11, <1>p

\* Finish, by the owner of the pipe: only who has it in the dictionary closes it and waits.
LEMMA FinishKeeps ==
    ASSUME UploadTypeOK, PlacesInv, WritersInv, DataInv, NEW t \in Threads, Finish(t), OwnsPipe(t)
    PROVE  ServerTypes /\ ClientTypes /\ PlacesInv' /\ WritersInv' /\ DataInv' /\ Persist
<1>1. /\ At(t, "finishing") /\ req[t].file \in Files /\ OfFile(req[t].pipe, req[t].file)
      /\ pipes[req[t].file] = req[t].pipe
      /\ RcatsStay /\ DataStays /\ UNCHANGED <<temp, path, overtaken, local>>
      /\ pipes' \in [Files -> Nat]
      /\ \A g \in Files : pipes'[g] = IF g = req[t].file THEN 0 ELSE pipes[g]
      /\ \A k \in DOMAIN rcat :
            /\ rcat'[k].written = rcat[k].written /\ rcat'[k].exit = rcat[k].exit
            /\ rcat'[k].stdin = IF k = req[t].pipe THEN "closed" ELSE rcat[k].stdin
      /\ Go(t, "waiting") /\ UNCHANGED page
  BY FinishFields
<1>2. PICK f \in Files : f = req[t].file
  BY <1>1
<1>3. PICK i \in DOMAIN rcat : i = req[t].pipe /\ rcat[i].file = f /\ i = pipes[f] /\ i > 0
  BY <1>1, <1>2, InodesDiffer DEF OfFile
<1>4. /\ DOMAIN rcat' = DOMAIN rcat /\ data' = data /\ Len(data') = Len(rcat') /\ rcat' \in Seq(Rcats)
      /\ \A k \in DOMAIN rcat : /\ rcat'[k].file = rcat[k].file /\ rcat'[k].inode = rcat[k].inode
                                /\ rcat'[k].written = rcat[k].written /\ rcat'[k].exit = rcat[k].exit
                                /\ rcat'[k].stdin = IF k = i THEN "closed" ELSE rcat[k].stdin
      /\ \A g \in Files : pipes'[g] = IF g = f THEN 0 ELSE pipes[g]
      /\ UNCHANGED <<temp, path, overtaken, local>>
  BY <1>1, <1>2, <1>3 DEF RcatsStay, DataStays
<1>5. OthersStay(t) /\ req'[t].pc = "waiting" /\ SamePipe(t)
  BY <1>1, GoFields DEF Places, SamePipe
<1>6. ServerTypes /\ ClientTypes
  BY <1>1, <1>4, <1>5 DEF ServerTypes, ClientTypes, OthersStay, UploadTypeOK
<1>7. rcat[i].stdin = "open" /\ rcat[i].exit # "well"
  BY <1>3 DEF PlacesInv, PipeIsOpen
<1>p. Persist
  BY <1>4, <1>7 DEF Persist
<1>8. PlacesInv'
  <2>1. ASSUME NEW g \in Files, pipes'[g] # 0
        PROVE  rcat'[pipes[g]].stdin = "open" /\ rcat'[pipes[g]].exit # "well"
    <3>1. g # f /\ pipes[g] \in DOMAIN rcat /\ rcat[pipes[g]].file = g
          /\ rcat[pipes[g]].stdin = "open" /\ rcat[pipes[g]].exit # "well"
      BY <1>4, <2>1 DEF PlacesInv, PipeIsOpen, OfFile
    <3>2. pipes[g] # i
      BY <1>3, <3>1
    <3> QED BY <1>4, <3>1, <3>2
  <2>2. \A k \in DOMAIN rcat : rcat'[k].written =< Size[rcat[k].file]
    BY <1>4 DEF PlacesInv, InodeIsOwn
  <2>3. \A u \in Threads : /\ req'[u].pc # "free" => req'[u].file \in Files
                           /\ req'[u].pc \in Handling => OfFile(req'[u].pipe, req'[u].file)
    BY <1>1, <1>5, OthersKeep DEF SamePipe, At
  <2>4. \A g \in Files : pipes'[g] \in {0, pipes[g]} /\ temp'[g] \in {0, temp[g]} /\ path'[g] \in {0, Removed, path[g]}
    BY <1>4
  <2> QED BY <1>1, <1>p, <2>1, <2>2, <2>3, <2>4, PlacesStay
<1>9. WritersInv'
  <2> SUFFICES ASSUME NEW g \in Files \ overtaken PROVE OneWriter(g)'
    BY <1>4 DEF WritersInv
  <2>1. OneWriter(g)
    BY DEF WritersInv
  <2>2. \A k \in WritersOf(g)' : k \in WritersOf(g)
    BY <1>4 DEF WritersOf, Alive
  <2>3. CASE g = f
    <3>1. Finishing(f) = {}
      BY <1>3, <2>1, <2>3 DEF OneWriter
    <3>2. \A u \in Finishing(f)' : u = t
      BY <1>5, <3>1 DEF Finishing, OthersStay
    <3>3. \A k \in WritersOf(f)' : k = i
      BY <1>3, <2>1, <2>2, <2>3 DEF OneWriter
    <3>4. pipes'[f] = 0 /\ req'[t].pipe = i
      BY <1>3, <1>4, <1>5 DEF SamePipe
    <3>5. \A k \in DOMAIN rcat' : rcat'[k].file = f => k =< i \/ WritersOf(f)' = {}
      BY <1>4, <2>1, <2>2, <2>3, <3>3 DEF OneWriter
    <3> QED BY <2>3, <3>2, <3>3, <3>4, <3>5 DEF OneWriter
  <2>4. CASE g # f
    <3>1. \A u \in Finishing(g)' : u \in Finishing(g) /\ req'[u] = req[u]
      BY <1>2, <1>5, <2>4 DEF Finishing, OthersStay, SamePipe
    <3>2. pipes'[g] = pipes[g]
      BY <1>4, <2>4
    <3>3. \A k \in DOMAIN rcat' : k \in DOMAIN rcat /\ rcat'[k].file = rcat[k].file
      BY <1>4
    <3> QED BY <2>1, <2>2, <3>1, <3>2, <3>3 DEF OneWriter
  <2> QED BY <2>3, <2>4
<1>10. DataInv'
  <2>1. ASSUME NEW k \in DOMAIN rcat', rcat'[k].file \notin overtaken'
        PROVE  (WritesToTemp(k) /\ ClosedWhenWhole(k) /\ EndedWell(k))'
    <3>1. k \in DOMAIN rcat /\ WritesToTemp(k) /\ ClosedWhenWhole(k) /\ EndedWell(k)
      BY <1>4, <2>1 DEF DataInv
    <3>2. WritesToTemp(k)'
      BY <1>4, <3>1 DEF WritesToTemp, Alive
    <3>3. ClosedWhenWhole(k)'
      <4>1. k = i /\ Alive(i) => rcat[i].written = Size[f]
        BY <1>1, <1>2, <1>3, <1>7 DEF DataInv, GotAll, Alive, At
      <4> QED BY <1>3, <1>4, <3>1, <4>1 DEF ClosedWhenWhole, Alive
    <3>4. EndedWell(k)'
      BY <1>4, <1>p, <3>1, StillEnded DEF Complete
    <3> QED BY <3>2, <3>3, <3>4
  <2>2. ASSUME NEW u \in Threads PROVE GotAll(u)' /\ WaitsForWhole(u)'
    <3>1. CASE u = t
      <4>1. req'[u].pc = "waiting" /\ rcat'[req'[u].pipe].exit # "well"
        BY <1>3, <1>4, <1>5, <1>7, <3>1 DEF SamePipe
      <4> QED BY <4>1 DEF GotAll, WaitsForWhole
    <3>2. CASE u # t /\ req[u].pc \in {"finishing", "waiting", "renaming"}
      <4>1. req'[u] = req[u]
        BY <1>5, <3>2 DEF OthersStay
      <4>2. PICK k \in DOMAIN rcat : k = req[u].pipe /\ rcat[k].file = req[u].file
        BY <3>2 DEF PlacesInv, HasPipe, Handling, OfFile
      <4>3. GotAll(u) /\ WaitsForWhole(u)
        BY DEF DataInv
      <4>4. GotAll(u)'
        BY <1>4, <4>1, <4>2, <4>3 DEF GotAll
      <4>5. WaitsForWhole(u)'
        BY <1>4, <4>1, <4>2, <4>3 DEF WaitsForWhole
      <4> QED BY <4>4, <4>5
    <3> QED BY <1>5, <3>1, <3>2 DEF OthersStay, GotAll, WaitsForWhole
  <2>3. ASSUME NEW g \in Files \ overtaken' PROVE KeptWhole(g)'
    <3>1. KeptWhole(g) /\ g \in Files
      BY <1>4, <2>3 DEF DataInv
    <3> QED BY <1>4, <1>p, <3>1, StillKept DEF Complete
  <2> QED BY <1>4, <2>1, <2>2, <2>3 DEF DataInv
<1> QED BY <1>6, <1>8, <1>9, <1>10, <1>p

\* RcatAwaited: the request is the one that waits for the file's last process.
LEMMA AwaitedKeeps ==
    ASSUME UploadTypeOK, PlacesInv, WritersInv, DataInv, NEW t \in Threads, RcatAwaited(t)
    PROVE  ServerTypes /\ ClientTypes /\ PlacesInv' /\ WritersInv' /\ DataInv' /\ Persist
<1>1. PICK f : f = req[t].file
  OBVIOUS
<1>2. PICK well \in BOOLEAN : well = (rcat[req[t].pipe].exit = "well")
  OBVIOUS
<1>3. /\ At(t, "waiting") /\ f \in Files /\ OfFile(req[t].pipe, f) /\ ~Alive(req[t].pipe)
      /\ temp' \in [Files -> Nat]
      /\ \A g \in Files : temp'[g] = IF local /\ ~well /\ g = f THEN 0 ELSE temp[g]
      /\ UNCHANGED <<pipes, rcat, data, path, overtaken, local, page>>
      /\ IF well /\ local THEN Go(t, "renaming")
         ELSE \E full \in BOOLEAN : Result(t, IF well THEN "done" ELSE "failed", full)
  BY <1>1, <1>2, AwaitedFields
<1>4. RcatsStay /\ DataStays
  BY <1>3 DEF RcatsStay, DataStays, UploadTypeOK
<1>5. /\ OthersStay(t) /\ req'[t].file = req[t].file
      /\ \/ req'[t].pc = "renaming" /\ SamePipe(t) /\ well /\ local
         \/ req'[t].pc = "committing" /\ (req'[t].result = "done" => well /\ ~local)
  <2>1. CASE well /\ local
    BY <1>3, <2>1, GoFields DEF Places, SamePipe
  <2>2. CASE ~(well /\ local)
    <3>1. PICK full \in BOOLEAN, what \in {"done", "failed"} :
              Result(t, what, full) /\ (what = "done" => well)
      BY <1>3, <2>2
    <3>2. OthersStay(t) /\ req'[t].pc = "committing" /\ req'[t].file = req[t].file /\ req'[t].result = what
      BY <3>1, ResultFields DEF Results
    <3> QED BY <2>2, <3>1, <3>2
  <2> QED BY <2>1, <2>2
<1>6. ServerTypes /\ ClientTypes
  BY <1>3, <1>5 DEF ServerTypes, ClientTypes, OthersStay, UploadTypeOK
<1>p. Persist
  BY <1>3 DEF Persist
<1>7. PlacesInv'
  <2>1. \A g \in Files : pipes'[g] # 0 => rcat'[pipes[g]].stdin = "open" /\ rcat'[pipes[g]].exit # "well"
    BY <1>3 DEF PlacesInv, PipeIsOpen
  <2>2. \A k \in DOMAIN rcat : rcat'[k].written =< Size[rcat[k].file]
    BY <1>3 DEF PlacesInv, InodeIsOwn
  <2>3. \A u \in Threads : /\ req'[u].pc # "free" => req'[u].file \in Files
                           /\ req'[u].pc \in Handling => OfFile(req'[u].pipe, req'[u].file)
    <3>1. req[t].pc # "free" /\ (req'[t].pc \in Handling => OfFile(req'[t].pipe, req[t].file))
      BY <1>1, <1>3, <1>5 DEF SamePipe, At, Handling
    <3> QED BY <1>5, <3>1, OthersKeep
  <2>4. \A g \in Files : pipes'[g] \in {0, pipes[g]} /\ temp'[g] \in {0, temp[g]} /\ path'[g] \in {0, Removed, path[g]}
    BY <1>3
  <2> QED BY <1>3, <1>4, <1>p, <2>1, <2>2, <2>3, <2>4, PlacesStay
<1>8. WritersInv'
  <2>1. \A u \in Threads : req'[u].pc \in {"waiting", "renaming"} =>
                                  req[u].pc \in {"waiting", "renaming"} /\ SamePipe(u)
    BY <1>3, <1>5 DEF OthersStay, SamePipe, At
  <2> QED BY <1>3, <1>4, <2>1, WritersStay
<1>9. t \in Finishing(f)
  BY <1>1, <1>3 DEF Finishing, At
<1>10. ASSUME NEW k \in DOMAIN rcat, Alive(k), rcat[k].file \notin overtaken PROVE rcat[k].file # f
  <2> SUFFICES ASSUME rcat[k].file = f PROVE FALSE
    OBVIOUS
  <2>1. k \in WritersOf(f)
    BY <1>10 DEF WritersOf
  <2>2. req[t].pipe = k
    BY <1>3, <1>9, <1>10, <2>1 DEF WritersInv, OneWriter
  <2> QED BY <1>3, <1>10, <2>2
<1>11. DataInv'
  <2>1. ASSUME NEW k \in DOMAIN rcat', rcat'[k].file \notin overtaken'
        PROVE  (WritesToTemp(k) /\ ClosedWhenWhole(k) /\ EndedWell(k))'
    <3>1. k \in DOMAIN rcat /\ WritesToTemp(k) /\ ClosedWhenWhole(k) /\ EndedWell(k)
          /\ rcat[k].file \notin overtaken
      BY <1>3, <2>1 DEF DataInv
    <3>2. Alive(k) => rcat[k].file # f /\ rcat[k].file \in Files
      BY <1>10, <3>1, InodesDiffer DEF Rcats
    <3>3. WritesToTemp(k)'
      BY <1>3, <3>1, <3>2 DEF WritesToTemp, Alive
    <3>4. ClosedWhenWhole(k)'
      BY <1>3, <3>1 DEF ClosedWhenWhole, Alive
    <3>5. EndedWell(k)'
      BY <1>3, <1>p, <3>1, StillEnded DEF Complete
    <3> QED BY <3>3, <3>4, <3>5
  <2>2. ASSUME NEW u \in Threads PROVE GotAll(u)' /\ WaitsForWhole(u)'
    <3>1. GotAll(u) /\ WaitsForWhole(u)
      BY DEF DataInv
    <3>2. CASE req'[u].pc \in {"finishing", "waiting", "renaming"}
      <4>1. /\ SamePipe(u) /\ u # t => req'[u].pc = req[u].pc
            /\ u = t => req'[u].pc = "renaming" /\ req[u].pc = "waiting" /\ well /\ local
        BY <1>3, <1>5, <3>2 DEF OthersStay, SamePipe, At
      <4>2. SamePipe(u)
        BY <1>5, <3>2 DEF OthersStay, SamePipe
      <4>3. req[u].file \in Files
        <5>1. req[u].pc # "free"
          BY <3>2, <4>1, <4>2
        <5> QED BY <5>1 DEF PlacesInv, HasFile
      <4>4. temp'[req[u].file] \in {0, temp[req[u].file]}
        BY <1>3, <4>3
      <4>5. GotAll(u)'
        BY <1>3, <3>1, <4>1, <4>2 DEF GotAll, SamePipe
      <4>6. WaitsForWhole(u)'
        BY <1>2, <1>3, <3>1, <4>1, <4>2, <4>4 DEF WaitsForWhole, SamePipe
      <4> QED BY <4>5, <4>6
    <3> QED BY <3>2 DEF GotAll, WaitsForWhole
  <2>3. ASSUME NEW g \in Files \ overtaken' PROVE KeptWhole(g)'
    <3>1. KeptWhole(g)
      BY <1>3, <2>3 DEF DataInv
    <3>2. temp'[g] \in {0, temp[g]}
      BY <1>3
    <3>3. Complete(g) => Complete(g)' /\ path[g] # 0
      BY <1>3, LenProperties DEF Complete, UploadTypeOK
    <3> QED BY <1>3, <1>p, <2>3, <3>1, <3>2, <3>3, StillKept
  <2> QED BY <1>3, <2>1, <2>2, <2>3 DEF DataInv
<1> QED BY <1>6, <1>7, <1>8, <1>11, <1>p

\* Rename: what is at the temporary name is whole, and nobody writes to it.
LEMMA RenameKeeps ==
    ASSUME UploadTypeOK, PlacesInv, WritersInv, DataInv, NEW t \in Threads, Rename(t)
    PROVE  ServerTypes /\ ClientTypes /\ PlacesInv' /\ WritersInv' /\ DataInv' /\ Persist
<1>1. PICK f : f = req[t].file
  OBVIOUS
<1>2. /\ At(t, "renaming") /\ f \in Files /\ OfFile(req[t].pipe, f)
      /\ temp' \in [Files -> Nat] /\ path' \in [Files -> Nat \cup {Removed}]
      /\ \A g \in Files : /\ temp'[g] = IF g = f THEN 0 ELSE temp[g]
                          /\ path'[g] = IF g = f /\ temp[f] # 0 THEN temp[f] ELSE path[g]
      /\ UNCHANGED <<pipes, rcat, data, overtaken, local, page>>
      /\ Result(t, IF temp[f] # 0 THEN "done" ELSE "failed", FALSE)
  BY <1>1, RenameFields DEF RenameEffect
<1>3. RcatsStay /\ DataStays
  BY <1>2 DEF RcatsStay, DataStays, UploadTypeOK
<1>4. OthersStay(t) /\ req'[t].file = req[t].file /\ req'[t].pc = "committing"
  <2>1. PICK what \in {"done", "failed"} : Result(t, what, FALSE)
    BY <1>2
  <2> QED BY <2>1, ResultFields DEF Results
<1>5. ServerTypes /\ ClientTypes
  BY <1>2, <1>4 DEF ServerTypes, ClientTypes, OthersStay, UploadTypeOK
<1>6. PICK i \in DOMAIN rcat : /\ i = req[t].pipe /\ rcat[i].file = f /\ local /\ rcat[i].exit = "well"
                               /\ f \notin overtaken => /\ temp[f] \in {0, rcat[i].inode}
                                                        /\ data[rcat[i].inode] = Size[f]
  <2>1. PICK i \in DOMAIN rcat : i = req[t].pipe /\ rcat[i].file = f
    BY <1>2 DEF OfFile
  <2>2. WaitsForWhole(t) /\ req[t].pc = "renaming"
    BY <1>2 DEF DataInv, At
  <2> QED BY <1>1, <2>1, <2>2 DEF WaitsForWhole
<1>p. Persist
  BY <1>2 DEF Persist
<1>7. PlacesInv'
  <2>1. \A g \in Files : pipes'[g] # 0 => rcat'[pipes[g]].stdin = "open" /\ rcat'[pipes[g]].exit # "well"
    BY <1>2 DEF PlacesInv, PipeIsOpen
  <2>2. \A k \in DOMAIN rcat : rcat'[k].written =< Size[rcat[k].file]
    BY <1>2 DEF PlacesInv, InodeIsOwn
  <2>3. \A u \in Threads : /\ req'[u].pc # "free" => req'[u].file \in Files
                           /\ req'[u].pc \in Handling => OfFile(req'[u].pipe, req'[u].file)
    <3>1. req[t].pc # "free" /\ req'[t].pc \notin Handling
      BY <1>2, <1>4 DEF At, Handling
    <3> QED BY <1>4, <3>1, OthersKeep
  <2>4. \A g \in Files : /\ pipes'[g] \in {0, pipes[g]} /\ temp'[g] \in {0, temp[g]}
                         /\ path'[g] \in {0, Removed, path[g]} \/ (OfFile(path'[g], g) /\ local)
    BY <1>2, <1>6 DEF PlacesInv, NamesAreOwn
  <2> QED BY <1>2, <1>3, <1>p, <2>1, <2>2, <2>3, <2>4, PlacesStay
<1>8. WritersInv'
  <2>1. \A u \in Threads : req'[u].pc \in {"waiting", "renaming"} =>
                                  req[u].pc \in {"waiting", "renaming"} /\ SamePipe(u)
    BY <1>4 DEF OthersStay, SamePipe
  <2> QED BY <1>2, <1>3, <2>1, WritersStay
<1>9. ASSUME NEW k \in DOMAIN rcat, Alive(k), rcat[k].file \notin overtaken PROVE rcat[k].file # f
  <2> SUFFICES ASSUME rcat[k].file = f PROVE FALSE
    OBVIOUS
  <2>1. k \in WritersOf(f) /\ t \in Finishing(f)
    BY <1>1, <1>2, <1>9 DEF WritersOf, Finishing, At
  <2>2. i = k
    BY <1>2, <1>6, <1>9, <2>1 DEF WritersInv, OneWriter
  <2> QED BY <1>6, <1>9, <2>2 DEF Alive
<1>10. DataInv'
  <2>1. ASSUME NEW k \in DOMAIN rcat', rcat'[k].file \notin overtaken'
        PROVE  (WritesToTemp(k) /\ ClosedWhenWhole(k) /\ EndedWell(k))'
    <3>1. k \in DOMAIN rcat /\ WritesToTemp(k) /\ rcat[k].file \notin overtaken
      BY <1>2, <2>1 DEF DataInv
    <3>2. Alive(k) => rcat[k].file # f /\ rcat[k].file \in Files
      BY <1>9, <3>1, InodesDiffer DEF Rcats
    <3>3. WritesToTemp(k)'
      BY <1>2, <3>1, <3>2 DEF WritesToTemp, Alive
    <3> QED BY <1>2, <1>6, <3>3 DEF ClosedWhenWhole, EndedWell
  <2>2. ASSUME NEW u \in Threads PROVE GotAll(u)' /\ WaitsForWhole(u)'
    <3>1. GotAll(u) /\ WaitsForWhole(u)
      BY DEF DataInv
    <3>2. CASE req'[u].pc \in {"finishing", "waiting", "renaming"}
      <4>1. req'[u] = req[u] /\ req[u].file \in Files
        BY <1>4, <3>2 DEF OthersStay, PlacesInv, HasFile
      <4>2. temp'[req[u].file] \in {0, temp[req[u].file]}
        BY <1>2, <4>1
      <4> QED BY <1>2, <3>1, <4>1, <4>2 DEF GotAll, WaitsForWhole
    <3> QED BY <3>2 DEF GotAll, WaitsForWhole
  <2>3. ASSUME NEW g \in Files \ overtaken' PROVE KeptWhole(g)'
    <3>1. KeptWhole(g) /\ g \in Files \ overtaken
      BY <1>2, <2>3 DEF DataInv
    <3>2. CASE g = f /\ temp[f] # 0
      <4>1. path'[g] = rcat[i].inode /\ temp'[g] = 0 /\ data'[rcat[i].inode] = Size[g]
        BY <1>2, <1>6, <3>1, <3>2
      <4>2. rcat[i].inode \in DOMAIN data' /\ rcat[i].inode # 0
        BY <1>2, InodesDiffer
      <4> QED BY <4>1, <4>2 DEF KeptWhole, Complete
    <3>3. CASE ~(g = f /\ temp[f] # 0)
      <4>1. path'[g] = path[g] /\ temp'[g] \in {0, temp[g]}
        BY <1>2, <3>3
      <4>2. Complete(g) => Complete(g)' /\ path[g] # 0
        BY <1>2, <4>1, LenProperties DEF Complete, UploadTypeOK
      <4> QED BY <1>2, <1>p, <3>1, <4>1, <4>2, StillKept
    <3> QED BY <3>2, <3>3
  <2> QED BY <1>2, <2>1, <2>2, <2>3 DEF DataInv
<1> QED BY <1>5, <1>7, <1>8, <1>10, <1>p

\* Restart: nobody waits, and who still writes gets end of file.
LEMMA RestartKeeps ==
    ASSUME UploadTypeOK, PlacesInv, WritersInv, DataInv,
           NEW alone \in BOOLEAN, NEW first, Restart(alone, first)
    PROVE  ServerTypes /\ ClientTypes /\ PlacesInv' /\ WritersInv' /\ DataInv' /\ Persist
<1>1. /\ RcatsStay /\ DataStays /\ UNCHANGED <<temp, path, overtaken, local>>
      /\ pipes' \in [Files -> Nat] /\ \A f \in Files : pipes'[f] = 0
      /\ \A k \in DOMAIN rcat :
            /\ rcat'[k].written = rcat[k].written
            /\ rcat'[k].exit = rcat[k].exit \/ (Alive(k) /\ rcat'[k].exit = "badly")
            /\ \/ rcat'[k].stdin = rcat[k].stdin
               \/ /\ Alive(k) /\ rcat[k].stdin \notin {"closed", "cut"}
                  /\ rcat'[k].stdin = IF local \/ rcat[k].written = Size[rcat[k].file]
                                      THEN "closed" ELSE "cut"
      /\ req' = [t \in Threads |-> Free]
  BY RestartFields
<1>2. /\ DOMAIN rcat' = DOMAIN rcat /\ data' = data /\ Len(data') = Len(rcat') /\ rcat' \in Seq(Rcats)
      /\ \A k \in DOMAIN rcat : rcat'[k].file = rcat[k].file /\ rcat'[k].inode = rcat[k].inode
  BY <1>1 DEF RcatsStay, DataStays
<1>3. ServerTypes /\ ClientTypes
  <2>1. \A f \in Files : page[f] \in Pages /\ Again(page[f]) \in Pages
    BY PageTypes DEF UploadTypeOK
  <2>2. page' \in [Files -> Pages]
    BY <2>1 DEF Restart
  <2> QED BY <1>1, <1>2, <2>2, FreeType DEF ServerTypes, ClientTypes, UploadTypeOK
<1>4. \A t \in Threads : req'[t].pc = "free"
  BY <1>1 DEF Free
<1>p. Persist
  BY <1>1, <1>2 DEF Persist, Alive
<1>5. PlacesInv'
  <2>1. \A k \in DOMAIN rcat : rcat'[k].written =< Size[rcat[k].file]
    BY <1>1 DEF PlacesInv, InodeIsOwn
  <2>2. \A u \in Threads : /\ req'[u].pc # "free" => req'[u].file \in Files
                           /\ req'[u].pc \in Handling => OfFile(req'[u].pipe, req'[u].file)
    BY <1>4 DEF Handling
  <2>3. \A g \in Files : /\ pipes'[g] \in {0, pipes[g]} /\ temp'[g] \in {0, temp[g]}
                         /\ path'[g] \in {0, Removed, path[g]} /\ pipes'[g] = 0
    BY <1>1
  <2> QED BY <1>1, <1>p, <2>1, <2>2, <2>3, PlacesStay
<1>6. WritersInv'
  <2>1. \A k \in DOMAIN rcat : rcat'[k].exit = "no" => rcat[k].exit = "no"
    BY <1>1
  <2>2. \A g \in Files : pipes'[g] \in {0, pipes[g]}
    BY <1>1
  <2> QED BY <1>1, <1>4, <2>1, <2>2, WritersStay
<1>7. DataInv'
  <2>1. ASSUME NEW k \in DOMAIN rcat', rcat'[k].file \notin overtaken'
        PROVE  (WritesToTemp(k) /\ ClosedWhenWhole(k) /\ EndedWell(k))'
    <3>1. k \in DOMAIN rcat /\ WritesToTemp(k) /\ ClosedWhenWhole(k) /\ EndedWell(k)
      BY <1>1, <1>2, <2>1 DEF DataInv
    <3>2. WritesToTemp(k)'
      BY <1>1, <1>2, <3>1 DEF WritesToTemp, Alive
    <3>3. ClosedWhenWhole(k)'
      BY <1>1, <1>2, <3>1 DEF ClosedWhenWhole, Alive
    <3>4. EndedWell(k)'
      BY <1>1, <1>2, <1>p, <3>1, StillEnded DEF Complete
    <3> QED BY <3>2, <3>3, <3>4
  <2>2. \A t \in Threads : GotAll(t)' /\ WaitsForWhole(t)'
    BY <1>4 DEF GotAll, WaitsForWhole
  <2>3. \A g \in Files \ overtaken' : KeptWhole(g)'
    BY <1>1, <1>2, <1>p, StillKept DEF DataInv, Complete
  <2> QED BY <1>1, <2>1, <2>2, <2>3 DEF DataInv
<1> QED BY <1>3, <1>5, <1>6, <1>7, <1>p

-----------------------------------------------------------------------------
(* Every step.                                                               *)

\* A path that has got a new file, or lost what was there, is not as it was again.
NeverBack == overtaken \subseteq overtaken' /\ \A f \in Files : path[f] # 0 => path'[f] # 0

\* What holds of the processes and their files is kept by every step; requests go on as
\* GoesOn says, but for the two whose results tell what became of a file.
LEMMA ServerKeeps ==
    ASSUME UploadTypeOK, PlacesInv, WritersInv, DataInv, UploadNext \/ UNCHANGED uploadVars
    PROVE  /\ ServerTypes /\ ClientTypes /\ PlacesInv' /\ WritersInv' /\ DataInv' /\ NeverBack
           /\ Persist /\ local' = local
           /\ \/ \A u \in Threads : GoesOn(u)
              \/ \E t \in Threads : RcatAwaited(t) \/ Rename(t)
<1> DEFINE Kept == /\ ServerTypes /\ ClientTypes /\ PlacesInv' /\ WritersInv' /\ DataInv' /\ NeverBack
                   /\ Persist /\ local' = local
<1> DEFINE AllGoOn == \A u \in Threads : GoesOn(u)
<1>1. ASSUME QuietStep PROVE Kept /\ AllGoOn
  <2>1. Quiet /\ ClientTypes
    BY <1>1, QuietSteps
  <2>2. PICK fs \in SUBSET Files : Dropped(fs)
    BY <2>1 DEF Quiet
  <2>3. ServerTypes /\ NeverBack
    BY <2>2 DEF Dropped, RcatsStay, DataStays, ServerTypes, NeverBack, UploadTypeOK
  <2>4. AllGoOn
    BY <2>1 DEF Quiet, HandlesOn
  <2> QED BY <2>1, <2>3, <2>4, QuietPlaces, QuietWriters, QuietData, QuietPersists DEF Quiet
<1>2. ASSUME UNCHANGED <<req, page>> PROVE ClientTypes /\ AllGoOn
  BY <1>2 DEF ClientTypes, GoesOn, UploadTypeOK
<1>3. ASSUME NEW i \in DOMAIN rcat, RcatEnds(i) PROVE Kept /\ AllGoOn
  <2>1. overtaken' = overtaken /\ \A g \in Files : path'[g] \in {path[g], i, Removed}
    BY <1>3, RcatEndsFields DEF Ended
  <2>2. NeverBack
    <3>1. i # 0 /\ Removed # 0
      BY InodesDiffer DEF Removed
    <3> QED BY <2>1, <3>1 DEF NeverBack
  <2>3. UNCHANGED <<req, page>>
    BY <1>3 DEF RcatEnds
  <2> QED BY <1>2, <1>3, <2>2, <2>3, EndsKeeps DEF RcatEnds, start
<1>4. ASSUME NEW i \in DOMAIN rcat, RcatFails(i) PROVE Kept /\ AllGoOn
  <2>1. NeverBack /\ UNCHANGED <<req, page>>
    BY <1>4 DEF RcatFails, NeverBack
  <2> QED BY <1>2, <1>4, <2>1, FailsKeeps DEF RcatFails, start
<1>5. ASSUME NEW t \in Threads, Spawn(t) PROVE Kept /\ AllGoOn
  <2>1. /\ OthersStay(t) /\ req'[t].pc = "finding" /\ req'[t].file = req[t].file
    BY <1>5, GoFields DEF Spawn, Places
  <2>2. AllGoOn
    BY <1>5, <2>1 DEF GoesOn, OthersStay, Spawn, At
  <2>3. NeverBack
    BY <1>5 DEF Spawn, NeverBack
  <2> QED BY <1>5, <2>2, <2>3, SpawnKeeps DEF Spawn, Quietly, start
<1>6. ASSUME NEW t \in Threads, WriteChunk(t) PROVE Kept /\ AllGoOn
  <2>1. At(t, "writing") /\ UNCHANGED <<overtaken, path>>
    BY <1>6 DEF WriteChunk
  <2>2. /\ OthersStay(t)
        /\ req'[t].pc = "free" \/ (/\ req'[t].pc \in {"finishing", "committing"} /\ req'[t].file = req[t].file
                                   /\ req'[t].pc = "committing" => req'[t].result = "more")
    <3>1. CASE Answer(t, Moved(Page(t), 0))
      <4>1. Moved(Page(t), 0) \in Pages
        BY <2>1, PageType, PageTypes DEF At
      <4> QED BY <3>1, <4>1, AnswerFields DEF Free
    <3>2. CASE Go(t, "finishing")
      BY <3>2, GoFields DEF Places
    <3>3. CASE Result(t, "more", FALSE)
      BY <3>3, ResultFields DEF Results
    <3> QED BY <1>6, <3>1, <3>2, <3>3 DEF WriteChunk
  <2>3. AllGoOn
    BY <2>1, <2>2 DEF GoesOn, OthersStay, At
  <2>4. NeverBack
    BY <2>1 DEF NeverBack
  <2> QED BY <1>6, <2>3, <2>4, WriteKeeps DEF WriteChunk, Quietly, start
<1>7. ASSUME NEW t \in Threads, Finish(t), OwnsPipe(t) PROVE Kept /\ AllGoOn
  <2>1. /\ OthersStay(t) /\ req'[t].pc = "waiting" /\ req'[t].file = req[t].file
    BY <1>7, GoFields DEF Finish, Places
  <2>2. AllGoOn
    BY <1>7, <2>1 DEF GoesOn, OthersStay, Finish, At
  <2>3. NeverBack
    BY <1>7 DEF Finish, NeverBack
  <2> QED BY <1>7, <2>2, <2>3, FinishKeeps DEF Finish, Quietly, start
<1>8. ASSUME NEW t \in Threads, RcatAwaited(t) PROVE Kept
  <2>1. NeverBack
    BY <1>8 DEF RcatAwaited, NeverBack
  <2> QED BY <1>8, <2>1, AwaitedKeeps DEF RcatAwaited, Quietly, start
<1>9. ASSUME NEW t \in Threads, Rename(t) PROVE Kept
  <2>1. overtaken' = overtaken /\ \A g \in Files : path'[g] = path[g] \/ path'[g] # 0
    BY <1>9, RenameFields DEF RenameEffect
  <2>2. NeverBack
    BY <2>1 DEF NeverBack
  <2> QED BY <1>9, <2>2, RenameKeeps DEF Rename, Quietly, start
<1>10. ASSUME NEW alone \in BOOLEAN, NEW first, Restart(alone, first) PROVE Kept /\ AllGoOn
  <2>1. NeverBack
    BY <1>10 DEF Restart, NeverBack
  <2>2. AllGoOn
    BY <1>10 DEF Restart, GoesOn, Free
  <2> QED BY <1>10, <2>1, <2>2, RestartKeeps DEF Restart, start
<1> HIDE DEF Kept, AllGoOn
<1>11. Kept /\ (AllGoOn \/ \E t \in Threads : RcatAwaited(t) \/ Rename(t))
  BY <1>1, <1>3, <1>4, <1>5, <1>6, <1>7, <1>8, <1>9, <1>10
     DEF UploadNext, Request, Process, QuietStep
<1> QED BY <1>11 DEF Kept, AllGoOn

\* The other variables keep their types: a result that is committed is one of a file, one
\* that finishes the job is one of a job.
LEMMA RestTypes ==
    ASSUME UploadTypeOK, VerdictInv, UploadNext \/ UNCHANGED uploadVars
    PROVE  /\ job' \in {"none", "PROGRESS", "SUCCESS", "FAILED", "STOPPED"} /\ local' \in BOOLEAN
           /\ state' \in [Files -> {"pending", "skipped", "done", "failed"}] /\ quiet' \in BOOLEAN
           /\ stopping' \in {"no", "committing", "aborting", "done"}
           /\ expiring' \in {"no", "aborting", "committing"}
           /\ lost' \in Nat /\ restarts' \in Nat
<1> DEFINE Rest == /\ job' \in {"none", "PROGRESS", "SUCCESS", "FAILED", "STOPPED"} /\ local' \in BOOLEAN
                   /\ state' \in [Files -> {"pending", "skipped", "done", "failed"}] /\ quiet' \in BOOLEAN
                   /\ stopping' \in {"no", "committing", "aborting", "done"}
                   /\ expiring' \in {"no", "aborting", "committing"}
                   /\ lost' \in Nat /\ restarts' \in Nat
<1>0. /\ job \in {"none", "PROGRESS", "SUCCESS", "FAILED", "STOPPED"} /\ local \in BOOLEAN
      /\ state \in [Files -> {"pending", "skipped", "done", "failed"}] /\ quiet \in BOOLEAN
      /\ stopping \in {"no", "committing", "aborting", "done"}
      /\ expiring \in {"no", "aborting", "committing"} /\ lost \in Nat /\ restarts \in Nat
  BY DEF UploadTypeOK
<1>1. ASSUME UNCHANGED <<job, local, state, quiet, stopping, expiring, lost, restarts>> PROVE Rest
  BY <1>0, <1>1
<1>2. ASSUME NEW skipped \in SUBSET Files, NEW limits \in Limits, CreateUpload(skipped, limits) PROVE Rest
  BY <1>0, <1>2 DEF CreateUpload, owner
<1>3. ASSUME NEW t \in Threads, CommitChunk(t) PROVE Rest
  <2>1. req[t].result \in {"more", "done", "failed"}
    BY <1>3 DEF CommitChunk, At, VerdictInv, CommitsTruth
  <2> QED BY <1>0, <1>3, <2>1 DEF CommitChunk, start, owner
<1>4. ASSUME NEW t \in Threads, FinishJob(t) PROVE Rest
  <2>1. req[t].result \in {"SUCCESS", "FAILED"}
    BY <1>4 DEF FinishJob, At, VerdictInv, CommitsTruth
  <2> QED BY <1>0, <1>4, <2>1 DEF FinishJob, start, owner
<1>5. ASSUME AskStop \/ StopCommit \/ StopAbort \/ TimePasses \/ ExpireRead \/ ExpireAbort \/ ExpireCommit
      PROVE  Rest
  <2>1. ASSUME AskStop \/ StopCommit \/ StopAbort PROVE Rest
    BY <1>0, <2>1 DEF AskStop, StopCommit, StopAbort, NoRequest, start
  <2>2. ASSUME TimePasses \/ ExpireRead PROVE Rest
    BY <1>0, <2>2 DEF TimePasses, ExpireRead, NoRequest, start
  <2>3. ASSUME ExpireAbort \/ ExpireCommit PROVE Rest
    BY <1>0, <2>3 DEF ExpireAbort, ExpireCommit, NoRequest, start
  <2> QED BY <1>5, <2>1, <2>2, <2>3
<1>11. ASSUME NEW alone \in BOOLEAN, NEW first, Restart(alone, first) PROVE Rest
  <2>1. restarts' \in Nat
    BY <1>0, <1>11 DEF Restart
  <2> QED BY <1>0, <1>11, <2>1 DEF Restart, start
<1>12. ASSUME NEW t \in Threads, LoseAnswer(t) PROVE Rest
  <2>1. lost' \in Nat
    BY <1>0, <1>12 DEF LoseAnswer
  <2> QED BY <1>0, <1>12, <2>1 DEF LoseAnswer, start
<1>6. ASSUME \E f \in Files : SendChunk(f) \/ Reap(f) PROVE Rest
  BY <1>1, <1>6 DEF SendChunk, Reap, start, owner
<1>7. ASSUME CloseTab \/ (\E i \in DOMAIN rcat : RcatEnds(i) \/ RcatFails(i)) \/ UNCHANGED uploadVars PROVE Rest
  BY <1>1, <1>7 DEF CloseTab, RcatEnds, RcatFails, uploadVars, start, owner
<1>8. ASSUME NEW t \in Threads, Quietly PROVE Rest
  BY <1>1, <1>8 DEF Quietly, start, owner
<1>9. ASSUME NEW t \in Threads, Request(t), ~CommitChunk(t), ~FinishJob(t) PROVE Quietly
  BY <1>9 DEF Request, LookAtRows, AbortOld, Spawn, Busy, FindPipe, WriteChunk, WrongOffset, PipeBroken,
              Finish, RcatAwaited, Rename, AbortTheOthers, CountPending
<1> HIDE DEF Rest
<1>10. Rest
  BY <1>2, <1>3, <1>4, <1>5, <1>6, <1>7, <1>8, <1>9, <1>11, <1>12 DEF UploadNext, Stopping, Expiring, Process
<1> QED BY <1>10 DEF Rest

\* What was brought stays so.
LEMMA BroughtStays ==
    ASSUME UploadTypeOK, PlacesInv, NeverBack, Persist, local' = local, DataInv', ServerTypes,
           NEW f \in Files, Brought(f), state[f] = "skipped" => state'[f] = "skipped"
    PROVE  Brought(f)'
<1>1. DOMAIN data = 1 .. Len(data)
  BY LenProperties DEF UploadTypeOK
<1>2. Complete(f) => path[f] \notin {0, Removed} /\ path'[f] # 0
  BY <1>1 DEF Complete, NeverBack, UploadTypeOK, Removed
<1>3. f \notin overtaken' /\ Complete(f) /\ local => Complete(f)'
  BY <1>2 DEF DataInv, KeptWhole
<1>4. ASSUME f \notin overtaken', Complete(f), ~local PROVE Complete(f)' \/ Undone(f)'
  <2>1. PICK k \in DOMAIN rcat : k = path[f] /\ rcat[k].file = f /\ rcat[k].exit = "well"
    BY <1>2, <1>4 DEF PlacesInv, NamesAreOwn, OfFile
  <2>2. k \in DOMAIN rcat' /\ rcat'[k].file = f /\ rcat'[k].exit = "well"
    BY <2>1 DEF Persist
  <2>3. EndedWell(k)'
    BY <1>4, <2>2 DEF DataInv
  <2> QED BY <1>4, <2>2, <2>3 DEF EndedWell, Undone
<1>5. Undone(f) => Undone(f)'
  BY CutsStay
<1> QED BY <1>3, <1>4, <1>5 DEF Brought, NeverBack

\* Only when the job is created are files skipped.
LEMMA SkippedStays ==
    ASSUME UploadTypeOK, PlacesInv, VerdictInv, UploadNext \/ UNCHANGED uploadVars,
           \A skipped \in SUBSET Files, limits \in Limits : ~CreateUpload(skipped, limits)
    PROVE  /\ \A f \in Files : state'[f] = "skipped" <=> state[f] = "skipped"
           /\ \A f \in Files : \/ state'[f] = state[f]
                               \/ \E t \in Threads : /\ At(t, "committing") /\ f = req[t].file
                                                     /\ state'[f] = req[t].result
<1>1. ASSUME NEW t \in Threads, CommitChunk(t)
      PROVE  /\ req[t].file \in Files /\ req[t].pc = "committing" /\ state[req[t].file] # "skipped"
             /\ req[t].result \in {"more", "done", "failed"}
             /\ state' = IF req[t].result = "more" THEN state ELSE [state EXCEPT ![req[t].file] = req[t].result]
  BY <1>1 DEF CommitChunk, At, VerdictInv, CommitsTruth, PlacesInv, HasFile
<1>2. ASSUME NEW t \in Threads, CommitChunk(t)
      PROVE  /\ \A f \in Files : state'[f] = "skipped" <=> state[f] = "skipped"
             /\ \A f \in Files : state'[f] = state[f] \/ (f = req[t].file /\ state'[f] = req[t].result)
  <2>1. state \in [Files -> {"pending", "skipped", "done", "failed"}]
    BY DEF UploadTypeOK
  <2> QED BY <1>1, <1>2, <2>1
<1>3. ASSUME \A t \in Threads : ~CommitChunk(t) PROVE state' = state
  <2>1. ASSUME NEW t \in Threads, Request(t) PROVE state' = state
    BY <1>3, <2>1 DEF Request, LookAtRows, AbortOld, Spawn, Busy, FindPipe, WriteChunk, WrongOffset, PipeBroken,
              Finish, RcatAwaited, Rename, AbortTheOthers, CountPending, FinishJob, Quietly
  <2>2. ASSUME \/ AskStop \/ StopCommit \/ StopAbort \/ TimePasses \/ ExpireRead \/ ExpireAbort \/ ExpireCommit
               \/ (\E alone \in BOOLEAN, first \in SUBSET DOMAIN rcat : Restart(alone, first))
               \/ CloseTab \/ \E t \in Threads : LoseAnswer(t)
               \/ \E f \in Files : SendChunk(f) \/ Reap(f)
               \/ \E i \in DOMAIN rcat : RcatEnds(i) \/ RcatFails(i)
               \/ UNCHANGED uploadVars
        PROVE  state' = state
    BY <2>2 DEF AskStop, StopCommit, StopAbort, TimePasses, ExpireRead, ExpireAbort, ExpireCommit,
                Restart, CloseTab, LoseAnswer, SendChunk, Reap, RcatEnds, RcatFails, NoRequest, uploadVars
  <2> QED BY <2>1, <2>2 DEF UploadNext, Stopping, Expiring, Process
<1> QED BY <1>1, <1>2, <1>3 DEF At

\* The job is finished by what a request has found, and is not unmade.
LEMMA JobSteps ==
    ASSUME UploadTypeOK, VerdictInv, UploadNext \/ UNCHANGED uploadVars,
           \A skipped \in SUBSET Files, limits \in Limits : ~CreateUpload(skipped, limits)
    PROVE  /\ job' = "SUCCESS" => \/ job = "SUCCESS"
                                  \/ \E t \in Threads : At(t, "verdict") /\ req[t].result = "SUCCESS"
           /\ job' = "none" => job = "none"
<1> DEFINE Goal == /\ job' = "SUCCESS" => \/ job = "SUCCESS"
                                          \/ \E t \in Threads : At(t, "verdict") /\ req[t].result = "SUCCESS"
                   /\ job' = "none" => job = "none"
<1>1. ASSUME NEW t \in Threads, FinishJob(t) PROVE Goal
  BY <1>1 DEF FinishJob, At, VerdictInv, CommitsTruth
<1>2. ASSUME NEW t \in Threads, CommitChunk(t) PROVE Goal
  BY <1>2 DEF CommitChunk
<1>3. ASSUME NEW t \in Threads, Request(t), ~FinishJob(t), ~CommitChunk(t) PROVE Goal
  BY <1>3 DEF Request, LookAtRows, AbortOld, Spawn, Busy, FindPipe, WriteChunk, WrongOffset, PipeBroken,
              Finish, RcatAwaited, Rename, AbortTheOthers, CountPending, Quietly
<1>4. ASSUME \/ AskStop \/ StopCommit \/ StopAbort \/ TimePasses \/ ExpireRead \/ ExpireAbort \/ ExpireCommit
             \/ (\E alone \in BOOLEAN, first \in SUBSET DOMAIN rcat : Restart(alone, first))
             \/ CloseTab \/ \E t \in Threads : LoseAnswer(t)
             \/ \E f \in Files : SendChunk(f) \/ Reap(f)
             \/ \E i \in DOMAIN rcat : RcatEnds(i) \/ RcatFails(i)
             \/ UNCHANGED uploadVars
      PROVE  Goal
  BY <1>4 DEF AskStop, StopCommit, StopAbort, TimePasses, ExpireRead, ExpireAbort, ExpireCommit,
              Restart, CloseTab, LoseAnswer, SendChunk, Reap, RcatEnds, RcatFails, uploadVars
<1> HIDE DEF Goal
<1>5. Goal
  BY <1>1, <1>2, <1>3, <1>4 DEF UploadNext, Stopping, Expiring, Process
<1> QED BY <1>5 DEF Goal

\* Neither Stop nor expire has a job before it is created.
NothingAsked == job = "none" => stopping = "no" /\ expiring = "no"

\* Nothing but its creation changes the limits of a job; it is not created by anything else.
LEMMA RoomStays ==
    ASSUME UploadTypeOK, VerdictInv, NothingAsked, UploadNext \/ UNCHANGED uploadVars,
           \A skipped \in SUBSET Files, limits \in Limits : ~CreateUpload(skipped, limits)
    PROVE  room' = room /\ (job' # "none" => job # "none") /\ NothingAsked'
<1> DEFINE Goal == room' = room /\ (job' # "none" => job # "none") /\ NothingAsked'
<1>1. ASSUME NEW t \in Threads, Request(t) PROVE Goal
  <2>1. room' = room /\ UNCHANGED <<stopping, expiring>>
    BY <1>1 DEF owner, Request, LookAtRows, AbortOld, Spawn, Busy, FindPipe, WriteChunk, WrongOffset, PipeBroken,
              Finish, RcatAwaited, Rename, CommitChunk, AbortTheOthers, CountPending, FinishJob, Quietly, start
  <2>2. req[t].pc # "free"
    BY <1>1 DEF Request, LookAtRows, AbortOld, Spawn, Busy, FindPipe, WriteChunk, WrongOffset, PipeBroken,
              Finish, RcatAwaited, Rename, CommitChunk, AbortTheOthers, CountPending, FinishJob, At
  <2>3. job # "none"
    BY <2>2 DEF VerdictInv
  <2>4. job' # "none"
    <3>1. ASSUME CommitChunk(t) PROVE job' # "none"
      BY <2>3, <3>1 DEF CommitChunk
    <3>2. ASSUME FinishJob(t) PROVE job' # "none"
      BY <3>2 DEF FinishJob, At, VerdictInv, CommitsTruth
    <3>3. ASSUME ~CommitChunk(t), ~FinishJob(t) PROVE job' = job
      BY <1>1, <3>3 DEF Request, LookAtRows, AbortOld, Spawn, Busy, FindPipe, WriteChunk, WrongOffset,
              PipeBroken, Finish, RcatAwaited, Rename, AbortTheOthers, CountPending, Quietly
    <3> QED BY <2>3, <3>1, <3>2, <3>3
  <2> QED BY <2>1, <2>3, <2>4 DEF NothingAsked
<1>2. ASSUME \/ CloseTab \/ UNCHANGED uploadVars
             \/ \E t \in Threads : LoseAnswer(t)
             \/ \E f \in Files : SendChunk(f) \/ Reap(f)
             \/ \E i \in DOMAIN rcat : RcatEnds(i) \/ RcatFails(i)
      PROVE  UNCHANGED <<job, room, stopping, expiring>>
  BY <1>2 DEF CloseTab, LoseAnswer, SendChunk, Reap, RcatEnds, RcatFails, uploadVars, start, owner
<1>3. ASSUME AskStop \/ StopCommit \/ StopAbort \/ TimePasses PROVE Goal
  BY <1>3 DEF AskStop, StopCommit, StopAbort, TimePasses, NoRequest, start, NothingAsked
<1>4. ASSUME \/ ExpireRead \/ ExpireAbort \/ ExpireCommit
             \/ \E alone \in BOOLEAN, first \in SUBSET DOMAIN rcat : Restart(alone, first)
      PROVE  Goal
  BY <1>4 DEF ExpireRead, ExpireAbort, ExpireCommit, Restart, Silent, NoRequest, start, NothingAsked
<1>5. UNCHANGED <<job, room, stopping, expiring>> => Goal
  BY DEF NothingAsked
<1> HIDE DEF Goal
<1>6. Goal
  BY <1>1, <1>2, <1>3, <1>4, <1>5 DEF UploadNext, Stopping, Expiring, Process
<1> QED BY <1>6 DEF Goal

\* The request of a step that goes on with a file says of it what is so.
LEMMA TruthGoesOn ==
    ASSUME UploadTypeOK, PlacesInv, VerdictInv, NEW t \in Threads, GoesOn(t),
           \A f \in Files : state'[f] = "skipped" => state[f] = "skipped",
           \A f \in Files : Brought(f) => Brought(f)'
    PROVE  CommitsTruth(t)'
<1>1. CommitsTruth(t) /\ HasFile(t)
  BY DEF VerdictInv, PlacesInv
<1>2. CASE req'[t].pc = "free" \/ (req'[t].pc = "arrived" /\ job # "none")
  BY <1>2 DEF CommitsTruth
<1>3. CASE req'[t].pc = req[t].pc /\ req'[t].file = req[t].file /\ req'[t].result = req[t].result
  <2>1. CASE req[t].pc = "free"
    BY <1>3, <2>1 DEF CommitsTruth
  <2>2. CASE req[t].pc # "free"
    <3>1. PICK f \in Files : f = req[t].file /\ f = req'[t].file
      BY <1>1, <1>3, <2>2 DEF HasFile
    <3>2. req[t].pc = "committing" /\ req[t].result = "done" => Brought(f)'
      BY <1>1, <3>1 DEF CommitsTruth
    <3>3. req[t].pc = "verdict" /\ req[t].result = "SUCCESS" => \A g \in Files : Brought(g)'
      BY <1>1 DEF CommitsTruth
    <3>4. Brought(f)' => Brought(req[t].file)'
      BY <3>1, <1>3 DEF Brought, Complete, Undone
    <3>5. req'[t].pc \notin {"free", "arrived"} => state'[req'[t].file] # "skipped"
      BY <1>1, <1>3, <3>1 DEF CommitsTruth
    <3>6. req'[t].pc = "committing" /\ req'[t].result = "done" => Brought(req[t].file)'
      BY <1>3, <3>2, <3>4
    <3> QED BY <1>1, <1>3, <3>3, <3>5, <3>6 DEF CommitsTruth
  <2> QED BY <2>1, <2>2
<1>4. CASE /\ req[t].pc # "free" /\ req'[t].file = req[t].file
           /\ req'[t].pc \notin {"arrived", "verdict"} /\ (req'[t].pc = "committing" => req'[t].result = "more")
           /\ req[t].pc = "arrived" => state[req[t].file] # "skipped"
  BY <1>1, <1>4 DEF CommitsTruth, HasFile
<1>5. CASE /\ req'[t].pc = "verdict" /\ req[t].pc = "counting" /\ req'[t].file = req[t].file
           /\ NoneIsPending(t) /\ req'[t].result = Verdict(t)
  <2>1. ASSUME Verdict(t) = "SUCCESS", NEW f \in Files PROVE Brought(f)
    <3>1. state[f] \in {"skipped", "done"}
      BY <1>5, <2>1 DEF NoneIsPending, Verdict, UploadTypeOK
    <3> QED BY <3>1 DEF VerdictInv, Brought
  <2>2. Verdict(t) \in {"SUCCESS", "FAILED"}
    BY DEF Verdict
  <2>3. state'[req'[t].file] # "skipped"
    BY <1>1, <1>5 DEF CommitsTruth, HasFile
  <2>4. req'[t].result = "SUCCESS" => \A f \in Files : Brought(f)'
    BY <1>5, <2>1
  <2> QED BY <1>5, <2>2, <2>3, <2>4 DEF CommitsTruth
<1> QED BY <1>2, <1>3, <1>4, <1>5 DEF GoesOn

\* What a step says of a file, and of the job, is so.
LEMMA VerdictKept ==
    ASSUME UploadInv, UploadNext \/ UNCHANGED uploadVars, DataInv', ServerTypes, NeverBack,
           Persist, local' = local,
           (\A u \in Threads : GoesOn(u)) \/ \E t \in Threads : RcatAwaited(t) \/ Rename(t)
    PROVE  VerdictInv'
<1>0. UploadTypeOK /\ PlacesInv /\ WritersInv /\ DataInv /\ VerdictInv
  BY DEF UploadInv
<1>1. ASSUME NEW skipped \in SUBSET Files, NEW limits \in Limits, CreateUpload(skipped, limits)
      PROVE  VerdictInv'
  <2>1. /\ job = "none" /\ req' = req
        /\ state' = [f \in Files |-> IF f \in skipped THEN "skipped" ELSE "pending"]
        /\ job' = IF skipped = Files THEN "SUCCESS" ELSE "PROGRESS"
    BY <1>1 DEF CreateUpload
  <2>2. \A t \in Threads : req'[t].pc = "free"
    BY <1>0, <2>1 DEF VerdictInv
  <2>3. \A t \in Threads : CommitsTruth(t)'
    BY <2>2 DEF CommitsTruth
  <2>4. job' = "SUCCESS" => \A f \in Files : Brought(f)'
    BY <2>1 DEF Brought
  <2> QED BY <2>1, <2>2, <2>3, <2>4 DEF VerdictInv
<1>2. ASSUME \A skipped \in SUBSET Files, limits \in Limits : ~CreateUpload(skipped, limits)
      PROVE  VerdictInv'
  <2>1. /\ \A f \in Files : state'[f] = "skipped" <=> state[f] = "skipped"
        /\ \A f \in Files : \/ state'[f] = state[f]
                            \/ \E t \in Threads : /\ At(t, "committing") /\ f = req[t].file
                                                  /\ state'[f] = req[t].result
    BY <1>0, <1>2, SkippedStays
  <2>2. \A f \in Files : Brought(f) => Brought(f)'
    BY <1>0, <2>1, BroughtStays
  <2>3. ASSUME NEW f \in Files, state'[f] = "done" PROVE Brought(f)'
    <3>1. Brought(f)
      BY <1>0, <2>1, <2>3 DEF VerdictInv, CommitsTruth, At
    <3> QED BY <2>2, <3>1
  <2>4. \A t \in Threads : GoesOn(t) => CommitsTruth(t)'
    BY <1>0, <2>1, <2>2, TruthGoesOn
  <2>5. ASSUME NEW t \in Threads, RcatAwaited(t), NEW u \in Threads PROVE CommitsTruth(u)'
    <3>1. PICK f \in Files : f = req[t].file
      BY <1>0, <2>5 DEF RcatAwaited, At, PlacesInv, HasFile
    <3>2. PICK i \in DOMAIN rcat : i = req[t].pipe /\ rcat[i].file = f
      BY <1>0, <2>5, <3>1 DEF RcatAwaited, At, PlacesInv, HasPipe, Handling, OfFile
    <3>3. PICK well \in BOOLEAN : well = (rcat[i].exit = "well")
      OBVIOUS
    <3>4. /\ At(t, "waiting")
          /\ IF well /\ local THEN Go(t, "renaming")
             ELSE \E full \in BOOLEAN : Result(t, IF well THEN "done" ELSE "failed", full)
      BY <1>0, <2>5, <3>2, <3>3, AwaitedFields
    <3>5. state[f] # "skipped"
      BY <1>0, <3>1, <3>4 DEF VerdictInv, CommitsTruth, At
    <3>6. CASE well /\ local
      <4>1. OthersStay(t) /\ req'[t].pc = "renaming" /\ req'[t].file = req[t].file
        BY <1>0, <3>4, <3>6, GoFields DEF Places
      <4>2. GoesOn(u)
        BY <3>4, <4>1 DEF GoesOn, OthersStay, At
      <4> QED BY <2>4, <4>2
    <3>7. CASE ~(well /\ local)
      <4>1. PICK full \in BOOLEAN, what \in {"done", "failed"} :
                Result(t, what, full) /\ (what = "done" => well)
        BY <3>4, <3>7
      <4>2. OthersStay(t) /\ req'[t].pc = "committing" /\ req'[t].file = f /\ req'[t].result = what
        BY <1>0, <3>1, <4>1, ResultFields DEF Results
      <4>3. what = "done" => Brought(f)
        <5>1. what = "done" => ~local /\ rcat[i].exit = "well"
          BY <3>3, <3>7, <4>1
        <5>2. f \notin overtaken => EndedWell(i)
          BY <1>0, <3>2 DEF DataInv
        <5> QED BY <3>2, <5>1, <5>2 DEF EndedWell, Brought, Undone
      <4>4. u # t => GoesOn(u)
        BY <4>2 DEF GoesOn, OthersStay
      <4>5. CASE u = t
        <5>1. what = "done" => Brought(f)'
          BY <2>2, <4>3
        <5>2. req'[u].pc = "committing" /\ req'[u].result \in {"done", "failed"} /\ state'[req'[u].file] # "skipped"
          BY <2>1, <3>5, <4>2, <4>5
        <5>3. req'[u].result = "done" => Brought(req[u].file)'
          BY <4>2, <4>5, <5>1 DEF Brought, Complete, Undone
        <5> QED BY <5>2, <5>3 DEF CommitsTruth
      <4> QED BY <2>4, <4>4, <4>5
    <3> QED BY <3>6, <3>7
  <2>6. ASSUME NEW t \in Threads, Rename(t), NEW u \in Threads PROVE CommitsTruth(u)'
    <3>1. PICK f \in Files : f = req[t].file
      BY <1>0, <2>6 DEF Rename, At, PlacesInv, HasFile
    <3>2. /\ At(t, "renaming") /\ path'[f] = IF temp[f] # 0 THEN temp[f] ELSE path[f]
          /\ Result(t, IF temp[f] # 0 THEN "done" ELSE "failed", FALSE)
      BY <1>0, <2>6, <3>1, RenameFields DEF RenameEffect
    <3>3. state[f] # "skipped"
      BY <1>0, <3>1, <3>2 DEF VerdictInv, CommitsTruth, At
    <3>4. PICK what \in {"done", "failed"} : Result(t, what, FALSE) /\ (what = "done" => temp[f] # 0)
      BY <3>2
    <3>5. OthersStay(t) /\ req'[t].pc = "committing" /\ req'[t].file = f /\ req'[t].result = what
      BY <1>0, <3>1, <3>4, ResultFields DEF Results
    <3>6. u # t => GoesOn(u)
      BY <3>5 DEF GoesOn, OthersStay
    <3>7. what = "done" => Brought(f)'
      <4>1. what = "done" => path'[f] # 0
        BY <3>2, <3>4
      <4>2. f \notin overtaken' => KeptWhole(f)'
        BY DEF DataInv
      <4>3. local
        BY <1>0, <3>2 DEF DataInv, WaitsForWhole, At
      <4> QED BY <4>1, <4>2, <4>3 DEF KeptWhole, Brought
    <3>8. CASE u = t
      <4>1. req'[u].pc = "committing" /\ req'[u].result \in {"done", "failed"} /\ state'[req'[u].file] # "skipped"
        BY <2>1, <3>3, <3>5, <3>8
      <4>2. req'[u].result = "done" => Brought(req[u].file)'
        BY <3>5, <3>7, <3>8 DEF Brought, Complete, Undone
      <4> QED BY <4>1, <4>2 DEF CommitsTruth
    <3> QED BY <2>4, <3>6, <3>8
  <2>7. \A u \in Threads : CommitsTruth(u)'
    BY <2>4, <2>5, <2>6
  <2>8. job' = "SUCCESS" => job = "SUCCESS" \/ \E t \in Threads : At(t, "verdict") /\ req[t].result = "SUCCESS"
    BY <1>0, <1>2, JobSteps
  <2>9. job' = "none" => job = "none"
    BY <1>0, <1>2, JobSteps
  <2>10. job' = "SUCCESS" => \A f \in Files : Brought(f)'
    BY <1>0, <2>2, <2>8 DEF VerdictInv, CommitsTruth, At
  <2>11. ASSUME job = "none", NEW u \in Threads PROVE req'[u].pc = "free"
    <3>1. \A t \in Threads : req[t].pc = "free"
      BY <1>0, <2>11 DEF VerdictInv
    <3>2. GoesOn(u)
      BY <3>1 DEF RcatAwaited, Rename, At
    <3> QED BY <2>11, <3>1, <3>2 DEF GoesOn
  <2> QED BY <2>3, <2>7, <2>9, <2>10, <2>11 DEF VerdictInv
<1> QED BY <1>1, <1>2

-----------------------------------------------------------------------------
(* The theorems.                                                             *)

\* Nothing is there before the job is.
LEMMA UploadInitInv == UploadInit => UploadInv
<1> SUFFICES ASSUME UploadInit PROVE UploadInv
  OBVIOUS
<1> USE DEF UploadInit
<1>1. rcat \in Seq(Rcats) /\ data \in Seq(Nat) /\ Len(data) = Len(rcat) /\ DOMAIN rcat = {}
  BY EmptySeq
<1>2. UploadTypeOK
  <2>1. \A f \in Files : NewPage \in Pages
    BY DEF NewPage, Pages
  <2> QED BY <1>1, <2>1, FreeType DEF UploadTypeOK
<1>3. \A t \in Threads : req[t].pc = "free"
  BY DEF Free
<1>4. PlacesInv
  BY <1>1, <1>3 DEF PlacesInv, HasFile, HasPipe, Handling, PipeIsOpen, NamesAreOwn
<1>5. WritersInv
  BY <1>1, <1>3 DEF WritersInv, OneWriter, WritersOf, Finishing
<1>6. DataInv
  BY <1>1, <1>3 DEF DataInv, GotAll, WaitsForWhole, KeptWhole
<1>7. VerdictInv
  BY <1>3 DEF VerdictInv, CommitsTruth
<1> QED BY <1>2, <1>4, <1>5, <1>6, <1>7 DEF UploadInv

\* Every step keeps the invariant.
LEMMA UploadNextInv ==
    ASSUME UploadInv, UploadNext \/ UNCHANGED uploadVars
    PROVE  UploadInv'
<1>1. UploadTypeOK /\ PlacesInv /\ WritersInv /\ DataInv /\ VerdictInv
  BY DEF UploadInv
<1>2. /\ ServerTypes /\ ClientTypes /\ PlacesInv' /\ WritersInv' /\ DataInv' /\ NeverBack
      /\ Persist /\ local' = local
      /\ \/ \A u \in Threads : GoesOn(u)
         \/ \E t \in Threads : RcatAwaited(t) \/ Rename(t)
  BY <1>1, ServerKeeps
<1>3. UploadTypeOK'
  BY <1>1, <1>2, RestTypes DEF UploadTypeOK, ServerTypes, ClientTypes
<1>4. VerdictInv'
  BY <1>2, VerdictKept
<1> QED BY <1>2, <1>3, <1>4 DEF UploadInv

\* However requests, retries, aborts, the reaper, Stop, restarts and the processes interleave
\* (upload_manager.py, upload_pipes.py): who refers to which process, who writes where, what
\* has been written, and what was committed, agree.
THEOREM UploadInvariant == UploadSpec => []UploadInv
<1>1. UploadInv /\ [UploadNext]_uploadVars => UploadInv'
  BY UploadNextInv
<1> QED BY <1>1, UploadInitInv, PTL DEF UploadSpec

\* A job that says SUCCESS has brought every file that was not skipped whole (_finish_file,
\* _complete_if_done), but for those that two processes wrote at the same time, and for objects
\* that were sent again although there when the web process died (wsgi.ini).
THEOREM UploadSuccessIsTrue == UploadSpec => []SuccessIsTrue
<1>1. UploadInv => SuccessIsTrue
  BY DEF UploadInv, VerdictInv, Brought, SuccessIsTrue
<1> QED BY <1>1, UploadInvariant, PTL

\* What is at a file's path is what was there, or the whole new file (rename_local, _abort), but
\* for those that two processes wrote, and objects cut short by the end of the web process.
THEOREM UploadReplacedIsKept == UploadSpec => []ReplacedIsKept
<1>1. UploadInv => ReplacedIsKept
  BY DEF UploadInv, DataInv, KeptWhole, ReplacedIsKept
<1> QED BY <1>1, UploadInvariant, PTL

-----------------------------------------------------------------------------
(* Room in the folder.                                                       *)

\* A set of natural numbers that is not empty has a least element.
LEMMA LeastNatural ==
    ASSUME NEW T, T \subseteq Nat, T # {}
    PROVE  \E x \in T : \A y \in T : x =< y
<1>1. PICK x \in T : \A y \in T : ~ (<<y, x>> \in OpToRel(<, Nat))
  BY NatLessThanWellFounded, WFMin
<1>2. \A y \in T : ~(y < x)
  BY <1>1, Zenon DEF OpToRel
<1> QED BY <1>2

\* A positive factor keeps the order, and can be taken out again.
LEMMA Factor ==
    ASSUME NEW a \in Nat, NEW b \in Nat, NEW c \in Nat \ {0}
    PROVE  a > b <=> a * c > b * c
<1>1. ASSUME a > b PROVE a * c > b * c
  <2>1. PICK d \in Nat \ {0} : a = b + d
    <3>1. a - b \in Nat \ {0} /\ a = b + (a - b)
      BY <1>1
    <3> QED BY <3>1
  <2>2. a * c = b * c + d * c /\ d * c > 0 /\ b * c \in Nat /\ d * c \in Nat
    BY <2>1
  <2> QED BY <2>2
<1>2. ASSUME a =< b PROVE a * c =< b * c
  <2>1. PICK d \in Nat : b = a + d
    <3>1. b - a \in Nat /\ b = a + (b - a)
      BY <1>2
    <3> QED BY <3>1
  <2>2. b * c = a * c + d * c /\ a * c \in Nat /\ d * c \in Nat
    BY <2>1
  <2> QED BY <2>2
<1>3. a * c \in Nat /\ b * c \in Nat
  OBVIOUS
<1> QED BY <1>1, <1>2, <1>3

\* To be fuller is transitive: `a` of `p` is more than `b` of `q`, that more than `c` of `r`.
LEMMA FullerThanFuller ==
    ASSUME NEW a \in Nat, NEW b \in Nat, NEW c \in Nat,
           NEW p \in Nat \ {0}, NEW q \in Nat \ {0}, NEW r \in Nat \ {0},
           a * q > b * p, b * r > c * q
    PROVE  a * r > c * p
<1>1. /\ a * q \in Nat /\ b * p \in Nat /\ b * r \in Nat /\ c * q \in Nat /\ a * r \in Nat /\ c * p \in Nat
  OBVIOUS
<1>2. (a * q) * r > (b * p) * r
  BY <1>1, Factor
<1>3. (b * r) * p > (c * q) * p
  BY <1>1, Factor
<1>4. (b * p) * r = (b * r) * p /\ (a * q) * r = (a * r) * q /\ (c * q) * p = (c * p) * q
  OBVIOUS
<1>5. (a * r) * q > (c * p) * q
  <2>1. \A x, y, z \in Int : x > y /\ y > z => x > z
    OBVIOUS
  <2>2. (a * q) * r \in Int /\ (b * p) * r \in Int /\ (c * q) * p \in Int
    OBVIOUS
  <2> QED BY <1>2, <1>3, <1>4, <2>1, <2>2
<1> QED BY <1>1, <1>5, Factor

Limited(S) == IsFiniteSet(S) /\ \A l \in S : l.total \in Nat \ {0} /\ l.used \in Nat
Fuller(S, l, toAdd) == {k \in S : (k.used + toAdd) * l.total > (l.used + toAdd) * k.total}

\* One of finitely many limits is the fullest.
LEMMA FullestExists ==
    ASSUME NEW S, Limited(S), S # {}, NEW toAdd \in Nat
    PROVE  \E l \in S : \A k \in S : (k.used + toAdd) * l.total =< (l.used + toAdd) * k.total
<1>1. \A l \in S : l.total \in Nat \ {0} /\ l.used \in Nat /\ l.used + toAdd \in Nat
  BY DEF Limited
<1>2. \A l \in S : IsFiniteSet(Fuller(S, l, toAdd)) /\ Cardinality(Fuller(S, l, toAdd)) \in Nat
  BY FS_Subset, FS_CardinalityType DEF Limited, Fuller
<1> DEFINE Numbers == {Cardinality(Fuller(S, l, toAdd)) : l \in S}
<1>3. PICK least \in Numbers : \A n \in Numbers : least =< n
  <2>1. Numbers \subseteq Nat /\ Numbers # {}
    BY <1>2
  <2> QED BY <2>1, LeastNatural
<1>4. PICK l \in S : least = Cardinality(Fuller(S, l, toAdd))
  BY <1>3
<1>5. \A k \in S : Cardinality(Fuller(S, l, toAdd)) =< Cardinality(Fuller(S, k, toAdd))
  BY <1>3, <1>4
<1> HIDE DEF Numbers
<1>6. Fuller(S, l, toAdd) = {}
  <2> SUFFICES ASSUME NEW k \in Fuller(S, l, toAdd) PROVE FALSE
    OBVIOUS
  <2>1. k \in S /\ (k.used + toAdd) * l.total > (l.used + toAdd) * k.total
    BY DEF Fuller
  <2>2. ASSUME NEW m \in Fuller(S, k, toAdd) PROVE m \in Fuller(S, l, toAdd)
    <3>1. m \in S /\ (m.used + toAdd) * k.total > (k.used + toAdd) * m.total
      BY <2>2 DEF Fuller
    <3>2. (m.used + toAdd) * l.total > (l.used + toAdd) * m.total
      BY <1>1, <2>1, <3>1, FullerThanFuller
    <3> QED BY <3>1, <3>2 DEF Fuller
  <2>3. k \notin Fuller(S, k, toAdd)
    <3>1. (k.used + toAdd) * k.total \in Nat
      BY <1>1, <2>1
    <3> QED BY <3>1 DEF Fuller
  <2>4. Fuller(S, k, toAdd) \in SUBSET Fuller(S, l, toAdd) /\ Fuller(S, k, toAdd) # Fuller(S, l, toAdd)
    BY <2>2, <2>3
  <2>5. /\ Cardinality(Fuller(S, k, toAdd)) =< Cardinality(Fuller(S, l, toAdd))
        /\ Cardinality(Fuller(S, k, toAdd)) # Cardinality(Fuller(S, l, toAdd))
    BY <1>2, <2>4, FS_Subset
  <2> QED BY <1>2, <1>5, <2>1, <2>5
<1>7. ASSUME NEW k \in S PROVE (k.used + toAdd) * l.total =< (l.used + toAdd) * k.total
  <2>1. ~((k.used + toAdd) * l.total > (l.used + toAdd) * k.total)
    BY <1>6 DEF Fuller
  <2>2. (k.used + toAdd) * l.total \in Nat /\ (l.used + toAdd) * k.total \in Nat
    BY <1>1
  <2> QED BY <2>1, <2>2
<1> QED BY <1>7

\* What finitely many files have together is a number.
LEMMA TotalType ==
    ASSUME NEW files \in SUBSET Files
    PROVE  Total(files) \in Nat
<1> DEFINE units == [f \in files |-> {f} \X (1 .. Size[f])]
<1> DEFINE All == {{f} \X (1 .. Size[f]) : f \in files}
<1>1. IsFiniteSet(files)
  BY UploadAssumption, FS_Subset
<1>2. units \in Surjection(files, All)
  BY DEF Surjection
<1>3. IsFiniteSet(All)
  BY <1>1, <1>2, FS_Surjection
<1>4. \A f \in files : IsFiniteSet({f} \X (1 .. Size[f]))
  <2> SUFFICES ASSUME NEW f \in files PROVE IsFiniteSet({f} \X (1 .. Size[f]))
    OBVIOUS
  <2>1. Size[f] \in Int
    BY UploadAssumption
  <2>2. IsFiniteSet({f})
    BY FS_Singleton
  <2>3. IsFiniteSet(1 .. Size[f])
    BY <2>1, FS_Interval
  <2> QED BY <2>2, <2>3, FS_Product
<1>5. IsFiniteSet(UNION All)
  BY <1>3, <1>4, FS_UNION
<1> QED BY <1>5, FS_CardinalityType DEF Total

\* The limits that a job is held to when it is admitted are all kept, not only the one that
\* evaluate looks at: it is the fullest after the job.
LEMMA AdmittedFits ==
    ASSUME NEW limits, Limited(limits), NEW toAdd \in Nat, MaxFill < 100,
           ~Refuses(limits, toAdd, MaxFill)
    PROVE  \A l \in Applicable(limits) : (l.used + toAdd) * 100 =< MaxFill * l.total
<1> SUFFICES ASSUME NEW l \in Applicable(limits) PROVE (l.used + toAdd) * 100 =< MaxFill * l.total
  OBVIOUS
<1> DEFINE S == Applicable(limits)
<1>1. S \in SUBSET limits /\ limits # {}
  BY DEF Applicable
<1>2. Limited(S)
  BY <1>1, FS_Subset DEF Limited
<1>3. PICK m \in S : m = FullestAfter(limits, toAdd)
                     /\ \A k \in S : (k.used + toAdd) * m.total =< (m.used + toAdd) * k.total
  <2>1. \E m \in S : \A k \in S : (k.used + toAdd) * m.total =< (m.used + toAdd) * k.total
    BY <1>2, FullestExists
  <2> QED BY <2>1 DEF FullestAfter
<1> HIDE DEF S
<1>4. /\ m.total \in Nat \ {0} /\ m.used + toAdd \in Nat /\ l.total \in Nat \ {0} /\ l.used + toAdd \in Nat
      /\ MaxFill \in Nat
  <2>1. l \in S
    BY DEF S
  <2> QED BY <1>2, <2>1, UploadAssumption DEF Limited
<1>5. ~Exceeds(m, toAdd, MaxFill)
  BY <1>1, <1>3 DEF Refuses
<1>6. ~((m.used + toAdd) * 100 > MaxFill * m.total)
  BY <1>4, <1>5 DEF Exceeds
<1>7. (l.used + toAdd) * m.total =< (m.used + toAdd) * l.total
  BY <1>3 DEF S
<1>8. ~((l.used + toAdd) * 100 > MaxFill * l.total)
  <2> SUFFICES ASSUME (l.used + toAdd) * 100 > MaxFill * l.total PROVE FALSE
    OBVIOUS
  <2>1. PICK a \in Nat, b \in Nat, p \in Nat \ {0}, q \in Nat \ {0} :
            a = l.used + toAdd /\ b = m.used + toAdd /\ p = l.total /\ q = m.total
    BY <1>4
  <2>2. a * 100 > MaxFill * p /\ b * 100 =< MaxFill * q /\ a * q =< b * p
    BY <1>4, <1>6, <1>7, <2>1
  <2>3. (a * 100) * q > (MaxFill * p) * q
    BY <1>4, <2>2, Factor
  <2>4. (b * 100) * p =< (MaxFill * q) * p
    <3>1. b * 100 \in Nat /\ MaxFill * q \in Nat
      BY <1>4
    <3>2. ~((b * 100) * p > (MaxFill * q) * p)
      BY <2>2, <3>1, Factor
    <3> QED BY <3>1, <3>2
  <2>5. (a * q) * 100 =< (b * p) * 100
    <3>1. a * q \in Nat /\ b * p \in Nat
      OBVIOUS
    <3> QED BY <2>2, <3>1
  <2>6. (a * 100) * q = (a * q) * 100 /\ (b * 100) * p = (b * p) * 100 /\ (MaxFill * p) * q = (MaxFill * q) * p
    BY <1>4
  <2>7. (a * q) * 100 \in Int /\ (b * p) * 100 \in Int /\ (MaxFill * q) * p \in Int
    BY <1>4
  <2> QED BY <2>3, <2>4, <2>5, <2>6, <2>7
<1>9. (l.used + toAdd) * 100 \in Nat /\ MaxFill * l.total \in Nat
  BY <1>4
<1> QED BY <1>8, <1>9

RoomInv == RoomIsKept /\ NothingAsked

\* The limits of an admitted job stay those that it was admitted with, and so does what it
\* sends: no file is skipped later.
LEMMA RoomNextInv ==
    ASSUME UploadInv, MaxFill < 100, RoomInv, UploadNext \/ UNCHANGED uploadVars
    PROVE  RoomInv'
<1>0. UploadTypeOK /\ PlacesInv /\ VerdictInv
  BY DEF UploadInv
<1>1. ASSUME NEW skipped \in SUBSET Files, NEW limits \in Limits, CreateUpload(skipped, limits)
      PROVE  RoomInv'
  <2>1. /\ ~Refuses(ReadLimits(limits), Total(Files \ skipped), MaxFill)
        /\ room' = ReadLimits(limits)
        /\ state' = [f \in Files |-> IF f \in skipped THEN "skipped" ELSE "pending"]
    BY <1>1 DEF CreateUpload
  <2>2. Limited(ReadLimits(limits))
    <3>1. IsFiniteSet(limits) /\ \A l \in limits : l.total \in Nat /\ l.used \in Nat
      BY UploadAssumption
    <3>2. ReadLimits(limits) \in SUBSET limits /\ \A l \in ReadLimits(limits) : l.total > 0
      BY DEF ReadLimits
    <3> QED BY <3>1, <3>2, FS_Subset DEF Limited
  <2>3. {f \in Files : state'[f] # "skipped"} = Files \ skipped
    BY <2>1
  <2>4. \A l \in Applicable(room') : (l.used + Total(Files \ skipped)) * 100 =< MaxFill * l.total
    BY <2>1, <2>2, TotalType, AdmittedFits
  <2>5. \A l \in Applicable(room') :
            (l.used + Total({f \in Files : state'[f] # "skipped"})) * 100 =< MaxFill * l.total
    BY <2>3, <2>4
  <2>6. RoomIsKept'
    BY <2>5 DEF RoomIsKept, Applicable, Total
  <2>7. job' # "none"
    BY <1>1 DEF CreateUpload
  <2> QED BY <2>6, <2>7 DEF RoomInv, NothingAsked
<1>2. ASSUME \A skipped \in SUBSET Files, limits \in Limits : ~CreateUpload(skipped, limits)
      PROVE  RoomInv'
  <2>1. {f \in Files : state'[f] # "skipped"} = {f \in Files : state[f] # "skipped"}
    BY <1>0, <1>2, SkippedStays
  <2>2. room' = room /\ (job' # "none" => job # "none") /\ NothingAsked'
    BY <1>0, <1>2, RoomStays DEF RoomInv
  <2>3. RoomIsKept'
    BY <2>1, <2>2 DEF RoomInv, RoomIsKept, Total
  <2> QED BY <2>2, <2>3 DEF RoomInv
<1> QED BY <1>1, <1>2

\* Where the check is on (MOTUZ_MAX_FILL_PERCENT below 100; space_check.py, evaluate): a job
\* that was admitted keeps below the limit of every quota, or else of the filesystem.
THEOREM UploadRoomIsKept == ASSUME MaxFill < 100 PROVE UploadSpec => []RoomIsKept
<1>1. UploadInit => RoomInv
  BY DEF UploadInit, RoomInv, RoomIsKept, NothingAsked
<1>2. UploadInv /\ RoomInv /\ [UploadNext]_uploadVars => RoomInv'
  BY RoomNextInv
<1>3. RoomInv => RoomIsKept
  BY DEF RoomInv
<1> QED BY <1>1, <1>2, <1>3, UploadInvariant, PTL DEF UploadSpec

-----------------------------------------------------------------------------
(* A job whose files are all settled.                                        *)

\* While it still runs, one request is on its way to finish it, and something was committed
\* for it since the last silence.
Counts(t)  == req[t].pc \in {"aborting", "counting", "verdict"}
Settled    == job = "PROGRESS" /\ \A f \in Files : state[f] # "pending"
SettledInv == restarts > 0 \/ (Settled => ~quiet /\ \E t \in Threads : Counts(t))

\* A step that commits nothing and lets those that count go on.
Undisturbed == UNCHANGED <<job, state, quiet, restarts>> /\ \A u \in Threads : Counts(u) => Counts(u)'

LEMMA UndisturbedSettled ==
    ASSUME SettledInv, Undisturbed
    PROVE  SettledInv'
BY DEF SettledInv, Undisturbed, Settled

\* A request that does not count leaves those that do.
LEMMA OthersCount ==
    ASSUME NEW t \in Threads, ~Counts(t), OthersStay(t), Quietly
    PROVE  Undisturbed
BY DEF OthersStay, Quietly, owner, Counts, Undisturbed

\* The answer frees the request.
LEMMA AnswerFrees ==
    ASSUME UploadTypeOK, NEW t \in Threads, NEW next, Answer(t, next)
    PROVE  OthersStay(t)
BY FreeType, RequestBecomes DEF Answer

\* A request on its way to or at its process counts nothing yet.
LEMMA HandlingUndisturbed ==
    ASSUME UploadTypeOK, PlacesInv, NEW t \in Threads,
           \/ LookAtRows(t) \/ AbortOld(t) \/ Spawn(t) \/ Busy(t) \/ FindPipe(t)
           \/ WriteChunk(t) \/ WrongOffset(t) \/ PipeBroken(t)
           \/ Finish(t) \/ RcatAwaited(t) \/ Rename(t)
    PROVE  Undisturbed
<1>1. ~Counts(t) /\ Quietly
  BY DEF LookAtRows, AbortOld, Spawn, Busy, FindPipe, WriteChunk, WrongOffset, PipeBroken, Finish,
         RcatAwaited, Rename, At, Counts
<1>2. ASSUME NEW next, Answer(t, next) PROVE OthersStay(t)
  BY <1>2, AnswerFrees
<1>3. ASSUME NEW where \in Places, Go(t, where) PROVE OthersStay(t)
  BY <1>3, GoFields
<1>4. ASSUME NEW what \in Results, NEW full \in BOOLEAN, Result(t, what, full) PROVE OthersStay(t)
  BY <1>4, ResultFields
<1>5. ASSUME NEW where \in Places, req[t].pc # "free",
             req' = [req EXCEPT ![t].pc = where, ![t].pipe = pipes[req[t].file]]
      PROVE  OthersStay(t)
  <2>1. pipes[req[t].file] \in Nat
    BY <1>5 DEF UploadTypeOK, PlacesInv, HasFile
  <2> QED BY <1>5, <2>1, PipeFields
<1>6. OthersStay(t)
  <2>1. CASE LookAtRows(t)
    <3>1. Answer(t, Over(Page(t))) \/ Go(t, "starting") \/ Go(t, "finding")
      BY <2>1 DEF LookAtRows
    <3> QED BY <3>1, <1>2, <1>3 DEF Places
  <2>2. CASE AbortOld(t)
    <3>1. req' = [req EXCEPT ![t].pc = "spawning", ![t].pipe = pipes[req[t].file]]
      BY <2>2 DEF AbortOld
    <3> QED BY <3>1, <2>2, <1>5 DEF AbortOld, At, Places
  <2>3. CASE Spawn(t)
    BY <2>3, <1>3 DEF Spawn, Places
  <2>4. CASE Busy(t)
    BY <2>4, <1>2 DEF Busy
  <2>5. CASE FindPipe(t)
    <3>1. \/ Answer(t, Moved(Page(t), 0))
          \/ req' = [req EXCEPT ![t].pc = "writing", ![t].pipe = pipes[req[t].file]]
      BY <2>5 DEF FindPipe
    <3> QED BY <3>1, <2>5, <1>2, <1>5 DEF FindPipe, At, Places
  <2>6. CASE WriteChunk(t)
    <3>1. \/ Answer(t, Moved(Page(t), 0)) \/ Go(t, "finishing") \/ Result(t, "more", FALSE)
      BY <2>6 DEF WriteChunk
    <3> QED BY <3>1, <1>2, <1>3, <1>4 DEF Places, Results
  <2>7. CASE WrongOffset(t)
    BY <2>7, <1>2 DEF WrongOffset
  <2>8. CASE PipeBroken(t)
    BY <2>8, <1>3 DEF PipeBroken, Places
  <2>9. CASE Finish(t)
    <3>1. Go(t, "waiting") \/ \E next : Answer(t, next)
      BY <2>9 DEF Finish
    <3> QED BY <3>1, <1>2, <1>3 DEF Places
  <2>10. CASE RcatAwaited(t)
    <3>1. \/ Go(t, "renaming")
          \/ \E full \in BOOLEAN : Result(t, "done", full) \/ Result(t, "failed", full)
      BY <2>10 DEF RcatAwaited, UploadTypeOK
    <3> QED BY <3>1, <1>3, <1>4 DEF Places, Results
  <2>11. CASE Rename(t)
    <3>1. Result(t, "done", FALSE) \/ Result(t, "failed", FALSE)
      BY <2>11 DEF Rename
    <3> QED BY <3>1, <1>4 DEF Results
  <2> QED BY <2>1, <2>2, <2>3, <2>4, <2>5, <2>6, <2>7, <2>8, <2>9, <2>10, <2>11
<1> QED BY <1>1, <1>6, OthersCount

\* Who commits a result counts next; who counts and finds all files settled finishes the job.
LEMMA CountingSettled ==
    ASSUME UploadTypeOK, SettledInv, NEW t \in Threads,
           CommitChunk(t) \/ AbortTheOthers(t) \/ CountPending(t) \/ FinishJob(t)
    PROVE  SettledInv'
<1>1. CASE CommitChunk(t)
  <2>1. quiet' = FALSE /\ Go(t, IF req[t].full THEN "aborting" ELSE "counting")
    BY <1>1 DEF CommitChunk
  <2>2. Go(t, "aborting") \/ Go(t, "counting")
    BY <2>1
  <2>3. Counts(t)'
    BY <2>2, GoFields DEF Counts, Places
  <2> QED BY <2>1, <2>3 DEF SettledInv
<1>2. CASE AbortTheOthers(t)
  <2>1. OthersStay(t) /\ req'[t].pc = "counting"
    BY <1>2, GoFields DEF AbortTheOthers, Places
  <2>2. Undisturbed
    BY <2>1, <1>2 DEF OthersStay, AbortTheOthers, Quietly, owner, Counts, Undisturbed
  <2> QED BY <2>2, UndisturbedSettled
<1>3. CASE CountPending(t)
  <2>1. UNCHANGED <<job, state, quiet, restarts>>
    BY <1>3 DEF CountPending, Quietly, owner
  <2>2. CASE Settled
    <3>1. Verdict(t) \in Results
      BY DEF Verdict, Results
    <3>2. req' = [req EXCEPT ![t].pc = "verdict", ![t].result = Verdict(t)]
      BY <1>3, <2>2 DEF CountPending, NoneIsPending, Settled
    <3>3. OthersStay(t) /\ req'[t].pc = "verdict"
      BY <3>1, <3>2, VerdictFields
    <3>4. Undisturbed
      BY <2>1, <3>3 DEF OthersStay, Counts, Undisturbed
    <3> QED BY <3>4, UndisturbedSettled
  <2>3. CASE ~Settled
    BY <2>1, <2>3 DEF SettledInv, Settled
  <2> QED BY <2>2, <2>3
<1>4. CASE FinishJob(t)
  <2>1. job' = req[t].result /\ req[t] \in Chunks
    BY <1>4 DEF FinishJob, UploadTypeOK
  <2>2. job' # "PROGRESS"
    BY <2>1 DEF Chunks, Results
  <2> QED BY <2>2 DEF SettledInv, Settled
<1> QED BY <1>1, <1>2, <1>3, <1>4

\* Every step keeps it.
LEMMA SettledNextInv ==
    ASSUME UploadTypeOK, PlacesInv, SettledInv, UploadNext \/ UNCHANGED uploadVars
    PROVE  SettledInv'
<1>1. ASSUME NEW skipped \in SUBSET Files, NEW limits \in Limits, CreateUpload(skipped, limits)
      PROVE  SettledInv'
  <2>1. /\ state' = [f \in Files |-> IF f \in skipped THEN "skipped" ELSE "pending"]
        /\ job' = IF skipped = Files THEN "SUCCESS" ELSE "PROGRESS"
    BY <1>1 DEF CreateUpload
  <2>2. CASE skipped = Files
    BY <2>1, <2>2 DEF SettledInv, Settled
  <2>3. CASE skipped # Files
    <3>1. PICK f \in Files : f \notin skipped
      BY <2>3
    <3>2. state'[f] = "pending"
      BY <2>1, <3>1
    <3> QED BY <3>2 DEF SettledInv, Settled
  <2> QED BY <2>2, <2>3
<1>2. ASSUME NEW f \in Files, SendChunk(f)
      PROVE  SettledInv'
  <2>1. UNCHANGED <<job, state, quiet, restarts>>
    BY <1>2 DEF SendChunk, owner
  <2>2. PICK t \in Threads : req[t].pc = "free" /\ OthersStay(t)
    BY <1>2, SentFields
  <2>3. Undisturbed
    BY <2>1, <2>2 DEF OthersStay, Counts, Undisturbed
  <2> QED BY <2>3, UndisturbedSettled
<1>3. ASSUME \/ UNCHANGED uploadVars
             \/ \E f \in Files : Reap(f)
             \/ \E i \in DOMAIN rcat : Process(i) \/ RcatFails(i)
             \/ AskStop \/ StopAbort \/ ExpireRead \/ ExpireAbort
      PROVE  SettledInv'
  <2>1. UNCHANGED <<job, state, quiet, restarts, req>>
    BY <1>3 DEF uploadVars, Reap, Process, RcatEnds, RcatFails, AskStop, StopAbort, ExpireRead,
                ExpireAbort, NoRequest, owner
  <2>2. Undisturbed
    BY <2>1 DEF Counts, Undisturbed
  <2> QED BY <2>2, UndisturbedSettled
<1>4. ASSUME NEW t \in Threads, Request(t)
      PROVE  SettledInv'
  BY <1>4, HandlingUndisturbed, CountingSettled, UndisturbedSettled DEF Request
<1>5. ASSUME NEW t \in Threads, LoseAnswer(t)
      PROVE  SettledInv'
  <2>1. UNCHANGED <<job, state, quiet, restarts>> /\ req' = [req EXCEPT ![t].live = FALSE]
    BY <1>5 DEF LoseAnswer
  <2>2. OthersStay(t) /\ req'[t].pc = req[t].pc
    BY <2>1, UnheardFields
  <2>3. Undisturbed
    BY <2>1, <2>2 DEF OthersStay, Counts, Undisturbed
  <2> QED BY <2>3, UndisturbedSettled
<1>6. ASSUME CloseTab
      PROVE  SettledInv'
  <2>1. UNCHANGED <<job, state, quiet, restarts>>
    BY <1>6 DEF CloseTab, owner
  <2>2. \A t \in Threads : req'[t].pc = req[t].pc
    BY <1>6, ClosedFields
  <2>3. Undisturbed
    BY <2>1, <2>2 DEF Counts, Undisturbed
  <2> QED BY <2>3, UndisturbedSettled
<1>7. ASSUME StopCommit \/ ExpireCommit
      PROVE  SettledInv'
  <2>1. job' # "PROGRESS"
    BY <1>7 DEF StopCommit, ExpireCommit
  <2> QED BY <2>1 DEF SettledInv, Settled
<1>8. ASSUME TimePasses
      PROVE  SettledInv'
  <2>1. UNCHANGED <<job, state, restarts>> /\ \A t \in Threads : req[t].pc \in Waits
    BY <1>8 DEF TimePasses, NoRequest
  <2>2. \A t \in Threads : ~Counts(t)
    BY <2>1 DEF Waits, Counts
  <2>3. restarts > 0 \/ ~Settled
    BY <2>2 DEF SettledInv
  <2> QED BY <2>1, <2>3 DEF SettledInv, Settled
<1>9. ASSUME NEW alone \in BOOLEAN, NEW first, Restart(alone, first)
      PROVE  SettledInv'
  <2>1. restarts \in Nat /\ restarts' = restarts + 1
    BY <1>9 DEF Restart, UploadTypeOK
  <2>2. restarts' > 0
    BY <2>1
  <2> QED BY <2>2 DEF SettledInv
<1> QED BY <1>1, <1>2, <1>3, <1>4, <1>5, <1>6, <1>7, <1>8, <1>9
        DEF UploadNext, Stopping, Expiring

\* expire (upload_manager.py) gives up only on a job with a file still to come, or after a
\* restart: of the requests that settle the last files at the same time, one finishes the job.
THEOREM SettledDoNotExpire == UploadSpec => SettledJobsDoNotExpire
<1>1. UploadInit => SettledInv
  BY DEF UploadInit, SettledInv, Settled
<1>2. UploadInv /\ SettledInv /\ [UploadNext]_uploadVars => SettledInv'
  BY SettledNextInv DEF UploadInv
<1>3. UploadInv /\ SettledInv /\ [UploadNext]_uploadVars
         => [expiring = "no" /\ expiring' # "no" =>
               restarts > 0 \/ \E f \in Files : state[f] = "pending"]_uploadVars
  <2> SUFFICES ASSUME UploadInv, SettledInv, UploadNext, expiring = "no", expiring' # "no"
               PROVE  restarts > 0 \/ \E f \in Files : state[f] = "pending"
    OBVIOUS
  <2>1. Silent
    BY DEF UploadNext, CreateUpload, SendChunk, Reap, Request, LookAtRows, AbortOld, Spawn, Busy,
           FindPipe, WriteChunk, WrongOffset, PipeBroken, Finish, RcatAwaited, Rename, CommitChunk,
           AbortTheOthers, CountPending, FinishJob, LoseAnswer, Process, RcatEnds, RcatFails, AskStop,
           Stopping, StopCommit, StopAbort, TimePasses, Expiring, ExpireRead, ExpireAbort,
           ExpireCommit, CloseTab, Restart, Quietly, NoRequest, owner
  <2> QED BY <2>1 DEF SettledInv, Settled, Silent
<1> QED BY <1>1, <1>2, <1>3, UploadInvariant, PTL DEF UploadSpec, SettledJobsDoNotExpire
=============================================================================
