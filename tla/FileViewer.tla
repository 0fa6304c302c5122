------------------------------ MODULE FileViewer ------------------------------
(* The viewer of a text file in the browser (views/Dialogs/FileViewerDialog.jsx, *)
(* utils/viewerChunks.js, utils/viewerFollow.js): a window of chunks around what *)
(* is on the screen, its follow mode, and the file, which its writer goes on     *)
(* writing.  A read sees the size before the bytes; these are read, and the      *)
(* answer handled, in one step.  The counters `generation` and                  *)
(* `followGeneration` only tell whether a request is older than the last jump,   *)
(* or than the last change of follow mode: the requests keep that themselves.    *)
EXTENDS FileView

CONSTANTS MaxChunks,           \* MAX_CHUNKS
          Pieces,              \* what the file holds at first, and what is appended to it, in order
          MaxActs, MaxErrors, MaxQueue   \* bounds

\* A text of whole characters, none of which is longer than a chunk: the first byte of a
\* character is followed by the others, and these by nothing else.
WholeCharacters(text) ==
    /\ \A i \in DOMAIN text : text[i] \notin {0, NL} =>
           /\ text[i] =< ChunkBytes /\ i + text[i] - 1 =< Len(text)
           /\ \A k \in 1..(text[i] - 1) : text[i + k] = 0
    /\ \A j \in DOMAIN text : text[j] = 0 =>
           \E i \in 1..(j - 1) : text[i] \notin {0, NL} /\ j < i + text[i]

\* What is written to the file at once are whole characters.
ASSUME ViewerAssumption ==
    /\ ChunkBytes \in Nat \ {0} /\ MaxChunks \in Nat \ {0}
    /\ Pieces \in Seq(Seq(0..NL)) /\ Pieces # <<>>
    /\ \A i \in DOMAIN Pieces : WholeCharacters(Pieces[i])

MergeBytes   == ChunkBytes
CatchUpBytes == MaxChunks * MergeBytes

VARIABLES file, written, store, changes,    \* its bytes; the pieces of it; where it is; what happened
          chunks, loading, failed,          \* the window
          following, paused, followEnd, timer, hidden,
          queue, seen,                      \* requests; the size that the first of them saw
          acts, errors, raced,              \* counters of the bounds; unpaused at the wrong moment
          outgrown                          \* ends of answers past the size that was seen

fileVars   == <<file, written, store, changes>>
windowVars == <<chunks, loading, failed>>
followVars == <<following, paused, followEnd, timer>>
boundVars  == <<acts, errors, raced, outgrown>>
viewVars   == <<fileVars, windowVars, followVars, hidden, queue, seen, boundVars>>

None == -1       \* null
NotSeen == -2

Ask(for, request, kind, then) ==
    [for |-> for, request |-> request, kind |-> kind, then |-> then, fresh |-> TRUE, ours |-> TRUE]
Load(kind, request, then) == Ask("load", request, kind, then)
Older(q)    == [i \in DOMAIN q |-> [q[i] EXCEPT !.fresh = FALSE]]
Disowned(q) == [i \in DOMAIN q |-> [q[i] EXCEPT !.ours = FALSE]]

ViewInit ==
    /\ file = Pieces[1] /\ written = 1 /\ store \in {"local", "cloud", "unsized"} /\ changes = "appended"
    /\ chunks = <<>> /\ loading = "none" /\ failed = FALSE
    /\ following = FALSE /\ paused = FALSE /\ followEnd = None /\ timer = FALSE /\ hidden = FALSE
    /\ queue = <<>> /\ seen = NotSeen
    /\ acts = 0 /\ errors = 0 /\ raced = FALSE /\ outgrown = {}

----------------------------------------------------------------------------
(* The window.                                                               *)

ToChunk(result) == [offset |-> result.offset, end |-> result.end, text |-> result.text,
                    bof |-> result.bof, eof |-> result.eof]
Tops(w)    == SubSeq(w, 1, IF Len(w) > MaxChunks THEN MaxChunks ELSE Len(w))
Bottoms(w) == SubSeq(w, IF Len(w) > MaxChunks THEN Len(w) - MaxChunks + 1 ELSE 1, Len(w))
LastOf(w) == w[Len(w)]

ReplaceChunks(result) == <<ToChunk(result)>>
AppendChunk(w, result) ==
    IF w = <<>> \/ result.offset # LastOf(w).end THEN w ELSE Bottoms(Append(w, ToChunk(result)))
PrependChunk(w, result) ==
    IF w = <<>> \/ result.end # w[1].offset THEN w ELSE Tops(<<ToChunk(result)>> \o w)
AppendFollowChunk(w, result) ==
    LET last   == LastOf(w)
        merged == [last EXCEPT !.end = result.end, !.text = @ \o result.text, !.eof = result.eof]
    IN  IF w = <<>> \/ result.offset # last.end \/ result.end =< result.offset THEN w
        ELSE IF (last.end - last.offset) + (result.end - result.offset) =< MergeBytes
             THEN [w EXCEPT ![Len(w)] = merged]
        ELSE AppendChunk(w, result)

WindowAtFollowEnd == chunks # <<>> /\ LastOf(chunks).eof /\ LastOf(chunks).end = followEnd

----------------------------------------------------------------------------
(* Follow mode.                                                              *)

SchedulePoll == timer' = (following /\ ~hidden)
StopFollowing ==
    /\ following' = FALSE /\ paused' = FALSE /\ timer' = FALSE
    /\ UNCHANGED followEnd
Enqueue(rest, q) == queue' = Append(rest, q)

\* reloadTail: a jump to the end; while paused only the count of new lines changes.
ReloadTail(rest) ==
    IF paused
    THEN Enqueue(rest, Ask("tail", FromEnd, "jump", "reload")) /\ UNCHANGED windowVars
    ELSE /\ Enqueue(Older(rest), Ask("load", FromEnd, "jump", "reload"))
         /\ loading' = "jump" /\ failed' = FALSE /\ UNCHANGED chunks

\* What startFollow and reloadTail do after their load; `got`: it was answered.
Continues(q, got) ==
    IF q.then = "none" \/ ~following \/ ~q.ours
    THEN UNCHANGED <<following, paused, timer>> /\ queue' = Tail(queue)
    ELSE IF got THEN SchedulePoll /\ UNCHANGED <<following, paused>> /\ queue' = Tail(queue)
    ELSE following' = FALSE /\ paused' = FALSE /\ timer' = FALSE /\ queue' = Disowned(Tail(queue))

----------------------------------------------------------------------------
(* Answers.                                                                  *)

LoadAnswered(q, result) ==
    LET got == q.fresh /\ result.status = 200 IN
    /\ Continues(q, got)
    /\ loading' = IF q.fresh THEN "none" ELSE loading
    /\ failed'  = IF ~q.fresh THEN failed
                  ELSE result.status # 200 \/ (failed /\ q.kind \notin {"first", "jump"})
    /\ followEnd' = IF got /\ following /\ (\/ q.request.kind = "end"
                                            \/ q.kind = "next" /\ result.eof /\ result.end > followEnd)
                    THEN result.end ELSE followEnd
    /\ chunks' = IF ~got THEN chunks
                 ELSE CASE q.kind \in {"first", "jump"} -> ReplaceChunks(result)
                        [] q.kind = "next" -> AppendChunk(chunks, result)
                        [] q.kind = "prev" -> PrependChunk(chunks, result)

\* The request of reloadTail while paused.
TailAnswered(q, result) ==
    /\ UNCHANGED windowVars
    /\ Continues(q, result.status = 200)
    /\ followEnd' = IF following /\ q.ours /\ result.status = 200 THEN result.end ELSE followEnd

\* followDecision, for a poll that is still wanted.
Truncated(result) == result.size # Unknown /\ result.size < followEnd
News(result) == result.offset = followEnd /\ result.end > result.offset
\* More than a window is new: the tail is loaded instead of what is in between.
FarBehind(result) ==
    ~result.eof /\ result.size # Unknown /\ result.size - result.end > CatchUpBytes

PollAgain == SchedulePoll /\ UNCHANGED <<following, paused, followEnd, windowVars>> /\ queue' = Tail(queue)
\* Mutant: a poll that a jump has overtaken is dropped.
PollDropped ==
    UNCHANGED <<following, paused, followEnd, timer, windowVars>> /\ queue' = Tail(queue)
Overtaken == PollAgain
PollAnswered(q, result) ==
    IF ~following \/ ~q.ours
    THEN UNCHANGED <<followVars, windowVars>> /\ queue' = Tail(queue)
    ELSE IF ~q.fresh \/ q.request.at # followEnd THEN Overtaken
    ELSE IF result.status \in {400, 404}
         THEN StopFollowing /\ UNCHANGED windowVars /\ queue' = Disowned(Tail(queue))
    ELSE IF result.status # 200 THEN PollAgain
    ELSE IF Truncated(result) THEN ReloadTail(Tail(queue)) /\ UNCHANGED followVars
    ELSE IF ~News(result) THEN PollAgain
    ELSE IF FarBehind(result) THEN ReloadTail(Tail(queue)) /\ UNCHANGED followVars
    ELSE /\ followEnd' = result.end
         /\ UNCHANGED <<following, paused>>
         /\ IF ~WindowAtFollowEnd /\ ~paused
            THEN ReloadTail(Tail(queue)) /\ UNCHANGED timer
            ELSE /\ chunks' = IF WindowAtFollowEnd THEN AppendFollowChunk(chunks, result) ELSE chunks
                 /\ SchedulePoll
                 /\ queue' = Tail(queue)
                 /\ UNCHANGED <<loading, failed>>

Answered(result) ==
    /\ \/ Head(queue).for = "load" /\ LoadAnswered(Head(queue), result)
       \/ Head(queue).for = "tail" /\ TailAnswered(Head(queue), result)
       \/ Head(queue).for = "poll" /\ PollAnswered(Head(queue), result)
    /\ seen' = NotSeen
    /\ UNCHANGED <<fileVars, hidden, acts, raced>>

----------------------------------------------------------------------------
(* The server reads, or fails.                                               *)

Stat ==
    /\ queue # <<>> /\ seen = NotSeen /\ changes # "deleted"
    /\ seen' = IF store = "unsized" THEN Unknown ELSE Len(file)
    /\ UNCHANGED <<fileVars, windowVars, followVars, hidden, queue, boundVars>>
\* chunk_result takes what was read past the size for the end of the file and keeps all of it,
\* unless it follows the file.
PastSize(request, size, result) ==
    IF ~request.follow /\ result.end > size THEN {result.end} ELSE {}
\* The file is open, also when it is deleted.
ReadLocal ==
    /\ queue # <<>> /\ store = "local" /\ seen # NotSeen
    /\ \E data \in {LocalData(Head(queue).request, seen, file)} :
       \E result \in {ChunkResult(Head(queue).request, seen, data)} :
           /\ Answered(result)
           /\ outgrown' = outgrown \cup PastSize(Head(queue).request, seen, result)
    /\ UNCHANGED errors
Cat ==
    /\ queue # <<>> /\ store # "local" /\ seen # NotSeen
    /\ changes = "deleted" => ~NeedsCat(Head(queue).request, seen)
    /\ \E data \in {CloudData(Head(queue).request, seen, file)} :
       \E result \in {ChunkResult(Head(queue).request, seen, data)} : Answered(result)
    /\ UNCHANGED <<errors, outgrown>>
NotFound ==
    /\ queue # <<>> /\ changes = "deleted"
    /\ seen # NotSeen => store # "local" /\ NeedsCat(Head(queue).request, seen)
    /\ Answered(Failure(404))
    /\ UNCHANGED <<errors, outgrown>>
\* A timeout, or an answer that is lost.
RequestFails ==
    /\ queue # <<>> /\ errors < MaxErrors
    /\ Answered(Failure(504))
    /\ errors' = errors + 1 /\ UNCHANGED outgrown

----------------------------------------------------------------------------
(* The user.                                                                 *)

Acting ==
    /\ acts < MaxActs /\ acts' = acts + 1 /\ Len(queue) < MaxQueue
    /\ UNCHANGED <<fileVars, seen, errors, outgrown>>
Acts == Acting /\ UNCHANGED raced

\* The constructor and componentDidMount.
Open ==
    /\ chunks = <<>> /\ loading = "none" /\ ~failed
    /\ loading' = "first" /\ Enqueue(queue, Load("first", Forward(0), "none"))
    /\ UNCHANGED <<fileVars, chunks, failed, followVars, hidden, seen, boundVars>>

\* maybeLoad, when the viewport is near an end of the window.
MayLoad == chunks # <<>> /\ loading = "none" /\ ~failed /\ Len(queue) < MaxQueue
Scrolls(kind, request) ==
    /\ loading' = kind /\ Enqueue(queue, Load(kind, request, "none"))
    /\ UNCHANGED <<fileVars, chunks, failed, followVars, hidden, seen, boundVars>>
LoadNext ==
    /\ MayLoad /\ ~LastOf(chunks).eof /\ ~(following /\ LastOf(chunks).end = followEnd)
    /\ Scrolls("next", Forward(LastOf(chunks).end))
LoadPrevious ==
    /\ MayLoad /\ ~chunks[1].bof /\ (following => paused)
    /\ Scrolls("prev", Before(chunks[1].offset))

Jumps(request, pending, then) ==
    /\ Enqueue(Older(pending), Load("jump", request, then))
    /\ loading' = "jump" /\ failed' = FALSE /\ UNCHANGED chunks
JumpToTop ==
    /\ Acts /\ Jumps(Forward(0), queue, "none")
    /\ paused' = following
    /\ UNCHANGED <<following, followEnd, timer, hidden>>
ToBottom ==
    /\ Jumps(FromEnd, queue, "none")
    /\ paused' = FALSE
    /\ UNCHANGED <<following, followEnd, timer, hidden>>
JumpToBottom == Acts /\ ToBottom

StartFollow ==
    /\ Acts /\ ~following
    /\ following' = TRUE /\ paused' = FALSE
    /\ IF chunks # <<>> /\ LastOf(chunks).eof /\ ~failed /\ loading = "none"
       THEN /\ followEnd' = LastOf(chunks).end /\ timer' = ~hidden
            /\ queue' = Disowned(queue) /\ UNCHANGED windowVars
       ELSE /\ followEnd' = None /\ Jumps(FromEnd, Disowned(queue), "start")
            /\ UNCHANGED timer
    /\ UNCHANGED hidden
StopFollow ==
    /\ Acts /\ following
    /\ StopFollowing /\ queue' = Disowned(queue)
    /\ UNCHANGED <<windowVars, hidden>>

\* Scrolling up, or a key.
Pause ==
    /\ Acts /\ following /\ ~paused
    /\ paused' = TRUE
    /\ UNCHANGED <<following, followEnd, timer, windowVars, hidden, queue>>
\* `raced`: a load or the tail is on its way, which will make the window another one.
Unpauses ==
    /\ paused' = FALSE
    /\ raced' = (raced \/ loading # "none" \/ \E i \in DOMAIN queue : queue[i].for = "tail")
    /\ UNCHANGED <<following, followEnd, timer, windowVars, hidden, queue>>
\* Scrolling back down to the newest line; and the button, which does not look whether
\* something is loading.
ScrollDown == Acting /\ paused /\ WindowAtFollowEnd /\ loading = "none" /\ Unpauses
Resume ==
    /\ Acting /\ paused
    /\ IF WindowAtFollowEnd THEN Unpauses ELSE ToBottom /\ UNCHANGED raced

Visibility ==
    /\ Acts
    /\ hidden' = ~hidden
    /\ timer' = (hidden /\ following)
    /\ UNCHANGED <<following, paused, followEnd, windowVars, queue>>

\* The timer: a poll that finds another request on its way waits for it.
Poll ==
    /\ timer /\ following /\ loading = "none" /\ queue = <<>> /\ followEnd # None
    /\ timer' = FALSE
    /\ Enqueue(queue, Ask("poll", FollowFrom(followEnd), "none", "none"))
    /\ UNCHANGED <<fileVars, windowVars, following, paused, followEnd, hidden, seen, boundVars>>
\* After an hour without activity.
PollIdle ==
    /\ timer /\ following
    /\ StopFollowing /\ queue' = Disowned(queue)
    /\ UNCHANGED <<fileVars, windowVars, hidden, seen, boundVars>>

----------------------------------------------------------------------------
(* The writer of the file.                                                   *)

Write ==
    /\ changes # "deleted" /\ written < Len(Pieces)
    /\ file' = file \o Pieces[written + 1] /\ written' = written + 1
    /\ UNCHANGED <<store, changes, windowVars, followVars, hidden, queue, seen, boundVars>>
Truncate ==
    /\ changes = "appended" /\ file' = <<>> /\ changes' = "truncated"
    /\ UNCHANGED <<written, store, windowVars, followVars, hidden, queue, seen, boundVars>>
Delete ==
    /\ changes # "deleted" /\ changes' = "deleted"
    /\ UNCHANGED <<file, written, store, windowVars, followVars, hidden, queue, seen, boundVars>>

AnswerRequest == ReadLocal \/ Stat \/ Cat \/ NotFound
ServerStep == AnswerRequest \/ RequestFails
UserStep ==
    \/ Open \/ LoadNext \/ LoadPrevious \/ JumpToTop \/ JumpToBottom \/ StartFollow \/ StopFollow
    \/ Pause \/ ScrollDown \/ Resume \/ Visibility \/ Poll \/ PollIdle
FileStep == Write \/ Truncate \/ Delete
ViewNext == ServerStep \/ UserStep \/ FileStep
ViewSpec == ViewInit /\ [][ViewNext]_viewVars

\* Requests are answered; and a poll that waits for a free moment, every half second, gets one:
\* nobody scrolls from one load into the next for ever.
ViewFairness == SF_viewVars(Poll) /\ WF_viewVars(AnswerRequest)

----------------------------------------------------------------------------
(* Properties.                                                               *)

\* As long as the file is only appended to, the window is a contiguous part of it and starts
\* and ends with whole characters, however jumps, scrolling and polls overtake each other and
\* the file grows between the size and the bytes of a read (viewerChunks.js:5,
\* file_view.py:217).  But where a local file grew by more than a chunk has room for, between
\* fstat and pread, the chunk may end within a character, and the next one starts there.
WindowIsTrue ==
    changes = "appended" => \A i \in DOMAIN chunks :
        LET c == chunks[i] IN
        /\ c.text = Bytes(file, c.offset, c.end - c.offset) /\ Len(c.text) = c.end - c.offset
        /\ i > 1 => c.offset = chunks[i - 1].end
        /\ \A edge \in {c.offset, c.end} \ outgrown : edge < Len(file) => file[edge + 1] # 0

\* A viewer that follows a file gets to its last complete line, and shows it unless it is
\* paused, whatever failed, was truncated or overtaken before; following ends rather than
\* stalls.  Two exceptions: that a cloud file of unknown size was truncated is not noticed;
\* and unpausing while a load is on its way that moves the window away from the end leaves it
\* there until the file grows (FileViewerDialog.jsx:423, :548).
LastLine == IF Positions(file, NL) = {} THEN 0 ELSE Max(Positions(file, NL))
CaughtUp ==
    /\ followEnd \in LastLine..Len(file)
    /\ ~paused /\ ~raced => chunks # <<>> /\ LastOf(chunks).end = followEnd
FollowCatchesUp ==
    []<>(following /\ ~hidden /\ (store = "unsized" => changes = "appended") => CaughtUp)
=============================================================================
