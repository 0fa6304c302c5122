------------------------------- MODULE FileView -------------------------------
(* The chunks of a text file that the server reads for the viewer                *)
(* (utils/file_view.py, view_chunk of rclone_connection.py and                  *)
(* local_connection.py).  A byte is 0 for a UTF-8 continuation byte, n for the   *)
(* first byte of a character of n bytes, and NL for a newline; decoding and the  *)
(* check that the file is text are left out.                                    *)
EXTENDS Integers, Sequences, FiniteSetsExt

CONSTANT ChunkBytes   \* CHUNK_BYTES, the length of every request of the viewer

NL == 5
Unknown == -1         \* None: the size of a file of some cloud backends

Positions(data, b) == {i \in DOMAIN data : data[i] = b}
Larger(m, n) == IF m > n THEN m ELSE n
\* data[:n] and data[start:], where a negative start counts from the end.
First(data, n) == SubSeq(data, 1, n)
From(data, start) == SubSeq(data, 1 + (IF start < 0 THEN Larger(0, Len(data) + start) ELSE start), Len(data))

IncompleteTail(data) ==
    LET leads == {i \in DOMAIN data : data[i] # 0 /\ Len(data) - i < 4}
        back  == Len(data) - Max(leads) + 1
    IN  IF leads # {} /\ data[Max(leads)] # NL /\ data[Max(leads)] > back THEN back ELSE 0
ContinuationHead(data) ==
    Max({n \in 0..3 : n =< Len(data) /\ \A i \in 1..n : data[i] = 0})

AlignForward(data, atEof) ==
    LET newlines == Positions(data, NL)
        keep     == Len(data) - IncompleteTail(data)
    IN  IF atEof \/ data = <<>> THEN Len(data)
        ELSE IF newlines # {} THEN Max(newlines)
        ELSE IF keep > 0 THEN keep ELSE Len(data)
AlignCompleteLines(data) ==
    LET newlines == Positions(data, NL)
    IN  IF newlines # {} THEN Max(newlines)
        ELSE IF Len(data) >= ChunkBytes THEN AlignForward(data, FALSE) ELSE 0
\* Mutant: in the middle of a long line it may start within a character.
AlignAnywhere(data, dataStart, lo) ==
    LET newlines == Positions(data, NL)
    IN  IF lo > 0 /\ newlines # {} /\ Min(newlines) < Len(data) THEN dataStart + Min(newlines) ELSE lo
\* Where a chunk starts that was read backward: `lo` is dataStart, or the byte after it.
AlignBackward(data, dataStart, lo) ==
    LET newlines == Positions(data, NL)
        skip     == lo - dataStart
        start    == skip + ContinuationHead(From(data, skip))
    IN  IF lo =< 0 THEN 0
        ELSE IF newlines # {} /\ Min(newlines) < Len(data) THEN dataStart + Min(newlines)
        ELSE IF start >= Len(data) THEN lo ELSE dataStart + start

----------------------------------------------------------------------------
(* Requests and answers.                                                     *)

Forward(at)     == [kind |-> "offset", at |-> at, follow |-> FALSE]
FollowFrom(at)  == [kind |-> "offset", at |-> at, follow |-> TRUE]
Before(at)      == [kind |-> "before", at |-> at, follow |-> FALSE]
FromEnd         == [kind |-> "end", at |-> 0, follow |-> FALSE]
Backward(r)     == r.kind # "offset"

Failure(status) == [status |-> status, offset |-> 0, end |-> 0, size |-> 0, bof |-> FALSE,
                    eof |-> FALSE, text |-> <<>>]
Chunk(start, end, text, size, eof) ==
    [status |-> 200, offset |-> start, end |-> end, size |-> size,
     bof |-> start = 0, eof |-> eof, text |-> text]

\* read_range, with a tail's start resolved for the size that was seen.
ReadStart(r, size) ==
    CASE r.kind = "offset" -> r.at
      [] r.kind = "before" -> Larger(0, Larger(0, r.at - ChunkBytes) - 1)
      [] r.kind = "end"    -> Larger(0, size - (ChunkBytes + 1))
ReadCount(r, size) ==
    CASE r.kind = "offset" -> ChunkBytes
      [] r.kind = "before" -> r.at - ReadStart(r, size)
      [] r.kind = "end"    -> ChunkBytes + 1
Bytes(file, start, count) == SubSeq(file, start + 1, IF start + count < Len(file) THEN start + count ELSE Len(file))

ForwardResult(r, seen, data) ==
    LET size  == IF seen # Unknown /\ data # <<>> THEN Larger(seen, r.at + Len(data)) ELSE seen
        atEof == IF size # Unknown THEN r.at + Len(data) >= size ELSE Len(data) < ChunkBytes
        keep  == IF r.follow /\ atEof THEN AlignCompleteLines(data) ELSE AlignForward(data, atEof)
        known == IF size = Unknown /\ atEof THEN r.at + Len(data) ELSE size
    IN  Chunk(r.at, r.at + keep, First(data, keep), known,
              IF r.follow THEN atEof ELSE known # Unknown /\ r.at + keep >= known)
BackwardResult(r, seen, data) ==
    LET dataStart == ReadStart(r, seen)
        end   == dataStart + Len(data)
        size  == IF data # <<>> THEN Larger(seen, end) ELSE seen
        start == AlignBackward(data, dataStart, Larger(0, end - ChunkBytes))
    IN  Chunk(start, end, From(data, start - dataStart), size, end >= size)

\* A file of unknown size is only read forward.
RefusesStat(r, seen) == Backward(r) /\ (seen = Unknown \/ (r.kind = "before" /\ r.at > seen))
\* chunk_result: `data` was read after the size was seen.
ChunkResult(r, seen, data) ==
    LET beyond == seen # Unknown /\ r.kind # "end" /\ r.at > seen
    IN  IF RefusesStat(r, seen) \/ (beyond /\ ~r.follow) THEN Failure(400)
        ELSE IF beyond \/ (~Backward(r) /\ seen = r.at /\ data = <<>>) THEN Chunk(seen, seen, <<>>, seen, TRUE)
        ELSE IF Backward(r) THEN BackwardResult(r, seen, data)
        ELSE ForwardResult(r, seen, data)

\* The reader process: nothing from the size on that it saw; else what is there by now, also
\* beyond that size.
LocalData(r, seen, file) ==
    IF ReadStart(r, seen) >= seen THEN <<>> ELSE Bytes(file, ReadStart(r, seen), ReadCount(r, seen))
\* `rclone cat`, if it is needed, of the file that is there after the size was seen.
NeedsCat(r, seen) == seen = Unknown \/ Backward(r) \/ r.at < seen
CloudData(r, seen, file) ==
    LET count == ReadCount(r, seen)
        room  == IF seen = Unknown THEN count ELSE seen - ReadStart(r, seen)
    IN  IF NeedsCat(r, seen) THEN Bytes(file, ReadStart(r, seen), IF count < room THEN count ELSE room)
        ELSE <<>>
=============================================================================
