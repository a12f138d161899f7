----------------------------- MODULE ChunkedFile -----------------------------
(***************************************************************************)
(* The ChunkedFile object of a sending node (chunked-file.cpp/.h): a file  *)
(* cut into segments of chunk_size bytes, the last one shorter.  The       *)
(* object is a record, each method an operator on it.  The content of the  *)
(* file is abstracted to its checksum and the positions of its bytes.      *)
(***************************************************************************)
EXTENDS Integers

\* Contents: what the stream f may be open on.
ChunkState(Contents) ==
    [file : Contents, size : Int, total : Int,
     chunk : Nat, failed : BOOLEAN]

\* size / chunk_size segments, and one more for an incomplete last one.
CeilDiv(size, chunk) ==
    (size \div chunk) + (IF size % chunk # 0 THEN 1 ELSE 0)

\* The stream is on `file' now: on no file at all, a failure, unless it opens.
Opened(c, file, opens) == [c EXCEPT !.file = file, !.failed = ~opens]

\* An empty or missing file (size <= 0) leaves the stream and total_segments
\* of the file opened before; one that does not open only the stream.
OpenFile(c, file, size, chunk, opens) ==
    LET sized == [c EXCEPT !.chunk = chunk, !.size = size]
    IN  IF size <= 0 THEN [sized EXCEPT !.failed = TRUE]
        ELSE Opened([sized EXCEPT !.total = CeilDiv(size, chunk)], file, opens)

\* segment_count chunks of size / segment_count bytes, one more if bytes are
\* left over.  The code divides by the chunk size: see DividesByZero.
OpenFileWithSegmentCount(c, file, size, count, opens) ==
    LET chunk == size \div count
        total == IF size % chunk # 0 THEN count + 1 ELSE count
    IN  IF count < 0 THEN c
        ELSE IF size <= 0 THEN [c EXCEPT !.size = size, !.failed = TRUE]
        ELSE Opened([c EXCEPT !.size = size, !.chunk = chunk, !.total = total], file, opens)

\* The call above has no defined outcome: count or size / count is zero.
DividesByZero(size, count) ==
    /\ size > 0 /\ count >= 0
    /\ count = 0 \/ size < count

\* get: which calls return true, and the first byte and the number of bytes.
CanGet(c, id)        == ~c.failed /\ id >= 0 /\ id < c.total
SegmentStart(c, id)  == id * c.chunk
SegmentLength(c, id) == LET rest == c.size - SegmentStart(c, id)
                        IN  IF rest > c.chunk THEN c.chunk ELSE rest
=============================================================================
