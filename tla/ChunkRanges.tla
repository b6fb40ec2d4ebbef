------------------------------ MODULE ChunkRanges ------------------------------
(***************************************************************************)
(* The arithmetic of chunks: six places of the code cut an image into      *)
(* pieces, each with its own formula for their number, where a piece       *)
(* starts and how long the last one is.  A job goes through the pieces in  *)
(* their order and records which bytes of the image went where.            *)
(***************************************************************************)
EXTENDS Integers, Sequences

CONSTANTS
  Kinds,        \* the jobs to look at, of
                \*   "push"  client: a chunk is cut, sent and written in place
                \*   "pull"  client: the hub cuts, the client concatenates
                \*   "ask"   one request for a piece, of any index
                \*   "put"   hub: one file to S3 in parts
                \*   "move"  hub: an S3 object copied in ranges
                \*   "write" hub: a received file to the storage
  ChunkSizes,   \* the sizes of a chunk, in bytes
  MaxPieces,    \* bound: chunks of an image
  Missing,      \* bytes the stored object may lack of what its row says
  Buffer,       \* what one Read of the storage asks for (32 KiB in io.Copy)
  Word          \* 2^64 of the code's uint64: conversions wrap there

\* What the constants must be; the module that takes an instance assumes it.
ConstantsOK ==
  /\ Kinds \subseteq {"push", "pull", "ask", "put", "move", "write"}
  /\ ChunkSizes \subseteq Nat \ {0, 1} /\ MaxPieces \in Nat \ {0}
  /\ Missing \subseteq Nat /\ Buffer \in Nat \ {0} /\ Word \in Nat
  /\ \A c \in ChunkSizes : (MaxPieces + 2) * c + 1 < Word \div 2

VARIABLES
  job,          \* what is done: it never changes
  idx,          \* the piece at work
  piece,        \* pull, ask: the answer to the request of it
  pieces,       \* the pieces handed over so far
  result        \* "none" while it goes on, then "ok" or "error"

vars == <<job, idx, piece, pieces, result>>

-----------------------------------------------------------------------------

\* The sizes at which an off-by-one shows: full chunks, one byte less or more.
Sizes(chunk) == {k * chunk + d : k \in 1 .. MaxPieces, d \in {-1, 0, 1}}

Least(a, b)    == IF a < b THEN a ELSE b
Ceil(a, b)     == (a + b - 1) \div b

\* Bytes `from` up to `to`, without it, of the image, at byte `at` of what is
\* put together.
Range(at, from, to) == [at |-> at, from |-> from, to |-> to]
Length(p)      == p.to - p.from
End            == IF pieces = << >> THEN 0
                  ELSE LET p == pieces[Len(pieces)] IN p.at + Length(p)

\* How humanize.Bytes writes a number of bytes and ParseBytes reads it again:
\* a thousand and more come in a decimal unit, with one digit after the point
\* when they are less than ten of it, else with none.
Unit(s)        == IF s < 1000 THEN 1 ELSE IF s < 1000000 THEN 1000 ELSE 1000000
HalfToEven(t)  == IF t % 10 > 5 \/ (t % 10 = 5 /\ (t \div 10) % 2 = 1)
                  THEN t \div 10 + 1 ELSE t \div 10
Humanized(s)   ==
  LET u == Unit(s)
      tenths == (s + u \div 20) \div (u \div 10)
  IN IF s < 1000 THEN s
     ELSE IF tenths < 100 THEN tenths * (u \div 10)
     ELSE HalfToEven(tenths) * u

\* What the hub understands of the chunk size the client asks it with.
AskedSize(chunk) == Humanized(chunk)

Unsigned(n)    == n % Word
Signed(n)      == IF n >= Word \div 2 THEN n - Word ELSE n

-----------------------------------------------------------------------------
(* The pieces of a job.                                                    *)

\* Client, downloadWithChunk and StartUploadImageChunk; hub, sliceNum.
SliceNum_Floor(size, chunk) == size \div chunk + 1
SliceNum(size, chunk) == Ceil(size, chunk)

Count(j) ==
  CASE j.kind = "ask"  -> 1
    [] j.kind = "move" -> LET n == j.size \div j.chunk
                          IN IF j.size > n * j.chunk THEN n + 1 ELSE n
    [] OTHER           -> SliceNum(j.size, j.chunk)

\* UploadImageChunk of the client: seek and limit; the hub writes at
\* Idx * ChunkSize.
PushPiece(j, i) == Range(i * j.chunk, i * j.chunk, Least((i + 1) * j.chunk, j.size))

\* PutWithChunk: a section, the last one cut to the size, and parts that S3
\* puts one after the other.
PutPiece_LastFull(j, i) == Range(End, i * j.chunk, (i + 1) * j.chunk)
PutPiece(j, i) ==
  LET offset == i * j.chunk
  IN Range(End, offset,
           offset + (IF i = Count(j) - 1 THEN j.size - offset ELSE j.chunk))

\* Move: the ranges of UploadPartCopy name their last byte.
MovePiece(j, i) ==
  LET startRange == i * j.chunk
      stopRange  == IF i = Count(j) - 1 THEN j.size - 1
                    ELSE (i + 1) * j.chunk - 1
  IN Range(End, startRange, stopRange + 1)

\* writeSingleFileWithChunk: a section of the file received, written in place.
WritePiece_IdxPlusOne(j, i) ==
  LET curSize == IF i = Count(j) - 1 THEN j.size - (i + 1) * j.chunk ELSE j.chunk
  IN Range(i * j.chunk, i * j.chunk, i * j.chunk + curSize)
WritePiece(j, i) ==
  LET curSize == IF i = Count(j) - 1 THEN j.size - i * j.chunk ELSE j.chunk
  IN Range(i * j.chunk, i * j.chunk, i * j.chunk + curSize)

\* DownloadImageChunk of the hub: where it reads from and how many bytes it
\* declares.  What is left of the image is an unsigned difference, and a
\* length beyond the signed range is no header at all and no byte is read.
Refused_Signed(j, i) == i > SliceNum(j.size, AskedSize(j.chunk))
Refused(j, i) == Unsigned(i) > SliceNum(j.size, AskedSize(j.chunk))
Served_NotCut(j, i) ==
  [offset |-> i * AskedSize(j.chunk), limit |-> AskedSize(j.chunk), read |-> 0]
Served(j, i) ==
  LET chunkSize == AskedSize(j.chunk)
      offset    == i * chunkSize
      content   == IF offset + chunkSize > j.size
                   THEN Signed(Unsigned(j.size - offset)) ELSE chunkSize
  IN [offset |-> offset, limit |-> IF content < 0 THEN 0 ELSE content, read |-> 0]

NoPiece == [offset |-> 0, limit |-> 0, read |-> 0]

-----------------------------------------------------------------------------
(* Going through them.  `stored` is the length of the object the storage   *)
(* holds: of a pull it may be less than the row says.                      *)

Job(kind, chunk, size, stored, first) ==
  [kind |-> kind, chunk |-> chunk, size |-> size, stored |-> stored, first |-> first]

Pulls == Kinds \cap {"pull"}
Asks  == Kinds \cap {"ask"}

Init ==
  /\ \/ \E k \in Kinds \ {"pull", "ask"}, c \in ChunkSizes : \E s \in Sizes(c) :
          job = Job(k, c, s, s, 0)
     \/ \E k \in Pulls, c \in ChunkSizes, m \in Missing : \E s \in Sizes(c) :
          m <= s /\ job = Job(k, c, s, s - m, 0)
     \/ \E k \in Asks, c \in ChunkSizes : \E s \in Sizes(c) :
          \E i \in -1 .. MaxPieces + 2 : job = Job(k, c, s, s, i)
  /\ idx = job.first /\ piece = NoPiece /\ pieces = << >> /\ result = "none"

Pieces == job.first .. job.first + Count(job) - 1

Append1(p) == /\ pieces' = Append(pieces, p)
              /\ idx' = idx + 1
              /\ UNCHANGED <<job, piece, result>>

\* The loops of PutWithChunk, Move, writeSingleFileWithChunk and of a push.
Cut ==
  /\ result = "none" /\ idx \in Pieces
  /\ \/ job.kind = "push"  /\ Append1(PushPiece(job, idx))
     \/ job.kind = "put"   /\ Append1(PutPiece(job, idx))
     \/ job.kind = "move"  /\ Append1(MovePiece(job, idx))
     \/ job.kind = "write" /\ Append1(WritePiece(job, idx))

\* A request for a piece: out of range, or the head of an answer.
Ask ==
  /\ result = "none" /\ idx \in Pieces /\ piece = NoPiece
  /\ job.kind \in {"pull", "ask"}
  /\ \/ /\ Refused(job, idx) /\ result' = "error"
        /\ UNCHANGED <<job, idx, piece, pieces>>
     \/ /\ ~Refused(job, idx) /\ piece' = Served(job, idx)
        /\ UNCHANGED <<job, idx, pieces, result>>

\* io.Copy over the LimitReader: s3ReaderCloser.Read asks S3 for the range of
\* one buffer, gets what the object has of it, and goes on behind it.
Wanted     == Least(Buffer, piece.limit - piece.read)
Place_NotAdvanced == piece.offset
Place      == piece.offset + piece.read
InObject   == Place < job.stored
Read ==
  /\ piece # NoPiece /\ result = "none" /\ Wanted > 0 /\ InObject
  /\ LET to == Least(Place + Wanted, job.stored) IN
       /\ pieces' = Append(pieces, Range(End, Place, to))
       /\ piece'  = [piece EXCEPT !.read = @ + (to - Place)]
  /\ UNCHANGED <<job, idx, result>>

\* The answer has ended: nothing is left to read or S3 said InvalidRange.  The
\* client compares what came with the length declared.
Answered   == piece.read = piece.limit
NextPiece ==
  /\ piece # NoPiece /\ result = "none" /\ (Wanted = 0 \/ ~InObject)
  /\ result' = IF Answered THEN "none" ELSE "error"
  /\ piece' = NoPiece /\ idx' = idx + 1
  /\ UNCHANGED <<job, pieces>>

Done ==
  /\ result = "none" /\ idx \notin Pieces
  /\ result' = "ok"
  /\ UNCHANGED <<job, idx, piece, pieces>>

Next == Cut \/ Ask \/ Read \/ NextPiece \/ Done

Spec == Init /\ [][Next]_vars

-----------------------------------------------------------------------------
(* Properties.                                                             *)

\* The pieces are ranges of the image, as many as the job has.
TypeOK ==
  /\ idx \in -1 .. 2 * MaxPieces + 4
  /\ \A n \in DOMAIN pieces :
       LET p == pieces[n] IN p.at \in Nat /\ p.from \in Nat /\ p.to \in p.from .. Word
  /\ result \in {"none", "ok", "error"}

\* A job that succeeds has handed over the image from its first byte to its
\* last, every byte once and at its own place, whichever formula cut it and
\* whatever the sizes: the number of pieces, their offsets and the length of
\* the last one agree, also between the client's count and the hub's offsets.
Tiles ==
  /\ pieces # << >> /\ End = job.size
  /\ \A n \in DOMAIN pieces :
       /\ pieces[n].at = pieces[n].from
       /\ n > 1 => pieces[n].from = pieces[n - 1].to
\* And no piece is empty: S3 would refuse the range or the part (s3.go:125-177
\* and 290-303), and a chunk of no byte would be one more upload.
WholeImage ==
  /\ \A n \in DOMAIN pieces : Length(pieces[n]) > 0
  /\ result = "ok" /\ job.kind # "ask" => Tiles

\* A request for a slice gets bytes of that slice of the image and no others,
\* in their order, whatever index it names: the one behind the last slice gets
\* nothing, and a negative one is taken for a huge one and refused.
SliceOfImage ==
  LET first == job.first * AskedSize(job.chunk) IN
  job.kind = "ask" =>
    \A n \in DOMAIN pieces :
      /\ pieces[n].from = first + pieces[n].at /\ pieces[n].from \in Nat
      /\ pieces[n].to <= Least(first + AskedSize(job.chunk), job.size)

\* A pull from a hub whose object is the row's succeeds, when the hub
\* understands the size of a chunk as the client means it: no request of the
\* client is out of the hub's range and every answer is as long as declared.
PullSucceeds ==
  job.kind = "pull" /\ job.stored = job.size => result # "error"

\* Both: what the hub serves is what was asked for.
SlicesServed == SliceOfImage /\ PullSucceeds
===============================================================================
