----------------------------- MODULE MCTransfers -----------------------------
(***************************************************************************)
(* The two commands of the client that move an image, for TLC: a behaviour *)
(* is one push (ClientPush) or a row of pulls (ClientStore) or, at the     *)
(* level of bytes, one of the jobs that cut an image into pieces           *)
(* (ChunkRanges).  What the commands share is the hub, and each of the     *)
(* modules lets the hub do whatever it may do to the command: one at a     *)
(* time is enough.                                                         *)
(***************************************************************************)
EXTENDS ClientPush

CONSTANTS
  Commands,     \* the commands to look at, of "push", "pull", "cut"
  Versions, Size, Threshold, ChunkLen, None, Returning, Budget,  \* ClientStore
  Jobs, ChunkSizes, MaxPieces, Missing, Buffer, Word             \* ChunkRanges

VARIABLES
  command,      \* which of the commands this behaviour is
  hubVersion, file, record, chunkFiles, slice,                   \* ClientStore
  pullPc, policy, digest, announced, body, todo, failed, left,
  job, idx, piece, pieces, result                                \* ChunkRanges

Store  == INSTANCE ClientStore WITH hub <- hubVersion, pieces <- chunkFiles, pc <- pullPc
Ranges == INSTANCE ChunkRanges WITH Kinds <- Jobs

ASSUME TransfersAssumption ==
  /\ Commands \subseteq {"push", "pull", "cut"}
  /\ Store!ConstantsOK /\ Ranges!ConstantsOK

pullVars == <<hubVersion, file, record, chunkFiles, slice, pullPc, policy,
              digest, announced, body, todo, failed, left>>
cutVars  == <<job, idx, piece, pieces, result>>
TransferVars == <<command, vars, pullVars, cutVars>>

\* What is not run stays in one initial state.
TransferInit ==
  /\ command \in Commands
  /\ Init /\ Store!Init /\ Ranges!Init
  /\ command # "push" => kind = "chunks"
  /\ command # "cut"  => job = [kind |-> "push", chunk |-> 5, size |-> 5, stored |-> 5, first |-> 0]

Pushing == command = "push" /\ UNCHANGED <<command, pullVars, cutVars>>
Pulling == command = "pull" /\ UNCHANGED <<command, vars, cutVars>>
Cutting == command = "cut"  /\ UNCHANGED <<command, vars, pullVars>>

TransferNext ==
  \/ Pushing /\ Next
  \/ Pulling /\ Store!Next
  \/ Cutting /\ Ranges!Next

\* The fairness of the modules, of the command that is run.
TransferSpec ==
  /\ TransferInit /\ [][TransferNext]_TransferVars
  /\ WF_TransferVars(Pushing /\ Caller)
  /\ \A i \in Chunks : WF_TransferVars(Pushing /\ Goroutine(i))
  /\ WF_TransferVars(Pulling /\ Store!Step)
  /\ \A i \in Store!Indices : WF_TransferVars(Pulling /\ Store!Worker(i))

\* Two images in two chunks, of which the second ends earlier, and a small one.
ThreeSizes == <<4, 3, 1>>

Faults == [crash |-> 1, fail |-> 1, remove |-> 1, pull |-> 3]
Calm   == [crash |-> 0, fail |-> 0, remove |-> 0, pull |-> 2]

-----------------------------------------------------------------------------
(* The properties of the modules, of the command that is run; those of       *)
(* ClientPush are there already.                                             *)

\* Every state of a push, of pulls and of cutting is well typed.
TypesOK == TypeOK /\ Store!TypeOK /\ Ranges!TypeOK

\* Every push returns and its goroutines end, and every pull comes to an end,
\* whatever is lost or fails, also for good.
TransfersEnd == (command = "push" => PushReturns) /\ Store!PullEnds

\* A metadata record never tells of an image file that is not there.
RecordHasFile == Store!RecordHasFile

\* The file of a pull that succeeds is the one that the record and img.Digest
\* describe, after any crash or broken answer before it.
PullReturnsRecorded == Store!PullReturnsRecorded

\* "check digest again" (client/image/image.go): the file of a pull that
\* succeeds is the one that the hub announced.
PulledIsAnnounced == Store!PulledIsAnnounced

\* A job that succeeds has handed over every byte once and in its place, and
\* no part, range or chunk is empty.
WholeImage == Ranges!WholeImage

\* A request for a slice gets bytes of that slice only, whatever its index, and
\* no request of a pull is out of the hub's range.
SlicesServed == Ranges!SlicesServed
=============================================================================
