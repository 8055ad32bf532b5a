----------------------------- MODULE FlatOutput -----------------------------
(***************************************************************************)
(* How the csv_flat rows of all ranks come into one file (ca_driver.cpp),  *)
(* over several executions with the same outputFile, any of which may be   *)
(* killed.  There are three ways:                                          *)
(*   "shared"    rank 0 creates the file, all ranks append blocks to it;   *)
(*   "parts"     a .part file per rank, which rank 0 concatenates at the   *)
(*               end and removes (csv_delta works like this too);          *)
(*   "buffered"  the blocks stay in memory, and every rank writes them at  *)
(*               its own offset at the end.                                *)
(* A block, the rows of one case, is a sequence of Pieces cells; a cell    *)
(* says which execution, rank and case it is of.  Inside AsyncRowWriter    *)
(* and the stream it owns a block waits in "pending": AsyncRowWriter.tla   *)
(* has the detail of that and shows that its blocks come out in order.     *)
(*                                                                         *)
(* A rank claims a wave of cases, solves what it can of them as a batch    *)
(* and then runs them one after the other, first those the batch retained  *)
(* and then the others, so that their blocks need not come in the order    *)
(* of the case numbers.  A wave of one is also the loop without batches.   *)
(***************************************************************************)
EXTENDS Integers, Sequences, FiniteSets, Functions

CONSTANTS
  MaxRanks,   \* the largest world communicator
  NCases,     \* contingencies; case 0 is the base case
  MaxRuns,    \* executions, at least 1
  Modes,      \* the settings tried
  WaveSizes,  \* the sizes of a wave tried, see below
  Pieces      \* cells of a block, at least 1

ASSUME FlatAssumption ==
  /\ MaxRanks \in Nat \ {0} /\ MaxRuns \in Nat \ {0} /\ Pieces \in Nat \ {0}
  /\ NCases \in Nat
  /\ Modes \subseteq {"shared", "parts", "buffered"} /\ Modes # {}
  /\ WaveSizes \subseteq Nat \ {0} /\ WaveSizes # {}

Case == 0 .. NCases

VARIABLES
  run,       \* which execution it is
  mode,      \* sharedFlatFile and bufferFlatOutput of this execution
  size,      \* world.size()
  whole,     \* does the file system append a block in one piece?
  waveSize,  \* batchWaveSize, or 1 without batches
  pc,        \* of each rank
  nextId,    \* the counter of the task manager
  myTasks,   \* the cases of its wave that each rank has not run yet
  retained,  \* those of them that have a state in the batch
  opened,    \* the ranks whose stream is open
  pending,   \* blocks handed to the writer and not in the file, as cells
  memory,    \* flatMemory, as cells
  written,   \* how much of flatMemory is in the file
  part,      \* rank 0: the part file it reads next
  flat,      \* <outputFile>_flat.csv, <<>> if there is none
  parts,     \* the .part files there are, by rank
  wrote      \* the cases of which each rank wrote a block, in that order
             \* (history)

volatile ==
  <<opened, pending, memory, written, part, nextId, myTasks, retained, wrote>>
vars == <<run, mode, size, whole, waveSize, pc, volatile, flat, parts>>

Rank == 0 .. (size - 1)
AllRanks == 0 .. (MaxRanks - 1)

Header == [run |-> run, rank |-> 0, case |-> -1, piece |-> 0]
Hole == [run |-> 0, rank |-> 0, case |-> -1, piece |-> 0]
Block(e, r, c) == [i \in 1 .. Pieces |-> [run |-> e, rank |-> r, case |-> c, piece |-> i]]

FirstStep(m, s) == [r \in AllRanks |-> IF r >= s THEN "absent"
                                       ELSE IF m = "shared" THEN "create" ELSE "base"]
NoCells == [r \in AllRanks |-> <<>>]
NoCases == [r \in AllRanks |-> {}]

(* Whether an append is torn matters where several ranks append; a rank's  *)
(* own file is taken to grow cell by cell.                                 *)
AppendsWhole(m) == IF m = "shared" THEN BOOLEAN ELSE {FALSE}

Init ==
  /\ run = 1
  /\ mode \in Modes /\ size \in 1 .. MaxRanks /\ whole \in AppendsWhole(mode)
  /\ waveSize \in WaveSizes
  /\ pc = FirstStep(mode, size)
  /\ nextId = 1 /\ part = 0 /\ opened = {}
  /\ myTasks = NoCases /\ retained = NoCases
  /\ pending = NoCells /\ memory = NoCells /\ wrote = NoCells
  /\ written = [r \in AllRanks |-> 0]
  /\ flat = <<>>
  /\ parts = [r \in {} |-> <<>>]

Goto(r, label) == pc' = [pc EXCEPT ![r] = label]
AllAt(label) == \A r \in Rank : pc[r] = label
AllGoto(label) == pc' = [r \in AllRanks |-> IF r \in Rank THEN label ELSE pc[r]]

-----------------------------------------------------------------------------
(* Plausible bugs, for the mutants. *)

(* A part file is opened to be appended to. *)
OpenPartAppends(r) ==
  parts' = IF r \in DOMAIN parts THEN parts
           ELSE [p \in DOMAIN parts \cup {r} |-> IF p = r THEN <<>> ELSE parts[p]]

(* A part file stays after it has been read. *)
RemovePartNot(p) == UNCHANGED parts

(* The second half of what waits goes first. *)
TakeFromLast(r, n) ==
  /\ pending' = [pending EXCEPT ![r] = SubSeq(@, 1, Len(@) - n)]

(* close() does not wait for the writer. *)
DrainedAlways(r) == TRUE

(* A missing part file is waited for. *)
SkipPartNever == FALSE

-----------------------------------------------------------------------------
(* Before the loop. *)

(* Rank 0 creates the shared file with its header; nobody appends before   *)
(* all ranks have come to world.sync().                                    *)
Create(r) ==
  /\ pc[r] = "create"
  /\ flat' = IF r = 0 THEN <<Header>> ELSE flat
  /\ Goto(r, "created")
  /\ UNCHANGED <<run, mode, size, whole, waveSize, volatile, parts>>

SyncCreated ==
  /\ AllAt("created") /\ AllGoto("base")
  /\ UNCHANGED <<run, mode, size, whole, waveSize, volatile, flat, parts>>

-----------------------------------------------------------------------------
(* The loop. *)

(* writeFlatBlock: the block of case c, to memory or to the writer.        *)
WriteFlatBlock(r, c) ==
  /\ wrote' = [wrote EXCEPT ![r] = Append(@, c)]
  /\ IF mode = "buffered"
     THEN memory' = [memory EXCEPT ![r] = @ \o Block(run, r, c)] /\ UNCHANGED pending
     ELSE pending' = [pending EXCEPT ![r] = @ \o Block(run, r, c)] /\ UNCHANGED memory

(* A case that did not converge, or all of whose branches are filtered     *)
(* out, has no block.                                                      *)
CaptureFlatRows(r, c) == WriteFlatBlock(r, c) \/ UNCHANGED <<wrote, memory, pending>>

(* All ranks solve the base case and rank 0 emits it. *)
Base(r) ==
  /\ pc[r] = "base"
  /\ IF r = 0 THEN CaptureFlatRows(r, 0) ELSE UNCHANGED <<wrote, memory, pending>>
  /\ Goto(r, "loop")
  /\ UNCHANGED <<run, mode, size, whole, waveSize, nextId, myTasks, retained,
                 opened, written, part, flat, parts>>

(* A rank asks for the cases of its wave one by one, while others do too.  *)
ClaimTask(r) ==
  /\ pc[r] = "loop" /\ nextId <= NCases /\ Cardinality(myTasks[r]) < waveSize
  /\ nextId' = nextId + 1
  /\ myTasks' = [myTasks EXCEPT ![r] = @ \cup {nextId}]
  /\ UNCHANGED <<run, mode, size, whole, waveSize, pc, opened, pending,
                 memory, written, part, retained, flat, parts, wrote>>

(* The batch takes some of the cases of a wave, none if it fails. *)
SolveWave(r) ==
  /\ pc[r] = "loop" /\ myTasks[r] # {}
  /\ Cardinality(myTasks[r]) = waveSize \/ nextId > NCases
  /\ \E R \in SUBSET myTasks[r] : retained' = [retained EXCEPT ![r] = R]
  /\ Goto(r, "emit")
  /\ UNCHANGED <<run, mode, size, whole, waveSize, opened, pending, memory,
                 written, part, nextId, myTasks, flat, parts, wrote>>

(* The retained cases come first, each kind in the order of the claims.    *)
Upcoming(r) ==
  LET S == IF retained[r] # {} THEN retained[r] ELSE myTasks[r]
  IN  {c \in S : \A d \in S : c <= d}

RunCase(r, c) ==
  /\ pc[r] = "emit"
  /\ CaptureFlatRows(r, c)
  /\ myTasks' = [myTasks EXCEPT ![r] = @ \ {c}]
  /\ retained' = [retained EXCEPT ![r] = @ \ {c}]
  /\ Goto(r, IF myTasks[r] = {c} THEN "loop" ELSE "emit")
  /\ UNCHANGED <<run, mode, size, whole, waveSize, nextId, opened, written,
                 part, flat, parts>>

LoopDone(r) ==
  /\ pc[r] = "loop" /\ nextId > NCases /\ myTasks[r] = {}
  /\ Goto(r, IF mode = "buffered" THEN "gather" ELSE "close")
  /\ UNCHANGED <<run, mode, size, whole, waveSize, volatile, flat, parts>>

-----------------------------------------------------------------------------
(* The writer of a rank: the file is opened for the first block, at the    *)
(* write() itself or later by the background thread.                       *)

OpenPart(r) == parts' = [p \in DOMAIN parts \cup {r} |-> IF p = r THEN <<>> ELSE parts[p]]

EnsureFile(r) ==
  /\ pc[r] \in {"loop", "emit", "close"} /\ pending[r] # <<>> /\ r \notin opened
  /\ opened' = opened \cup {r}
  /\ IF mode = "parts" THEN OpenPart(r) ELSE UNCHANGED parts
  /\ UNCHANGED <<run, mode, size, whole, waveSize, pc, nextId, myTasks,
                 retained, pending, memory, written, part, flat, wrote>>

TakeFrom(r, n) == pending' = [pending EXCEPT ![r] = SubSeq(@, n + 1, Len(@))]

(* One write to the file: a block, or what the library and the file system *)
(* make of it.                                                             *)
Flush(r) ==
  LET n == IF whole THEN Pieces ELSE 1
      cells == SubSeq(pending[r], 1, n)
  IN  /\ pc[r] \in {"loop", "emit", "close"} /\ pending[r] # <<>> /\ r \in opened
      /\ TakeFrom(r, n)
      /\ IF mode = "parts"
         THEN parts' = [parts EXCEPT ![r] = @ \o cells] /\ UNCHANGED flat
         ELSE flat' = flat \o cells /\ UNCHANGED parts
      /\ UNCHANGED <<run, mode, size, whole, waveSize, pc, nextId, myTasks,
                     retained, opened, memory, written, part, wrote>>

Drained(r) == pending[r] = <<>>

Close(r) ==
  /\ pc[r] = "close" /\ Drained(r)
  /\ opened' = opened \ {r}
  /\ Goto(r, "closed")
  /\ UNCHANGED <<run, mode, size, whole, waveSize, nextId, myTasks, retained,
                 pending, memory, written, part, flat, parts, wrote>>

-----------------------------------------------------------------------------
(* Buffered output. *)

(* The number of cells in the memories of the ranks in S. *)
Bytes(S) == Cardinality(UNION {{p} \X DOMAIN memory[p] : p \in S})

(* What precedes the blocks of r: the header and the lower ranks. *)
OffsetOf(r) == 1 + Bytes(0 .. (r - 1))

(* MPI_Allgather of the sizes, MPI_File_open without truncation and        *)
(* MPI_File_set_size, all collective.                                      *)
SetSize ==
  LET n == 1 + Bytes(Rank)
  IN  /\ AllAt("gather") /\ AllGoto("header")
      /\ flat' = [i \in 1 .. n |-> IF i <= Len(flat) THEN flat[i] ELSE Hole]
      /\ UNCHANGED <<run, mode, size, whole, waveSize, volatile, parts>>

WriteHeader(r) ==
  /\ pc[r] = "header"
  /\ flat' = IF r = 0 THEN [flat EXCEPT ![1] = Header] ELSE flat
  /\ Goto(r, "written")
  /\ UNCHANGED <<run, mode, size, whole, waveSize, volatile, parts>>

SyncHeader ==
  /\ AllAt("written") /\ AllGoto("write")
  /\ UNCHANGED <<run, mode, size, whole, waveSize, volatile, flat, parts>>

(* MPI_File_write_at, in chunks; other ranks write at the same time. *)
WriteAt(r) ==
  /\ pc[r] = "write" /\ written[r] < Len(memory[r])
  /\ written' = [written EXCEPT ![r] = @ + 1]
  /\ flat' = [flat EXCEPT ![OffsetOf(r) + written[r] + 1] = memory[r][written[r] + 1]]
  /\ UNCHANGED <<run, mode, size, whole, waveSize, pc, nextId, myTasks,
                 retained, opened, pending, memory, part, parts, wrote>>

CloseFile(r) ==
  /\ pc[r] = "write" /\ written[r] = Len(memory[r])
  /\ Goto(r, "closed")
  /\ UNCHANGED <<run, mode, size, whole, waveSize, volatile, flat, parts>>

-----------------------------------------------------------------------------
(* After the loop: world.sync(), and rank 0 merges. *)

SyncClosed ==
  /\ AllAt("closed")
  /\ pc' = [r \in AllRanks |-> IF r \notin Rank THEN pc[r]
                               ELSE IF r = 0 /\ mode = "parts" THEN "merge" ELSE "done"]
  /\ flat' = IF mode = "parts" THEN <<Header>> ELSE flat
  /\ UNCHANGED <<run, mode, size, whole, waveSize, volatile, parts>>

RemovePart(p) == parts' = Restrict(parts, DOMAIN parts \ {p})

(* The next part file, whichever execution it is of. *)
ConcatPart ==
  /\ pc[0] = "merge" /\ part < size /\ part \in DOMAIN parts
  /\ flat' = flat \o parts[part]
  /\ RemovePart(part)
  /\ part' = part + 1
  /\ UNCHANGED <<run, mode, size, whole, waveSize, pc, nextId, myTasks,
                 retained, opened, pending, memory, written, wrote>>

NoSuchPart == part \notin DOMAIN parts

SkipPart ==
  /\ pc[0] = "merge" /\ part < size /\ NoSuchPart
  /\ part' = part + 1
  /\ UNCHANGED <<run, mode, size, whole, waveSize, pc, nextId, myTasks,
                 retained, opened, pending, memory, written, flat, parts,
                 wrote>>

Merged ==
  /\ pc[0] = "merge" /\ part = size
  /\ Goto(0, "done")
  /\ UNCHANGED <<run, mode, size, whole, waveSize, volatile, flat, parts>>

-----------------------------------------------------------------------------
Finished == AllAt("done")

(* The job is killed, or has ended, and another one with the same prefix   *)
(* is started.  What was not in a file is lost.                            *)
Rerun ==
  /\ run < MaxRuns
  /\ run' = run + 1
  /\ mode' \in Modes /\ size' \in 1 .. MaxRanks /\ whole' \in AppendsWhole(mode')
  /\ waveSize' \in WaveSizes
  /\ pc' = FirstStep(mode', size')
  /\ nextId' = 1 /\ part' = 0 /\ opened' = {}
  /\ myTasks' = NoCases /\ retained' = NoCases
  /\ pending' = NoCells /\ memory' = NoCells /\ wrote' = NoCells
  /\ written' = [r \in AllRanks |-> 0]
  /\ UNCHANGED <<flat, parts>>

Step(r) ==
  \/ Create(r) \/ Base(r) \/ LoopDone(r)
  \/ ClaimTask(r) \/ SolveWave(r) \/ (\E c \in Upcoming(r) : RunCase(r, c))
  \/ EnsureFile(r) \/ Flush(r) \/ Close(r)
  \/ WriteHeader(r) \/ WriteAt(r) \/ CloseFile(r)
  \/ (r = 0 /\ (ConcatPart \/ SkipPart \/ Merged))

Collective == SyncCreated \/ SetSize \/ SyncHeader \/ SyncClosed

Next ==
  \/ \E r \in Rank : Step(r)
  \/ Collective
  \/ Rerun
  \/ Finished /\ UNCHANGED vars

Spec == Init /\ [][Next]_vars

(* The ranks are processes of the operating system and their writers       *)
(* threads of it; a collective completes once all ranks have called it.    *)
(* Nothing makes anybody start another execution.  It is enough that       *)
(* somebody who can go on does: no rank has a step that it can repeat.     *)
Progress == (\E r \in Rank : Step(r)) \/ Collective
FairSpec == Spec /\ WF_vars(Progress)

-----------------------------------------------------------------------------
(* The places of the cells of rank r in s, of execution e. *)
Own(e, s, r) == {i \in DOMAIN s : s[i].run = e /\ s[i].rank = r /\ s[i].case # -1}

(* The order of such cells, when the rank wrote the cases in W one after   *)
(* the other.                                                              *)
Before(W, x, y) ==
  \/ \E k, l \in DOMAIN W : k < l /\ x.case = W[k] /\ y.case = W[l]
  \/ x.case = y.case /\ x.piece < y.piece

(* s has the blocks of the cases in W of rank r, each of them once and in  *)
(* the order in which the rank wrote them, among whatever else.            *)
Conveys(e, s, r, W) ==
  /\ {s[i] : i \in Own(e, s, r)} =
       {Block(e, r, W[k])[p] : k \in DOMAIN W, p \in 1 .. Pieces}
  /\ \A k, l \in DOMAIN W : k # l => W[k] # W[l]
  /\ \A i, j \in Own(e, s, r) : i < j => Before(W, s[i], s[j])

(* Every cell of execution e is followed by the next one of its block.     *)
Unbroken(e, s) ==
  \A i \in DOMAIN s :
    s[i].run = e /\ s[i].piece \in 1 .. (Pieces - 1) =>
      i < Len(s) /\ s[i + 1] = [s[i] EXCEPT !.piece = @ + 1]

(* When the job has ended its file begins with the header, and has every   *)
(* block that a rank wrote exactly once and in the order it wrote them,    *)
(* whatever was in the files before and however the ranks interleaved.     *)
EveryBlockOnce ==
  Finished =>
    /\ flat # <<>> /\ flat[1] = Header
    /\ \A r \in Rank : Conveys(run, flat, r, wrote[r])

(* No block of another rank comes between the rows of a block, except in a *)
(* shared file on a file system that tears appends.                        *)
BlocksWhole == Finished /\ (mode = "shared" => whole) => Unbroken(run, flat)

(* What an earlier execution left behind does not come into the file, with *)
(* one exception: the part file of a rank that has no block of its own in  *)
(* this execution, which is merged as if it were this one's.               *)
StaleOnlyFromIdle ==
  Finished =>
    \A i \in DOMAIN flat :
      flat[i].run # run => mode = "parts" /\ flat[i].run # 0 /\ wrote[flat[i].rank] = <<>>

(* An execution that ends leaves no part file of its own, and one that     *)
(* merges leaves none of any of its ranks.                                 *)
NoPartLeft ==
  Finished =>
    /\ mode = "parts" => DOMAIN parts \cap Rank = {}
    /\ \A p \in DOMAIN parts : \A i \in DOMAIN parts[p] : parts[p][i].run # run

(* Every execution that is not killed comes to its end. *)
Ends == <>[]Finished

=============================================================================
