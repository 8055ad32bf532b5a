--------------------------- MODULE AsyncRowWriter ---------------------------
(***************************************************************************)
(* AsyncRowWriter of the contingency analysis                              *)
(* (src/src/applications/contingency_analysis/ca_async_writer.hpp): the    *)
(* contingency loop (the producer) hands over formatted blocks of rows; a  *)
(* background thread (the consumer) waits on a condition variable, swaps   *)
(* the queue for an empty one and writes the blocks without the lock.      *)
(*                                                                         *)
(* A step is what happens under one hold of p_mtx, one notify_one, or the  *)
(* writing of one block.  A block is its number in the order of the calls; *)
(* write() returns at once for an empty block, which is no step at all.    *)
(* Standard C++: notify_one wakes a thread that is waiting and is lost if  *)
(* none is; a waiting thread may wake spuriously.                          *)
(*                                                                         *)
(* Initial states, steps and specification are named after the writer, so  *)
(* that one module can extend this one and the driver that uses it.        *)
(***************************************************************************)
EXTENDS Naturals, Sequences

CONSTANT MaxBlocks   \* bound: non-empty blocks written

ASSUME MaxBlocksAssumption == MaxBlocks \in Nat

VARIABLES
  async,    \* p_async
  caller,   \* the producer: where it is in open, write and close
  wpc,      \* the consumer: where it is in p_run
  queue,    \* p_queue
  local,    \* the consumer's deque, without the blocks it has written
  stop,     \* p_stop
  open,     \* p_file.is_open()
  out,      \* what the file holds
  wrote,    \* p_wrote
  calls     \* the number of non-empty blocks write() was called with

writerVars == <<async, caller, wpc, queue, local, stop, open, out, wrote, calls>>

WriterInit ==
  /\ async = FALSE
  /\ caller = "new"
  /\ wpc = "none"
  /\ queue = <<>>
  /\ local = <<>>
  /\ stop = FALSE
  /\ open = FALSE
  /\ out = <<>>
  /\ wrote = FALSE
  /\ calls = 0

-----------------------------------------------------------------------------
(* Plausible bugs, for the mutants. *)

(* Nobody is woken up. *)
NotifyNobody == UNCHANGED wpc

(* close() joins without a notification. *)
NotifyStopNot ==
  /\ caller = "stopnotify"
  /\ caller' = "join"
  /\ UNCHANGED <<async, wpc, queue, local, stop, open, out, wrote, calls>>

(* p_ensureFile() and p_file << block: the file is created by the first    *)
(* block that is written to it.                                            *)
PutBlock(b) ==
  /\ open' = TRUE
  /\ out' = Append(out, b)
  /\ wrote' = TRUE

(* open(path, a) *)
Open(a) ==
  /\ caller = "new"
  /\ async' = a
  /\ stop' = FALSE
  /\ wpc' = IF a THEN "wait" ELSE "none"
  /\ caller' = "run"
  /\ UNCHANGED <<queue, local, open, out, wrote, calls>>

(* write(block), synchronous mode *)
WriteSync ==
  /\ caller = "run"
  /\ ~ async
  /\ calls < MaxBlocks
  /\ calls' = calls + 1
  /\ PutBlock(calls + 1)
  /\ UNCHANGED <<async, caller, wpc, queue, local, stop>>

(* write(block), asynchronous mode: push_back under the lock ... *)
Push ==
  /\ caller = "run"
  /\ async
  /\ calls < MaxBlocks
  /\ calls' = calls + 1
  /\ queue' = Append(queue, calls + 1)
  /\ caller' = "notify"
  /\ UNCHANGED <<async, wpc, local, stop, open, out, wrote>>

(* notify_one: a waiting consumer goes back to test its predicate. *)
NotifyOne == wpc' = IF wpc = "asleep" THEN "wait" ELSE wpc

(* ... then notify_one without it. *)
Notify ==
  /\ caller = "notify"
  /\ NotifyOne
  /\ caller' = "run"
  /\ UNCHANGED <<async, queue, local, stop, open, out, wrote, calls>>

(* close(), synchronous mode: no thread was started. *)
CloseSync ==
  /\ caller = "run"
  /\ ~ async
  /\ open' = FALSE
  /\ caller' = "closed"
  /\ UNCHANGED <<async, wpc, queue, local, stop, out, wrote, calls>>

(* close(), asynchronous mode: p_stop under the lock, notify_one, join.    *)
RequestStop ==
  /\ caller = "run"
  /\ async
  /\ stop' = TRUE
  /\ caller' = "stopnotify"
  /\ UNCHANGED <<async, wpc, queue, local, open, out, wrote, calls>>

NotifyStop ==
  /\ caller = "stopnotify"
  /\ NotifyOne
  /\ caller' = "join"
  /\ UNCHANGED <<async, queue, local, stop, open, out, wrote, calls>>

Join ==
  /\ caller = "join"
  /\ wpc = "done"
  /\ open' = FALSE
  /\ caller' = "closed"
  /\ UNCHANGED <<async, wpc, queue, local, stop, out, wrote, calls>>

-----------------------------------------------------------------------------
(* p_cv.wait: the predicate is false, the lock is given up. *)
Sleep ==
  /\ wpc = "wait"
  /\ ~ stop
  /\ queue = <<>>
  /\ wpc' = "asleep"
  /\ UNCHANGED <<async, caller, queue, local, stop, open, out, wrote, calls>>

SpuriousWakeup ==
  /\ wpc = "asleep"
  /\ wpc' = "wait"
  /\ UNCHANGED <<async, caller, queue, local, stop, open, out, wrote, calls>>

(* The predicate is true: local.swap(p_queue). *)
Swap ==
  /\ wpc = "wait"
  /\ stop \/ queue # <<>>
  /\ local' = queue
  /\ queue' = <<>>
  /\ wpc' = "drain"
  /\ UNCHANGED <<async, caller, stop, open, out, wrote, calls>>

(* Plausible bugs: the newest block first; p_stop alone ends the thread. *)
DrainLast ==
  /\ wpc = "drain"
  /\ local # <<>>
  /\ PutBlock(local[Len(local)])
  /\ local' = SubSeq(local, 1, Len(local) - 1)
  /\ UNCHANGED <<async, caller, wpc, queue, stop, calls>>

CheckExitStop ==
  /\ wpc = "check"
  /\ wpc' = IF stop THEN "done" ELSE "wait"
  /\ UNCHANGED <<async, caller, queue, local, stop, open, out, wrote, calls>>

(* The loop over local, without the lock. *)
DrainOne ==
  /\ wpc = "drain"
  /\ local # <<>>
  /\ PutBlock(Head(local))
  /\ local' = Tail(local)
  /\ UNCHANGED <<async, caller, wpc, queue, stop, calls>>

DrainEnd ==
  /\ wpc = "drain"
  /\ local = <<>>
  /\ wpc' = "check"
  /\ UNCHANGED <<async, caller, queue, local, stop, open, out, wrote, calls>>

(* "Exit only after draining everything the producer enqueued." *)
CheckExit ==
  /\ wpc = "check"
  /\ wpc' = IF stop /\ queue = <<>> THEN "done" ELSE "wait"
  /\ UNCHANGED <<async, caller, queue, local, stop, open, out, wrote, calls>>

-----------------------------------------------------------------------------
Producer ==
  \/ \E a \in BOOLEAN : Open(a)
  \/ WriteSync \/ Push \/ Notify
  \/ CloseSync \/ RequestStop \/ NotifyStop \/ Join

Consumer == Sleep \/ Swap \/ DrainOne \/ DrainEnd \/ CheckExit

WriterClosed == caller = "closed" /\ UNCHANGED writerVars

WriterNext == Producer \/ Consumer \/ SpuriousWakeup \/ WriterClosed

WriterSpec == WriterInit /\ [][WriterNext]_writerVars

(* Both threads get to run.  Nothing is asked of spurious wake-ups.        *)
FairWriterSpec == WriterSpec /\ WF_writerVars(Producer) /\ WF_writerVars(Consumer)

-----------------------------------------------------------------------------
Block == 1 .. MaxBlocks

TypeOK ==
  /\ async \in BOOLEAN
  /\ caller \in {"new", "run", "notify", "stopnotify", "join", "closed"}
  /\ wpc \in {"none", "wait", "asleep", "drain", "check", "done"}
  /\ queue \in Seq(Block)
  /\ local \in Seq(Block)
  /\ stop \in BOOLEAN
  /\ open \in BOOLEAN
  /\ out \in Seq(Block)
  /\ wrote \in BOOLEAN
  /\ calls \in 0 .. MaxBlocks

(* "the bytes are IDENTICAL to the synchronous path": the file, the blocks *)
(* the consumer has taken and the queue are together the blocks in the     *)
(* order of the calls; none is lost, doubled or overtaken.                 *)
Written == [i \in 1 .. calls |-> i]

InOrder == out \o local \o queue = Written

(* close() returns only when the file holds everything, and the file       *)
(* exists only if there was something to write.                            *)
ClosedIsComplete ==
  caller = "closed" => out = Written /\ (wrote <=> calls > 0)

(* A consumer that sleeps although there is work is about to be notified:  *)
(* no wake-up is lost between the predicate and the wait.                  *)
NoLostWakeup ==
  (wpc = "asleep" /\ (stop \/ queue # <<>>)) => caller \in {"notify", "stopnotify"}

(* Every block gets to the file, and close() comes back. *)
Closes == <>(caller = "closed")

(* The writer in either mode is a RowWriter. *)
Rows == INSTANCE RowWriter
          WITH pending <- local \o queue, closed <- (caller = "closed")

ImplementsRowWriter == Rows!Spec

=============================================================================
