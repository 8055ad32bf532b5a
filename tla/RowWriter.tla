----------------------------- MODULE RowWriter -----------------------------
(***************************************************************************)
(* What ca_async_writer.hpp promises the contingency loop: blocks reach    *)
(* the file one by one and in the order they were written, whether the     *)
(* call to write() puts them there or somebody does so later, and a closed *)
(* writer owes nothing.                                                    *)
(***************************************************************************)
EXTENDS Naturals, Sequences

VARIABLES out,       \* the blocks in the file
          pending,   \* the blocks that write() took and the file has not got
          closed

vars == <<out, pending, closed>>

NextBlock == Len(out) + Len(pending) + 1

Init == out = <<>> /\ pending = <<>> /\ closed = FALSE

WriteThrough ==
  /\ ~ closed /\ pending = <<>>
  /\ out' = Append(out, NextBlock)
  /\ UNCHANGED <<pending, closed>>

WriteLater ==
  /\ ~ closed
  /\ pending' = Append(pending, NextBlock)
  /\ UNCHANGED <<out, closed>>

Flush ==
  /\ pending # <<>>
  /\ out' = Append(out, Head(pending))
  /\ pending' = Tail(pending)
  /\ UNCHANGED closed

Close ==
  /\ pending = <<>>
  /\ closed' = TRUE
  /\ UNCHANGED <<out, pending>>

Next == WriteThrough \/ WriteLater \/ Flush \/ Close

Spec == Init /\ [][Next]_vars

=============================================================================
