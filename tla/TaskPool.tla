------------------------------ MODULE TaskPool ------------------------------
(***************************************************************************)
(* What the task manager promises its callers, without saying how: the     *)
(* user manual (Section 7, "Task Manager") has it that "all IDs are sent   *)
(* out once and only once", each to one caller, and that a new set of      *)
(* tasks is begun only when the old one is used up or was cancelled.       *)
(* A team is the set of processes that ask together.                       *)
(***************************************************************************)
EXTENDS Naturals

CONSTANTS Teams,       \* the teams that may ask for a task
          TaskCounts   \* the numbers of tasks a caller may set

VARIABLES n,        \* the number of tasks of the current set
          handed,   \* the pairs <<team, id>> handed out so far
          closed    \* has the current set been cancelled?

poolVars == <<n, handed, closed>>

HandedIds == {p[2] : p \in handed}

Init ==
  /\ n = 0
  /\ handed = {}
  /\ closed = FALSE

(* An id nobody has is given to one team. *)
HandOut(t, id) ==
  /\ ~ closed
  /\ \A p \in handed : p[2] # id
  /\ handed' = handed \cup {<<t, id>>}
  /\ UNCHANGED <<n, closed>>

Close ==
  /\ closed' = TRUE
  /\ UNCHANGED <<n, handed>>

(* The pool is refilled only when no id of the old set is left unserved.   *)
Refill(m) ==
  /\ closed \/ HandedIds = 0 .. (n - 1)
  /\ n' = m
  /\ handed' = {}
  /\ closed' = FALSE

Next ==
  \/ \E t \in Teams, id \in 0 .. (n - 1) : HandOut(t, id)
  \/ Close
  \/ \E m \in TaskCounts : Refill(m)

Spec == Init /\ [][Next]_poolVars

=============================================================================
