----------------------------- MODULE TaskQueue -----------------------------
(***************************************************************************)
(* What the thread pool of src/cgi_async.c promises to the code that uses  *)
(* it (include/async/cgi_async.h), without threads, locks or pipes: tasks  *)
(* are numbered in the order they are accepted, they begin in that order,  *)
(* at most Workers of them run at once, each runs exactly once, and the    *)
(* pool closes only after every accepted task has run.                     *)
(***************************************************************************)
EXTENDS Naturals

CONSTANTS
    Workers,   \* how many tasks may run at the same time
    MaxTasks   \* bound on the number of accepted tasks

VARIABLES
    submitted, \* tasks 1..submitted have been accepted
    begun,     \* tasks 1..begun have been taken out of the queue
    finished,  \* the tasks that have run to completion
    closed     \* the pool has been destroyed

vars == <<submitted, begun, finished, closed>>

Running == (1..begun) \ finished

\* The tasks in S can run at once, each on a worker of its own.
Fits(S) ==
    \E worker \in [S -> 1..Workers] :
        \A i, j \in S : worker[i] = worker[j] => i = j

Init ==
    /\ submitted = 0
    /\ begun = 0
    /\ finished = {}
    /\ closed = FALSE

Submit ==
    /\ ~closed
    /\ submitted < MaxTasks
    /\ submitted' = submitted + 1
    /\ UNCHANGED <<begun, finished, closed>>

\* The queue is first in, first out: the next task to begin is begun + 1.
Begin ==
    /\ begun < submitted
    /\ Fits(Running \cup {begun + 1})
    /\ begun' = begun + 1
    /\ UNCHANGED <<submitted, finished, closed>>

Finish(t) ==
    /\ t \in Running
    /\ finished' = finished \cup {t}
    /\ UNCHANGED <<submitted, begun, closed>>

Close ==
    /\ finished = 1..submitted
    /\ closed' = TRUE
    /\ UNCHANGED <<submitted, begun, finished>>

Next ==
    \/ Submit
    \/ Begin
    \/ \E t \in 1..MaxTasks : Finish(t)
    \/ Close

Safety == Init /\ [][Next]_vars

\* A queued task begins and a running task ends; nobody has to submit or close.
Spec ==
    /\ Safety
    /\ WF_vars(Begin)
    /\ \A t \in 1..MaxTasks : WF_vars(Finish(t))
=============================================================================
