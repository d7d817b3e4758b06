---------------------------- MODULE AsyncProofs ----------------------------
(***************************************************************************)
(* Theorems about Async, for every value of its constants.                 *)
(*                                                                         *)
(* Control (program counters, run, count) is invariant by itself and is    *)
(* proved first.  Data (the linked lists against the task numbers) is then *)
(* inductive together with it: IInv.  What the wakeup pipe promises, and   *)
(* the refinement of TaskQueue, follow from IInv.                          *)
(***************************************************************************)
EXTENDS Async, TLAPS, FiniteSetTheorems

-----------------------------------------------------------------------------
(* Where the threads are, and what the flag and the counter say then. *)

PlacesOK ==
    /\ pc[Owner] \in OwnerPC
    /\ \A w \in Workers : pc[w] \in WorkerPC /\ ret[w] \in {"check", "exit"}
    /\ \A w \in Workers : pc[w] = "none" <=> w > count
    /\ pc[Owner] = "create" => count < Threads

RunOK ==
    /\ run <=> \/ pc[Owner] \in {"create", "run"}
               \/ pc[Owner] = "wake" /\ ret[Owner] = "run"
    /\ pc[Owner] = "wake" => ret[Owner] \in {"run", "signalled"}

\* The owner runs tasks, and frees the lists, only after the last worker.
JoinOK ==
    /\ pc[Owner] \in {"grab", "task"} => ret[Owner] = "destroy"
    /\ pc[Owner] \in {"grab", "task", "destroy", "gone"} =>
          \A w \in 1..count : pc[w] = "exit"

HoldOK == \A t \in Thread : cur[t] = NULL => pc[t] # "task"

Control == PlacesOK /\ RunOK /\ JoinOK /\ HoldOK

\* The state async_create starts from is well typed.
LEMMA InitTypes == Init => TypeOK
<1> SUFFICES ASSUME Init PROVE TypeOK
    OBVIOUS
<1>1. pc \in [Thread -> OwnerPC \cup WorkerPC]
    BY DEF Init, OwnerPC, WorkerPC
<1>2. /\ ret \in [Thread -> {"check", "exit", "destroy", "run", "signalled"}]
      /\ cur \in [Thread -> Node \cup {NULL}]
    BY DEF Init
<1>3. next \in [Node -> Node \cup {NULL}] /\ arg \in [Node -> 0..MaxTasks]
    BY TasksAssumption DEF Init
<1>4. /\ pipe \in 0..PipeCap
      /\ count \in 0..Threads
      /\ submitted \in 0..MaxTasks
      /\ begun \in 0..MaxTasks
    BY ThreadsAssumption, TasksAssumption, PipeAssumption DEF Init
<1>5. /\ alloc \subseteq Node
      /\ tasks \in Node \cup {NULL}
      /\ pool \in Node \cup {NULL}
      /\ pos \in Node \cup {NULL}
      /\ run \in BOOLEAN
      /\ failed \in BOOLEAN
      /\ finished \subseteq 0..MaxTasks
    BY DEF Init
<1>6. QED
    BY <1>1, <1>2, <1>3, <1>4, <1>5 DEF TypeOK

\* In it, every thread is where its role in async_create lets it be.
LEMMA InitControl == Init => Control
<1> SUFFICES ASSUME Init PROVE Control
    OBVIOUS
<1> USE ThreadsAssumption DEF Init, Thread, Workers, Owner
<1>1. PlacesOK
    BY DEF PlacesOK, OwnerPC, WorkerPC
<1>2. RunOK
    BY DEF RunOK
<1>3. JoinOK /\ HoldOK
    BY DEF JoinOK, HoldOK
<1>4. QED
    BY <1>1, <1>2, <1>3 DEF Control

\* Every step of a thread keeps the types; the control part of the invariant
\* says which values of ret and cur the step can meet.
LEMMA NextTypes == TypeOK /\ Control /\ [Next]_vars => TypeOK'
<1> SUFFICES ASSUME TypeOK, Control, [Next]_vars PROVE TypeOK'
    OBVIOUS
<1> USE ThreadsAssumption, TasksAssumption, PipeAssumption
    DEF TypeOK, Thread, Workers, Owner, OwnerPC, WorkerPC,
        heap, lists, threads, history
<1>1. CASE CreateThread
    BY <1>1 DEF CreateThread, Control, PlacesOK
<1>2. CASE CreateFails
    BY <1>2 DEF CreateFails
<1>3. ASSUME NEW c \in Node, Submit(c) PROVE TypeOK'
    <2>1. next' \in [Node -> Node \cup {NULL}]
        BY <1>3 DEF Submit, Link
    <2>2. arg' \in [Node -> 0..MaxTasks] /\ submitted' \in 0..MaxTasks
        BY <1>3 DEF Submit
    <2>3. alloc' \subseteq Node /\ pool' \in Node \cup {NULL}
        BY <1>3 DEF Submit
    <2>4. tasks' \in Node \cup {NULL} /\ pos' \in Node \cup {NULL}
        BY <1>3 DEF Submit, Link
    <2>5. /\ pc' \in [Thread -> OwnerPC \cup WorkerPC]
          /\ ret' \in [Thread -> {"check", "exit", "destroy", "run", "signalled"}]
        BY <1>3 DEF Submit
    <2>6. QED
        BY <1>3, <2>1, <2>2, <2>3, <2>4, <2>5 DEF Submit
<1>4. CASE Wake
    BY <1>4 DEF Wake, PipeAfter, Control, RunOK
<1>5. CASE SignalFlag
    BY <1>5 DEF SignalFlag
<1>6. CASE SignalBytes
    BY <1>6 DEF SignalBytes, PipeAfter
<1>7. CASE WaitBytes
    BY <1>7 DEF WaitBytes, PipeAfter
<1>8. CASE Join
    BY <1>8 DEF Join
<1>9. CASE Destroy
    BY <1>9 DEF Destroy
<1>10. ASSUME NEW w \in Workers, CheckRun(w) PROVE TypeOK'
    BY <1>10 DEF CheckRun
<1>11. ASSUME NEW w \in Workers, ReadByte(w) PROVE TypeOK'
    BY <1>11 DEF ReadByte
<1>12. ASSUME NEW t \in Thread, Grab(t) PROVE TypeOK'
    BY <1>12 DEF Grab, Recycle, Dequeue
<1>13. ASSUME NEW t \in Thread, Perform(t) PROVE TypeOK'
    BY <1>13 DEF Perform, Control, HoldOK
<1>14. CASE UNCHANGED vars
    BY <1>14 DEF vars
<1>15. QED
    BY <1>1, <1>2, <1>3, <1>4, <1>5, <1>6, <1>7, <1>8, <1>9, <1>10, <1>11,
       <1>12, <1>13, <1>14
    DEF Next, OwnerStep, WorkerStep, PoolStep, Terminated

\* Every step keeps the threads in their places: run, join and the containers
\* that threads hold agree with the program counters.
LEMMA NextControl == TypeOK /\ Control /\ [Next]_vars => Control'
<1> SUFFICES ASSUME TypeOK, Control, [Next]_vars PROVE Control'
    OBVIOUS
<1> USE ThreadsAssumption, NodeAssumption
    DEF Thread, Workers, Owner, heap, lists, threads, history,
        Control, PlacesOK, RunOK, JoinOK, HoldOK, OwnerPC, WorkerPC, TypeOK
<1>1. CASE CreateThread
    <2>1. /\ count' = count + 1
          /\ pc'[Owner] \in {"create", "run"}
          /\ pc'[Owner] = "create" => count + 1 < Threads
          /\ pc'[count + 1] = "check"
          /\ \A t \in Thread \ {Owner, count + 1} : pc'[t] = pc[t]
          /\ UNCHANGED <<run, ret, cur>>
        BY <1>1 DEF CreateThread
    <2>2. PlacesOK'
        <3>1. \A w \in Workers : pc'[w] = "none" <=> w > count'
            <4>1. TAKE w \in Workers
            <4>2. CASE w = count + 1
                BY <2>1, <4>2
            <4>3. CASE w # count + 1
                BY <2>1, <4>3
            <4>4. QED
                BY <4>2, <4>3
        <3>2. QED
            BY <2>1, <3>1
    <2>3. RunOK' /\ JoinOK' /\ HoldOK'
        BY <1>1, <2>1 DEF CreateThread
    <2>4. QED
        BY <2>2, <2>3
<1>2. CASE CreateFails
    BY <1>2 DEF CreateFails
<1>3. ASSUME NEW c \in Node, Submit(c) PROVE Control'
    BY <1>3 DEF Submit
<1>4. CASE Wake
    BY <1>4 DEF Wake
<1>5. CASE SignalFlag
    BY <1>5 DEF SignalFlag
<1>6. CASE SignalBytes
    BY <1>6 DEF SignalBytes
<1>7. CASE WaitBytes
    BY <1>7 DEF WaitBytes
<1>8. CASE Join
    BY <1>8 DEF Join
<1>9. CASE Destroy
    BY <1>9 DEF Destroy
<1>10. ASSUME NEW w \in Workers, CheckRun(w) PROVE Control'
    BY <1>10 DEF CheckRun
<1>11. ASSUME NEW w \in Workers, ReadByte(w) PROVE Control'
    BY <1>11 DEF ReadByte
<1>12. ASSUME NEW t \in Thread, Grab(t) PROVE Control'
    BY <1>12 DEF Grab
<1>13. ASSUME NEW t \in Thread, Perform(t) PROVE Control'
    BY <1>13 DEF Perform
<1>14. CASE UNCHANGED vars
    BY <1>14 DEF vars
<1>15. QED
    BY <1>1, <1>2, <1>3, <1>4, <1>5, <1>6, <1>7, <1>8, <1>9, <1>10, <1>11,
       <1>12, <1>13, <1>14
    DEF Next, OwnerStep, WorkerStep, PoolStep, Terminated

\* Types and control are invariant by themselves, whatever the lists hold.
LEMMA ControlInvariant == Safety => [](TypeOK /\ Control)
<1>1. Init => TypeOK /\ Control
    BY InitTypes, InitControl
<1>2. (TypeOK /\ Control) /\ [Next]_vars => (TypeOK /\ Control)'
    BY NextTypes, NextControl
<1>3. QED
    BY <1>1, <1>2, PTL DEF Safety

\* Type correctness of the pool, for every number of threads and tasks.
THEOREM TypeCorrect == Safety => []TypeOK
<1>1. TypeOK /\ Control => TypeOK
    OBVIOUS
<1>2. QED
    BY <1>1, ControlInvariant, PTL

-----------------------------------------------------------------------------
(* The linked lists: QueueShape and PoolShape, with what ties them to the    *)
(* containers the threads hold and to the task numbers.                      *)

IdsOK ==
    /\ begun <= submitted
    /\ \A n \in alloc : arg[n] \in 1..submitted

HeldOK ==
    /\ \A t \in Thread : cur[t] # NULL =>
          cur[t] \in alloc /\ arg[cur[t]] <= begun /\ pc[t] \in {"grab", "task"}
    /\ \A s, t \in Thread : cur[s] = cur[t] /\ cur[t] # NULL => s = t

Lists == IdsOK /\ HeldOK /\ QueueShape /\ PoolShape

\* Submitting moves one container, free or new, to the waiting ones.
LEMMA SubmitMoves ==
    ASSUME TypeOK, Lists, NEW c \in Node, Submit(c)
    PROVE  /\ c \notin Waiting \cup Held
           /\ alloc' = alloc \cup {c}
           /\ Waiting' = Waiting \cup {c}
           /\ Held' = Held
           /\ Free' = Free \ {c}
           /\ \A n \in alloc \ {c} : arg'[n] = arg[n]
           /\ arg'[c] = submitted + 1
<1> USE NodeAssumption DEF TypeOK, Lists, IdsOK
<1>1. c \notin Waiting \cup Held
    <2>1. CASE pool # NULL
        BY <2>1 DEF Submit, PoolShape, Free
    <2>2. CASE pool = NULL
        BY <2>2 DEF Submit, Waiting, Held, HeldOK
    <2>3. QED
        BY <2>1, <2>2
<1>2. alloc' = alloc \cup {c}
    BY DEF Submit, PoolShape, Free
<1>3. /\ \A n \in alloc \ {c} : arg'[n] = arg[n]
      /\ arg'[c] = submitted + 1
    BY DEF Submit
<1>4. Waiting' = Waiting \cup {c}
    BY <1>1, <1>2, <1>3 DEF Waiting, Submit
<1>5. Held' = Held
    BY DEF Held, Submit
<1>6. Free' = Free \ {c}
    BY <1>1, <1>2, <1>4, <1>5 DEF Free
<1>7. QED
    BY <1>1, <1>2, <1>3, <1>4, <1>5, <1>6

\* The critical section of perform_tasks moves the container the thread held
\* to the free ones, and the first waiting one into its hands.
LEMMA GrabMoves ==
    ASSUME TypeOK, Lists, NEW t \in Thread, Grab(t)
    PROVE  /\ alloc' = alloc /\ arg' = arg
           /\ tasks = NULL => Waiting' = Waiting
           /\ tasks # NULL => Waiting' = Waiting \ {tasks}
           /\ Held' = (Held \ {cur[t]}) \cup ({tasks} \ {NULL})
           /\ Free' = Free \cup ({cur[t]} \ {NULL})
           /\ cur[t] # NULL => cur[t] \notin Waiting \cup Free
<1> USE NodeAssumption DEF TypeOK, Lists, IdsOK
<1>1. alloc' = alloc /\ arg' = arg
    BY DEF Grab
<1>2. tasks = NULL => Waiting' = Waiting
    BY <1>1 DEF Grab, Waiting
<1>3. tasks # NULL => Waiting' = Waiting \ {tasks}
    <2>1. SUFFICES ASSUME tasks # NULL PROVE Waiting' = Waiting \ {tasks}
        OBVIOUS
    <2>2. begun' = begun + 1 /\ arg[tasks] = begun + 1 /\ tasks \in Waiting
        BY <2>1 DEF Grab, QueueShape
    <2>3. \A n \in Waiting : arg[n] = begun + 1 => n = tasks
        BY <2>2 DEF QueueShape
    <2>4. QED
        BY <1>1, <2>2, <2>3 DEF Waiting
<1>4. Held' = (Held \ {cur[t]}) \cup ({tasks} \ {NULL})
    <2>1. cur' = [cur EXCEPT ![t] = tasks]
        BY DEF Grab
    <2>2. \A s \in Thread \ {t} : cur[s] # NULL => cur[s] # cur[t]
        BY DEF HeldOK
    <2>3. QED
        BY <2>1, <2>2 DEF Held
<1>5. cur[t] # NULL => cur[t] \notin Waiting \cup Free
    BY DEF HeldOK, Waiting, Free, Held
<1>6. Free' = Free \cup ({cur[t]} \ {NULL})
    <2>1. cur[t] # NULL => cur[t] \in alloc /\ cur[t] \in Held
        BY DEF HeldOK, Held
    <2>2. tasks # NULL => tasks \in Waiting /\ tasks \notin Held
        BY DEF QueueShape, HeldOK, Held, Waiting
    <2>3. QED
        BY <1>1, <1>2, <1>3, <1>4, <1>5, <2>1, <2>2 DEF Free
<1>7. QED
    BY <1>1, <1>2, <1>3, <1>4, <1>5, <1>6

\* async_run (cgi_async.c:75-102) keeps the queue and the free list in shape.
LEMMA SubmitLists ==
    ASSUME TypeOK, Control, Lists, NEW c \in Node, Submit(c)
    PROVE  Lists'
<1>1. /\ c \notin Waiting \cup Held
      /\ alloc' = alloc \cup {c}
      /\ Waiting' = Waiting \cup {c}
      /\ Held' = Held
      /\ Free' = Free \ {c}
      /\ \A n \in alloc \ {c} : arg'[n] = arg[n]
      /\ arg'[c] = submitted + 1
    BY SubmitMoves
<1>2. /\ Waiting \subseteq alloc /\ Held \subseteq alloc /\ Free \subseteq alloc
      /\ Waiting \cap Free = {} /\ Held \cap Free = {}
    BY DEF Waiting, Held, Free, Lists, HeldOK
<1>3. IdsOK'
    BY <1>1 DEF Lists, IdsOK, Submit, TypeOK
<1>4. HeldOK'
    <2>1. cur' = cur /\ begun' = begun
        BY DEF Submit
    <2>2. ASSUME NEW t \in Thread, cur[t] # NULL
          PROVE  cur'[t] \in alloc' /\ arg'[cur'[t]] <= begun'
                 /\ pc'[t] \in {"grab", "task"}
        <3>1. cur[t] \in Held
            BY <2>2 DEF Held
        <3>2. t # Owner
            BY <2>2 DEF Lists, HeldOK, Submit
        <3>3. QED
            BY <1>1, <2>1, <2>2, <3>1, <3>2 DEF Lists, HeldOK, Submit, TypeOK
    <2>3. QED
        BY <2>1, <2>2 DEF Lists, HeldOK
<1>5. QueueShape'
    <2>1. submitted' = submitted + 1 /\ begun' = begun /\ pos' = c
        BY DEF Submit, Link
    <2>2. \A n \in Waiting : arg[n] <= submitted /\ arg'[n] = arg[n]
        BY <1>1, <1>2 DEF Lists, IdsOK
    <2>3. tasks = NULL => Waiting = {}
        BY <2>2, NodeAssumption DEF Lists, QueueShape, Waiting, IdsOK, TypeOK
    <2>4. \A n \in Waiting : n # pos => next'[n] = next[n] /\ arg[n] # submitted
        <3>1. TAKE n \in Waiting
        <3>2. HAVE n # pos
        <3>3. tasks # NULL /\ n \in Node /\ n # c
            BY <1>1, <1>2, <2>3 DEF TypeOK
        <3>4. next'[n] = next[n]
            BY <3>2, <3>3 DEF Submit, Link, TypeOK
        <3>5. arg[n] # submitted
            BY <3>2, <3>3 DEF Lists, QueueShape
        <3>6. QED
            BY <3>4, <3>5
    <2>5. tasks # NULL => /\ next'[c] = NULL
                          /\ next'[pos] = c
        <3>1. SUFFICES ASSUME tasks # NULL PROVE next'[c] = NULL /\ next'[pos] = c
            OBVIOUS
        <3>2. pos # c /\ pos \in Node
            BY <1>1, <1>2, <3>1 DEF Lists, QueueShape, TypeOK
        <3>3. QED
            BY <3>1, <3>2 DEF Submit, Link, TypeOK
    <2>6. tasks = NULL => next'[c] = NULL
        BY DEF Submit, Link, TypeOK
    <2>7. \A n \in Waiting' :
             IF arg'[n] = submitted'
             THEN next'[n] = NULL
             ELSE next'[n] \in Waiting' /\ arg'[next'[n]] = arg'[n] + 1
        <3>1. TAKE n \in Waiting'
        <3>2. CASE n = c
            BY <1>1, <2>1, <2>5, <2>6, <3>2
        <3>3. CASE n # c /\ n = pos
            <4>1. n \in Waiting /\ tasks # NULL
                BY <1>1, <2>3, <3>3
            <4>2. arg[n] = submitted
                BY <4>1, <3>3, <1>1 DEF Lists, QueueShape, Submit, Link, TypeOK
            <4>3. QED
                BY <1>1, <2>1, <2>2, <2>5, <3>3, <4>1, <4>2 DEF TypeOK
        <3>4. CASE n # c /\ n # pos
            <4>1. n \in Waiting /\ next'[n] = next[n] /\ arg[n] # submitted
                BY <1>1, <2>4, <3>4
            <4>2. next[n] \in Waiting /\ arg[next[n]] = arg[n] + 1
                BY <4>1 DEF Lists, QueueShape
            <4>3. QED
                BY <1>1, <2>1, <2>2, <4>1, <4>2 DEF TypeOK
        <3>5. QED
            BY <3>2, <3>3, <3>4
    <2>8. \A m, n \in Waiting' : arg'[m] = arg'[n] => m = n
        BY <1>1, <2>2 DEF Lists, QueueShape, TypeOK
    <2>9. /\ tasks' # NULL /\ begun' # submitted'
          /\ tasks' \in Waiting' /\ arg'[tasks'] = begun' + 1
          /\ pos' \in Waiting' /\ arg'[pos'] = submitted'
        <3>1. CASE tasks = NULL
            BY <1>1, <2>1, <3>1, NodeAssumption
            DEF Submit, Link, Lists, QueueShape, TypeOK
        <3>2. CASE tasks # NULL
            BY <1>1, <2>1, <2>2, <3>2
            DEF Submit, Link, Lists, QueueShape, IdsOK, TypeOK
        <3>3. QED
            BY <3>1, <3>2
    <2>10. QED
        BY <2>7, <2>8, <2>9 DEF QueueShape
<1>6. PoolShape'
    <2>1. \A n \in Free' : next'[n] = next[n]
        BY <1>1, <1>2 DEF Submit, Link, TypeOK, Lists, QueueShape
    <2>2. CASE pool = NULL
        BY <1>1, <1>2, <2>1, <2>2 DEF Submit, Lists, PoolShape
    <2>3. CASE pool # NULL
        <3>1. c = pool /\ pool' = next[c] /\ c \in Free
            BY <2>3 DEF Submit, Lists, PoolShape
        <3>2. pool' \in Free' \cup {NULL}
            BY <1>1, <3>1 DEF Lists, PoolShape
        <3>3. pool' = NULL <=> Free' = {}
            <4>1. CASE Free' = {}
                BY <3>2, <4>1
            <4>2. CASE Free' # {}
                <5>1. PICK n \in Free' : \E m \in Free \ Free' : next[m] = n
                    BY <1>1, <3>1, <4>2 DEF Lists, PoolShape
                <5>2. pool' = n
                    BY <1>1, <3>1, <5>1
                <5>3. QED
                    BY <1>1, <1>2, <5>2, NodeAssumption DEF TypeOK
            <4>3. QED
                BY <4>1, <4>2
        <3>4. \A n \in Free' : next'[n] \in (Free' \cup {NULL}) \ {pool'}
            BY <1>1, <2>1, <3>1 DEF Lists, PoolShape
        <3>5. \A m, n \in Free' : next'[m] = next'[n] => m = n
            BY <1>1, <2>1 DEF Lists, PoolShape
        <3>6. ASSUME NEW S \in SUBSET Free', S # {}
              PROVE  \E n \in S : n = pool' \/ \E m \in Free' \ S : next'[m] = n
            <4>1. PICK n \in S : n = pool \/ \E m \in Free \ S : next[m] = n
                BY <1>1, <3>6 DEF Lists, PoolShape
            <4>2. QED
                BY <1>1, <2>1, <3>1, <4>1
        <3>7. QED
            BY <3>2, <3>3, <3>4, <3>5, <3>6 DEF PoolShape
    <2>4. QED
        BY <2>2, <2>3
<1>7. QED
    BY <1>3, <1>4, <1>5, <1>6 DEF Lists

\* The critical section of perform_tasks (cgi_async.c:119-130) keeps the queue
\* and the free list in shape.
LEMMA GrabLists ==
    ASSUME TypeOK, Control, Lists, NEW t \in Thread, Grab(t)
    PROVE  Lists'
<1>1. /\ alloc' = alloc /\ arg' = arg
      /\ tasks = NULL => Waiting' = Waiting
      /\ tasks # NULL => Waiting' = Waiting \ {tasks}
      /\ Held' = (Held \ {cur[t]}) \cup ({tasks} \ {NULL})
      /\ Free' = Free \cup ({cur[t]} \ {NULL})
      /\ cur[t] # NULL => cur[t] \notin Waiting \cup Free
    BY GrabMoves
<1>2. /\ Waiting \subseteq alloc /\ Held \subseteq alloc /\ Free \subseteq alloc
      /\ Waiting \cap Free = {} /\ Held \cap Free = {} /\ Waiting \cap Held = {}
    BY DEF Waiting, Held, Free, Lists, HeldOK, IdsOK, TypeOK
<1>3. tasks # NULL => /\ begun' = begun + 1 /\ arg[tasks] = begun + 1
                      /\ tasks \in Waiting /\ begun + 1 <= submitted
    BY DEF Grab, Lists, QueueShape, IdsOK, Waiting, TypeOK
<1>4. tasks = NULL => begun' = begun
    BY DEF Grab
<1>5. submitted' = submitted /\ pos' = pos
    BY DEF Grab
<1>6. cur' = [cur EXCEPT ![t] = tasks]
    BY DEF Grab
<1>7. \A n \in Waiting \cup Free : next'[n] = next[n]
    BY <1>1, <1>2 DEF Grab, Recycle, TypeOK
<1>8. IdsOK'
    BY <1>1, <1>3, <1>4, <1>5 DEF Lists, IdsOK, TypeOK
<1>9. HeldOK'
    <2>1. ASSUME NEW s \in Thread, cur'[s] # NULL
          PROVE  cur'[s] \in alloc' /\ arg'[cur'[s]] <= begun'
                 /\ pc'[s] \in {"grab", "task"}
        <3>1. CASE s = t
            BY <1>1, <1>2, <1>3, <1>6, <2>1, <3>1 DEF Grab, TypeOK
        <3>2. CASE s # t
            BY <1>1, <1>3, <1>4, <1>6, <2>1, <3>2
            DEF Grab, TypeOK, Lists, HeldOK, IdsOK
        <3>3. QED
            BY <3>1, <3>2
    <2>2. ASSUME NEW s \in Thread, NEW r \in Thread, cur'[s] = cur'[r], cur'[r] # NULL
          PROVE  s = r
        <3>1. \A u \in Thread \ {t} : cur'[u] = cur[u] /\ (cur[u] # NULL => cur[u] # tasks)
            BY <1>2, <1>3, <1>6 DEF Held
        <3>2. cur'[t] = tasks
            BY <1>6 DEF TypeOK
        <3>3. QED
            BY <2>2, <3>1, <3>2 DEF Lists, HeldOK
    <2>3. QED
        BY <2>1, <2>2 DEF HeldOK
<1>10. QueueShape'
    <2>1. CASE tasks = NULL
        BY <1>1, <1>4, <1>5, <1>7, <2>1 DEF Grab, Dequeue, Lists, QueueShape
    <2>2. CASE tasks # NULL
        <3>1. tasks' = next[tasks]
            BY <1>3, <1>7, <2>2 DEF Grab, Dequeue
        <3>2. \A n \in Waiting' : arg[n] # begun + 1
            BY <1>1, <1>3, <2>2 DEF Lists, QueueShape
        <3>3. \A n \in Waiting' : arg'[n] = submitted' => next'[n] = NULL
            BY <1>1, <1>5, <1>7, <2>2 DEF Lists, QueueShape
        <3>4. ASSUME NEW n \in Waiting', arg'[n] # submitted'
              PROVE  next'[n] \in Waiting' /\ arg'[next'[n]] = arg'[n] + 1
            <4>1. next[n] \in Waiting /\ arg[next[n]] = arg[n] + 1
                BY <1>1, <1>5, <2>2, <3>4 DEF Lists, QueueShape
            <4>2. next[n] # tasks
                BY <1>1, <1>3, <2>2, <3>4, <4>1 DEF Waiting, TypeOK
            <4>3. QED
                BY <1>1, <1>7, <2>2, <3>4, <4>1, <4>2
        <3>5. tasks' = NULL <=> begun' = submitted'
            BY <1>2, <1>3, <1>5, <2>2, <3>1, NodeAssumption
            DEF Lists, QueueShape, TypeOK
        <3>6. tasks' # NULL => tasks' \in Waiting' /\ arg'[tasks'] = begun' + 1
            <4>1. SUFFICES ASSUME tasks' # NULL
                           PROVE  tasks' \in Waiting' /\ arg'[tasks'] = begun' + 1
                OBVIOUS
            <4>2. next[tasks] \in Waiting /\ arg[next[tasks]] = begun + 2
                BY <1>3, <2>2, <3>1, <4>1 DEF Lists, QueueShape, TypeOK
            <4>3. next[tasks] # tasks
                BY <1>3, <2>2, <4>2 DEF TypeOK
            <4>4. QED
                BY <1>1, <1>3, <2>2, <3>1, <4>2, <4>3 DEF TypeOK
        <3>7. tasks' # NULL => pos' \in Waiting' /\ arg'[pos'] = submitted'
            BY <1>1, <1>3, <1>5, <2>2, <3>5 DEF Lists, QueueShape
        <3>8. \A m, n \in Waiting' : arg'[m] = arg'[n] => m = n
            BY <1>1, <2>2 DEF Lists, QueueShape
        <3>9. QED
            BY <3>3, <3>4, <3>5, <3>6, <3>7, <3>8 DEF QueueShape
    <2>3. QED
        BY <2>1, <2>2
<1>11. PoolShape'
    <2>1. CASE cur[t] = NULL
        BY <1>1, <1>7, <2>1 DEF Grab, Recycle, Lists, PoolShape
    <2>2. CASE cur[t] # NULL
        <3>1. /\ pool' = cur[t] /\ next'[cur[t]] = pool
              /\ Free' = Free \cup {cur[t]} /\ cur[t] \notin Free
            BY <1>1, <2>2 DEF Grab, Recycle, TypeOK
        <3>2. pool' \in Free' \cup {NULL} /\ (pool' = NULL <=> Free' = {})
            BY <2>2, <3>1
        <3>3. \A n \in Free' : next'[n] \in (Free' \cup {NULL}) \ {pool'}
            BY <1>7, <2>2, <3>1 DEF Lists, PoolShape
        <3>4. \A m, n \in Free' : next'[m] = next'[n] => m = n
            BY <1>7, <3>1 DEF Lists, PoolShape
        <3>5. ASSUME NEW S \in SUBSET Free', S # {}
              PROVE  \E n \in S : n = pool' \/ \E m \in Free' \ S : next'[m] = n
            <4>1. CASE cur[t] \in S
                BY <3>1, <4>1
            <4>2. CASE cur[t] \notin S
                <5>1. S \in SUBSET Free
                    BY <3>1, <3>5, <4>2
                <5>2. PICK n \in S : n = pool \/ \E m \in Free \ S : next[m] = n
                    BY <3>5, <5>1 DEF Lists, PoolShape
                <5>3. QED
                    BY <1>7, <3>1, <4>2, <5>2
            <4>3. QED
                BY <4>1, <4>2
        <3>6. QED
            BY <3>2, <3>3, <3>4, <3>5 DEF PoolShape
    <2>3. QED
        BY <2>1, <2>2
<1>12. QED
    BY <1>8, <1>9, <1>10, <1>11 DEF Lists

\* The owner frees what is left: with no task waiting and no container held,
\* that is the free list, and all of it is reached from pool.
LEMMA DestroyLists ==
    ASSUME TypeOK, Control, Lists, tasks = NULL, Destroy
    PROVE  Lists' /\ alloc' = {}
<1> USE ThreadsAssumption, NodeAssumption
<1>1. \A t \in Thread : pc[t] \notin {"grab", "task"}
    <2>1. pc[Owner] = "destroy"
        BY DEF Destroy
    <2>2. \A w \in Workers : pc[w] \in {"exit", "none"}
        BY <2>1 DEF Control, JoinOK, PlacesOK, Workers, TypeOK
    <2>3. QED
        BY <2>1, <2>2 DEF Thread, Workers, Owner
<1>2. \A t \in Thread : cur[t] = NULL
    BY <1>1 DEF Lists, HeldOK
<1>3. Held = {} /\ Waiting = {}
    BY <1>2 DEF Held, Waiting, Lists, QueueShape, IdsOK, TypeOK
<1>4. Free = alloc
    BY <1>3 DEF Free
<1>5. pool # NULL => alloc \subseteq Chain(pool)
    <2>1. SUFFICES ASSUME pool # NULL, NEW n \in alloc, NEW S \in SUBSET Node,
                          pool \in S, \A x \in S : next[x] \in S \cup {NULL},
                          n \notin S
                   PROVE  FALSE
        BY DEF Chain, TypeOK
    <2>2. PICK m \in Free \ S : m = pool \/ \E k \in Free \ (Free \ S) : next[k] = m
        BY <1>4, <2>1 DEF Lists, PoolShape
    <2>3. QED
        BY <1>4, <2>1, <2>2 DEF TypeOK
<1>6. alloc' = {}
    <2>1. pool = NULL => alloc = {}
        BY <1>4 DEF Lists, PoolShape
    <2>2. pool # NULL => alloc' = alloc \ Chain(pool)
        BY DEF Destroy
    <2>3. alloc' \subseteq alloc
        BY DEF Destroy
    <2>4. QED
        BY <1>5, <2>1, <2>2, <2>3
<1>7. Waiting' = {} /\ Free' = {}
    BY <1>6 DEF Waiting, Free
<1>8. tasks' = NULL /\ pool' = NULL /\ UNCHANGED <<cur, begun, submitted>>
    BY DEF Destroy, history
<1>9. IdsOK'
    BY <1>6, <1>8 DEF Lists, IdsOK
<1>10. HeldOK'
    BY <1>2, <1>8 DEF HeldOK, TypeOK
<1>11. QueueShape'
    BY <1>7, <1>8 DEF Lists, QueueShape
<1>12. PoolShape'
    BY <1>7, <1>8 DEF PoolShape
<1>13. QED
    BY <1>6, <1>9, <1>10, <1>11, <1>12 DEF Lists

\* The actions that leave the lists alone.
LEMMA FrameLists ==
    ASSUME TypeOK, Control, Lists,
           UNCHANGED <<next, arg, alloc, tasks, pool, pos, cur, submitted, begun>>,
           \A t \in Thread : pc[t] \in {"grab", "task"} => pc'[t] \in {"grab", "task"}
    PROVE  Lists'
<1>1. Waiting' = Waiting /\ Held' = Held /\ Free' = Free
    BY DEF Waiting, Held, Free
<1>2. IdsOK'
    BY DEF Lists, IdsOK
<1>3. HeldOK'
    BY DEF Lists, HeldOK
<1>4. QueueShape'
    BY <1>1 DEF Lists, QueueShape
<1>5. PoolShape'
    BY <1>1 DEF Lists, PoolShape
<1>6. QED
    BY <1>2, <1>3, <1>4, <1>5 DEF Lists

-----------------------------------------------------------------------------
(* What has been run, and what is left when the owner is through. *)

DoneOK ==
    /\ finished \subseteq 1..begun
    /\ \A i \in (1..begun) \ finished :
          \E t \in Thread : pc[t] = "task" /\ arg[cur[t]] = i
    /\ \A s, t \in Thread :
          pc[s] = "task" /\ pc[t] = "task" /\ arg[cur[s]] = arg[cur[t]] => s = t

DrainOK ==
    /\ pc[Owner] \in {"destroy", "gone"} => tasks = NULL
    /\ pc[Owner] = "gone" => alloc = {}

Data == Lists /\ RunsOnce /\ DoneOK /\ DrainOK

\* Empty lists and no tasks: the data part holds at the start.
LEMMA InitData == Init => Data
<1> SUFFICES ASSUME Init PROVE Data
    OBVIOUS
<1> USE ThreadsAssumption, NodeAssumption DEF Init
<1>1. Waiting = {} /\ Free = {}
    BY DEF Waiting, Free
<1>2. IdsOK /\ HeldOK
    BY DEF IdsOK, HeldOK
<1>3. QueueShape /\ PoolShape
    BY <1>1 DEF QueueShape, PoolShape
<1>4. RunsOnce /\ DoneOK
    BY DEF RunsOnce, DoneOK, Thread, Owner
<1>5. DrainOK
    BY DEF DrainOK, Thread, Owner
<1>6. QED
    BY <1>2, <1>3, <1>4, <1>5 DEF Data, Lists

\* async_run accepts a task that nobody has begun or finished.
LEMMA SubmitData ==
    ASSUME TypeOK, Control, Data, NEW c \in Node, Submit(c)
    PROVE  Data'
<1>1. /\ c \notin Held
      /\ alloc' = alloc \cup {c}
      /\ \A n \in alloc \ {c} : arg'[n] = arg[n]
    BY SubmitMoves DEF Data
<1>2. Lists'
    BY SubmitLists DEF Data
<1>3. \A t \in Thread : pc'[t] = "task" <=> pc[t] = "task"
    BY DEF Submit, TypeOK
<1>4. \A t \in Thread : pc[t] = "task" =>
         cur[t] \in alloc \ {c} /\ arg'[cur[t]] = arg[cur[t]]
    <2>1. TAKE t \in Thread
    <2>2. HAVE pc[t] = "task"
    <2>3. cur[t] # NULL /\ cur[t] \in alloc
        BY <2>2 DEF Control, HoldOK, Data, RunsOnce
    <2>4. cur[t] # c
        BY <1>1, <2>3 DEF Held
    <2>5. QED
        BY <1>1, <2>3, <2>4
<1>5. cur' = cur /\ begun' = begun /\ finished' = finished
    BY DEF Submit
<1>6. RunsOnce'
    BY <1>1, <1>3, <1>4, <1>5 DEF Data, RunsOnce
<1>7. DoneOK'
    BY <1>3, <1>4, <1>5 DEF Data, DoneOK
<1>8. DrainOK'
    BY DEF Submit, DrainOK, Thread, Owner, TypeOK
<1>9. QED
    BY <1>2, <1>6, <1>7, <1>8 DEF Data

\* perform_tasks begins the oldest task, which nobody else has; a thread that
\* finds none leaves nothing undone behind it.
LEMMA GrabData ==
    ASSUME TypeOK, Control, Data, NEW t \in Thread, Grab(t)
    PROVE  Data'
<1>1. Lists'
    BY GrabLists DEF Data
<1>2. alloc' = alloc /\ arg' = arg /\ finished' = finished
    BY DEF Grab
<1>3. pc[t] = "grab" /\ \A s \in Thread \ {t} : pc'[s] = pc[s] /\ cur'[s] = cur[s]
    BY DEF Grab, TypeOK
<1>4. DrainOK'
    <2>1. pc'[Owner] # "gone"
        BY SMTT(40), ThreadsAssumption
        DEF Grab, Control, PlacesOK, JoinOK, TypeOK, Thread, Workers, Owner
    <2>2. pc'[Owner] = "destroy" => tasks' = NULL
        <3>1. CASE t = Owner
            BY <3>1 DEF Grab, Dequeue, TypeOK
        <3>2. CASE t # Owner
            BY <1>3, <3>2 DEF Data, DrainOK, Grab, Dequeue, Thread, Owner
        <3>3. QED
            BY <3>1, <3>2
    <2>3. QED
        BY <2>1, <2>2 DEF DrainOK
<1>5. CASE tasks = NULL
    <2>1. begun' = begun /\ \A s \in Thread : pc'[s] = "task" <=> s # t /\ pc[s] = "task"
        BY <1>3, <1>5, ThreadsAssumption
        DEF Grab, Control, PlacesOK, JoinOK, TypeOK, Thread, Workers, Owner
    <2>2. cur'[t] = NULL
        BY <1>5 DEF Grab, TypeOK
    <2>3. RunsOnce'
        BY <1>2, <1>3, <2>1, <2>2, NodeAssumption DEF Data, RunsOnce, TypeOK
    <2>4. DoneOK'
        BY <1>2, <1>3, <2>1 DEF Data, DoneOK
    <2>5. QED
        BY <1>1, <1>4, <2>3, <2>4 DEF Data
<1>6. CASE tasks # NULL
    <2>1. /\ begun' = begun + 1 /\ arg[tasks] = begun + 1
          /\ tasks \in alloc /\ cur'[t] = tasks /\ pc'[t] = "task"
        BY <1>6 DEF Grab, Data, Lists, QueueShape, Waiting, TypeOK
    <2>2. \A s \in Thread \ {t} :
             pc[s] = "task" => arg[cur[s]] \in 1..begun /\ cur[s] # tasks
        BY <2>1 DEF Data, RunsOnce, TypeOK
    <2>3. \A s \in Thread \ {t} : cur[s] # tasks
        BY <2>1, <1>6 DEF Data, Lists, HeldOK, TypeOK
    <2>4. RunsOnce'
        <3>1. ASSUME NEW s \in Thread, pc'[s] = "task"
              PROVE  /\ cur'[s] \in alloc'
                     /\ arg'[cur'[s]] \in (1..begun') \ finished'
                     /\ \A r \in Thread : cur'[r] = cur'[s] => r = s
            <4>1. CASE s = t
                <5>1. begun + 1 \notin finished
                    BY DEF Data, DoneOK, TypeOK
                <5>2. QED
                    BY <1>2, <1>3, <2>1, <2>3, <4>1, <5>1 DEF TypeOK
            <4>2. CASE s # t
                BY <1>2, <1>3, <2>1, <2>2, <3>1, <4>2 DEF Data, RunsOnce, TypeOK
            <4>3. QED
                BY <4>1, <4>2
        <3>2. QED
            BY <3>1 DEF RunsOnce
    <2>5. DoneOK'
        <3>1. finished' \subseteq 1..begun'
            BY <1>2, <2>1 DEF Data, DoneOK, TypeOK
        <3>2. ASSUME NEW i \in (1..begun') \ finished'
              PROVE  \E s \in Thread : pc'[s] = "task" /\ arg'[cur'[s]] = i
            <4>1. CASE i = begun + 1
                BY <1>2, <2>1, <4>1
            <4>2. CASE i # begun + 1
                <5>1. PICK s \in Thread : pc[s] = "task" /\ arg[cur[s]] = i
                    BY <1>2, <2>1, <4>2 DEF Data, DoneOK, TypeOK
                <5>2. QED
                    BY <1>2, <1>3, <5>1
            <4>3. QED
                BY <4>1, <4>2
        <3>3. \A r, s \in Thread :
                 pc'[r] = "task" /\ pc'[s] = "task" /\ arg'[cur'[r]] = arg'[cur'[s]]
                 => r = s
            BY <1>2, <1>3, <2>1, <2>2 DEF Data, DoneOK, TypeOK
        <3>4. QED
            BY <3>1, <3>2, <3>3 DEF DoneOK
    <2>6. QED
        BY <1>1, <1>4, <2>4, <2>5 DEF Data
<1>7. QED
    BY <1>5, <1>6

\* A task ends in the hands of the one thread that has it (cgi_async.c:132).
LEMMA PerformData ==
    ASSUME TypeOK, Control, Data, NEW t \in Thread, Perform(t)
    PROVE  Data'
<1>1. /\ pc[t] = "task" /\ pc'[t] = "grab" /\ \A s \in Thread \ {t} : pc'[s] = pc[s]
      /\ UNCHANGED <<next, arg, alloc, tasks, pool, pos, cur, submitted, begun>>
      /\ finished' = finished \cup {arg[cur[t]]}
    BY DEF Perform, heap, lists, TypeOK
<1>2. Lists'
    BY <1>1, FrameLists DEF Data
<1>3. \A s \in Thread : pc'[s] = "task" <=> s # t /\ pc[s] = "task"
    BY <1>1
<1>4. RunsOnce'
    <2>1. ASSUME NEW s \in Thread, pc'[s] = "task"
          PROVE  arg[cur[s]] # arg[cur[t]]
        BY <1>1, <1>3, <2>1 DEF Data, DoneOK
    <2>2. QED
        BY <1>1, <1>3, <2>1 DEF Data, RunsOnce
<1>5. DoneOK'
    <2>1. finished' \subseteq 1..begun'
        BY ZenonT(60), <1>1 DEF Data, DoneOK, RunsOnce
    <2>2. ASSUME NEW i \in (1..begun') \ finished'
          PROVE  \E s \in Thread : pc'[s] = "task" /\ arg'[cur'[s]] = i
        <3>1. PICK s \in Thread : pc[s] = "task" /\ arg[cur[s]] = i
            BY <1>1 DEF Data, DoneOK
        <3>2. QED
            BY <1>1, <1>3, <3>1
    <2>3. \A r, s \in Thread :
             pc'[r] = "task" /\ pc'[s] = "task" /\ arg'[cur'[r]] = arg'[cur'[s]]
             => r = s
        BY <1>1, <1>3 DEF Data, DoneOK
    <2>4. QED
        BY <2>1, <2>2, <2>3 DEF DoneOK
<1>6. DrainOK'
    BY <1>1, ThreadsAssumption DEF Data, DrainOK, Thread, Owner
<1>7. QED
    BY <1>2, <1>4, <1>5, <1>6 DEF Data

\* The other actions: no thread starts or ends a task.
LEMMA FrameData ==
    ASSUME TypeOK, Control, Data,
           UNCHANGED <<next, arg, alloc, tasks, pool, pos, cur, history>>,
           \A t \in Thread : pc[t] \in {"grab", "task"} => pc'[t] = pc[t],
           \A t \in Thread : pc'[t] = "task" => pc[t] = "task",
           pc'[Owner] \in {"destroy", "gone"} => pc[Owner] = pc'[Owner]
    PROVE  Data'
<1>1. Lists'
    BY FrameLists DEF Data, history
<1>2. RunsOnce'
    BY DEF Data, RunsOnce, history
<1>3. DoneOK'
    BY DEF Data, DoneOK, history
<1>4. DrainOK'
    BY DEF Data, DrainOK
<1>5. QED
    BY <1>1, <1>2, <1>3, <1>4 DEF Data

\* Every step keeps the lists, the tasks and what is left to do in agreement.
LEMMA NextData == TypeOK /\ Control /\ Data /\ [Next]_vars => Data'
<1> SUFFICES ASSUME TypeOK, Control, Data, [Next]_vars PROVE Data'
    OBVIOUS
<1>1. CASE CreateThread
    <2>1. /\ pc'[Owner] \in {"create", "run"} /\ pc[Owner] = "create"
          /\ pc[count + 1] = "none" /\ pc'[count + 1] = "check"
          /\ \A t \in Thread \ {Owner, count + 1} : pc'[t] = pc[t]
          /\ UNCHANGED <<next, arg, alloc, tasks, pool, pos, cur, history>>
        BY <1>1, ThreadsAssumption
        DEF CreateThread, Control, PlacesOK, TypeOK, Thread, Workers, Owner, heap, lists
    <2>2. QED
        BY <2>1, FrameData
<1>2. CASE CreateFails
    BY <1>2, FrameData DEF CreateFails, heap, lists, Thread, Owner, TypeOK
<1>3. CASE \E c \in Node : Submit(c)
    BY <1>3, SubmitData
<1>4. CASE Wake
    BY <1>4, FrameData DEF Wake, Control, RunOK, heap, lists, Thread, Owner, TypeOK
<1>5. CASE SignalFlag
    BY <1>5, FrameData DEF SignalFlag, heap, lists, Thread, Owner, TypeOK
<1>6. CASE SignalBytes
    BY <1>6, FrameData DEF SignalBytes, heap, lists, Thread, Owner, TypeOK
<1>7. CASE WaitBytes
    BY <1>7, FrameData DEF WaitBytes, heap, lists, Thread, Owner, TypeOK
<1>8. CASE Join
    BY <1>8, FrameData DEF Join, heap, lists, Thread, Owner, TypeOK
<1>9. CASE Destroy
    <2>1. Lists' /\ alloc' = {} /\ tasks' = NULL
        BY <1>9, DestroyLists DEF Data, DrainOK, Destroy
    <2>2. \A t \in Thread : pc[t] # "task" /\ pc'[t] # "task"
        <3>1. \A w \in Workers : pc[w] \in {"exit", "none"}
            BY <1>9 DEF Destroy, Control, JoinOK, PlacesOK, Workers, TypeOK
        <3>2. QED
            BY <1>9, <3>1 DEF Destroy, Thread, Workers, Owner, TypeOK
    <2>3. RunsOnce' /\ DoneOK'
        BY <1>9, <2>2 DEF Data, RunsOnce, DoneOK, Destroy, history
    <2>4. QED
        BY <2>1, <2>3 DEF Data, DrainOK
<1>10. ASSUME NEW w \in Workers, CheckRun(w) PROVE Data'
    BY <1>10, ThreadsAssumption, FrameData
    DEF CheckRun, heap, lists, Thread, Workers, Owner, TypeOK
<1>11. ASSUME NEW w \in Workers, ReadByte(w) PROVE Data'
    BY <1>11, ThreadsAssumption, FrameData
    DEF ReadByte, heap, lists, Thread, Workers, Owner, TypeOK
<1>12. CASE \E t \in Thread : Grab(t)
    BY <1>12, GrabData
<1>13. CASE \E t \in Thread : Perform(t)
    BY <1>13, PerformData
<1>14. CASE UNCHANGED vars
    BY <1>14, FrameData DEF vars, heap, lists, threads
<1>15. QED
    BY <1>1, <1>2, <1>3, <1>4, <1>5, <1>6, <1>7, <1>8, <1>9, <1>10, <1>11,
       <1>12, <1>13, <1>14
    DEF Next, OwnerStep, WorkerStep, PoolStep, Terminated

\* The inductive invariant.
IInv == TypeOK /\ Control /\ Data

\* The inductive invariant holds in every reachable state of the pool.
LEMMA Invariance == Safety => []IInv
<1>1. Init => IInv
    BY InitTypes, InitControl, InitData DEF IInv
<1>2. IInv /\ [Next]_vars => IInv'
    BY NextTypes, NextControl, NextData DEF IInv
<1>3. QED
    BY <1>1, <1>2, PTL DEF Safety

\* The queue is one list in submission order, with pos at its end.
THEOREM QueueIsList == Safety => []QueueShape
<1>1. IInv => QueueShape
    BY DEF IInv, Data, Lists
<1>2. QED
    BY <1>1, Invariance, PTL

\* The free list holds every free container once and no other one.
THEOREM PoolIsList == Safety => []PoolShape
<1>1. IInv => PoolShape
    BY DEF IInv, Data, Lists
<1>2. QED
    BY <1>1, Invariance, PTL

\* No task is called twice.
THEOREM EveryTaskRunsOnce == Safety => []RunsOnce
<1>1. IInv => RunsOnce
    BY DEF IInv, Data
<1>2. QED
    BY <1>1, Invariance, PTL

\* Once the owner has drained the queue after the joins (cgi_async.c:174-179),
\* every accepted task has run.
LEMMA DrainedMeansDone ==
    ASSUME IInv, pc[Owner] \in {"destroy", "gone"}
    PROVE  finished = 1..submitted
<1>1. begun = submitted
    BY DEF IInv, Data, DrainOK, Lists, QueueShape
<1>2. \A w \in Workers : pc[w] \in {"exit", "none"}
    BY DEF IInv, Control, JoinOK, PlacesOK, Workers, TypeOK
<1>3. \A t \in Thread : pc[t] # "task"
    BY <1>2 DEF Thread, Workers, Owner
<1>4. finished = 1..begun
    BY <1>3 DEF IInv, Data, DoneOK
<1>5. QED
    BY <1>1, <1>4

\* The pool goes away with every task run, every thread ended, every node freed.
THEOREM NothingIsLeft == Safety => []NothingLeft
<1>1. IInv => NothingLeft
    <2>1. SUFFICES ASSUME IInv, pc[Owner] = "gone"
                   PROVE  /\ finished = 1..submitted
                          /\ \A w \in 1..count : pc[w] = "exit"
                          /\ alloc = {}
        BY DEF NothingLeft
    <2>2. finished = 1..submitted
        BY <2>1, DrainedMeansDone
    <2>3. (\A w \in 1..count : pc[w] = "exit") /\ alloc = {}
        BY <2>1 DEF IInv, Control, JoinOK, Data, DrainOK
    <2>4. QED
        BY <2>2, <2>3
<1>2. QED
    BY <1>1, Invariance, PTL

-----------------------------------------------------------------------------
(* Waking up and shutting down. *)

\* A task in the queue always has a byte or a thread coming for it.
THEOREM NoTaskIsForgotten == Safety => []NoLostWakeup
<1> USE ThreadsAssumption, NodeAssumption
    DEF NoLostWakeup, Thread, Workers, Owner, heap, lists
<1>1. Init => NoLostWakeup
    BY DEF Init
<1>2. IInv /\ NoLostWakeup /\ [Next]_vars => NoLostWakeup'
    <2> SUFFICES ASSUME TypeOK, Control, NoLostWakeup, [Next]_vars
                 PROVE  NoLostWakeup'
        BY DEF IInv
    <2> USE DEF TypeOK
    <2>1. CASE CreateThread
        BY <2>1 DEF CreateThread, Control, PlacesOK
    <2>2. CASE CreateFails
        BY <2>2 DEF CreateFails
    <2>3. ASSUME NEW c \in Node, Submit(c) PROVE NoLostWakeup'
        BY <2>3 DEF Submit
    <2>4. CASE Wake
        BY <2>4, PipeAssumption DEF Wake, PipeAfter
    <2>5. CASE SignalFlag
        BY <2>5 DEF SignalFlag
    <2>6. CASE SignalBytes
        BY <2>6 DEF SignalBytes, PipeAfter
    <2>7. CASE WaitBytes
        BY <2>7 DEF WaitBytes, PipeAfter
    <2>8. CASE Join
        BY <2>8 DEF Join
    <2>9. CASE Destroy
        BY <2>9 DEF Destroy
    <2>10. ASSUME NEW w \in Workers, CheckRun(w) PROVE NoLostWakeup'
        BY <2>10 DEF CheckRun
    <2>11. ASSUME NEW w \in Workers, ReadByte(w) PROVE NoLostWakeup'
        BY <2>11 DEF ReadByte
    <2>12. ASSUME NEW t \in Thread, Grab(t) PROVE NoLostWakeup'
        BY <2>12 DEF Grab, Dequeue
    <2>13. ASSUME NEW t \in Thread, Perform(t) PROVE NoLostWakeup'
        BY <2>13 DEF Perform
    <2>14. CASE UNCHANGED vars
        BY <2>14 DEF vars, threads
    <2>15. QED
        BY <2>1, <2>2, <2>3, <2>4, <2>5, <2>6, <2>7, <2>8, <2>9, <2>10, <2>11,
           <2>12, <2>13, <2>14
        DEF Next, OwnerStep, WorkerStep, PoolStep, Terminated
<1>3. QED
    BY <1>1, <1>2, Invariance, PTL DEF Safety

\* The threads blocked in read are finitely many, at most those created so far.
LEMMA ReadersCounted ==
    ASSUME TypeOK, Control
    PROVE  /\ IsFiniteSet(Readers)
           /\ Cardinality(Readers) \in Nat
           /\ Cardinality(Readers) <= count
<1>1. Readers \subseteq 1..count
    BY ThreadsAssumption DEF Readers, Workers, Control, PlacesOK, TypeOK
<1>2. IsFiniteSet(1..count) /\ Cardinality(1..count) = count
    <2>1. 1 \in Int /\ count \in Int /\ count >= 0
        BY ThreadsAssumption DEF TypeOK
    <2>2. /\ IsFiniteSet(1..count)
          /\ Cardinality(1..count) = IF 1 > count THEN 0 ELSE count - 1 + 1
        BY <2>1, FS_Interval
    <2>3. QED
        BY <2>1, <2>2
<1>3. IsFiniteSet(Readers) /\ Cardinality(Readers) <= Cardinality(1..count)
    BY <1>1, <1>2, FS_Subset
<1>4. QED
    BY <1>2, <1>3, FS_CardinalityType

\* Once async_signal has written, every blocked thread has a byte to read,
\* even when unread wakeups made the pipe refuse the bytes of the signal.
THEOREM ShutdownReachesAll == Safety => []ShutdownWakesAll
<1> USE ThreadsAssumption, PipeAssumption DEF Thread, Workers, Owner
<1>1. Init => ShutdownWakesAll
    BY DEF Init, ShutdownWakesAll
<1>2. IInv /\ ShutdownWakesAll /\ [Next]_vars => ShutdownWakesAll'
    <2> SUFFICES ASSUME TypeOK, Control, ShutdownWakesAll, [Next]_vars
                 PROVE  ShutdownWakesAll'
        BY DEF IInv
    <2>a. /\ IsFiniteSet(Readers)
          /\ Cardinality(Readers) \in Nat
          /\ Cardinality(Readers) <= count
        BY ReadersCounted
    <2> USE DEF TypeOK
    <2>1. CASE CreateThread
        BY <2>1 DEF CreateThread, Control, RunOK, ShutdownWakesAll
    <2>2. CASE CreateFails
        BY <2>2 DEF CreateFails, ShutdownWakesAll
    <2>3. ASSUME NEW c \in Node, Submit(c) PROVE ShutdownWakesAll'
        <3>1. Readers' = Readers /\ pipe' = pipe /\ run' = run /\ pc[Owner] # "signal"
            BY <2>3 DEF Submit, Readers
        <3>2. QED
            BY <3>1 DEF ShutdownWakesAll
    <2>4. CASE Wake
        <3>1. Readers' = Readers /\ run' = run /\ pc[Owner] # "signal"
            BY <2>4 DEF Wake, Readers
        <3>2. pipe' >= pipe
            BY <2>4 DEF Wake, PipeAfter
        <3>3. QED
            BY <2>a, <3>1, <3>2, <2>4 DEF ShutdownWakesAll, Wake, PipeAfter
    <2>5. CASE SignalFlag
        BY <2>5 DEF SignalFlag, ShutdownWakesAll
    <2>6. CASE SignalBytes
        <3>1. Readers' = Readers
            BY <2>6 DEF SignalBytes, Readers
        <3>2. pipe' >= count /\ pipe' \in Nat
            BY <2>6 DEF SignalBytes, PipeAfter
        <3>3. QED
            BY <2>a, <3>1, <3>2 DEF ShutdownWakesAll
    <2>7. CASE WaitBytes
        <3>1. Readers' = Readers /\ run' = run /\ pc[Owner] # "signal"
            BY <2>7 DEF WaitBytes, Readers
        <3>2. pipe' >= pipe /\ pipe' \in Nat
            BY <2>7 DEF WaitBytes, PipeAfter
        <3>3. QED
            BY <2>a, <3>1, <3>2 DEF ShutdownWakesAll
    <2>8. CASE Join
        <3>1. Readers' = Readers /\ pipe' = pipe /\ run' = run /\ pc[Owner] # "signal"
            BY <2>8 DEF Join, Readers
        <3>2. QED
            BY <3>1 DEF ShutdownWakesAll
    <2>9. CASE Destroy
        <3>1. \A w \in Workers : pc[w] \in {"exit", "none"}
            BY <2>9 DEF Destroy, Control, JoinOK, PlacesOK
        <3>2. Readers' = {} /\ pipe' = 0
            BY <2>9, <3>1 DEF Destroy, Readers
        <3>3. QED
            BY <3>2, FS_EmptySet DEF ShutdownWakesAll
    <2>10. ASSUME NEW w \in Workers, CheckRun(w) PROVE ShutdownWakesAll'
        <3>1. ~run => Readers' = Readers
            BY <2>10 DEF CheckRun, Readers
        <3>2. QED
            BY <2>10, <3>1 DEF CheckRun, ShutdownWakesAll
    <2>11. ASSUME NEW w \in Workers, ReadByte(w) PROVE ShutdownWakesAll'
        <3>1. Readers' = Readers \ {w} /\ w \in Readers
            BY <2>11 DEF ReadByte, Readers
        <3>2. Cardinality(Readers') = Cardinality(Readers) - 1
            BY <2>a, <3>1, FS_RemoveElement
        <3>3. pipe' = pipe - 1 /\ run' = run /\ pc'[Owner] = pc[Owner]
            BY <2>11 DEF ReadByte
        <3>4. QED
            BY <2>a, <3>2, <3>3 DEF ShutdownWakesAll
    <2>12. ASSUME NEW t \in Thread, Grab(t) PROVE ShutdownWakesAll'
        <3>1. /\ pc[t] # "read" /\ pc'[t] # "read"
              /\ \A w \in Workers \ {t} : pc'[w] = pc[w]
            <4>1. ret[t] # "read" /\ pc \in [Thread -> OwnerPC \cup WorkerPC]
                BY DEF TypeOK
            <4>2. pc[t] = "grab" /\ pc' = [pc EXCEPT ![t] = IF tasks = NULL THEN ret[t] ELSE "task"]
                BY <2>12 DEF Grab
            <4>3. \A w \in Workers : w \in Thread
                BY DEF Workers, Thread
            <4>4. QED
                BY <4>1, <4>2, <4>3
        <3>2. Readers' = Readers
            BY <3>1 DEF Readers
        <3>3. /\ pipe' = pipe /\ run' = run
              /\ pc'[Owner] = pc[Owner] \/ pc[Owner] = "grab"
            BY <2>12 DEF Grab
        <3>4. QED
            BY <3>2, <3>3 DEF ShutdownWakesAll
    <2>13. ASSUME NEW t \in Thread, Perform(t) PROVE ShutdownWakesAll'
        <3>1. Readers' = Readers
            BY <2>13 DEF Perform, Readers
        <3>2. /\ pipe' = pipe /\ run' = run
              /\ pc'[Owner] = pc[Owner] \/ pc[Owner] = "task"
            BY <2>13 DEF Perform
        <3>3. QED
            BY <3>1, <3>2 DEF ShutdownWakesAll
    <2>14. CASE UNCHANGED vars
        BY <2>14 DEF vars, threads, ShutdownWakesAll, Readers
    <2>15. QED
        BY <2>1, <2>2, <2>3, <2>4, <2>5, <2>6, <2>7, <2>8, <2>9, <2>10, <2>11,
           <2>12, <2>13, <2>14
        DEF Next, OwnerStep, WorkerStep, PoolStep, Terminated
<1>3. QED
    BY <1>1, <1>2, Invariance, PTL DEF Safety

-----------------------------------------------------------------------------
(* The pool implements the task queue. *)

\* A thread takes a task only when there is a worker for it: each running task
\* has a thread of its own, and the owner joins in after every worker has ended.
LEMMA RoomToBegin ==
    ASSUME IInv, NEW t \in Thread, Grab(t)
    PROVE  TQ!Fits(TQ!Running \cup {begun + 1})
<1> DEFINE S == TQ!Running \cup {begun + 1}
<1> USE ThreadsAssumption DEF IInv
<1>1. pc[t] = "grab"
    BY DEF Grab
<1>2. TQ!Running = (1..begun) \ finished
    BY DEF TQ!Running
<1>3. CASE t = Owner
    <2>1. \A w \in Workers : pc[w] \in {"exit", "none"}
        BY <1>1, <1>3 DEF Control, JoinOK, PlacesOK, Workers, TypeOK
    <2>2. \A s \in Thread : pc[s] # "task"
        BY <1>1, <1>3, <2>1 DEF Thread, Workers, Owner
    <2>3. S = {begun + 1}
        BY <1>2, <2>2 DEF Data, DoneOK
    <2>4. [i \in S |-> 1] \in [S -> 1..Threads]
        OBVIOUS
    <2>5. \A i, j \in S : i = j
        BY <2>3
    <2>6. QED
        BY <2>4, <2>5 DEF TQ!Fits
<1>4. CASE t # Owner
    <2> DEFINE Does(i, s) == pc[s] = "task" /\ arg[cur[s]] = i
               slot == [i \in S |-> IF i = begun + 1 THEN t
                                   ELSE CHOOSE s \in Thread : Does(i, s)]
    <2>1. t \in Workers
        BY <1>4 DEF Thread, Workers, Owner
    <2>2. pc[Owner] # "task"
        BY <1>1, <2>1 DEF Control, JoinOK, PlacesOK, Workers, TypeOK
    <2>3. ASSUME NEW i \in S, i # begun + 1
          PROVE  slot[i] \in Workers /\ Does(i, slot[i]) /\ slot[i] # t
        <3>1. \E s \in Thread : Does(i, s)
            BY <1>2, <2>3 DEF Data, DoneOK
        <3>2. slot[i] \in Thread /\ Does(i, slot[i])
            BY <2>3, <3>1
        <3>3. QED
            BY <1>1, <2>2, <3>2 DEF Thread, Workers, Owner
    <2>4. begun + 1 \in S /\ slot[begun + 1] = t
        OBVIOUS
    <2> HIDE DEF slot
    <2>5. slot \in [S -> 1..Threads]
        <3>1. \A i \in S : slot[i] \in 1..Threads
            BY <2>1, <2>3, <2>4 DEF Workers
        <3>2. QED
            BY <3>1 DEF slot
    <2>6. ASSUME NEW i \in S, NEW j \in S, slot[i] = slot[j]
          PROVE  i = j
        BY <2>3, <2>4, <2>6
    <2>7. QED
        BY <2>5, <2>6 DEF TQ!Fits
<1>5. QED
    BY <1>3, <1>4

\* Every behaviour of the pool is one of the task queue: accepted in order,
\* begun in that order, at most Threads at once, run once, closed when done.
THEOREM ImplementsQueue == Safety => TQ!Safety
<1> USE ThreadsAssumption DEF Owner, Thread, Workers
<1>1. Init => TQ!Init
    BY DEF Init, TQ!Init
<1>2. IInv /\ [Next]_vars => [TQ!Next]_(TQ!vars)
    <2> SUFFICES ASSUME IInv, [Next]_vars PROVE [TQ!Next]_(TQ!vars)
        OBVIOUS
    <2> USE DEF IInv, TypeOK, TQ!vars, history
    <2>1. CASE CreateThread
        BY <2>1 DEF CreateThread
    <2>2. CASE CreateFails
        BY <2>2 DEF CreateFails
    <2>3. ASSUME NEW c \in Node, Submit(c) PROVE TQ!Next
        BY <2>3 DEF Submit, TQ!Next, TQ!Submit
    <2>4. CASE Wake
        BY <2>4 DEF Wake, Control, RunOK
    <2>5. CASE SignalFlag
        BY <2>5 DEF SignalFlag
    <2>6. CASE SignalBytes
        BY <2>6 DEF SignalBytes
    <2>7. CASE WaitBytes
        BY <2>7 DEF WaitBytes
    <2>8. CASE Join
        BY <2>8 DEF Join
    <2>9. CASE Destroy
        <3>1. finished = 1..submitted
            BY <2>9, DrainedMeansDone DEF Destroy
        <3>2. QED
            BY <2>9, <3>1 DEF Destroy, TQ!Next, TQ!Close
    <2>10. ASSUME NEW w \in Workers, CheckRun(w) PROVE UNCHANGED TQ!vars
        BY <2>10 DEF CheckRun
    <2>11. ASSUME NEW w \in Workers, ReadByte(w) PROVE UNCHANGED TQ!vars
        BY <2>11 DEF ReadByte
    <2>12. ASSUME NEW t \in Thread, Grab(t) PROVE [TQ!Next]_(TQ!vars)
        <3>1. (pc[Owner] = "gone")' = (pc[Owner] = "gone")
            BY <2>12 DEF Grab, Control, PlacesOK, JoinOK, OwnerPC, WorkerPC
        <3>2. CASE tasks = NULL
            BY <2>12, <3>1, <3>2 DEF Grab
        <3>3. CASE tasks # NULL
            <4>1. begun' = begun + 1 /\ begun < submitted
                BY <2>12, <3>3 DEF Grab, Data, Lists, QueueShape, IdsOK, Waiting
            <4>2. TQ!Fits(TQ!Running \cup {begun + 1})
                BY <2>12, RoomToBegin
            <4>3. UNCHANGED <<submitted, finished>>
                BY <2>12 DEF Grab
            <4>4. TQ!Begin
                BY <3>1, <4>1, <4>2, <4>3 DEF TQ!Begin
            <4>5. QED
                BY <4>4 DEF TQ!Next
        <3>4. QED
            BY <3>2, <3>3
    <2>13. ASSUME NEW t \in Thread, Perform(t) PROVE TQ!Next
        <3>1. arg[cur[t]] \in (1..begun) \ finished
            BY <2>13 DEF Perform, Data, RunsOnce
        <3>2. (pc[Owner] = "gone")' = (pc[Owner] = "gone")
            BY <2>13 DEF Perform
        <3>3. TQ!Finish(arg[cur[t]])
            BY <2>13, <3>1, <3>2 DEF Perform, TQ!Finish, TQ!Running
        <3>4. arg[cur[t]] \in 1..MaxTasks
            BY <3>1, TasksAssumption
        <3>5. QED
            BY <3>3, <3>4 DEF TQ!Next
    <2>14. CASE UNCHANGED vars
        BY <2>14 DEF vars, threads
    <2>15. QED
        BY <2>1, <2>2, <2>3, <2>4, <2>5, <2>6, <2>7, <2>8, <2>9, <2>10, <2>11,
           <2>12, <2>13, <2>14
        DEF Next, OwnerStep, WorkerStep, PoolStep, Terminated
<1>3. QED
    BY <1>1, <1>2, Invariance, PTL DEF Safety, TQ!Safety
=============================================================================
