----------------------------- MODULE ThreadPool -----------------------------
(***************************************************************************)
(* The thread pool of src/ThreadPool.cpp and the locks of src/BusyLock.h   *)
(* its jobs wait on.  A command of the program is a workload: the main     *)
(* thread and the tasks it submits, each a list of the pool and lock calls *)
(* it makes.  A critical section is one action; a wait on a condition      *)
(* variable is left only by the notifications the code sends.              *)
(***************************************************************************)
EXTENDS Integers, FiniteSets, SequencesExt

CONSTANTS N,            \* number of workers (option -T)
          Workloads     \* the commands to run: task name -> what it calls

\* What a task can call: ThreadPool.Execute (Task, Wait), WaitIdle and PostIdle
\* of a lock, and, in the main task, ThreadPool.WaitIdle; or it throws.
Exec(task, wait) == [op |-> "exec", arg |-> task, wait |-> wait]
WaitLock(l)      == [op |-> "lock", arg |-> l, wait |-> TRUE]
PostLock(l)      == [op |-> "post", arg |-> l, wait |-> FALSE]
PoolIdle         == [op |-> "idle", arg |-> "pool", wait |-> TRUE]
ThrowError       == [op |-> "throw", arg |-> "exit", wait |-> FALSE]

ASSUME NAssumption == N \in Nat \ {0}

\* What the commands make of the pool: every Execute is of a job of its own
\* (ThreadPool.Execute is given a new one each time), and only the code of main ()
\* waits for the pool (Archive.cpp:229, 342, Create.cpp:89).
IsWorkload(load) ==
    /\ "main" \in DOMAIN load /\ "none" \notin DOMAIN load
    /\ \A k \in DOMAIN load :
          /\ load[k] \in Seq([op : {"exec", "lock", "post", "idle", "throw"},
                              arg : STRING, wait : BOOLEAN])
          /\ \A i \in DOMAIN load[k] :
                /\ load[k][i].op = "exec" => load[k][i].arg \in DOMAIN load \ {"main"}
                /\ load[k][i].op = "idle" => k = "main"
    /\ \A k, m \in DOMAIN load : \A i \in DOMAIN load[k], j \in DOMAIN load[m] :
          load[k][i].op = "exec" /\ load[m][j].op = "exec" /\ load[k][i].arg = load[m][j].arg
          => k = m /\ i = j

ASSUME WorkloadsAssumption == \A load \in Workloads : IsWorkload(load)

Main    == 0            \* the main thread, which is not in All
All     == 1..N         \* vector <JobCtrl *> All
Threads == 0..N

VARIABLES prog,         \* the workload that runs
          pc, stack,    \* where each thread is, and in which nested tasks
          Avail,        \* vector <JobCtrl *> Avail, used as a stack
          AllocWaiting, BusyLocksWaiting,   \* the two counters of waiters
          asleep,       \* the threads asleep on ThreadPool.CV
          Task, Busy,   \* of each JobCtrl
          posted,       \* the locks whose Busy flag is down
          StopThreads,
          joining,      \* the job JoinAll has come to
          given, done   \* the tasks submitted so far, and the finished ones

counters == <<AllocWaiting, BusyLocksWaiting>>
jobs     == <<Task, Busy>>
shutdown == <<StopThreads, joining>>
vars     == <<prog, pc, stack, Avail, counters, asleep, jobs, posted, shutdown, given, done>>

Frame(task, at) == [task |-> task, at |-> at]

Init ==
    /\ prog \in Workloads
    /\ pc = [t \in Threads |-> IF t = Main THEN "run" ELSE "enter"]
    /\ stack = [t \in Threads |-> IF t = Main THEN <<Frame("main", 1)>> ELSE <<>>]
    /\ Avail = [i \in All |-> i]
    /\ AllocWaiting = 0 /\ BusyLocksWaiting = 0
    /\ asleep = {}
    /\ Task = [w \in All |-> "none"]
    /\ Busy = [w \in All |-> FALSE]
    /\ posted = {}
    /\ StopThreads = FALSE /\ joining = 1
    /\ given = {"main"} /\ done = {}
-----------------------------------------------------------------------------
(* Where a thread is in its innermost task. *)

Top(t)    == Last(stack[t])
AtEnd(t)  == Top(t).at > Len(prog[Top(t).task])
Call(t)   == prog[Top(t).task][Top(t).at]
Calls(t, op) == pc[t] = "run" /\ ~AtEnd(t) /\ Call(t).op = op

\* The stack after the call the thread is in.
Returned(t) == [stack[t] EXCEPT ![Len(stack[t])].at = @ + 1]

Goto(t, where) == pc' = [pc EXCEPT ![t] = where]

\* std::terminate has ended the process.
Aborted == \E t \in Threads : pc[t] = "abort"
-----------------------------------------------------------------------------
(* Execute and AllocThread. *)

\* Variant that would not give up when every worker waits.
NeverGiveUp(waiting, wait) == Avail # <<>> \/ ~wait

\* The condition AllocThread waits for, with waiting the value of AllocWaiting.
StopWaiting(waiting, wait) ==
    \/ Avail # <<>>
    \/ ~wait
    \/ BusyLocksWaiting + waiting + 1 >= N

\* Variant that forgets to take the worker out of Avail.
TakeKeeps(t, waiting) ==
    /\ AllocWaiting' = waiting
    /\ asleep' = {}
    /\ IF Avail # <<>>
       THEN /\ Goto(t, "go")
            /\ Task' = [Task EXCEPT ![Last(Avail)] = Call(t).arg]
            /\ UNCHANGED <<stack, Avail>>
       ELSE /\ Goto(t, "run")
            /\ stack' = [stack EXCEPT ![t] = Append(Returned(t), Frame(Call(t).arg, 1))]
            /\ UNCHANGED <<Task, Avail>>

\* The rest of AllocThread once the wait is over: the last worker of Avail gets
\* the task, or the caller runs it in place when there is none.
Take(t, waiting) ==
    /\ AllocWaiting' = waiting
    /\ asleep' = {}
    /\ IF Avail # <<>>
       THEN /\ Goto(t, "go")
            /\ Task' = [Task EXCEPT ![Last(Avail)] = Call(t).arg]
            /\ Avail' = Front(Avail)
            /\ UNCHANGED stack
       ELSE /\ Goto(t, "run")
            /\ stack' = [stack EXCEPT ![t] = Append(Returned(t), Frame(Call(t).arg, 1))]
            /\ UNCHANGED <<Task, Avail>>

Weight(wait) == IF wait THEN 1 ELSE 0

\* AllocThread up to its wait: notify_all, then the first test of the condition.
Execute(t) ==
    /\ Calls(t, "exec")
    /\ given' = given \cup {Call(t).arg}
    /\ LET waiting == AllocWaiting + Weight(Call(t).wait)
       IN  IF StopWaiting(waiting, Call(t).wait)
           THEN Take(t, AllocWaiting)
           ELSE /\ AllocWaiting' = waiting
                /\ asleep' = {t}
                /\ Goto(t, "alloc")
                /\ UNCHANGED <<stack, Avail, Task>>
    /\ UNCHANGED <<prog, BusyLocksWaiting, Busy, posted, shutdown, done>>

\* Variant that gives up the wait and stays counted.
AllocAgainStaysCounted(t) ==
    /\ pc[t] = "alloc" /\ t \notin asleep
    /\ IF StopWaiting(AllocWaiting, Call(t).wait)
       THEN Take(t, AllocWaiting)
       ELSE /\ asleep' = asleep \cup {t}
            /\ UNCHANGED <<pc, stack, Avail, AllocWaiting, Task>>
    /\ UNCHANGED <<prog, BusyLocksWaiting, Busy, posted, shutdown, given, done>>

\* A notified thread tests the condition again.
AllocAgain(t) ==
    /\ pc[t] = "alloc" /\ t \notin asleep
    /\ IF StopWaiting(AllocWaiting, Call(t).wait)
       THEN Take(t, AllocWaiting - Weight(Call(t).wait))
       ELSE /\ asleep' = asleep \cup {t}
            /\ UNCHANGED <<pc, stack, Avail, AllocWaiting, Task>>
    /\ UNCHANGED <<prog, BusyLocksWaiting, Busy, posted, shutdown, given, done>>

\* A worker holds the mutex of its BusyLock from WaitBusy's start to its sleep.
HoldsMutex(w) == pc[w] \in {"test", "doze"}

\* Thr->Go (): raise the worker's Busy flag and wake it.
Go(t) ==
    /\ pc[t] = "go"
    /\ \E w \in All :
        /\ Task[w] = Call(t).arg
        /\ ~HoldsMutex(w)
        /\ Busy' = [Busy EXCEPT ![w] = TRUE]
        /\ pc' = [pc EXCEPT ![t] = "run", ![w] = IF @ = "asleep" THEN "test" ELSE @]
    /\ stack' = [stack EXCEPT ![t] = Returned(t)]
    /\ UNCHANGED <<prog, Avail, counters, asleep, Task, posted, shutdown, given, done>>
-----------------------------------------------------------------------------
(* The calls of a task that are not Execute. *)

\* BusyLock::WaitIdle up to the first test of its condition.
LockEnter(t) ==
    /\ Calls(t, "lock")
    /\ BusyLocksWaiting' = BusyLocksWaiting + 1
    /\ Goto(t, "lock")
    /\ UNCHANGED <<prog, stack, Avail, AllocWaiting, asleep, jobs, posted, shutdown, given, done>>

\* The condition does not hold.  The post of the lock will wake the thread; the
\* setting of StopThreads, which the condition reads as well, will not.
LockSleep(t) ==
    /\ pc[t] = "lock"
    /\ Call(t).arg \notin posted /\ ~StopThreads
    /\ Goto(t, "locked")
    /\ UNCHANGED <<prog, stack, Avail, counters, asleep, jobs, posted, shutdown, given, done>>

\* Variant without BUSYLOCK_WDEC.
LockLeaveStaysCounted(t) ==
    /\ pc[t] = "lock"
    /\ Call(t).arg \in posted \/ StopThreads
    /\ Goto(t, "run")
    /\ stack' = [stack EXCEPT ![t] = Returned(t)]
    /\ UNCHANGED <<prog, Avail, counters, asleep, jobs, posted, shutdown, given, done>>

LockLeave(t) ==
    /\ pc[t] = "lock"
    /\ Call(t).arg \in posted \/ StopThreads
    /\ BusyLocksWaiting' = BusyLocksWaiting - 1
    /\ Goto(t, "run")
    /\ stack' = [stack EXCEPT ![t] = Returned(t)]
    /\ UNCHANGED <<prog, Avail, AllocWaiting, asleep, jobs, posted, shutdown, given, done>>

PostIdle(t) ==
    /\ Calls(t, "post")
    /\ posted' = posted \cup {Call(t).arg}
    /\ pc' = [u \in Threads |-> IF pc[u] = "locked" /\ Call(u).arg = Call(t).arg
                                THEN "lock" ELSE pc[u]]
    /\ stack' = [stack EXCEPT ![t] = Returned(t)]
    /\ UNCHANGED <<prog, Avail, counters, asleep, jobs, shutdown, given, done>>

\* An exception goes up to BackGroundWorker or main (), whose handler calls exit
\* in this thread: what is left is the destructor of the pool, in JoinAll.
Throw(t) ==
    /\ Calls(t, "throw")
    /\ stack' = [stack EXCEPT ![t] = <<>>]
    /\ Goto(t, "stop")
    /\ UNCHANGED <<prog, Avail, counters, asleep, jobs, posted, shutdown, given, done>>

\* Variant that takes one worker at work for idleness.
IdleButOne(t) ==
    /\ Calls(t, "idle") \/ (pc[t] = "pool" /\ t \notin asleep)
    /\ IF Len(Avail) + 1 >= N
       THEN /\ Goto(t, "run")
            /\ stack' = [stack EXCEPT ![t] = Returned(t)]
            /\ UNCHANGED asleep
       ELSE /\ Goto(t, "pool")
            /\ asleep' = asleep \cup {t}
            /\ UNCHANGED stack
    /\ UNCHANGED <<prog, Avail, counters, jobs, posted, shutdown, given, done>>

\* ThreadPool_t::WaitIdle, each test of its condition.
WaitIdle(t) ==
    /\ Calls(t, "idle") \/ (pc[t] = "pool" /\ t \notin asleep)
    /\ IF Len(Avail) = N
       THEN /\ Goto(t, "run")
            /\ stack' = [stack EXCEPT ![t] = Returned(t)]
            /\ UNCHANGED asleep
       ELSE /\ Goto(t, "pool")
            /\ asleep' = asleep \cup {t}
            /\ UNCHANGED stack
    /\ UNCHANGED <<prog, Avail, counters, jobs, posted, shutdown, given, done>>

\* The task returns: to the one that ran it in place, to the worker's loop, or,
\* in the main thread, out of main () and so into JoinAll.
Return(t) ==
    /\ pc[t] = "run" /\ AtEnd(t)
    /\ done' = done \cup {Top(t).task}
    /\ stack' = [stack EXCEPT ![t] = Front(@)]
    /\ IF Len(stack[t]) > 1 THEN UNCHANGED pc
       ELSE Goto(t, IF t = Main THEN "stop" ELSE "finish")
    /\ UNCHANGED <<prog, Avail, counters, asleep, jobs, posted, shutdown, given>>
-----------------------------------------------------------------------------
(* BackGroundWorker: its two steps after a job, and WaitBusy. *)

\* Variant that leaves the flag up: the next WaitBusy runs the old job again.
FinishStillBusy(w) ==
    /\ pc[w] = "finish"
    /\ Goto(w, "release")
    /\ UNCHANGED <<prog, stack, Avail, counters, asleep, jobs, posted, shutdown, given, done>>

Finish(w) ==
    /\ pc[w] = "finish"
    /\ Busy' = [Busy EXCEPT ![w] = FALSE]
    /\ Goto(w, "release")
    /\ UNCHANGED <<prog, stack, Avail, counters, asleep, Task, posted, shutdown, given, done>>

ReleaseThread(w) ==
    /\ pc[w] = "release"
    /\ Avail' = Append(Avail, w)
    /\ asleep' = {}
    /\ Goto(w, "enter")
    /\ UNCHANGED <<prog, stack, counters, jobs, posted, shutdown, given, done>>

WaitBusyEnter(w) ==
    /\ pc[w] = "enter"
    /\ BusyLocksWaiting' = BusyLocksWaiting + 1
    /\ Goto(w, "test")
    /\ UNCHANGED <<prog, stack, Avail, AllocWaiting, asleep, jobs, posted, shutdown, given, done>>

\* The test of WaitBusy and, when it holds, the worker's own test of StopThreads.
WaitBusyTest(w) ==
    /\ pc[w] = "test"
    /\ \/ /\ ~Busy[w] /\ ~StopThreads
          /\ Goto(w, "doze")
          /\ UNCHANGED <<BusyLocksWaiting, stack, Busy>>
       \/ /\ Busy[w] /\ ~StopThreads
          /\ Goto(w, "run")
          /\ BusyLocksWaiting' = BusyLocksWaiting - 1
          /\ stack' = [stack EXCEPT ![w] = <<Frame(Task[w], 1)>>]
          /\ UNCHANGED Busy
       \/ /\ StopThreads
          /\ Goto(w, "gone")
          /\ BusyLocksWaiting' = BusyLocksWaiting - 1
          /\ Busy' = [Busy EXCEPT ![w] = FALSE]
          /\ UNCHANGED stack
    /\ UNCHANGED <<prog, Avail, AllocWaiting, asleep, Task, posted, shutdown, given, done>>

\* Blocking on the condition variable releases the mutex; a Notify sent since
\* the test is lost.
FallAsleep(w) ==
    /\ pc[w] = "doze"
    /\ Goto(w, "asleep")
    /\ UNCHANGED <<prog, stack, Avail, counters, asleep, jobs, posted, shutdown, given, done>>
-----------------------------------------------------------------------------
(* JoinAll, from the destructor of the pool, in the thread that exits. *)

Stop(t) ==
    /\ pc[t] = "stop"
    /\ StopThreads' = TRUE
    /\ Goto(t, "notify")
    /\ UNCHANGED <<prog, stack, Avail, counters, asleep, jobs, posted, joining, given, done>>

\* Notify takes no mutex: it wakes the worker only if it is asleep by now.
NotifyJob(t) ==
    /\ pc[t] = "notify"
    /\ pc' = [pc EXCEPT ![t] = "join",
                        ![joining] = IF @ = "asleep" THEN "test" ELSE @]
    /\ UNCHANGED <<prog, stack, Avail, counters, asleep, jobs, posted, shutdown, given, done>>

JoinJob(t) ==
    /\ pc[t] = "join"
    /\ pc[joining] = "gone"
    /\ IF joining = N
       THEN Goto(t, "gone") /\ UNCHANGED joining
       ELSE Goto(t, "notify") /\ joining' = joining + 1
    /\ UNCHANGED <<prog, stack, Avail, counters, asleep, jobs, posted, StopThreads, given, done>>

\* A worker that exits comes to itself: join throws out of a destructor.
JoinSelf(t) ==
    /\ pc[t] = "join" /\ joining = t
    /\ Goto(t, "abort")
    /\ UNCHANGED <<prog, stack, Avail, counters, asleep, jobs, posted, shutdown, given, done>>
-----------------------------------------------------------------------------
RunStep(t) ==
    /\ ~Aborted
    /\ \/ Execute(t) \/ AllocAgain(t) \/ Go(t)
       \/ LockEnter(t) \/ LockSleep(t) \/ LockLeave(t) \/ PostIdle(t)
       \/ WaitIdle(t) \/ Return(t) \/ Throw(t)

WorkerStep(w) ==
    /\ ~Aborted
    /\ \/ Finish(w) \/ ReleaseThread(w)
       \/ WaitBusyEnter(w) \/ WaitBusyTest(w) \/ FallAsleep(w)

JoinAll(t) == Stop(t) \/ NotifyJob(t) \/ JoinJob(t) \/ JoinSelf(t)

Next ==
    \/ \E t \in Threads : RunStep(t) \/ JoinAll(t)
    \/ \E w \in All : WorkerStep(w)

\* Every thread that can go on does: the scheduler of the operating system.
Fairness ==
    /\ \A t \in Threads : WF_vars(RunStep(t)) /\ WF_vars(JoinAll(t))
    /\ \A w \in All : WF_vars(WorkerStep(w))

Spec == Init /\ [][Next]_vars /\ Fairness
-----------------------------------------------------------------------------
\* Type invariant of the pool's own state.
TypeOK ==
    /\ Avail \in Seq(All) /\ asleep \subseteq Threads
    /\ AllocWaiting \in 0..N + 1 /\ BusyLocksWaiting \in 0..N + 1
    /\ Busy \in [All -> BOOLEAN]
    /\ pc \in [Threads -> {"run", "alloc", "go", "lock", "locked", "pool", "finish", "release",
                           "enter", "test", "doze", "asleep", "stop", "notify",
                           "join", "gone", "abort"}]
    /\ done \subseteq given /\ joining \in All

\* A worker that was given a job and has not come out of WaitBusy yet.
Pending(w) == Busy[w] /\ pc[w] \in {"enter", "test", "doze", "asleep"}

\* The places a submitted task is in: it waits for a worker, is on its way to
\* one, runs, or has finished.
Places(k) ==
    {<<"submitter", t>> : t \in {u \in Threads : pc[u] \in {"alloc", "go"} /\ Call(u).arg = k}}
    \cup {<<"worker", w>> : w \in {v \in All : Pending(v) /\ Task[v] = k}}
    \cup (UNION {{<<"stack", t, i>> : i \in {j \in DOMAIN stack[t] : stack[t][j].task = k}} :
                  t \in Threads})
    \cup {<<"done">> : d \in {k} \cap done}

\* No job is lost between Execute, the worker's Busy flag and its release, and
\* none is run twice: each submitted task is in one place, unless a thread throws.
EachTaskInOnePlace ==
    (\A t \in Threads : pc[t] \notin {"stop", "notify", "join", "gone", "abort"})
        => \A k \in given : Cardinality(Places(k)) = 1

\* A worker in Avail has finished with its last job: AllocThread may hand it a
\* new one whose Busy flag the worker will not take down (ThreadPool.cpp:38-40).
AvailableIsFree ==
    \A i \in DOMAIN Avail :
        /\ ~Busy[Avail[i]] /\ stack[Avail[i]] = <<>>
        /\ \A j \in DOMAIN Avail : i # j => Avail[i] # Avail[j]

\* The counters the escape of AllocThread adds up (ThreadPool.cpp:121) are the
\* numbers of threads that wait in AllocThread and on a BusyLock.
CountersExact ==
    /\ AllocWaiting = Cardinality({t \in Threads : pc[t] = "alloc"})
    /\ BusyLocksWaiting = Cardinality({t \in Threads : pc[t] \in {"lock", "locked", "test", "doze", "asleep"}})

\* ThreadPool.WaitIdle lets the main thread pass only when everything submitted
\* so far has finished, what DoExtract, DoTest and DoCreate go on to assume, and
\* never when a task has thrown: a backup that fails is not marked as finished,
\* though StopThreads lets other tasks pass the locks it would have posted.
IdleMeansDone ==
    [][\A t \in Threads :
          /\ Calls(t, "idle") \/ pc[t] = "pool"
          /\ stack'[t] # stack[t]
          => given = done \cup {"main"}]_vars

\* The command finishes: main () returns, or a thread that threw calls exit.
Finishes == <>(\E t \in Threads : pc[t] = "stop")

\* Once JoinAll has set StopThreads, every thread quits ("when set, all threads
\* will quit", ThreadPool.cpp:8).
AllThreadsQuit == (pc[Main] = "stop") ~> (\A t \in Threads : pc[t] = "gone")
=============================================================================
