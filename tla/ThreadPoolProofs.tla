-------------------------- MODULE ThreadPoolProofs --------------------------
(***************************************************************************)
(* Theorems about ThreadPool.tla, for every number of workers and every    *)
(* workload.  The invariant follows each submitted task from its submitter *)
(* over the worker that was picked for it and the stack it runs on to its  *)
(* end, and says why it cannot be in two of these places.                  *)
(***************************************************************************)
EXTENDS ThreadPool, TLAPS, FiniteSetTheorems, SequenceTheorems
-----------------------------------------------------------------------------
(* The inductive invariant. *)

Labels == {"run", "alloc", "go", "lock", "locked", "pool", "finish", "release",
           "enter", "test", "doze", "asleep", "stop", "notify", "join", "gone", "abort"}

Resting == {"enter", "test", "doze", "asleep", "gone"}  \* a worker without a task
Leaving == {"stop", "notify", "join", "abort"}          \* a thread in exit
Calling == {"alloc", "go", "lock", "locked", "pool"}    \* a thread inside of a call

FrameSet == [task : DOMAIN prog, at : Nat]

\* The types of what is not a counter.
Typed ==
    /\ prog \in Workloads
    /\ pc \in [Threads -> Labels]
    /\ stack \in [Threads -> Seq(FrameSet)]
    /\ Avail \in Seq(All) /\ asleep \subseteq Threads
    /\ Task \in [All -> DOMAIN prog \cup {"none"}]
    /\ Busy \in [All -> BOOLEAN]
    /\ StopThreads \in BOOLEAN /\ joining \in All
    /\ given \subseteq DOMAIN prog /\ done \subseteq given

\* A thread has a stack while it runs tasks, and stands before the call its pc is in.
PlacedAt(t) ==
    /\ stack[t] = <<>> <=> pc[t] \notin {"run"} \cup Calling
    /\ pc[t] \in Calling => Top(t).at \in DOMAIN prog[Top(t).task]
    /\ pc[t] \in {"alloc", "go"} => Call(t).op = "exec"
    /\ pc[t] = "alloc" => Call(t).wait
    /\ pc[t] \in {"lock", "locked"} => Call(t).op = "lock"
    /\ pc[t] = "pool" => Call(t).op = "idle"
    /\ pc[t] \in {"finish", "release", "enter", "test", "doze", "asleep"} => t # Main
    /\ \A j \in DOMAIN stack[t] : stack[t][j].at \in 1..Len(prog[stack[t][j].task]) + 1

Placed == \A t \in Threads : PlacedAt(t)

\* The three places of a task that is not done.
Submits(t, k) == pc[t] \in {"alloc", "go"} /\ Call(t).arg = k
Awaits(w, k)  == Pending(w) /\ Task[w] = k
On(t, j, k)   == j \in DOMAIN stack[t] /\ stack[t][j].task = k
Runs(t, k)    == \E j : On(t, j, k)

\* A task that is not done is in no two places (Handed adds that no two workers have
\* it), only submitted ones are in one, and "main" is only at the bottom of the main
\* thread's stack.
OnceAt(k) ==
    /\ \A t, u \in Threads : Submits(t, k) /\ Submits(u, k) => t = u
    /\ \A t, u \in Threads : \A i, j : On(t, i, k) /\ On(u, j, k) => t = u /\ i = j
    /\ \A t, u \in Threads : \A j : Submits(t, k) => ~On(u, j, k)
    /\ \A w \in All : Awaits(w, k) =>
          /\ k \notin done
          /\ \A t \in Threads : ~Submits(t, k) /\ \A j : ~On(t, j, k)
    /\ \A t \in Threads : Submits(t, k) => k \in given /\ k \notin done /\ k # "main"
    /\ \A t \in Threads : \A j : On(t, j, k) =>
          k \in given /\ k \notin done /\ (k = "main" => t = Main /\ j = 1)

Once == \A k \in DOMAIN prog : OnceAt(k)

\* The call at place i of task k has been made, or its thread is in it.
Passed(k, i) ==
    /\ k \in given
    /\ \A w \in All : ~Awaits(w, k)
    /\ \A t \in Threads :
          /\ ~Submits(t, k)
          /\ \A j : On(t, j, k) =>
                \/ stack[t][j].at > i
                \/ stack[t][j].at = i /\ j = Len(stack[t]) /\ pc[t] \in {"alloc", "go"}

\* A task has been submitted only if the one call that submits it has been made.
CallsMade ==
    \A k \in DOMAIN prog : \A i \in DOMAIN prog[k] :
        prog[k][i].op = "exec" /\ prog[k][i].arg \in given => Passed(k, i)

\* The hand-over from AllocThread to Go: a thread on its way to Go has a free
\* worker that keeps its task, and no two workers have the same one.
Handed ==
    /\ \A v, w \in All : Task[v] = Task[w] /\ Task[v] # "none" => v = w
    /\ \A w \in All : Task[w] # "none" => Task[w] \in given /\ Task[w] # "main"
    /\ \A w \in All : Busy[w] => Task[w] # "none"
    /\ \A t \in Threads : pc[t] = "alloc" => \A w \in All : Task[w] # Call(t).arg
    /\ \A t \in Threads : pc[t] = "go" =>
          \E w \in All : /\ Task[w] = Call(t).arg
                         /\ ~Busy[w] /\ pc[w] \in Resting
                         /\ \A i \in DOMAIN Avail : Avail[i] # w

\* The workers in Avail rest, each is there once, and one that comes back has its
\* flag down.
AvailRests ==
    /\ \A i \in DOMAIN Avail :
          /\ ~Busy[Avail[i]] /\ pc[Avail[i]] \in Resting
          /\ \A j \in DOMAIN Avail : i # j => Avail[i] # Avail[j]
    /\ \A w \in All : pc[w] = "release" => ~Busy[w]

\* A thread has called exit.
ExitBegun == pc[Main] = "gone" \/ \E t \in Threads : pc[t] \in Leaving

\* Workers quit in exit only, and JoinAll has seen the ones it has passed quit.
QuitsInExit ==
    /\ StopThreads => ExitBegun
    /\ \A w \in All : pc[w] = "gone" => StopThreads
    /\ \A w \in All : w < joining => pc[w] = "gone"

\* Until then no task is lost.
NoneLost ==
    ~ExitBegun =>
        \A k \in given :
            \/ k \in done
            \/ \E t \in Threads : Submits(t, k)
            \/ \E w \in All : Awaits(w, k)
            \/ \E t \in Threads : Runs(t, k)

Inv == Typed /\ Placed /\ Once /\ CallsMade /\ Handed /\ AvailRests /\ QuitsInExit /\ NoneLost
-----------------------------------------------------------------------------
(* Stacks: what the four changes of a stack do to its frames. *)

\* A call that returns moves the innermost frame on by one.
LEMMA ReturnedLemma ==
    ASSUME NEW K, NEW S \in Seq([task : K, at : Nat]), S # <<>>
    PROVE  LET R == [S EXCEPT ![Len(S)].at = @ + 1]
           IN  /\ R \in Seq([task : K, at : Nat]) /\ R # <<>>
               /\ Len(R) = Len(S) /\ DOMAIN R = DOMAIN S
               /\ \A j \in DOMAIN S : R[j].task = S[j].task
               /\ \A j \in DOMAIN S : j # Len(S) => R[j] = S[j]
               /\ R[Len(S)].at = S[Len(S)].at + 1
<1> DEFINE e == [S[Len(S)] EXCEPT !.at = @ + 1]
           R == [S EXCEPT ![Len(S)].at = @ + 1]
<1>1. Len(S) \in 1..Len(S)
  BY EmptySeq
<1>2. S[Len(S)] \in [task : K, at : Nat]
  BY <1>1, ElementOfSeq
<1>3. e \in [task : K, at : Nat] /\ e.task = S[Len(S)].task /\ e.at = S[Len(S)].at + 1
  BY <1>2
<1>4. R = [S EXCEPT ![Len(S)] = e]
  OBVIOUS
<1> HIDE DEF e
<1>5. /\ R \in Seq([task : K, at : Nat]) /\ Len(R) = Len(S)
      /\ \A j \in 1..Len(S) : R[j] = IF j = Len(S) THEN e ELSE S[j]
  BY <1>1, <1>3, <1>4, ExceptSeq
<1> HIDE DEF R
<1>6. DOMAIN R = DOMAIN S /\ DOMAIN S = 1..Len(S)
  BY <1>5, LenProperties
<1>7. R # <<>>
  BY <1>5, <1>1
<1>8. \A j \in DOMAIN S : R[j].task = S[j].task
  BY <1>3, <1>5, <1>6
<1>9. (\A j \in DOMAIN S : j # Len(S) => R[j] = S[j]) /\ R[Len(S)].at = S[Len(S)].at + 1
  BY <1>1, <1>3, <1>5, <1>6
<1> QED
  BY <1>5, <1>6, <1>7, <1>8, <1>9 DEF R

\* A task that runs in place gets a frame on top.
LEMMA PushLemma ==
    ASSUME NEW F, NEW S \in Seq(F), NEW e \in F
    PROVE  /\ Append(S, e) \in Seq(F) /\ Append(S, e) # <<>>
           /\ Len(Append(S, e)) = Len(S) + 1
           /\ DOMAIN Append(S, e) = DOMAIN S \cup {Len(S) + 1}
           /\ Len(S) + 1 \notin DOMAIN S
           /\ \A j \in DOMAIN S : Append(S, e)[j] = S[j]
           /\ Append(S, e)[Len(S) + 1] = e
<1>1. Len(S) \in Nat /\ DOMAIN S = 1..Len(S)
  BY LenProperties
<1>2. DOMAIN Append(S, e) = 1..Len(S) + 1
  BY AppendProperties, LenProperties
<1>3. 1..Len(S) + 1 = (1..Len(S)) \cup {Len(S) + 1} /\ Len(S) + 1 \notin 1..Len(S)
  BY <1>1
<1> QED
  BY <1>1, <1>2, <1>3, AppendProperties

\* A task that returns takes its frame off.
LEMMA PopLemma ==
    ASSUME NEW F, NEW S \in Seq(F), S # <<>>
    PROVE  /\ Front(S) \in Seq(F)
           /\ Len(Front(S)) = Len(S) - 1 /\ DOMAIN Front(S) = 1..Len(S) - 1
           /\ DOMAIN S = 1..Len(S) /\ Len(S) \in Nat \ {0}
           /\ \A j \in 1..Len(S) - 1 : Front(S)[j] = S[j]
           /\ Front(S) = <<>> <=> Len(S) = 1
<1>1. Len(S) \in Nat \ {0} /\ DOMAIN S = 1..Len(S)
  BY EmptySeq, LenProperties
<1>2. \A i \in 1..Len(S) - 1 : S[i] \in F
  BY <1>1, ElementOfSeq
<1>3. /\ SubSeq(S, 1, Len(S) - 1) \in Seq(F)
      /\ Len(SubSeq(S, 1, Len(S) - 1)) = IF 1 <= Len(S) - 1 THEN Len(S) - 1 - 1 + 1 ELSE 0
      /\ \A i \in 1..Len(S) - 1 - 1 + 1 : SubSeq(S, 1, Len(S) - 1)[i] = S[1 + i - 1]
  BY <1>1, <1>2, SubSeqProperties
<1>4. /\ Front(S) \in Seq(F) /\ Len(Front(S)) = Len(S) - 1
      /\ \A i \in 1..Len(S) - 1 : Front(S)[i] = S[i]
  BY <1>1, <1>3 DEF Front
<1>5. DOMAIN Front(S) = 1..Len(S) - 1
  BY <1>4, LenProperties
<1>6. Front(S) = <<>> <=> Len(S) = 1
  BY <1>1, <1>4, EmptySeq
<1> QED
  BY <1>1, <1>4, <1>5, <1>6
-----------------------------------------------------------------------------
(* What a thread is about to do. *)

\* The innermost frame of a thread that runs tasks.
LEMMA TopLemma ==
    ASSUME Typed, NEW t \in Threads, stack[t] # <<>>
    PROVE  /\ Len(stack[t]) \in Nat \ {0} /\ DOMAIN stack[t] = 1..Len(stack[t])
           /\ Top(t) = stack[t][Len(stack[t])] /\ Top(t) \in FrameSet
           /\ Top(t).task \in DOMAIN prog /\ Top(t).at \in Nat
           /\ On(t, Len(stack[t]), Top(t).task)
<1>1. stack[t] \in Seq(FrameSet)
  BY DEF Typed
<1>2. Len(stack[t]) \in Nat \ {0} /\ DOMAIN stack[t] = 1..Len(stack[t])
  BY <1>1, EmptySeq, LenProperties
<1>3. Top(t) = stack[t][Len(stack[t])]
  BY DEF Top, Last
<1>4. Top(t) \in FrameSet
  BY <1>1, <1>2, <1>3, ElementOfSeq
<1> QED
  BY <1>2, <1>3, <1>4 DEF FrameSet, On

\* The calls of a task, and what an Execute among them says.
LEMMA ProgLemma ==
    ASSUME Typed, NEW k \in DOMAIN prog
    PROVE  /\ Len(prog[k]) \in Nat /\ DOMAIN prog[k] = 1..Len(prog[k])
           /\ \A i \in DOMAIN prog[k] :
                 /\ prog[k][i].wait \in BOOLEAN
                 /\ prog[k][i].op = "exec" => prog[k][i].arg \in DOMAIN prog \ {"main"}
                 /\ prog[k][i].op = "idle" => k = "main"
           /\ "main" \in DOMAIN prog /\ "none" \notin DOMAIN prog
<1>1. IsWorkload(prog)
  BY WorkloadsAssumption DEF Typed
<1>2. prog[k] \in Seq([op : {"exec", "lock", "post", "idle", "throw"},
                       arg : STRING, wait : BOOLEAN])
  BY <1>1 DEF IsWorkload
<1>3. Len(prog[k]) \in Nat /\ DOMAIN prog[k] = 1..Len(prog[k])
  BY <1>2, LenProperties
<1>4. \A i \in DOMAIN prog[k] : prog[k][i].wait \in BOOLEAN
  <2>1. \A i \in DOMAIN prog[k] :
           prog[k][i] \in [op : {"exec", "lock", "post", "idle", "throw"},
                           arg : STRING, wait : BOOLEAN]
    BY <1>2, <1>3, ElementOfSeq
  <2> QED
    BY <2>1
<1>5. /\ \A i \in DOMAIN prog[k] :
            /\ prog[k][i].op = "exec" => prog[k][i].arg \in DOMAIN prog \ {"main"}
            /\ prog[k][i].op = "idle" => k = "main"
      /\ "main" \in DOMAIN prog /\ "none" \notin DOMAIN prog
  BY <1>1, Zenon DEF IsWorkload
<1> QED
  BY <1>3, <1>4, <1>5

\* A thread that runs is at a call or at the end of its innermost task.
LEMMA CallLemma ==
    ASSUME Typed, Placed, NEW t \in Threads, pc[t] = "run" \/ pc[t] \in Calling
    PROVE  /\ stack[t] # <<>>
           /\ Top(t).at \in 1..Len(prog[Top(t).task]) + 1
           /\ ~AtEnd(t) => Top(t).at \in DOMAIN prog[Top(t).task]
           /\ pc[t] \in Calling => Top(t).at \in DOMAIN prog[Top(t).task]
           /\ Top(t).at \in DOMAIN prog[Top(t).task] =>
                 /\ Call(t).wait \in BOOLEAN
                 /\ Call(t).op = "exec" => Call(t).arg \in DOMAIN prog \ {"main"}
                 /\ Call(t).op = "idle" => Top(t).task = "main"
<1>1. stack[t] # <<>>
  BY DEF Placed, PlacedAt
<1>2. Top(t).at \in 1..Len(prog[Top(t).task]) + 1
  BY <1>1, TopLemma DEF Placed, PlacedAt
<1>3. /\ Top(t).task \in DOMAIN prog
      /\ Len(prog[Top(t).task]) \in Nat /\ DOMAIN prog[Top(t).task] = 1..Len(prog[Top(t).task])
  BY <1>1, TopLemma, ProgLemma
<1>4. ~AtEnd(t) => Top(t).at \in DOMAIN prog[Top(t).task]
  BY <1>2, <1>3 DEF AtEnd
<1>5. pc[t] \in Calling => Top(t).at \in DOMAIN prog[Top(t).task]
  BY DEF Placed, PlacedAt
<1>6. Top(t).at \in DOMAIN prog[Top(t).task] =>
                 /\ Call(t).wait \in BOOLEAN
                 /\ Call(t).op = "exec" => Call(t).arg \in DOMAIN prog \ {"main"}
                 /\ Call(t).op = "idle" => Top(t).task = "main"
  BY <1>3, ProgLemma DEF Call
<1> QED
  BY <1>1, <1>2, <1>4, <1>5, <1>6

\* A thread whose stack does not change stays where it is in its tasks.
LEMMA SameStackLemma ==
    ASSUME prog' = prog, NEW t, stack'[t] = stack[t]
    PROVE  /\ Top(t)' = Top(t) /\ Call(t)' = Call(t)
           /\ \A j, k : On(t, j, k)' <=> On(t, j, k)
  BY DEF Top, Call, On
-----------------------------------------------------------------------------
(* The effects of the steps on the stacks. *)

\* Frames in place, in the sense of Placed.
AtsIn(S, load) == \A j \in DOMAIN S : S[j].at \in 1..Len(load[S[j].task]) + 1

\* A call of t returns.
Advances(t) ==
    /\ prog' = prog /\ stack' = [stack EXCEPT ![t] = Returned(t)]
    /\ Top(t).at \in DOMAIN prog[Top(t).task]

\* t begins task k in place, after its call.
Pushes(t, k) ==
    /\ prog' = prog /\ stack' = [stack EXCEPT ![t] = Append(Returned(t), Frame(k, 1))]
    /\ Top(t).at \in DOMAIN prog[Top(t).task]

\* The innermost task of t returns.
Pops(t) == prog' = prog /\ stack' = [stack EXCEPT ![t] = Front(@)]

\* Worker t begins task k.
Begins(t, k) == prog' = prog /\ stack' = [stack EXCEPT ![t] = <<Frame(k, 1)>>]

\* What a step that changes the stack of t only leaves alone.
Others(t) == \A u \in Threads : u # t => stack'[u] = stack[u]

\* A call that returns keeps the frames and moves the innermost one to the next call.
LEMMA AdvancesLemma ==
    ASSUME Typed, Placed, NEW t \in Threads, stack[t] # <<>>, Advances(t)
    PROVE  /\ stack' \in [Threads -> Seq(FrameSet)] /\ Others(t)
           /\ stack'[t] # <<>> /\ AtsIn(stack'[t], prog) /\ Len(stack'[t]) = Len(stack[t])
           /\ \A u \in Threads : \A j, k : On(u, j, k)' <=> On(u, j, k)
           /\ \A j \in DOMAIN stack[t] : stack'[t][j].at >= stack[t][j].at
           /\ stack'[t][Len(stack[t])].at = Top(t).at + 1
<1> DEFINE S == stack[t]
           R == [S EXCEPT ![Len(S)].at = @ + 1]
<1>1. S \in Seq([task : DOMAIN prog, at : Nat])
  BY DEF Typed, FrameSet
<1>2. stack' = [stack EXCEPT ![t] = R]
  BY DEF Advances, Returned
<1>3. stack'[t] = R /\ Others(t)
  BY <1>2 DEF Others, Typed
<1> HIDE DEF R
<1>4. /\ R \in Seq([task : DOMAIN prog, at : Nat]) /\ R # <<>>
      /\ Len(R) = Len(S) /\ DOMAIN R = DOMAIN S
      /\ \A j \in DOMAIN S : R[j].task = S[j].task
      /\ \A j \in DOMAIN S : j # Len(S) => R[j] = S[j]
      /\ R[Len(S)].at = S[Len(S)].at + 1
  BY <1>1, ReturnedLemma DEF R
<1>5. stack' \in [Threads -> Seq(FrameSet)]
  BY <1>2, <1>4 DEF Typed, FrameSet
<1>6. ASSUME NEW u \in Threads, NEW j, NEW k
      PROVE  On(u, j, k)' <=> On(u, j, k)
  BY <1>3, <1>4 DEF On, Others
<1>7. \A j \in DOMAIN S : S[j].at \in 1..Len(prog[S[j].task]) + 1 /\ S[j].task \in DOMAIN prog
  <2>1. \A j \in DOMAIN S : S[j] \in [task : DOMAIN prog, at : Nat]
    BY <1>1, LenProperties, ElementOfSeq
  <2> QED
    BY <2>1 DEF Placed, PlacedAt
<1>8. /\ Top(t) = S[Len(S)] /\ DOMAIN S = 1..Len(S) /\ Len(S) \in Nat \ {0}
      /\ Top(t).task \in DOMAIN prog
  BY TopLemma
<1>9. Len(prog[Top(t).task]) \in Nat /\ Top(t).at \in 1..Len(prog[Top(t).task])
  BY <1>8, ProgLemma DEF Advances
<1>10. ASSUME NEW j \in DOMAIN S
       PROVE  R[j].at >= S[j].at /\ R[j].at \in 1..Len(prog[R[j].task]) + 1
  <2>1. CASE j = Len(S)
    <3>1. R[j].at = S[j].at + 1 /\ R[j].task = S[j].task
      BY <2>1, <1>4, <1>8
    <3>2. S[j].at \in 1..Len(prog[S[j].task]) /\ Len(prog[S[j].task]) \in Nat
      BY <2>1, <1>8, <1>9
    <3> QED
      BY <3>1, <3>2
  <2>2. CASE j # Len(S)
    <3>1. R[j] = S[j]
      BY <2>2, <1>4
    <3>2. S[j].at \in 1..Len(prog[S[j].task]) + 1
      BY <1>7
    <3> QED
      BY <3>1, <3>2
  <2> QED
    BY <2>1, <2>2
<1>11. AtsIn(R, prog)
  BY <1>4, <1>10 DEF AtsIn
<1> QED
  BY <1>3, <1>4, <1>5, <1>6, <1>8, <1>10, <1>11

\* Execute in place adds one frame, and the caller goes on behind the call.
LEMMA PushesLemma ==
    ASSUME Typed, Placed, NEW t \in Threads, stack[t] # <<>>, NEW k \in DOMAIN prog, Pushes(t, k)
    PROVE  /\ stack' \in [Threads -> Seq(FrameSet)] /\ Others(t)
           /\ stack'[t] # <<>> /\ AtsIn(stack'[t], prog) /\ Len(stack'[t]) = Len(stack[t]) + 1
           /\ \A u \in Threads : \A j, m : On(u, j, m)' <=>
                 On(u, j, m) \/ (u = t /\ j = Len(stack[t]) + 1 /\ m = k)
           /\ \A j \in DOMAIN stack[t] : stack'[t][j].at >= stack[t][j].at
           /\ stack'[t][Len(stack[t])].at = Top(t).at + 1
           /\ stack'[t][Len(stack[t]) + 1].at = 1
<1> DEFINE S == stack[t]
           R == [S EXCEPT ![Len(S)].at = @ + 1]
           P == Append(R, Frame(k, 1))
<1>1. S \in Seq([task : DOMAIN prog, at : Nat])
  BY DEF Typed, FrameSet
<1>2. stack' = [stack EXCEPT ![t] = P]
  BY DEF Pushes, Returned
<1>3. stack'[t] = P /\ Others(t)
  BY <1>2 DEF Others, Typed
<1> HIDE DEF R, P
<1>4. /\ R \in Seq([task : DOMAIN prog, at : Nat]) /\ R # <<>>
      /\ Len(R) = Len(S) /\ DOMAIN R = DOMAIN S
      /\ \A j \in DOMAIN S : R[j].task = S[j].task
      /\ \A j \in DOMAIN S : j # Len(S) => R[j] = S[j]
      /\ R[Len(S)].at = S[Len(S)].at + 1
  BY <1>1, ReturnedLemma DEF R
<1>5. /\ P \in Seq([task : DOMAIN prog, at : Nat]) /\ P # <<>>
      /\ Len(P) = Len(S) + 1 /\ DOMAIN P = DOMAIN S \cup {Len(S) + 1}
      /\ Len(S) + 1 \notin DOMAIN S
      /\ \A j \in DOMAIN S : P[j] = R[j]
      /\ P[Len(S) + 1].task = k /\ P[Len(S) + 1].at = 1
  <2>1. Frame(k, 1) \in [task : DOMAIN prog, at : Nat] /\ Frame(k, 1).task = k /\ Frame(k, 1).at = 1
    BY DEF Frame
  <2> DEFINE e == Frame(k, 1)
  <2> HIDE DEF e
  <2>2. e \in [task : DOMAIN prog, at : Nat] /\ P = Append(R, e)
    BY <2>1 DEF P, e
  <2>3. /\ P \in Seq([task : DOMAIN prog, at : Nat]) /\ P # <<>>
        /\ Len(P) = Len(R) + 1 /\ DOMAIN P = DOMAIN R \cup {Len(R) + 1}
        /\ Len(R) + 1 \notin DOMAIN R
        /\ \A j \in DOMAIN R : P[j] = R[j]
        /\ P[Len(R) + 1] = e
    BY <2>2, <1>4, PushLemma
  <2> QED
    BY <2>1, <2>3, <1>4 DEF e
<1>6. stack' \in [Threads -> Seq(FrameSet)]
  BY <1>2, <1>5 DEF Typed, FrameSet
<1>7. \A j \in DOMAIN S : S[j].at \in 1..Len(prog[S[j].task]) + 1 /\ S[j].task \in DOMAIN prog
  <2>1. \A j \in DOMAIN S : S[j] \in [task : DOMAIN prog, at : Nat]
    BY <1>1, LenProperties, ElementOfSeq
  <2> QED
    BY <2>1 DEF Placed, PlacedAt
<1>8. /\ Top(t) = S[Len(S)] /\ DOMAIN S = 1..Len(S) /\ Len(S) \in Nat \ {0}
      /\ Top(t).task \in DOMAIN prog
  BY TopLemma
<1>9. Len(prog[Top(t).task]) \in Nat /\ Top(t).at \in 1..Len(prog[Top(t).task])
  BY <1>8, ProgLemma DEF Pushes
<1>10. ASSUME NEW j \in DOMAIN S
       PROVE  P[j].at >= S[j].at /\ P[j].at \in 1..Len(prog[P[j].task]) + 1
  <2>1. CASE j = Len(S)
    <3>1. P[j].at = S[j].at + 1 /\ P[j].task = S[j].task
      BY <2>1, <1>4, <1>5, <1>8
    <3>2. S[j].at \in 1..Len(prog[S[j].task]) /\ Len(prog[S[j].task]) \in Nat
      BY <2>1, <1>8, <1>9
    <3> QED
      BY <3>1, <3>2
  <2>2. CASE j # Len(S)
    <3>1. P[j] = S[j]
      <4>1. R[j] = S[j]
        BY <2>2, <1>4
      <4>2. P[j] = R[j]
        BY <1>5
      <4> QED
        BY <4>1, <4>2
    <3>2. S[j].at \in 1..Len(prog[S[j].task]) + 1
      BY <1>7
    <3> QED
      BY <3>1, <3>2
  <2> QED
    BY <2>1, <2>2
<1>11. AtsIn(P, prog)
  <2>1. 1 \in 1..Len(prog[k]) + 1
    BY ProgLemma
  <2> QED
    BY <2>1, <1>5, <1>10 DEF AtsIn
<1>12. ASSUME NEW u \in Threads, NEW j, NEW m
       PROVE  On(u, j, m)' <=> On(u, j, m) \/ (u = t /\ j = Len(S) + 1 /\ m = k)
  <2>1. CASE u # t
    BY <2>1, <1>3 DEF On, Others
  <2>2. CASE u = t
    BY <2>2, <1>3, <1>4, <1>5 DEF On
  <2> QED
    BY <2>1, <2>2
<1>13. P[Len(S)].at = Top(t).at + 1
  BY <1>4, <1>5, <1>8
<1>14. \A j \in DOMAIN S : P[j].at >= S[j].at
  BY <1>10
<1> HIDE DEF S
<1> QED
  BY <1>3, <1>5, <1>6, <1>11, <1>12, <1>13, <1>14 DEF S

\* A task that returns takes its own frame away and no other.
LEMMA PopsLemma ==
    ASSUME Typed, Placed, NEW t \in Threads, stack[t] # <<>>, Pops(t)
    PROVE  /\ stack' \in [Threads -> Seq(FrameSet)] /\ Others(t)
           /\ stack'[t] = <<>> <=> Len(stack[t]) = 1
           /\ AtsIn(stack'[t], prog) /\ Len(stack'[t]) = Len(stack[t]) - 1
           /\ \A u \in Threads : \A j, m : On(u, j, m)' <=>
                 On(u, j, m) /\ ~(u = t /\ j = Len(stack[t]))
           /\ \A j \in DOMAIN stack'[t] : stack'[t][j] = stack[t][j]
<1> DEFINE S == stack[t]
           R == Front(S)
<1>1. S \in Seq(FrameSet) /\ stack'[t] = R /\ Others(t)
  BY DEF Typed, Pops, Others
<1>2. /\ R \in Seq(FrameSet)
      /\ Len(R) = Len(S) - 1 /\ DOMAIN R = 1..Len(S) - 1
      /\ DOMAIN S = 1..Len(S) /\ Len(S) \in Nat \ {0}
      /\ \A j \in 1..Len(S) - 1 : R[j] = S[j]
      /\ R = <<>> <=> Len(S) = 1
  BY <1>1, PopLemma
<1>3. stack' \in [Threads -> Seq(FrameSet)]
  BY <1>1, <1>2 DEF Typed, Pops
<1>4. \A j \in DOMAIN R : R[j] = S[j] /\ j \in DOMAIN S
  BY <1>2
<1> HIDE DEF R
<1>5. AtsIn(R, prog)
  BY <1>4 DEF AtsIn, Placed, PlacedAt
<1>6. \A j : j \in DOMAIN R <=> j \in DOMAIN S /\ j # Len(S)
  BY <1>2
<1>7. ASSUME NEW u \in Threads, NEW j, NEW m
      PROVE  On(u, j, m)' <=> On(u, j, m) /\ ~(u = t /\ j = Len(S))
  BY <1>1, <1>4, <1>6 DEF On, Others
<1> QED
  BY <1>1, <1>2, <1>3, <1>4, <1>5, <1>7

\* A worker that comes out of WaitBusy with a task gets that one frame.
LEMMA BeginsLemma ==
    ASSUME Typed, Placed, NEW t \in Threads, stack[t] = <<>>, NEW k \in DOMAIN prog, Begins(t, k)
    PROVE  /\ stack' \in [Threads -> Seq(FrameSet)] /\ Others(t)
           /\ stack'[t] # <<>> /\ AtsIn(stack'[t], prog) /\ Len(stack'[t]) = 1
           /\ \A u \in Threads : \A j, m : On(u, j, m)' <=>
                 On(u, j, m) \/ (u = t /\ j = 1 /\ m = k)
           /\ stack'[t][1].at = 1
<1>1. Frame(k, 1) \in FrameSet /\ Frame(k, 1).task = k /\ Frame(k, 1).at = 1
  BY DEF Frame, FrameSet
<1>2. stack'[t] = <<Frame(k, 1)>> /\ Others(t)
  BY DEF Typed, Begins, Others
<1> DEFINE R == <<Frame(k, 1)>>
<1>3. R \in Seq(FrameSet) /\ R # <<>> /\ Len(R) = 1 /\ DOMAIN R = {1} /\ R[1] = Frame(k, 1)
  BY <1>1
<1>4. stack' \in [Threads -> Seq(FrameSet)]
  BY <1>3 DEF Typed, Begins
<1> HIDE DEF R
<1>5. AtsIn(R, prog)
  <2>1. 1 \in 1..Len(prog[k]) + 1
    BY ProgLemma
  <2> QED
    BY <2>1, <1>1, <1>3 DEF AtsIn
<1>6. DOMAIN stack[t] = {}
  OBVIOUS
<1>7. ASSUME NEW u \in Threads, NEW j, NEW m
      PROVE  On(u, j, m)' <=> On(u, j, m) \/ (u = t /\ j = 1 /\ m = k)
  BY <1>1, <1>2, <1>3, <1>6 DEF On, Others, R
<1> QED
  BY <1>1, <1>2, <1>3, <1>4, <1>5, <1>7 DEF R
-----------------------------------------------------------------------------
(* Typed and Placed are kept. *)

\* A thread that another one wakes.
Wakes(u) ==
    \/ pc[u] = "asleep" /\ pc'[u] = "test"
    \/ pc[u] = "locked" /\ pc'[u] = "lock"

\* A step of t is to be looked at for t only.
LEMMA PlacedLemma ==
    ASSUME Placed, prog' = prog, NEW t \in Threads, Others(t), PlacedAt(t)',
           \A u \in Threads : u # t => pc'[u] = pc[u] \/ Wakes(u)
    PROVE  Placed'
<1> SUFFICES ASSUME NEW u \in Threads, u # t
             PROVE  PlacedAt(u)'
  BY DEF Placed
<1>1. stack'[u] = stack[u] /\ PlacedAt(u) /\ (pc'[u] = pc[u] \/ Wakes(u))
  BY DEF Others, Placed
<1>2. Top(u)' = Top(u) /\ Call(u)' = Call(u)
  BY <1>1, SameStackLemma
<1>3. CASE pc'[u] = pc[u]
  BY <1>1, <1>2, <1>3 DEF PlacedAt
<1>4. CASE Wakes(u)
  BY <1>1, <1>2, <1>4 DEF PlacedAt, Wakes, Calling
<1> QED
  BY <1>1, <1>3, <1>4

\* The threads whose calls and places in their tasks stay.
LEMMA StaysLemma ==
    ASSUME Typed, Placed, prog' = prog, stack' = stack, NEW t \in Threads,
           \A u \in Threads : u # t => pc'[u] = pc[u] \/ Wakes(u),
           stack[t] = <<>> <=> pc'[t] \notin {"run"} \cup Calling,
           pc'[t] \in Calling => Top(t).at \in DOMAIN prog[Top(t).task],
           pc'[t] \in {"alloc", "go"} => Call(t).op = "exec",
           pc'[t] = "alloc" => Call(t).wait,
           pc'[t] \in {"lock", "locked"} => Call(t).op = "lock",
           pc'[t] = "pool" => Call(t).op = "idle",
           pc'[t] \in {"finish", "release", "enter", "test", "doze", "asleep"} => t # Main
    PROVE  Placed'
<1>1. PlacedAt(t) /\ Others(t)
  BY DEF Placed, Others
<1>2. Top(t)' = Top(t) /\ Call(t)' = Call(t)
  BY SameStackLemma
<1>3. PlacedAt(t)'
  BY <1>1, <1>2 DEF PlacedAt
<1> QED
  BY <1>1, <1>3, PlacedLemma

\* A thread whose tasks go on, after a call or with a new task.
LEMMA RunsLemma ==
    ASSUME Typed, Placed, prog' = prog, NEW t \in Threads, Others(t),
           stack'[t] # <<>>, AtsIn(stack'[t], prog), pc'[t] = "run",
           \A u \in Threads : u # t => pc'[u] = pc[u] \/ Wakes(u)
    PROVE  Placed'
<1>1. PlacedAt(t)'
  BY DEF PlacedAt, AtsIn, Calling
<1> QED
  BY <1>1, PlacedLemma
-----------------------------------------------------------------------------
(* The steps that move no task from one place to another. *)

\* The frames that stay only go on, and one that submits a task stays at it.
Onward ==
    \A t \in Threads : \A j \in DOMAIN stack[t] \cap DOMAIN stack'[t] :
        \/ stack'[t][j].at > stack[t][j].at
        \/ /\ stack'[t][j].at = stack[t][j].at
           /\ j = Len(stack[t]) /\ pc[t] \in {"alloc", "go"} =>
                 j = Len(stack'[t]) /\ pc'[t] \in {"alloc", "go"}

\* Task k stays in its place; in exit it may be lost.
StaysAt(k) ==
    /\ k \in given' <=> k \in given
    /\ k \in done' <=> k \in done
    /\ \A t \in Threads : Submits(t, k)' <=> Submits(t, k)
    /\ \A w \in All : Awaits(w, k)' => Awaits(w, k)
    /\ \A t \in Threads : \A j : On(t, j, k)' => On(t, j, k)
    /\ ~ExitBegun' =>
          /\ \A w \in All : Awaits(w, k) => Awaits(w, k)'
          /\ \A t \in Threads : \A j : On(t, j, k) => On(t, j, k)'

\* No task is submitted, handed over, begun or done.
Keeps == prog' = prog /\ Onward /\ \A k : StaysAt(k)

\* A step of this kind that leaves the stacks alone.
LEMMA QuietLemma ==
    ASSUME Typed, prog' = prog, stack' = stack, given' = given, done' = done, Task' = Task,
           \A t \in Threads : pc'[t] \in {"alloc", "go"} <=> pc[t] \in {"alloc", "go"},
           \A w \in All : Pending(w)' => Pending(w),
           ~ExitBegun' => \A w \in All : Pending(w) => Pending(w)'
    PROVE  Keeps
<1>1. \A t \in Threads : /\ Top(t)' = Top(t) /\ Call(t)' = Call(t)
                         /\ \A j, k : On(t, j, k)' <=> On(t, j, k)
  BY SameStackLemma
<1>2. \A t \in Threads : \A k : Submits(t, k)' <=> Submits(t, k)
  BY <1>1 DEF Submits
<1>3. \A w \in All : \A k : Awaits(w, k)' => Awaits(w, k)
  BY DEF Awaits
<1>4. ~ExitBegun' => \A w \in All : \A k : Awaits(w, k) => Awaits(w, k)'
  BY DEF Awaits
<1>5. Onward
  BY DEF Onward
<1> QED
  BY <1>1, <1>2, <1>3, <1>4, <1>5 DEF Keeps, StaysAt

\* A step that goes on in the tasks of t only.
LEMMA OnwardLemma ==
    ASSUME Typed, stack' \in [Threads -> Seq(FrameSet)], NEW t \in Threads, Others(t),
           \A u \in Threads : u # t =>
              (pc'[u] \in {"alloc", "go"} <=> pc[u] \in {"alloc", "go"}),
           \A j \in DOMAIN stack[t] \cap DOMAIN stack'[t] :
              /\ stack'[t][j].at >= stack[t][j].at
              /\ j = Len(stack[t]) /\ pc[t] \in {"alloc", "go"} =>
                    stack'[t][j].at = stack[t][j].at + 1
    PROVE  Onward
<1> SUFFICES ASSUME NEW u \in Threads, NEW j \in DOMAIN stack[u] \cap DOMAIN stack'[u]
             PROVE  \/ stack'[u][j].at > stack[u][j].at
                    \/ /\ stack'[u][j].at = stack[u][j].at
                       /\ j = Len(stack[u]) /\ pc[u] \in {"alloc", "go"} =>
                             j = Len(stack'[u]) /\ pc'[u] \in {"alloc", "go"}
  BY DEF Onward
<1>1. CASE u # t
  BY <1>1 DEF Others
<1>2. CASE u = t
  <2>1. stack[t] \in Seq(FrameSet) /\ stack'[t] \in Seq(FrameSet)
    BY DEF Typed
  <2>2. stack'[t][j] \in FrameSet /\ stack[t][j] \in FrameSet
    BY <1>2, <2>1, LenProperties, ElementOfSeq
  <2>3. stack'[t][j].at \in Int /\ stack[t][j].at \in Int
    BY <2>2 DEF FrameSet
  <2> QED
    BY <1>2, <2>3
<1> QED
  BY <1>1, <1>2

\* A step of this kind that ends a call.
LEMMA AdvanceLemma ==
    ASSUME Typed, Placed, NEW t \in Threads, stack[t] # <<>>, Advances(t),
           given' = given, done' = done, Task' = Task,
           pc[t] \notin {"alloc", "go"}, pc'[t] \notin {"alloc", "go"},
           \A u \in Threads : u # t =>
              (pc'[u] \in {"alloc", "go"} <=> pc[u] \in {"alloc", "go"}),
           \A w \in All : Pending(w)' <=> Pending(w)
    PROVE  Keeps
<1>1. /\ Others(t)
      /\ Len(stack'[t]) = Len(stack[t])
      /\ \A u \in Threads : \A j, k : On(u, j, k)' <=> On(u, j, k)
      /\ \A j \in DOMAIN stack[t] : stack'[t][j].at >= stack[t][j].at
  BY AdvancesLemma
<1>2. prog' = prog
  BY DEF Advances
<1>3. \A u \in Threads : \A k : Submits(u, k)' <=> Submits(u, k)
  <2> SUFFICES ASSUME NEW u \in Threads, NEW k
               PROVE  Submits(u, k)' <=> Submits(u, k)
    OBVIOUS
  <2>1. CASE u = t
    BY <2>1 DEF Submits
  <2>2. CASE u # t
    <3>1. Call(u)' = Call(u)
      BY <2>2, <1>1, <1>2, SameStackLemma DEF Others
    <3> QED
      BY <2>2, <3>1 DEF Submits
  <2> QED
    BY <2>1, <2>2
<1>4. \A w \in All : \A k : Awaits(w, k)' <=> Awaits(w, k)
  BY DEF Awaits
<1>5. Onward
  BY <1>1, AdvancesLemma, OnwardLemma
<1> QED
  BY <1>1, <1>2, <1>3, <1>4, <1>5 DEF Keeps, StaysAt

\* The types, where stacks, tasks and what was submitted stay.
LEMMA SameTypesLemma ==
    ASSUME Typed, prog' = prog, stack' \in [Threads -> Seq(FrameSet)],
           pc' \in [Threads -> Labels], Avail' \in Seq(All), asleep' \subseteq Threads,
           Task' = Task, Busy' \in [All -> BOOLEAN], StopThreads' \in BOOLEAN,
           joining' \in All, given' = given, done' = done
    PROVE  Typed'
  BY DEF Typed, FrameSet

\* BusyLock::WaitIdle counts the thread and moves no task.
LEMMA LockEnterStep ==
    ASSUME Typed, Placed, NEW t \in Threads, LockEnter(t)
    PROVE  Typed' /\ Placed' /\ Keeps
<1>1. /\ pc[t] = "run" /\ ~AtEnd(t) /\ Call(t).op = "lock"
      /\ pc' = [pc EXCEPT ![t] = "lock"]
      /\ UNCHANGED <<prog, stack, Avail, asleep, Task, Busy, StopThreads, joining, given, done>>
  BY DEF LockEnter, Calls, Goto, jobs, shutdown
<1>2. Typed'
  BY <1>1, SameTypesLemma DEF Typed, Labels
<1>3. stack[t] # <<>> /\ Top(t).at \in DOMAIN prog[Top(t).task]
  BY <1>1, CallLemma
<1>4. Placed'
  BY <1>1, <1>3, StaysLemma DEF Typed, Calling
<1>5. Keeps
  BY <1>1, QuietLemma DEF Typed, Pending, All, Threads
<1> QED
  BY <1>2, <1>4, <1>5

\* A wait on the condition variable of a lock moves no task.
LEMMA LockSleepStep ==
    ASSUME Typed, Placed, NEW t \in Threads, LockSleep(t)
    PROVE  Typed' /\ Placed' /\ Keeps
<1>1. /\ pc[t] = "lock" /\ pc' = [pc EXCEPT ![t] = "locked"]
      /\ UNCHANGED <<prog, stack, Avail, asleep, Task, Busy, StopThreads, joining, given, done>>
  BY DEF LockSleep, Goto, jobs, shutdown
<1>2. Typed'
  BY <1>1, SameTypesLemma DEF Typed, Labels
<1>3. PlacedAt(t)
  BY DEF Placed
<1>4. Placed'
  BY <1>1, <1>3, StaysLemma DEF Typed, Calling, PlacedAt
<1>5. Keeps
  BY <1>1, QuietLemma DEF Typed, Pending, All, Threads
<1> QED
  BY <1>2, <1>4, <1>5

\* The return of BusyLock::WaitIdle takes the caller behind the call.
LEMMA LockLeaveStep ==
    ASSUME Typed, Placed, NEW t \in Threads, LockLeave(t)
    PROVE  Typed' /\ Placed' /\ Keeps
<1>1. /\ pc[t] = "lock" /\ pc' = [pc EXCEPT ![t] = "run"]
      /\ prog' = prog /\ stack' = [stack EXCEPT ![t] = Returned(t)]
      /\ UNCHANGED <<Avail, asleep, Task, Busy, StopThreads, joining, given, done>>
  BY DEF LockLeave, Goto, jobs, shutdown
<1>2. stack[t] # <<>> /\ Advances(t)
  BY <1>1 DEF Placed, PlacedAt, Calling, Advances
<1>3. /\ stack' \in [Threads -> Seq(FrameSet)] /\ Others(t)
      /\ stack'[t] # <<>> /\ AtsIn(stack'[t], prog)
  BY <1>2, AdvancesLemma
<1>4. Typed'
  BY <1>1, <1>3, SameTypesLemma DEF Typed, Labels
<1>5. Placed'
  BY <1>1, <1>3, RunsLemma DEF Typed
<1>6. Keeps
  <2>1. pc'[t] = "run" /\ \A u \in Threads : u # t => pc'[u] = pc[u]
    BY <1>1 DEF Typed
  <2>2. \A w \in All : Pending(w)' <=> Pending(w)
    BY <1>1, <2>1 DEF Pending, All, Threads
  <2> QED
    BY <1>1, <1>2, <2>1, <2>2, AdvanceLemma
<1> QED
  BY <1>4, <1>5, <1>6

\* PostIdle wakes the waiters and takes the caller behind the call.
LEMMA PostIdleStep ==
    ASSUME Typed, Placed, NEW t \in Threads, PostIdle(t)
    PROVE  Typed' /\ Placed' /\ Keeps
<1>1. /\ pc[t] = "run" /\ ~AtEnd(t)
      /\ pc' = [u \in Threads |-> IF pc[u] = "locked" /\ Call(u).arg = Call(t).arg
                                  THEN "lock" ELSE pc[u]]
      /\ prog' = prog /\ stack' = [stack EXCEPT ![t] = Returned(t)]
      /\ UNCHANGED <<Avail, asleep, Task, Busy, StopThreads, joining, given, done>>
  BY DEF PostIdle, Calls, jobs, shutdown
<1>2. stack[t] # <<>> /\ Advances(t)
  BY <1>1, CallLemma DEF Advances
<1>3. /\ stack' \in [Threads -> Seq(FrameSet)] /\ Others(t)
      /\ stack'[t] # <<>> /\ AtsIn(stack'[t], prog)
  BY <1>2, AdvancesLemma
<1>4. /\ pc' \in [Threads -> Labels] /\ pc'[t] = "run"
      /\ \A u \in Threads : pc'[u] = pc[u] \/ Wakes(u)
  BY <1>1 DEF Typed, Labels, Wakes
<1>5. Typed'
  BY <1>1, <1>3, <1>4, SameTypesLemma DEF Typed
<1>6. Placed'
  BY <1>1, <1>3, <1>4, RunsLemma
<1>7. /\ \A u \in Threads : pc'[u] \in {"alloc", "go"} <=> pc[u] \in {"alloc", "go"}
      /\ \A w \in All : Pending(w)' <=> Pending(w)
  BY <1>1, <1>4 DEF Wakes, Pending, All, Threads
<1>8. Keeps
  BY <1>1, <1>2, <1>4, <1>7, AdvanceLemma
<1> QED
  BY <1>5, <1>6, <1>8

\* ThreadPool_t::WaitIdle sleeps again or takes the main thread behind the call.
LEMMA WaitIdleStep ==
    ASSUME Typed, Placed, NEW t \in Threads, WaitIdle(t)
    PROVE  Typed' /\ Placed' /\ Keeps
<1>1. /\ pc[t] = "pool" \/ (pc[t] = "run" /\ ~AtEnd(t))
      /\ Call(t).op = "idle"
      /\ UNCHANGED <<prog, Avail, Task, Busy, StopThreads, joining, given, done>>
  BY DEF WaitIdle, Calls, jobs, shutdown, Placed, PlacedAt
<1>2. stack[t] # <<>> /\ Top(t).at \in DOMAIN prog[Top(t).task]
  BY <1>1, CallLemma DEF Calling
<1>3. CASE Len(Avail) = N
  <2>1. /\ pc' = [pc EXCEPT ![t] = "run"] /\ asleep' = asleep
        /\ stack' = [stack EXCEPT ![t] = Returned(t)]
    BY <1>3 DEF WaitIdle, Goto
  <2>2. Advances(t)
    BY <1>1, <1>2, <2>1 DEF Advances
  <2>3. /\ stack' \in [Threads -> Seq(FrameSet)] /\ Others(t)
        /\ stack'[t] # <<>> /\ AtsIn(stack'[t], prog)
    BY <1>2, <2>2, AdvancesLemma
  <2>4. Typed'
    BY <1>1, <2>1, <2>3, SameTypesLemma DEF Typed, Labels
  <2>5. Placed'
    BY <1>1, <2>1, <2>3, RunsLemma DEF Typed
  <2>6. Keeps
    <3>1. /\ pc[t] \in {"pool", "run"} /\ pc'[t] = "run"
          /\ \A u \in Threads : u # t => pc'[u] = pc[u]
      BY <1>1, <2>1 DEF Typed
    <3>2. \A w \in All : Pending(w)' <=> Pending(w)
      BY <1>1, <3>1 DEF Pending, All, Threads
    <3> QED
      BY <1>1, <1>2, <2>2, <3>1, <3>2, AdvanceLemma
  <2> QED
    BY <2>4, <2>5, <2>6
<1>4. CASE Len(Avail) # N
  <2>1. /\ pc' = [pc EXCEPT ![t] = "pool"] /\ stack' = stack /\ asleep' = asleep \cup {t}
    BY <1>4 DEF WaitIdle, Goto
  <2>2. Typed'
    <3>1. pc' \in [Threads -> Labels] /\ asleep' \subseteq Threads
      BY <2>1 DEF Typed, Labels
    <3> QED
      BY <1>1, <2>1, <3>1, SameTypesLemma DEF Typed
  <2>3. Placed'
    <3>1. pc'[t] = "pool" /\ \A u \in Threads : u # t => pc'[u] = pc[u]
      BY <2>1 DEF Typed
    <3> QED
      BY <1>1, <1>2, <2>1, <3>1, StaysLemma DEF Calling
  <2>4. Keeps
    BY <1>1, <2>1, QuietLemma DEF Typed, Pending, All, Threads
  <2> QED
    BY <2>2, <2>3, <2>4
<1> QED
  BY <1>3, <1>4

\* An exception drops the tasks of its thread, which is then in exit.
LEMMA ThrowStep ==
    ASSUME Typed, Placed, NEW t \in Threads, Throw(t)
    PROVE  Typed' /\ Placed' /\ Keeps
<1>1. /\ pc[t] = "run" /\ pc' = [pc EXCEPT ![t] = "stop"] /\ stack' = [stack EXCEPT ![t] = <<>>]
      /\ UNCHANGED <<prog, Avail, asleep, Task, Busy, StopThreads, joining, given, done>>
  BY DEF Throw, Goto, Calls, jobs, shutdown
<1>2. stack' \in [Threads -> Seq(FrameSet)] /\ Others(t) /\ stack'[t] = <<>>
  BY <1>1 DEF Typed, Others
<1>3. pc' \in [Threads -> Labels] /\ pc'[t] = "stop" /\ \A u \in Threads : u # t => pc'[u] = pc[u]
  BY <1>1 DEF Typed, Labels
<1>4. Typed'
  BY <1>1, <1>2, <1>3, SameTypesLemma DEF Typed
<1>5. Placed'
  <2>1. PlacedAt(t)'
    BY <1>2, <1>3 DEF PlacedAt, Calling
  <2> QED
    BY <1>1, <1>2, <1>3, <2>1, PlacedLemma
<1>6. ExitBegun'
  BY <1>3 DEF ExitBegun, Leaving
<1>7. \A u \in Threads : \A j, k : On(u, j, k)' => On(u, j, k)
  BY <1>2 DEF On, Others
<1>8. \A u \in Threads : \A k : Submits(u, k)' <=> Submits(u, k)
  <2> SUFFICES ASSUME NEW u \in Threads, NEW k
               PROVE  Submits(u, k)' <=> Submits(u, k)
    OBVIOUS
  <2>1. CASE u = t
    BY <1>1, <1>3, <2>1 DEF Submits
  <2>2. CASE u # t
    BY <1>1, <1>2, <1>3, <2>2, SameStackLemma DEF Submits, Others
  <2> QED
    BY <2>1, <2>2
<1>9. \A w \in All : \A k : Awaits(w, k)' => Awaits(w, k)
  BY <1>1, <1>3 DEF Awaits, Pending, All, Threads
<1>10. Onward
  BY <1>2, <1>3 DEF Onward, Others
<1> QED
  BY <1>1, <1>4, <1>5, <1>6, <1>7, <1>8, <1>9, <1>10 DEF Keeps, StaysAt

\* A step of a worker between its jobs, or of a thread in exit, that is about its
\* pc: one without a stack before and after.
LEMMA IdleStep ==
    ASSUME Typed, Placed, prog' = prog, stack' = stack, NEW t \in Threads,
           pc[t] \notin {"run"} \cup Calling, pc'[t] \notin {"run"} \cup Calling,
           pc' \in [Threads -> Labels],
           \A u \in Threads : u # t => pc'[u] = pc[u] \/ Wakes(u),
           pc'[t] \in {"finish", "release", "enter", "test", "doze", "asleep"} => t # Main
    PROVE  Placed'
<1>1. stack[t] = <<>>
  BY DEF Placed, PlacedAt
<1> QED
  BY <1>1, StaysLemma DEF Calling

\* The worker's way from the end of a job back to its sleep moves no task.
LEMMA WorkerSteps ==
    ASSUME Typed, Placed, AvailRests, NEW w \in All,
           Finish(w) \/ ReleaseThread(w) \/ WaitBusyEnter(w) \/ FallAsleep(w)
    PROVE  Typed' /\ Placed' /\ Keeps
<1>0. w \in Threads /\ w # Main
  BY DEF All, Threads, Main
<1>1. CASE Finish(w)
  <2>1. /\ pc[w] = "finish" /\ pc' = [pc EXCEPT ![w] = "release"]
        /\ Busy' = [Busy EXCEPT ![w] = FALSE]
        /\ UNCHANGED <<prog, stack, Avail, asleep, Task, StopThreads, joining, given, done>>
    BY <1>1 DEF Finish, Goto, shutdown
  <2>2. /\ pc' \in [Threads -> Labels] /\ pc'[w] = "release"
        /\ \A u \in Threads : u # w => pc'[u] = pc[u]
    BY <1>0, <2>1 DEF Typed, Labels
  <2>3. Typed'
    BY <2>1, <2>2, SameTypesLemma DEF Typed
  <2>4. Placed'
    BY <1>0, <2>1, <2>2, IdleStep DEF Calling
  <2>5. \A v \in All : Pending(v)' <=> Pending(v)
    BY <2>1, <2>2 DEF Pending, All, Threads, Typed
  <2>6. Keeps
    BY <2>1, <2>2, <2>5, QuietLemma
  <2> QED
    BY <2>3, <2>4, <2>6
<1>2. CASE ReleaseThread(w)
  <2>1. /\ pc[w] = "release" /\ pc' = [pc EXCEPT ![w] = "enter"]
        /\ Avail' = Append(Avail, w) /\ asleep' = {}
        /\ UNCHANGED <<prog, stack, Task, Busy, StopThreads, joining, given, done>>
    BY <1>2 DEF ReleaseThread, Goto, shutdown, jobs
  <2>2. /\ pc' \in [Threads -> Labels] /\ pc'[w] = "enter"
        /\ \A u \in Threads : u # w => pc'[u] = pc[u]
    BY <1>0, <2>1 DEF Typed, Labels
  <2>3. Typed'
    <3>1. Avail' \in Seq(All) /\ asleep' \subseteq Threads
      BY <2>1, AppendProperties DEF Typed
    <3> QED
      BY <2>1, <2>2, <3>1, SameTypesLemma DEF Typed
  <2>4. Placed'
    BY <1>0, <2>1, <2>2, IdleStep DEF Calling
  <2>5. \A v \in All : Pending(v)' <=> Pending(v)
    <3>1. ~Busy[w]
      BY <2>1 DEF AvailRests
    <3> QED
      BY <2>1, <2>2, <3>1 DEF Pending, All, Threads
  <2>6. Keeps
    BY <2>1, <2>2, <2>5, QuietLemma
  <2> QED
    BY <2>3, <2>4, <2>6
<1>3. CASE WaitBusyEnter(w)
  <2>1. /\ pc[w] = "enter" /\ pc' = [pc EXCEPT ![w] = "test"]
        /\ UNCHANGED <<prog, stack, Avail, asleep, Task, Busy, StopThreads, joining, given, done>>
    BY <1>3 DEF WaitBusyEnter, Goto, shutdown, jobs
  <2>2. /\ pc' \in [Threads -> Labels] /\ pc'[w] = "test"
        /\ \A u \in Threads : u # w => pc'[u] = pc[u]
    BY <1>0, <2>1 DEF Typed, Labels
  <2>3. Typed'
    BY <2>1, <2>2, SameTypesLemma DEF Typed
  <2>4. Placed'
    BY <1>0, <2>1, <2>2, IdleStep DEF Calling
  <2>5. \A v \in All : Pending(v)' <=> Pending(v)
    BY <2>1, <2>2 DEF Pending, All, Threads
  <2>6. Keeps
    BY <2>1, <2>2, <2>5, QuietLemma
  <2> QED
    BY <2>3, <2>4, <2>6
<1>4. CASE FallAsleep(w)
  <2>1. /\ pc[w] = "doze" /\ pc' = [pc EXCEPT ![w] = "asleep"]
        /\ UNCHANGED <<prog, stack, Avail, asleep, Task, Busy, StopThreads, joining, given, done>>
    BY <1>4 DEF FallAsleep, Goto, shutdown, jobs
  <2>2. /\ pc' \in [Threads -> Labels] /\ pc'[w] = "asleep"
        /\ \A u \in Threads : u # w => pc'[u] = pc[u]
    BY <1>0, <2>1 DEF Typed, Labels
  <2>3. Typed'
    BY <2>1, <2>2, SameTypesLemma DEF Typed
  <2>4. Placed'
    BY <1>0, <2>1, <2>2, IdleStep DEF Calling
  <2>5. \A v \in All : Pending(v)' <=> Pending(v)
    BY <2>1, <2>2 DEF Pending, All, Threads
  <2>6. Keeps
    BY <2>1, <2>2, <2>5, QuietLemma
  <2> QED
    BY <2>3, <2>4, <2>6
<1> QED
  BY <1>1, <1>2, <1>3, <1>4

\* A worker that tests its flag and has no job, or that quits in exit.
LEMMA WaitBusyRest ==
    ASSUME Typed, Placed, QuitsInExit, NEW w \in All, WaitBusyTest(w), ~(Busy[w] /\ ~StopThreads)
    PROVE  Typed' /\ Placed' /\ Keeps
<1>0. w \in Threads /\ w # Main
  BY DEF All, Threads, Main
<1>1. pc[w] = "test" /\ UNCHANGED <<prog, Avail, asleep, Task, StopThreads, joining, given, done>>
  BY DEF WaitBusyTest, shutdown
<1>2. CASE ~StopThreads
  <2>1. pc' = [pc EXCEPT ![w] = "doze"] /\ stack' = stack /\ Busy' = Busy /\ ~Busy[w]
    BY <1>2 DEF WaitBusyTest, Goto
  <2>2. /\ pc' \in [Threads -> Labels] /\ pc'[w] = "doze"
        /\ \A u \in Threads : u # w => pc'[u] = pc[u]
    BY <1>0, <2>1 DEF Typed, Labels
  <2>3. Typed'
    BY <1>1, <2>1, <2>2, SameTypesLemma DEF Typed
  <2>4. Placed'
    BY <1>0, <1>1, <2>1, <2>2, IdleStep DEF Calling
  <2>5. \A v \in All : Pending(v)' <=> Pending(v)
    BY <1>1, <2>1, <2>2 DEF Pending, All, Threads
  <2>6. Keeps
    BY <1>1, <2>1, <2>2, <2>5, QuietLemma
  <2> QED
    BY <2>3, <2>4, <2>6
<1>3. CASE StopThreads
  <2>1. pc' = [pc EXCEPT ![w] = "gone"] /\ stack' = stack /\ Busy' = [Busy EXCEPT ![w] = FALSE]
    BY <1>3 DEF WaitBusyTest, Goto
  <2>2. /\ pc' \in [Threads -> Labels] /\ pc'[w] = "gone"
        /\ \A u \in Threads : u # w => pc'[u] = pc[u]
    BY <1>0, <2>1 DEF Typed, Labels
  <2>3. Typed'
    BY <1>1, <2>1, <2>2, SameTypesLemma DEF Typed
  <2>4. Placed'
    BY <1>0, <1>1, <2>1, <2>2, IdleStep DEF Calling
  <2>5. \A v \in All : Pending(v)' => Pending(v)
    BY <1>1, <2>1, <2>2 DEF Pending, All, Threads, Typed
  <2>6. ExitBegun'
    <3>1. Main \in Threads
      BY NAssumption DEF Main, Threads
    <3>2. pc[Main] = "gone" \/ \E t \in Threads : pc[t] \in Leaving
      BY <1>3 DEF QuitsInExit, ExitBegun
    <3>3. CASE pc[Main] = "gone"
      BY <1>0, <2>2, <3>1, <3>3 DEF ExitBegun
    <3>4. CASE \E t \in Threads : pc[t] \in Leaving
      BY <1>1, <2>2, <3>4 DEF ExitBegun, Leaving
    <3> QED
      BY <3>2, <3>3, <3>4
  <2>7. Keeps
    BY <1>1, <2>1, <2>2, <2>5, <2>6, QuietLemma
  <2> QED
    BY <2>3, <2>4, <2>7
<1> QED
  BY <1>2, <1>3

\* AllocThread that waits again moves no task.
LEMMA AllocSleeps ==
    ASSUME Typed, Placed, NEW t \in Threads, AllocAgain(t),
           ~StopWaiting(AllocWaiting, Call(t).wait)
    PROVE  Typed' /\ Placed' /\ Keeps
<1>1. /\ UNCHANGED <<prog, pc, stack, Avail, Task, Busy, StopThreads, joining, given, done>>
      /\ asleep' = asleep \cup {t}
  BY DEF AllocAgain, shutdown
<1>2. Typed'
  BY <1>1, SameTypesLemma DEF Typed
<1>3. PlacedAt(t)'
  BY <1>1 DEF Placed, PlacedAt, Top, Call
<1>4. Placed'
  BY <1>1, <1>3, PlacedLemma DEF Others
<1>5. Keeps
  BY <1>1, QuietLemma DEF Pending
<1> QED
  BY <1>2, <1>4, <1>5

\* JoinAll moves no task, and exit has begun.
LEMMA JoinSteps ==
    ASSUME Typed, Placed, NEW t \in Threads, JoinAll(t)
    PROVE  Typed' /\ Placed' /\ Keeps
<1>1. CASE Stop(t)
  <2>1. /\ pc[t] = "stop" /\ pc' = [pc EXCEPT ![t] = "notify"] /\ StopThreads' = TRUE
        /\ UNCHANGED <<prog, stack, Avail, asleep, Task, Busy, joining, given, done>>
    BY <1>1 DEF Stop, Goto, jobs
  <2>2. /\ pc' \in [Threads -> Labels] /\ pc'[t] = "notify"
        /\ \A u \in Threads : u # t => pc'[u] = pc[u]
    BY <2>1 DEF Typed, Labels
  <2>3. Typed'
    BY <2>1, <2>2, SameTypesLemma DEF Typed
  <2>4. Placed'
    BY <2>1, <2>2, IdleStep DEF Calling
  <2>5. \A v \in All : Pending(v)' <=> Pending(v)
    BY <2>1, <2>2 DEF Pending, All, Threads
  <2>6. Keeps
    BY <2>1, <2>2, <2>5, QuietLemma
  <2> QED
    BY <2>3, <2>4, <2>6
<1>2. CASE NotifyJob(t)
  <2>1. /\ pc[t] = "notify" /\ joining \in Threads
        /\ pc' = [pc EXCEPT ![t] = "join", ![joining] = IF @ = "asleep" THEN "test" ELSE @]
        /\ UNCHANGED <<prog, stack, Avail, asleep, Task, Busy, StopThreads, joining, given, done>>
    BY <1>2 DEF NotifyJob, jobs, shutdown, Typed, All, Threads
  <2>2. /\ pc' \in [Threads -> Labels] /\ pc'[t] = "join"
        /\ \A u \in Threads : u # t => pc'[u] = pc[u] \/ Wakes(u)
    <3>1. ASSUME NEW u \in Threads
          PROVE  pc'[u] = IF u = t THEN "join"
                          ELSE IF u = joining /\ pc[u] = "asleep" THEN "test" ELSE pc[u]
      BY <2>1 DEF Typed
    <3>2. DOMAIN pc' = Threads /\ pc' = [u \in Threads |-> pc'[u]]
      BY <2>1 DEF Typed
    <3>3. \A u \in Threads : pc'[u] \in Labels
      BY <3>1 DEF Typed, Labels
    <3>4. pc' \in [Threads -> Labels]
      BY <3>2, <3>3
    <3>5. \A u \in Threads : u # t => pc'[u] = pc[u] \/ Wakes(u)
      BY <3>1 DEF Wakes
    <3> QED
      BY <3>1, <3>4, <3>5
  <2>3. Typed'
    BY <2>1, <2>2, SameTypesLemma DEF Typed
  <2>4. Placed'
    BY <2>1, <2>2, IdleStep DEF Calling
  <2>5. \A v \in All : Pending(v)' <=> Pending(v)
    BY <2>1, <2>2 DEF Pending, All, Threads, Wakes
  <2>6. Keeps
    <3>1. \A u \in Threads : pc'[u] \in {"alloc", "go"} <=> pc[u] \in {"alloc", "go"}
      BY <2>1, <2>2 DEF Wakes
    <3> QED
      BY <2>1, <2>5, <3>1, QuietLemma
  <2> QED
    BY <2>3, <2>4, <2>6
<1>3. CASE JoinJob(t)
  <2>1. /\ pc[t] = "join" /\ pc' = [pc EXCEPT ![t] = IF joining = N THEN "gone" ELSE "notify"]
        /\ joining' = IF joining = N THEN joining ELSE joining + 1
        /\ UNCHANGED <<prog, stack, Avail, asleep, Task, Busy, StopThreads, given, done>>
    BY <1>3 DEF JoinJob, Goto, jobs
  <2>2. /\ pc' \in [Threads -> Labels] /\ pc'[t] = IF joining = N THEN "gone" ELSE "notify"
        /\ \A u \in Threads : u # t => pc'[u] = pc[u]
    BY <2>1 DEF Typed, Labels
  <2>3. joining' \in All
    BY <2>1, NAssumption DEF Typed, All
  <2>4. Typed'
    BY <2>1, <2>2, <2>3, SameTypesLemma DEF Typed
  <2>5. Placed'
    BY <2>1, <2>2, IdleStep DEF Calling
  <2>6. \A v \in All : Pending(v)' <=> Pending(v)
    BY <2>1, <2>2 DEF Pending, All, Threads
  <2>7. Keeps
    BY <2>1, <2>2, <2>6, QuietLemma
  <2> QED
    BY <2>4, <2>5, <2>7
<1>4. CASE JoinSelf(t)
  <2>1. /\ pc[t] = "join" /\ pc' = [pc EXCEPT ![t] = "abort"]
        /\ UNCHANGED <<prog, stack, Avail, asleep, Task, Busy, StopThreads, joining, given, done>>
    BY <1>4 DEF JoinSelf, Goto, jobs, shutdown
  <2>2. /\ pc' \in [Threads -> Labels] /\ pc'[t] = "abort"
        /\ \A u \in Threads : u # t => pc'[u] = pc[u]
    BY <2>1 DEF Typed, Labels
  <2>3. Typed'
    BY <2>1, <2>2, SameTypesLemma DEF Typed
  <2>4. Placed'
    BY <2>1, <2>2, IdleStep DEF Calling
  <2>5. \A v \in All : Pending(v)' <=> Pending(v)
    BY <2>1, <2>2 DEF Pending, All, Threads
  <2>6. Keeps
    BY <2>1, <2>2, <2>5, QuietLemma
  <2> QED
    BY <2>3, <2>4, <2>6
<1> QED
  BY <1>1, <1>2, <1>3, <1>4 DEF JoinAll
-----------------------------------------------------------------------------
(* What a move of one task from place to place keeps. *)

\* Task c is in one place, or lost in exit.
Single(c) ==
    \/ /\ c \in given /\ c \notin done /\ c # "main"
       /\ \/ /\ \E t \in Threads : \A u \in Threads : Submits(u, c) <=> u = t
             /\ \A w \in All : ~Awaits(w, c)
             /\ \A u \in Threads : \A j : ~On(u, j, c)
          \/ /\ \A u \in Threads : ~Submits(u, c)
             /\ \E w \in All : \A v \in All : Awaits(v, c) <=> v = w
             /\ \A u \in Threads : \A j : ~On(u, j, c)
          \/ /\ \A u \in Threads : ~Submits(u, c)
             /\ \A w \in All : ~Awaits(w, c)
             /\ \E t \in Threads : Runs(t, c)
             /\ \A t, u \in Threads : \A i, j : On(t, i, c) /\ On(u, j, c) => t = u /\ i = j
    \/ /\ c \in given /\ (c \in done \/ ExitBegun)
       /\ \A u \in Threads : ~Submits(u, c) /\ \A j : ~On(u, j, c)
       /\ \A w \in All : ~Awaits(w, c)

\* Task c moves, the other ones stay.
Moves(c) ==
    /\ prog' = prog /\ Onward
    /\ Single(c)'
    /\ \A k \in DOMAIN prog \ {c} : StaysAt(k)

\* A task that stays is in no more places than before.
LEMMA OnceAtLemma ==
    ASSUME NEW k, OnceAt(k), StaysAt(k)
    PROVE  OnceAt(k)'
BY DEF OnceAt, StaysAt

\* No step of either kind puts a task into two places.
LEMMA OnceLemma ==
    ASSUME Once, NEW c, Moves(c) \/ Keeps
    PROVE  Once'
<1>1. CASE Keeps
  BY <1>1, OnceAtLemma DEF Keeps, Once
<1>2. CASE Moves(c)
  <2>1. OnceAt(c)'
    BY <1>2 DEF Moves, Single, OnceAt
  <2>2. \A k \in DOMAIN prog \ {c} : OnceAt(k)'
    BY <1>2, OnceAtLemma DEF Moves, Once
  <2> QED
    BY <1>2, <2>1, <2>2 DEF Moves, Once
<1> QED
  BY <1>1, <1>2

\* No step of either kind loses a task before exit.
LEMMA NoneLostLemma ==
    ASSUME NoneLost, ExitBegun => ExitBegun', given' \subseteq DOMAIN prog, NEW c, Moves(c) \/ Keeps
    PROVE  NoneLost'
<1> DEFINE Somewhere(k) ==
        \/ k \in done
        \/ \E t \in Threads : Submits(t, k)
        \/ \E w \in All : Awaits(w, k)
        \/ \E t \in Threads : Runs(t, k)
<1>1. NoneLost <=> (~ExitBegun => \A k \in given : Somewhere(k))
  BY DEF NoneLost
<1>2. NoneLost' <=> (~ExitBegun' => \A k \in given' : Somewhere(k)')
  BY DEF NoneLost
<1>3. ASSUME NEW k, StaysAt(k), ~ExitBegun', k \in given', k \in given => Somewhere(k)
      PROVE  Somewhere(k)'
  <2>1. \A t \in Threads : Runs(t, k) => Runs(t, k)'
    BY <1>3 DEF StaysAt, Runs, On
  <2> QED
    BY <1>3, <2>1 DEF StaysAt
<1>4. ASSUME Single(c)', ~ExitBegun'
      PROVE  Somewhere(c)'
  BY <1>4 DEF Single
<1> QED
  BY <1>1, <1>2, <1>3, <1>4 DEF Moves, Keeps

\* A call that has been made stays made, while its task stays in its place.
LEMMA PassedLemma ==
    ASSUME Typed, stack' \in [Threads -> Seq(FrameSet)], Onward,
           NEW k, NEW i \in Int, StaysAt(k), Passed(k, i)
    PROVE  Passed(k, i)'
<1>1. ASSUME NEW t \in Threads, NEW j, On(t, j, k)'
      PROVE  \/ stack'[t][j].at > i
             \/ stack'[t][j].at = i /\ j = Len(stack'[t]) /\ pc'[t] \in {"alloc", "go"}
  <2>1. On(t, j, k)
    BY <1>1 DEF StaysAt
  <2>2. j \in DOMAIN stack[t] /\ j \in DOMAIN stack'[t]
    BY <1>1, <2>1 DEF On
  <2>3. stack[t][j].at \in Int /\ stack'[t][j].at \in Int
    <3>1. stack[t] \in Seq(FrameSet) /\ stack'[t] \in Seq(FrameSet)
      BY DEF Typed
    <3>2. stack[t][j] \in FrameSet /\ stack'[t][j] \in FrameSet
      BY <2>2, <3>1, LenProperties, ElementOfSeq
    <3> QED
      BY <3>2 DEF FrameSet
  <2>4. \/ stack'[t][j].at > stack[t][j].at
        \/ /\ stack'[t][j].at = stack[t][j].at
           /\ j = Len(stack[t]) /\ pc[t] \in {"alloc", "go"} =>
                 j = Len(stack'[t]) /\ pc'[t] \in {"alloc", "go"}
    BY <2>2 DEF Onward
  <2>5. \/ stack[t][j].at > i
        \/ stack[t][j].at = i /\ j = Len(stack[t]) /\ pc[t] \in {"alloc", "go"}
    BY <2>1 DEF Passed
  <2> QED
    BY <2>3, <2>4, <2>5
<1> QED
  BY <1>1 DEF Passed, StaysAt

\* An Execute is at the one place that submits its task.
LEMMA SiteLemma ==
    ASSUME Typed, Placed, NEW t \in Threads, Calls(t, "exec"),
           NEW k \in DOMAIN prog, NEW i \in DOMAIN prog[k],
           prog[k][i].op = "exec", prog[k][i].arg = Call(t).arg
    PROVE  k = Top(t).task /\ i = Top(t).at
<1>1. /\ stack[t] # <<>>
      /\ Top(t).at \in DOMAIN prog[Top(t).task]
  BY CallLemma DEF Calls
<1>2. Top(t).task \in DOMAIN prog
  BY <1>1, TopLemma
<1>3. IsWorkload(prog)
  BY WorkloadsAssumption DEF Typed
<1>4. \A m, n \in DOMAIN prog : \A h \in DOMAIN prog[m], j \in DOMAIN prog[n] :
          prog[m][h].op = "exec" /\ prog[n][j].op = "exec" /\ prog[m][h].arg = prog[n][j].arg
          => m = n /\ h = j
  BY <1>3, Zenon DEF IsWorkload
<1> QED
  BY <1>1, <1>2, <1>4 DEF Call, Calls

\* The task of an Execute is new.
LEMMA NotGivenLemma ==
    ASSUME Typed, Placed, CallsMade, NEW t \in Threads, Calls(t, "exec")
    PROVE  Call(t).arg \in DOMAIN prog \ {"main"} /\ Call(t).arg \notin given
<1>1. /\ pc[t] = "run" /\ stack[t] # <<>> /\ Call(t).op = "exec"
      /\ Top(t).at \in DOMAIN prog[Top(t).task]
      /\ Call(t).arg \in DOMAIN prog \ {"main"}
  BY CallLemma DEF Calls
<1>2. /\ Top(t).task \in DOMAIN prog /\ Top(t) = stack[t][Len(stack[t])]
      /\ On(t, Len(stack[t]), Top(t).task) /\ Top(t).at \in Nat
  BY <1>1, TopLemma
<1>3. ASSUME Call(t).arg \in given
      PROVE  FALSE
  <2>1. Passed(Top(t).task, Top(t).at)
    BY <1>1, <1>2, <1>3 DEF CallsMade, Call
  <2>2. stack[t][Len(stack[t])].at > Top(t).at \/ pc[t] \in {"alloc", "go"}
    BY <1>2, <2>1 DEF Passed
  <2> QED
    BY <1>1, <1>2, <2>2
<1> QED
  BY <1>1, <1>3

\* An Execute that has been made, in the step that makes it.
LEMMA ExecPassedLemma ==
    ASSUME Typed, Placed, Once, NEW t \in Threads, Calls(t, "exec"), StaysAt(Top(t).task),
           NEW k, NEW i, k = Top(t).task, i = Top(t).at,
           \/ stack'[t][Len(stack[t])].at > i
           \/ /\ stack'[t] = stack[t] /\ pc'[t] \in {"alloc", "go"}
    PROVE  Passed(k, i)'
<1>1. pc[t] = "run" /\ stack[t] # <<>>
  BY CallLemma DEF Calls
<1>2. /\ k \in DOMAIN prog /\ Top(t) = stack[t][Len(stack[t])]
      /\ On(t, Len(stack[t]), k)
  BY <1>1, TopLemma
<1>3. OnceAt(k) /\ StaysAt(k)
  BY <1>2 DEF Once
<1>4. k \in given' /\ \A u \in Threads : ~Submits(u, k)'
  BY <1>2, <1>3 DEF OnceAt, StaysAt
<1>5. \A w \in All : ~Awaits(w, k)'
  BY <1>2, <1>3 DEF OnceAt, StaysAt
<1>6. \A u \in Threads : \A j : On(u, j, k)' => u = t /\ j = Len(stack[t])
  BY <1>2, <1>3 DEF OnceAt, StaysAt
<1>7. \/ stack'[t][Len(stack[t])].at > i
      \/ stack'[t][Len(stack[t])].at = i /\ Len(stack[t]) = Len(stack'[t]) /\ pc'[t] \in {"alloc", "go"}
  BY <1>2
<1> QED
  BY <1>4, <1>5, <1>6, <1>7 DEF Passed

\* CallsMade in the steps that submit nothing.
LEMMA CallsMadeLemma ==
    ASSUME Typed, Once, CallsMade, stack' \in [Threads -> Seq(FrameSet)], NEW c,
           \/ Keeps
           \/ Moves(c) /\ \/ c \notin given
                          \/ c \in done'
                          \/ \E u \in Threads : Submits(u, c)
                          \/ \E w \in All : Awaits(w, c),
           \A k \in DOMAIN prog : \A i \in DOMAIN prog[k] :
              prog[k][i].op = "exec" /\ prog[k][i].arg \in given' \ given => Passed(k, i)'
    PROVE  CallsMade'
<1> SUFFICES ASSUME NEW k \in DOMAIN prog, NEW i \in DOMAIN prog[k],
                    prog[k][i].op = "exec", prog[k][i].arg \in given
             PROVE  Passed(k, i)'
  BY DEF CallsMade, Moves, Keeps
<1>1. Passed(k, i) /\ i \in Int
  BY ProgLemma DEF CallsMade
<1>2. CASE Keeps
  BY <1>1, <1>2, PassedLemma DEF Keeps
<1>3. CASE ~Keeps /\ k # c
  BY <1>1, <1>3, PassedLemma DEF Moves
<1>4. CASE ~Keeps /\ k = c
  <2>1. c \in done'
    BY <1>1, <1>4 DEF Passed
  <2> QED
    BY <1>1, <1>4, <2>1 DEF Passed, Moves, Single
<1> QED
  BY <1>2, <1>3, <1>4
-----------------------------------------------------------------------------
(* The steps that move a task. *)

\* The worker AllocThread takes from the end of Avail rests and is there once.
LEMMA AvailLemma ==
    ASSUME Typed, AvailRests, Avail # <<>>
    PROVE  /\ Last(Avail) \in All /\ Last(Avail) \in Threads
           /\ ~Busy[Last(Avail)] /\ pc[Last(Avail)] \in Resting
           /\ Front(Avail) \in Seq(All)
           /\ \A i \in DOMAIN Front(Avail) :
                 /\ i \in DOMAIN Avail /\ Front(Avail)[i] = Avail[i]
                 /\ Avail[i] # Last(Avail)
<1>1. /\ Front(Avail) \in Seq(All) /\ DOMAIN Front(Avail) = 1..Len(Avail) - 1
      /\ DOMAIN Avail = 1..Len(Avail) /\ Len(Avail) \in Nat \ {0}
      /\ \A i \in 1..Len(Avail) - 1 : Front(Avail)[i] = Avail[i]
  BY PopLemma DEF Typed
<1>2. Last(Avail) = Avail[Len(Avail)] /\ Len(Avail) \in DOMAIN Avail
  BY <1>1 DEF Last
<1>3. Last(Avail) \in All /\ Last(Avail) \in Threads
  <2>1. Avail \in Seq(All) /\ Len(Avail) \in 1..Len(Avail)
    BY <1>1 DEF Typed
  <2>2. Last(Avail) \in All
    BY <1>2, <2>1, ElementOfSeq
  <2> QED
    BY <2>2 DEF All, Threads
<1>4. \A i \in DOMAIN Avail : i # Len(Avail) => Avail[i] # Last(Avail)
  BY <1>2 DEF AvailRests
<1>5. ~Busy[Last(Avail)] /\ pc[Last(Avail)] \in Resting
  BY <1>2 DEF AvailRests
<1> QED
  BY <1>1, <1>3, <1>4, <1>5

\* The two outcomes of the end of AllocThread.
LEMMA TakeLemma ==
    ASSUME NEW t \in Threads, NEW waiting, Take(t, waiting), prog' = prog,
           Top(t).at \in DOMAIN prog[Top(t).task]
    PROVE  /\ asleep' = {}
           /\ \/ /\ Avail # <<>> /\ pc' = [pc EXCEPT ![t] = "go"] /\ stack' = stack
                 /\ Task' = [Task EXCEPT ![Last(Avail)] = Call(t).arg]
                 /\ Avail' = Front(Avail)
              \/ /\ Avail = <<>> /\ pc' = [pc EXCEPT ![t] = "run"] /\ Pushes(t, Call(t).arg)
                 /\ Task' = Task /\ Avail' = Avail
BY DEF Take, Goto, Pushes

\* Execute that submits its task, to a worker or to wait for one.
LEMMA SubmitLemma ==
    ASSUME Typed, Placed, Once, CallsMade, Handed, NEW t \in Threads, Calls(t, "exec"),
           NEW c, c = Call(t).arg, prog' = prog, stack' = stack,
           pc' \in [Threads -> Labels], pc'[t] \in {"alloc", "go"},
           \A u \in Threads : u # t => pc'[u] = pc[u],
           pc'[t] = "alloc" => Call(t).wait,
           \A w \in All : Task'[w] = Task[w] \/ (Task'[w] = c /\ ~Busy[w]),
           Busy' = Busy, given' = given \cup {c}, done' = done
    PROVE  /\ Placed' /\ Moves(c)
           /\ \A k \in DOMAIN prog : \A i \in DOMAIN prog[k] :
                 prog[k][i].op = "exec" /\ prog[k][i].arg \in given' \ given => Passed(k, i)'
<1>1. /\ pc[t] = "run" /\ Call(t).op = "exec" /\ stack[t] # <<>>
      /\ Top(t).at \in DOMAIN prog[Top(t).task]
  BY CallLemma DEF Calls
<1>2. c \in DOMAIN prog \ {"main"} /\ c \notin given /\ c \notin done
  BY NotGivenLemma DEF Typed
<1>3. Placed'
  BY <1>1, StaysLemma DEF Calling
<1>4. \A u \in Threads : /\ Top(u)' = Top(u) /\ Call(u)' = Call(u)
                         /\ \A j, k : On(u, j, k)' <=> On(u, j, k)
  BY SameStackLemma
<1>5. \A u \in Threads : \A k : Submits(u, k)' <=> Submits(u, k) \/ (u = t /\ k = c)
  BY <1>1, <1>4 DEF Submits
<1>6. \A w \in All : Pending(w)' <=> Pending(w)
  BY <1>1 DEF Pending, All, Threads
<1>7. \A w \in All : \A k : k # c => (Awaits(w, k)' <=> Awaits(w, k))
  BY <1>6 DEF Awaits, Pending
<1>8. \A w \in All : ~Awaits(w, c)'
  <2>1. \A w \in All : Busy[w] => Task[w] # c
    BY <1>2 DEF Handed
  <2> QED
    BY <1>6, <2>1 DEF Awaits, Pending
<1>9. \A k \in DOMAIN prog \ {c} : StaysAt(k)
  BY <1>4, <1>5, <1>7 DEF StaysAt
<1>10. Onward
  BY <1>1 DEF Onward
<1>11. OnceAt(c)
  BY <1>2 DEF Once
<1>12. /\ \A u \in Threads : ~Submits(u, c)
       /\ \A u \in Threads : \A j : ~On(u, j, c)
  BY <1>2, <1>11 DEF OnceAt
<1>13. Single(c)'
  <2>1. \A u \in Threads : Submits(u, c)' <=> u = t
    BY <1>5, <1>12
  <2>2. \A u \in Threads : \A j : ~On(u, j, c)'
    BY <1>4, <1>12
  <2>3. c \in given' /\ c \notin done' /\ c # "main"
    BY <1>2
  <2> QED
    BY <1>8, <2>1, <2>2, <2>3 DEF Single
<1>14. Moves(c)
  BY <1>9, <1>10, <1>13 DEF Moves
<1>15. ASSUME NEW k \in DOMAIN prog, NEW i \in DOMAIN prog[k],
              prog[k][i].op = "exec", prog[k][i].arg \in given' \ given
       PROVE  Passed(k, i)'
  <2>1. k = Top(t).task /\ i = Top(t).at
    BY <1>15, SiteLemma
  <2>2. k # c
    <3>1. On(t, Len(stack[t]), k)
      BY <1>1, <2>1, TopLemma
    <3> QED
      BY <1>12, <3>1
  <2> QED
    BY <1>9, <2>1, <2>2, ExecPassedLemma
<1> QED
  BY <1>3, <1>14, <1>15

\* A task that starts in place, right after the step that submits it or later.
LEMMA InPlaceLemma ==
    ASSUME Typed, Placed, Once, NEW t \in Threads, stack[t] # <<>>,
           NEW c \in DOMAIN prog \ {"main"}, c = Call(t).arg, Pushes(t, c),
           c \notin done, \A w \in All : ~Awaits(w, c),
           \A u \in Threads : Submits(u, c) => u = t,
           \A u \in Threads : \A j : ~On(u, j, c),
           pc' \in [Threads -> Labels], pc'[t] = "run",
           \A u \in Threads : u # t => pc'[u] = pc[u],
           pc[t] = "run" \/ pc[t] = "alloc",
           Task' = Task, Busy' = Busy, given' = given \cup {c}, done' = done
    PROVE  Placed' /\ Moves(c)
<1>1. /\ stack' \in [Threads -> Seq(FrameSet)] /\ Others(t)
      /\ stack'[t] # <<>> /\ AtsIn(stack'[t], prog) /\ Len(stack'[t]) = Len(stack[t]) + 1
      /\ \A u \in Threads : \A j, m : On(u, j, m)' <=>
            On(u, j, m) \/ (u = t /\ j = Len(stack[t]) + 1 /\ m = c)
      /\ \A j \in DOMAIN stack[t] : stack'[t][j].at >= stack[t][j].at
      /\ stack'[t][Len(stack[t])].at = Top(t).at + 1
  BY PushesLemma
<1>2. prog' = prog
  BY DEF Pushes
<1>3. Placed'
  BY <1>1, <1>2, RunsLemma
<1>4. \A u \in Threads : u # t => Call(u)' = Call(u)
  BY <1>1, <1>2, SameStackLemma DEF Others
<1>5. \A u \in Threads : \A k : Submits(u, k)' <=> Submits(u, k) /\ u # t
  BY <1>4 DEF Submits
<1>6. \A w \in All : \A k : Awaits(w, k)' <=> Awaits(w, k)
  BY DEF Awaits, Pending, All, Threads
<1>7. \A k \in DOMAIN prog \ {c} : StaysAt(k)
  <2>1. \A k : k # c => ~Submits(t, k)
    BY DEF Submits
  <2> QED
    BY <1>1, <1>5, <1>6, <2>1 DEF StaysAt
<1>8. Onward
  <2>1. \A j \in DOMAIN stack[t] : j = Len(stack[t]) => stack'[t][j].at = stack[t][j].at + 1
    BY <1>1, TopLemma
  <2> QED
    BY <1>1, <2>1, OnwardLemma
<1>9. Single(c)'
  <2>1. \A u \in Threads : ~Submits(u, c)'
    BY <1>5
  <2>2. \A w \in All : ~Awaits(w, c)'
    BY <1>6
  <2>3. \A u \in Threads : \A j : On(u, j, c)' <=> u = t /\ j = Len(stack[t]) + 1
    BY <1>1
  <2>4. c \in given' /\ c \notin done' /\ c # "main"
    OBVIOUS
  <2>5. Runs(t, c)'
    BY <2>3 DEF Runs, On
  <2>6. \A u, v \in Threads : \A i, j : On(u, i, c)' /\ On(v, j, c)' => u = v /\ i = j
    BY <2>3
  <2> QED
    BY <2>1, <2>2, <2>4, <2>5, <2>6 DEF Single
<1> QED
  BY <1>2, <1>3, <1>7, <1>8, <1>9 DEF Moves

\* The worker Go raises the flag of: the one that has its task, which is free and
\* not in Avail.
LEMMA GoesToLemma ==
    ASSUME Typed, Placed, Handed, NEW t \in Threads, Go(t)
    PROVE  /\ pc[t] = "go" /\ Advances(t) /\ stack[t] # <<>>
           /\ UNCHANGED <<prog, Avail, asleep, Task, StopThreads, joining, given, done>>
           /\ \E w \in All :
                 /\ w # t /\ w \in Threads /\ Task[w] = Call(t).arg
                 /\ ~Busy[w] /\ pc[w] \in Resting
                 /\ \A i \in DOMAIN Avail : Avail[i] # w
                 /\ Busy' = [Busy EXCEPT ![w] = TRUE]
                 /\ pc' \in [Threads -> Labels] /\ pc'[t] = "run"
                 /\ \A u \in Threads : u # t => pc'[u] = pc[u] \/ Wakes(u)
<1>1. /\ pc[t] = "go" /\ stack' = [stack EXCEPT ![t] = Returned(t)]
      /\ UNCHANGED <<prog, Avail, asleep, Task, StopThreads, joining, given, done>>
  BY DEF Go, shutdown
<1>2. stack[t] # <<>> /\ Advances(t) /\ Call(t).op = "exec"
  BY <1>1 DEF Placed, PlacedAt, Calling, Advances
<1>3. PICK w \in All : /\ Task[w] = Call(t).arg
                       /\ Busy' = [Busy EXCEPT ![w] = TRUE]
                       /\ pc' = [pc EXCEPT ![t] = "run", ![w] = IF @ = "asleep" THEN "test" ELSE @]
  BY DEF Go
<1>4. PICK v \in All : /\ Task[v] = Call(t).arg
                       /\ ~Busy[v] /\ pc[v] \in Resting
                       /\ \A i \in DOMAIN Avail : Avail[i] # v
  BY <1>1 DEF Handed
<1>5. Call(t).arg # "none"
  BY <1>1, <1>2, CallLemma, ProgLemma, TopLemma DEF Calling
<1>6. v = w
  BY <1>3, <1>4, <1>5 DEF Handed
<1>7. w \in Threads /\ w # t
  BY <1>1, <1>4, <1>6 DEF All, Threads, Resting
<1>8. ASSUME NEW u \in Threads
      PROVE  pc'[u] = IF u = t THEN "run"
                      ELSE IF u = w /\ pc[u] = "asleep" THEN "test" ELSE pc[u]
  BY <1>3, <1>7 DEF Typed
<1>9. DOMAIN pc' = Threads /\ pc' = [u \in Threads |-> pc'[u]]
  BY <1>3 DEF Typed
<1>10. \A u \in Threads : pc'[u] \in Labels
  BY <1>8 DEF Typed, Labels
<1>11. pc' \in [Threads -> Labels]
  BY <1>9, <1>10
<1>12. pc'[t] = "run" /\ \A u \in Threads : u # t => pc'[u] = pc[u] \/ Wakes(u)
  BY <1>8 DEF Wakes
<1> QED
  BY <1>1, <1>2, <1>3, <1>4, <1>6, <1>7, <1>11, <1>12

\* Go moves the task from its submitter to the worker; one that has quit loses it.
LEMMA GoStep ==
    ASSUME Typed, Placed, Once, Handed, QuitsInExit, ExitBegun => ExitBegun',
           NEW t \in Threads, Go(t), NEW c, c = Call(t).arg
    PROVE  Typed' /\ Placed' /\ Moves(c) /\ Submits(t, c)
<1>1. /\ pc[t] = "go" /\ Advances(t) /\ stack[t] # <<>>
      /\ UNCHANGED <<prog, Avail, asleep, Task, StopThreads, joining, given, done>>
  BY GoesToLemma
<1>2. PICK w \in All :
                 /\ w # t /\ w \in Threads /\ Task[w] = c
                 /\ ~Busy[w] /\ pc[w] \in Resting
                 /\ Busy' = [Busy EXCEPT ![w] = TRUE]
                 /\ pc' \in [Threads -> Labels] /\ pc'[t] = "run"
                 /\ \A u \in Threads : u # t => pc'[u] = pc[u] \/ Wakes(u)
  BY GoesToLemma
<1>3. /\ stack' \in [Threads -> Seq(FrameSet)] /\ Others(t)
      /\ stack'[t] # <<>> /\ AtsIn(stack'[t], prog) /\ Len(stack'[t]) = Len(stack[t])
      /\ \A u \in Threads : \A j, k : On(u, j, k)' <=> On(u, j, k)
      /\ \A j \in DOMAIN stack[t] : stack'[t][j].at >= stack[t][j].at
      /\ stack'[t][Len(stack[t])].at = Top(t).at + 1
  BY <1>1, AdvancesLemma
<1>4. Typed'
  BY <1>1, <1>2, <1>3, SameTypesLemma DEF Typed
<1>5. Placed'
  BY <1>1, <1>2, <1>3, RunsLemma
<1>6. /\ c \in DOMAIN prog /\ Submits(t, c)
  <2>1. Call(t).op = "exec" /\ Top(t).at \in DOMAIN prog[Top(t).task]
    BY <1>1 DEF Placed, PlacedAt, Calling
  <2> QED
    BY <1>1, <2>1, CallLemma DEF Submits, Calling
<1>7. OnceAt(c)
  BY <1>6 DEF Once
<1>8. \A u \in Threads : \A k : Submits(u, k)' <=> Submits(u, k) /\ u # t
  <2>1. \A u \in Threads : u # t => Call(u)' = Call(u)
    BY <1>1, <1>3, SameStackLemma DEF Others
  <2>2. \A u \in Threads : u # t => (pc'[u] \in {"alloc", "go"} <=> pc[u] \in {"alloc", "go"})
    BY <1>2 DEF Wakes
  <2> QED
    BY <1>2, <2>1, <2>2 DEF Submits
<1>9. \A v \in All : v # w => (Pending(v)' <=> Pending(v))
  BY <1>1, <1>2 DEF Pending, Wakes, All, Threads, Typed
<1>10. \A v \in All : \A k : k # c => (Awaits(v, k)' <=> Awaits(v, k))
  BY <1>1, <1>2, <1>9 DEF Awaits
<1>11. \A k \in DOMAIN prog \ {c} : StaysAt(k)
  <2>1. \A k : k # c => ~Submits(t, k)
    BY DEF Submits
  <2> QED
    BY <1>1, <1>3, <1>8, <1>10, <2>1 DEF StaysAt
<1>12. Onward
  <2>1. \A j \in DOMAIN stack[t] : j = Len(stack[t]) => stack'[t][j].at = stack[t][j].at + 1
    BY <1>1, <1>3, TopLemma
  <2>2. \A u \in Threads : u # t => (pc'[u] \in {"alloc", "go"} <=> pc[u] \in {"alloc", "go"})
    BY <1>2 DEF Wakes
  <2> QED
    BY <1>3, <2>1, <2>2, OnwardLemma
<1>13. Single(c)'
  <2>1. c \in given' /\ c \notin done' /\ c # "main"
    BY <1>1, <1>6, <1>7 DEF OnceAt
  <2>2. \A u \in Threads : ~Submits(u, c)' /\ \A j : ~On(u, j, c)'
    BY <1>3, <1>6, <1>7, <1>8 DEF OnceAt
  <2>3. \A v \in All : v # w => ~Awaits(v, c)'
    <3>1. \A v \in All : ~Awaits(v, c)
      BY <1>6, <1>7 DEF OnceAt
    <3> QED
      BY <1>1, <1>9, <3>1 DEF Awaits
  <2>4. CASE pc[w] = "gone"
    <3>1. ExitBegun'
      BY <2>4 DEF QuitsInExit
    <3>2. ~Awaits(w, c)'
      BY <1>2, <2>4 DEF Awaits, Pending, Wakes
    <3> QED
      BY <2>1, <2>2, <2>3, <3>1, <3>2 DEF Single
  <2>5. CASE pc[w] # "gone"
    <3>1. Awaits(w, c)'
      BY <1>1, <1>2, <2>5 DEF Awaits, Pending, Wakes, Resting, Typed
    <3>2. \A v \in All : Awaits(v, c)' <=> v = w
      BY <2>3, <3>1
    <3> QED
      BY <2>1, <2>2, <3>2 DEF Single
  <2> QED
    BY <2>4, <2>5
<1>14. Moves(c)
  BY <1>1, <1>11, <1>12, <1>13 DEF Moves
<1> QED
  BY <1>4, <1>5, <1>6, <1>14

\* A worker that finds its flag up moves its task onto its stack.
LEMMA BeginStep ==
    ASSUME Typed, Placed, Once, Handed, NEW w \in All, WaitBusyTest(w),
           Busy[w] /\ ~StopThreads, NEW c, c = Task[w]
    PROVE  Typed' /\ Placed' /\ Moves(c) /\ Awaits(w, c)
<1>0. w \in Threads /\ w # Main
  BY DEF All, Threads, Main
<1>1. /\ pc[w] = "test" /\ Busy' = Busy /\ pc' = [pc EXCEPT ![w] = "run"]
      /\ Begins(w, c)
      /\ UNCHANGED <<prog, Avail, asleep, Task, StopThreads, joining, given, done>>
  BY DEF WaitBusyTest, Goto, shutdown, Begins
<1>2. /\ c \in DOMAIN prog /\ c \in given /\ c # "main" /\ c # "none"
      /\ Awaits(w, c) /\ OnceAt(c) /\ stack[w] = <<>>
  <2>1. c # "none" /\ c \in given /\ c # "main"
    BY DEF Handed
  <2>2. c \in DOMAIN prog /\ Awaits(w, c)
    BY <1>1, <2>1 DEF Typed, Awaits, Pending
  <2>3. stack[w] = <<>>
    BY <1>0, <1>1 DEF Placed, PlacedAt, Calling
  <2> QED
    BY <2>1, <2>2, <2>3 DEF Once
<1>3. /\ stack' \in [Threads -> Seq(FrameSet)] /\ Others(w)
      /\ stack'[w] # <<>> /\ AtsIn(stack'[w], prog)
      /\ \A u \in Threads : \A j, m : On(u, j, m)' <=>
            On(u, j, m) \/ (u = w /\ j = 1 /\ m = c)
  BY <1>0, <1>1, <1>2, BeginsLemma
<1>4. /\ pc' \in [Threads -> Labels] /\ pc'[w] = "run"
      /\ \A u \in Threads : u # w => pc'[u] = pc[u]
  BY <1>0, <1>1 DEF Typed, Labels
<1>5. Typed'
  BY <1>1, <1>3, <1>4, SameTypesLemma DEF Typed
<1>6. Placed'
  BY <1>0, <1>1, <1>3, <1>4, RunsLemma
<1>7. \A u \in Threads : \A k : Submits(u, k)' <=> Submits(u, k)
  <2> SUFFICES ASSUME NEW u \in Threads, NEW k
               PROVE  Submits(u, k)' <=> Submits(u, k)
    OBVIOUS
  <2>1. CASE u = w
    BY <1>1, <1>4, <2>1 DEF Submits
  <2>2. CASE u # w
    BY <1>1, <1>3, <1>4, <2>2, SameStackLemma DEF Submits, Others
  <2> QED
    BY <2>1, <2>2
<1>8. \A v \in All : \A k : Awaits(v, k)' <=> Awaits(v, k) /\ v # w
  BY <1>0, <1>1, <1>4 DEF Awaits, Pending, All, Threads
<1>9. \A k \in DOMAIN prog \ {c} : StaysAt(k)
  <2>1. \A k : k # c => ~Awaits(w, k)
    BY DEF Awaits
  <2> QED
    BY <1>1, <1>3, <1>7, <1>8, <2>1 DEF StaysAt
<1>10. Onward
  <2>1. DOMAIN stack[w] = {}
    BY <1>2
  <2> QED
    BY <1>0, <1>3, <1>4, <2>1, OnwardLemma
<1>11. Single(c)'
  <2>1. \A u \in Threads : ~Submits(u, c)' /\ \A j : ~On(u, j, c)
    BY <1>2, <1>7 DEF OnceAt
  <2>2. \A v \in All : ~Awaits(v, c)'
    <3>1. \A v \in All : Awaits(v, c) => v = w
      BY <1>2 DEF Awaits, Handed
    <3> QED
      BY <1>8, <3>1
  <2>3. Runs(w, c)'
    <3>1. On(w, 1, c)'
      BY <1>0, <1>3
    <3> QED
      BY <3>1 DEF Runs, On
  <2>4. \A t, u \in Threads : \A i, j : On(t, i, c)' /\ On(u, j, c)' => t = u /\ i = j
    BY <1>3, <2>1
  <2>5. c \in given' /\ c \notin done' /\ c # "main"
    BY <1>1, <1>2 DEF OnceAt
  <2> QED
    BY <1>0, <2>1, <2>2, <2>3, <2>4, <2>5 DEF Single
<1>12. Moves(c)
  BY <1>1, <1>9, <1>10, <1>11 DEF Moves
<1> QED
  BY <1>2, <1>5, <1>6, <1>12

\* A task that returns is done.
LEMMA ReturnStep ==
    ASSUME Typed, Placed, Once, NEW t \in Threads, Return(t), NEW c, c = Top(t).task
    PROVE  Typed' /\ Placed' /\ Moves(c) /\ c \in done'
<1>1. /\ pc[t] = "run" /\ Pops(t) /\ done' = done \cup {c}
      /\ pc' = IF Len(stack[t]) > 1 THEN pc
               ELSE [pc EXCEPT ![t] = IF t = Main THEN "stop" ELSE "finish"]
      /\ UNCHANGED <<prog, Avail, asleep, Task, Busy, StopThreads, joining, given>>
  BY DEF Return, Goto, jobs, shutdown, Pops
<1>2. /\ stack[t] # <<>> /\ Len(stack[t]) \in Nat \ {0}
      /\ c \in DOMAIN prog /\ On(t, Len(stack[t]), c) /\ OnceAt(c)
  <2>1. stack[t] # <<>>
    BY <1>1, CallLemma
  <2> QED
    BY <2>1, TopLemma DEF Once
<1>3. /\ stack' \in [Threads -> Seq(FrameSet)] /\ Others(t)
      /\ stack'[t] = <<>> <=> Len(stack[t]) = 1
      /\ AtsIn(stack'[t], prog) /\ Len(stack'[t]) = Len(stack[t]) - 1
      /\ \A u \in Threads : \A j, m : On(u, j, m)' <=>
            On(u, j, m) /\ ~(u = t /\ j = Len(stack[t]))
      /\ \A j \in DOMAIN stack'[t] : stack'[t][j] = stack[t][j]
  BY <1>1, <1>2, PopsLemma
<1>4. /\ pc' \in [Threads -> Labels]
      /\ \A u \in Threads : u # t => pc'[u] = pc[u]
      /\ pc'[t] = IF Len(stack[t]) > 1 THEN "run" ELSE IF t = Main THEN "stop" ELSE "finish"
  BY <1>1 DEF Typed, Labels
<1>5. c \in given
  BY <1>2 DEF OnceAt
<1>6. Typed'
  BY <1>1, <1>3, <1>4, <1>5 DEF Typed, FrameSet
<1>7. Placed'
  <2>1. PlacedAt(t)'
    <3>1. stack'[t] = <<>> <=> pc'[t] \notin {"run"} \cup Calling
      BY <1>2, <1>3, <1>4 DEF Calling
    <3>2. \A j \in DOMAIN stack'[t] : stack'[t][j].at \in 1..Len(prog'[stack'[t][j].task]) + 1
      BY <1>1, <1>3 DEF AtsIn
    <3> QED
      BY <1>4, <3>1, <3>2 DEF PlacedAt, Calling
  <2> QED
    BY <1>1, <1>3, <1>4, <2>1, PlacedLemma
<1>8. \A u \in Threads : \A k : Submits(u, k)' <=> Submits(u, k)
  <2> SUFFICES ASSUME NEW u \in Threads, NEW k
               PROVE  Submits(u, k)' <=> Submits(u, k)
    OBVIOUS
  <2>1. CASE u = t
    BY <1>1, <1>4, <2>1 DEF Submits
  <2>2. CASE u # t
    BY <1>1, <1>3, <1>4, <2>2, SameStackLemma DEF Submits, Others
  <2> QED
    BY <2>1, <2>2
<1>9. \A v \in All : \A k : Awaits(v, k)' <=> Awaits(v, k)
  BY <1>1, <1>4 DEF Awaits, Pending, All, Threads
<1>10. \A k \in DOMAIN prog \ {c} : StaysAt(k)
  <2>1. \A k : k # c => ~On(t, Len(stack[t]), k)
    BY <1>2 DEF On
  <2> QED
    BY <1>1, <1>3, <1>8, <1>9, <2>1 DEF StaysAt
<1>11. Onward
  <2> SUFFICES ASSUME NEW u \in Threads, NEW j \in DOMAIN stack[u] \cap DOMAIN stack'[u]
               PROVE  /\ stack'[u][j].at = stack[u][j].at
                      /\ j = Len(stack[u]) /\ pc[u] \in {"alloc", "go"} =>
                             j = Len(stack'[u]) /\ pc'[u] \in {"alloc", "go"}
    BY DEF Onward
  <2>1. CASE u # t
    BY <2>1, <1>3, <1>4 DEF Others
  <2>2. CASE u = t
    BY <2>2, <1>1, <1>3
  <2> QED
    BY <2>1, <2>2
<1>12. Single(c)'
  <2>1. \A u \in Threads : ~Submits(u, c)' /\ \A j : ~On(u, j, c)'
    BY <1>2, <1>3, <1>8 DEF OnceAt
  <2>2. \A v \in All : ~Awaits(v, c)'
    BY <1>2, <1>9 DEF OnceAt
  <2> QED
    BY <1>1, <1>5, <2>1, <2>2 DEF Single
<1>13. Moves(c)
  BY <1>1, <1>10, <1>11, <1>12 DEF Moves, Pops
<1> QED
  BY <1>1, <1>6, <1>7, <1>13

\* Execute: the three ways AllocThread ends up to its first wait.
LEMMA ExecuteStep ==
    ASSUME Typed, Placed, Once, CallsMade, Handed, AvailRests, NEW t \in Threads, Execute(t),
           NEW c, c = Call(t).arg
    PROVE  /\ Typed' /\ Placed' /\ Moves(c) /\ c \notin given
           /\ \A k \in DOMAIN prog : \A i \in DOMAIN prog[k] :
                 prog[k][i].op = "exec" /\ prog[k][i].arg \in given' \ given => Passed(k, i)'
<1>1. /\ Calls(t, "exec") /\ given' = given \cup {c}
      /\ UNCHANGED <<prog, Busy, StopThreads, joining, done>>
  BY DEF Execute, shutdown
<1>2. /\ pc[t] = "run" /\ stack[t] # <<>>
      /\ Top(t).at \in DOMAIN prog[Top(t).task] /\ Call(t).wait \in BOOLEAN
  BY <1>1, CallLemma DEF Calls
<1>3. c \in DOMAIN prog \ {"main"} /\ c \notin given
  BY <1>1, NotGivenLemma
<1>4. given' \subseteq DOMAIN prog /\ done' \subseteq given'
  BY <1>1, <1>3 DEF Typed
<1>5. CASE ~StopWaiting(AllocWaiting + Weight(Call(t).wait), Call(t).wait)
  <2>1. /\ asleep' = {t} /\ pc' = [pc EXCEPT ![t] = "alloc"]
        /\ UNCHANGED <<stack, Avail, Task>>
    BY <1>5 DEF Execute, Goto
  <2>2. Call(t).wait
    BY <1>5 DEF StopWaiting
  <2>3. /\ pc' \in [Threads -> Labels] /\ pc'[t] = "alloc"
        /\ \A u \in Threads : u # t => pc'[u] = pc[u]
    BY <2>1 DEF Typed, Labels
  <2>4. Typed'
    BY <1>1, <1>4, <2>1, <2>3 DEF Typed, FrameSet
  <2> QED
    BY <1>1, <1>3, <2>1, <2>2, <2>3, <2>4, SubmitLemma
<1>6. CASE StopWaiting(AllocWaiting + Weight(Call(t).wait), Call(t).wait)
  <2>1. Take(t, AllocWaiting)
    BY <1>6 DEF Execute
  <2>2. asleep' = {}
    BY <1>1, <1>2, <2>1, TakeLemma
  <2>3. CASE Avail # <<>>
    <3>1. /\ pc' = [pc EXCEPT ![t] = "go"] /\ stack' = stack
          /\ Task' = [Task EXCEPT ![Last(Avail)] = c]
          /\ Avail' = Front(Avail)
      BY <1>1, <1>2, <2>1, <2>3, TakeLemma
    <3>2. Last(Avail) \in All /\ ~Busy[Last(Avail)] /\ Avail' \in Seq(All)
      BY <2>3, <3>1, AvailLemma
    <3>3. /\ pc' \in [Threads -> Labels] /\ pc'[t] = "go"
          /\ \A u \in Threads : u # t => pc'[u] = pc[u]
      BY <3>1 DEF Typed, Labels
    <3>4. Typed'
      BY <1>1, <1>3, <1>4, <2>2, <3>1, <3>2, <3>3 DEF Typed, FrameSet
    <3>5. \A w \in All : Task'[w] = Task[w] \/ (Task'[w] = c /\ ~Busy[w])
      BY <3>1, <3>2 DEF Typed
    <3> QED
      BY <1>1, <1>3, <3>1, <3>3, <3>4, <3>5, SubmitLemma
  <2>4. CASE Avail = <<>>
    <3>1. /\ pc' = [pc EXCEPT ![t] = "run"] /\ Pushes(t, c)
          /\ Task' = Task /\ Avail' = Avail
      BY <1>1, <1>2, <2>1, <2>4, TakeLemma
    <3>2. /\ pc' \in [Threads -> Labels] /\ pc'[t] = "run"
          /\ \A u \in Threads : u # t => pc'[u] = pc[u]
      BY <3>1 DEF Typed, Labels
    <3>3. /\ stack' \in [Threads -> Seq(FrameSet)] /\ Others(t)
          /\ stack'[t][Len(stack[t])].at = Top(t).at + 1
      BY <1>2, <1>3, <3>1, PushesLemma
    <3>4. Typed'
      BY <1>1, <1>4, <2>2, <3>1, <3>2, <3>3 DEF Typed, FrameSet
    <3>5. OnceAt(c) /\ c \notin done
      BY <1>3 DEF Once, Typed
    <3>6. /\ \A u \in Threads : ~Submits(u, c) /\ \A j : ~On(u, j, c)
          /\ \A w \in All : ~Awaits(w, c)
      <4>1. \A w \in All : ~Awaits(w, c)
        BY <1>3 DEF Awaits, Pending, Handed
      <4> QED
        BY <1>3, <3>5, <4>1 DEF OnceAt
    <3>7. Placed' /\ Moves(c)
      BY <1>1, <1>2, <1>3, <3>1, <3>2, <3>5, <3>6, InPlaceLemma
    <3>8. ASSUME NEW k \in DOMAIN prog, NEW i \in DOMAIN prog[k],
                 prog[k][i].op = "exec", prog[k][i].arg \in given' \ given
          PROVE  Passed(k, i)'
      <4>1. k = Top(t).task /\ i = Top(t).at
        BY <1>1, <3>8, SiteLemma
      <4>2. k # c /\ Top(t).at \in Int
        <5>1. On(t, Len(stack[t]), k) /\ Top(t).at \in Nat
          BY <1>2, <4>1, TopLemma
        <5> QED
          BY <3>6, <5>1
      <4>3. StaysAt(Top(t).task)
        BY <3>7, <4>1, <4>2 DEF Moves
      <4>4. stack'[t][Len(stack[t])].at > i
        BY <3>3, <4>1, <4>2
      <4> QED
        BY <1>1, <4>1, <4>3, <4>4, ExecPassedLemma
    <3> QED
      BY <1>3, <3>4, <3>7, <3>8
  <2> QED
    BY <2>3, <2>4
<1> QED
  BY <1>5, <1>6

\* A thread that comes out of its wait in AllocThread.
LEMMA AllocTakes ==
    ASSUME Typed, Placed, Once, Handed, AvailRests, NEW t \in Threads, AllocAgain(t),
           StopWaiting(AllocWaiting, Call(t).wait), NEW c, c = Call(t).arg
    PROVE  Typed' /\ Placed' /\ (Moves(c) \/ Keeps) /\ Submits(t, c)
<1>1. /\ pc[t] = "alloc" /\ Take(t, AllocWaiting - Weight(Call(t).wait))
      /\ UNCHANGED <<prog, Busy, StopThreads, joining, given, done>>
  BY DEF AllocAgain, shutdown
<1>2. /\ stack[t] # <<>> /\ Call(t).op = "exec"
      /\ Top(t).at \in DOMAIN prog[Top(t).task]
      /\ c \in DOMAIN prog \ {"main"}
  <2>1. Call(t).op = "exec" /\ Top(t).at \in DOMAIN prog[Top(t).task]
    BY <1>1 DEF Placed, PlacedAt, Calling
  <2> QED
    BY <1>1, <2>1, CallLemma DEF Calling
<1>3. Submits(t, c) /\ OnceAt(c) /\ c \in given /\ c \notin done
  BY <1>1, <1>2 DEF Submits, Once, OnceAt
<1>4. asleep' = {}
  BY <1>1, <1>2, TakeLemma
<1>5. CASE Avail # <<>>
  <2>1. /\ pc' = [pc EXCEPT ![t] = "go"] /\ stack' = stack
        /\ Task' = [Task EXCEPT ![Last(Avail)] = c]
        /\ Avail' = Front(Avail)
    BY <1>1, <1>2, <1>5, TakeLemma
  <2>2. Last(Avail) \in All /\ ~Busy[Last(Avail)] /\ Avail' \in Seq(All)
    BY <1>5, <2>1, AvailLemma
  <2>3. /\ pc' \in [Threads -> Labels] /\ pc'[t] = "go"
        /\ \A u \in Threads : u # t => pc'[u] = pc[u]
    BY <2>1 DEF Typed, Labels
  <2>4. Typed'
    BY <1>1, <1>2, <1>4, <2>1, <2>2, <2>3 DEF Typed, FrameSet
  <2>5. Placed'
    BY <1>1, <1>2, <2>1, <2>3, StaysLemma DEF Calling
  <2>6. \A u \in Threads : /\ Top(u)' = Top(u) /\ Call(u)' = Call(u)
                           /\ \A j, k : On(u, j, k)' <=> On(u, j, k)
    BY <1>1, <2>1, SameStackLemma
  <2>7. \A u \in Threads : \A k : Submits(u, k)' <=> Submits(u, k)
    BY <1>1, <2>3, <2>6 DEF Submits
  <2>8. \A w \in All : \A k : Awaits(w, k)' <=> Awaits(w, k)
    <3>1. \A w \in All : Pending(w)' <=> Pending(w)
      BY <1>1, <2>3 DEF Pending, All, Threads
    <3>2. \A w \in All : Task'[w] = Task[w] \/ ~Busy[w]
      BY <2>1, <2>2 DEF Typed
    <3> QED
      BY <3>1, <3>2 DEF Awaits, Pending
  <2>9. Onward
    BY <1>1, <2>1, <2>3 DEF Onward
  <2>10. Keeps
    BY <1>1, <2>6, <2>7, <2>8, <2>9 DEF Keeps, StaysAt
  <2> QED
    BY <1>3, <2>4, <2>5, <2>10
<1>6. CASE Avail = <<>>
  <2>1. /\ pc' = [pc EXCEPT ![t] = "run"] /\ Pushes(t, c)
        /\ Task' = Task /\ Avail' = Avail
    BY <1>1, <1>2, <1>6, TakeLemma
  <2>2. /\ pc' \in [Threads -> Labels] /\ pc'[t] = "run"
        /\ \A u \in Threads : u # t => pc'[u] = pc[u]
    BY <2>1 DEF Typed, Labels
  <2>3. stack' \in [Threads -> Seq(FrameSet)]
    BY <1>2, <2>1, PushesLemma
  <2>4. Typed'
    BY <1>1, <1>4, <2>1, <2>2, <2>3 DEF Typed, FrameSet
  <2>5. /\ \A u \in Threads : Submits(u, c) => u = t
        /\ \A u \in Threads : \A j : ~On(u, j, c)
        /\ \A w \in All : ~Awaits(w, c)
    BY <1>3 DEF OnceAt
  <2>6. given' = given \cup {c}
    BY <1>1, <1>3
  <2>7. Placed' /\ Moves(c)
    BY <1>1, <1>2, <1>3, <2>1, <2>2, <2>5, <2>6, InPlaceLemma
  <2> QED
    BY <1>3, <2>4, <2>7
<1> QED
  BY <1>5, <1>6
-----------------------------------------------------------------------------
(* The hand-over, Avail and the exit. *)

\* What no step undoes: a thread has called exit.
LEMMA ExitLemma ==
    ASSUME NEW t \in Threads, \A u \in Threads : u # t => pc'[u] = pc[u] \/ Wakes(u),
           pc[t] \in Leaving => pc'[t] \in Leaving, pc[t] # "gone"
    PROVE  ExitBegun => ExitBegun'
<1>1. Main \in Threads
  BY NAssumption DEF Main, Threads
<1>2. CASE pc[Main] = "gone"
  BY <1>1, <1>2 DEF ExitBegun, Wakes
<1>3. ASSUME NEW u \in Threads, pc[u] \in Leaving
      PROVE  ExitBegun'
  BY <1>3 DEF ExitBegun, Wakes, Leaving
<1> QED
  BY <1>2, <1>3 DEF ExitBegun

\* Handed in the steps that hand no task over.
LEMMA HandedLemma ==
    ASSUME Typed, Handed, Task' = Task, given \subseteq given',
           \A w \in All : Busy'[w] => Busy[w],
           \A u \in Threads : pc'[u] = "go" => pc[u] = "go" /\ Call(u)' = Call(u),
           \A u \in Threads : pc'[u] = "alloc" =>
              \/ pc[u] = "alloc" /\ Call(u)' = Call(u)
              \/ \A w \in All : Task[w] # (Call(u).arg)',
           \A w \in All : ~Busy[w] /\ pc[w] \in Resting => pc'[w] \in Resting,
           \A i \in DOMAIN Avail' : \/ i \in DOMAIN Avail /\ Avail'[i] = Avail[i]
                                    \/ pc[Avail'[i]] \notin Resting
    PROVE  Handed'
<1>1. ASSUME NEW u \in Threads, pc'[u] = "go"
      PROVE  \E w \in All : /\ Task'[w] = (Call(u).arg)'
                            /\ ~Busy'[w] /\ pc'[w] \in Resting
                            /\ \A i \in DOMAIN Avail' : Avail'[i] # w
  <2>1. pc[u] = "go" /\ (Call(u).arg)' = Call(u).arg
    BY <1>1
  <2>2. PICK w \in All : /\ Task[w] = Call(u).arg
                         /\ ~Busy[w] /\ pc[w] \in Resting
                         /\ \A i \in DOMAIN Avail : Avail[i] # w
    BY <2>1 DEF Handed
  <2> QED
    BY <2>1, <2>2
<1>2. ASSUME NEW u \in Threads, pc'[u] = "alloc"
      PROVE  \A w \in All : Task'[w] # (Call(u).arg)'
  BY <1>2 DEF Handed
<1>3. /\ \A v, w \in All : Task'[v] = Task'[w] /\ Task'[v] # "none" => v = w
      /\ \A w \in All : Task'[w] # "none" => Task'[w] \in given' /\ Task'[w] # "main"
      /\ \A w \in All : Busy'[w] => Task'[w] # "none"
  BY DEF Handed
<1> QED
  BY <1>1, <1>2, <1>3 DEF Handed

\* AvailRests in the steps that leave Avail alone.
LEMMA AvailRestsLemma ==
    ASSUME Typed, AvailRests, Avail' = Avail,
           \A i \in DOMAIN Avail : ~Busy'[Avail[i]] /\ pc'[Avail[i]] \in Resting,
           \A w \in All : pc'[w] = "release" => ~Busy'[w]
    PROVE  AvailRests'
BY DEF AvailRests

\* QuitsInExit in the steps in which no thread quits.
LEMMA QuitsLemma ==
    ASSUME QuitsInExit, StopThreads' = StopThreads, joining' = joining,
           ExitBegun => ExitBegun', \A w \in All : pc'[w] = "gone" <=> pc[w] = "gone"
    PROVE  QuitsInExit'
BY DEF QuitsInExit

\* The rest of the invariant but for the tasks' places.
Orderly == Handed /\ AvailRests /\ QuitsInExit

\* Most steps of t leave the workers' jobs, flags and rest alone.
LEMMA CalmLemma ==
    ASSUME Typed, Orderly, NEW t \in Threads,
           UNCHANGED <<prog, Avail, Task, Busy, StopThreads, joining>>, given \subseteq given',
           Others(t), \A u \in Threads : u # t => pc'[u] = pc[u] \/ Wakes(u),
           pc[t] \in Leaving => pc'[t] \in Leaving, pc[t] # "gone",
           pc'[t] \notin {"go", "gone", "release"},
           pc'[t] = "alloc" => \/ pc[t] = "alloc" /\ Call(t)' = Call(t)
                               \/ \A w \in All : Task[w] # (Call(t).arg)',
           t \in All /\ ~Busy[t] /\ pc[t] \in Resting => pc'[t] \in Resting
    PROVE  Orderly' /\ (ExitBegun => ExitBegun')
<1>1. ExitBegun => ExitBegun'
  BY ExitLemma
<1>2. \A w \in All : w \in Threads
  BY DEF All, Threads
<1>3. \A w \in All : ~Busy[w] /\ pc[w] \in Resting => pc'[w] \in Resting
  BY <1>2 DEF Wakes, Resting
<1>4. \A u \in Threads : u # t => Call(u)' = Call(u)
  BY SameStackLemma DEF Others
<1>5. \A u \in Threads : pc'[u] = "go" => pc[u] = "go" /\ Call(u)' = Call(u)
  BY <1>4 DEF Wakes
<1>6. \A u \in Threads : pc'[u] = "alloc" =>
              \/ pc[u] = "alloc" /\ Call(u)' = Call(u)
              \/ \A w \in All : Task[w] # (Call(u).arg)'
  BY <1>4 DEF Wakes
<1>7. Handed'
  BY <1>3, <1>5, <1>6, HandedLemma DEF Orderly
<1>8. AvailRests'
  <2>1. \A i \in DOMAIN Avail : Avail[i] \in All
    BY ElementOfSeq, LenProperties DEF Typed
  <2>2. \A i \in DOMAIN Avail : ~Busy'[Avail[i]] /\ pc'[Avail[i]] \in Resting
    BY <1>3, <2>1 DEF Orderly, AvailRests
  <2>3. \A w \in All : pc'[w] = "release" => ~Busy'[w]
    BY <1>2 DEF Orderly, AvailRests, Wakes
  <2> QED
    BY <2>2, <2>3, AvailRestsLemma DEF Orderly
<1>9. QuitsInExit'
  <2>1. \A w \in All : pc'[w] = "gone" <=> pc[w] = "gone"
    BY <1>2 DEF Wakes
  <2> QED
    BY <1>1, <2>1, QuitsLemma DEF Orderly
<1> QED
  BY <1>1, <1>7, <1>8, <1>9 DEF Orderly

\* A worker is picked: it keeps the task until Go, and nobody else's.
LEMMA PickLemma ==
    ASSUME Typed, Typed', Placed, Once, Orderly, NEW t \in Threads, Avail # <<>>,
           pc[t] \in {"run", "alloc"}, pc' = [pc EXCEPT ![t] = "go"],
           NEW c \in DOMAIN prog \ {"main"}, c = Call(t).arg,
           UNCHANGED <<prog, stack, Busy, StopThreads, joining>>,
           Avail' = Front(Avail), Task' = [Task EXCEPT ![Last(Avail)] = c],
           given \subseteq given', c \in given',
           \A w \in All : Task[w] # c,
           \A u \in Threads : Submits(u, c) => u = t
    PROVE  Orderly' /\ (ExitBegun => ExitBegun')
<1>1. /\ pc'[t] = "go" /\ \A u \in Threads : u # t => pc'[u] = pc[u]
      /\ \A u \in Threads : Call(u)' = Call(u)
  BY SameStackLemma DEF Typed
<1>2. ExitBegun => ExitBegun'
  BY <1>1, ExitLemma DEF Leaving
<1>3. PICK x \in All : /\ x = Last(Avail) /\ x \in Threads
                       /\ ~Busy[x] /\ pc[x] \in Resting
                       /\ \A i \in DOMAIN Front(Avail) :
                             /\ i \in DOMAIN Avail /\ Front(Avail)[i] = Avail[i]
                             /\ Avail[i] # x
  BY AvailLemma DEF Orderly
<1>4. /\ Task'[x] = c /\ \A w \in All : w # x => Task'[w] = Task[w]
      /\ x # t /\ c # "none"
  BY <1>3, ProgLemma, TopLemma DEF Typed, Resting
<1>5. \E i \in DOMAIN Avail : Avail[i] = x
  <2>1. Len(Avail) \in DOMAIN Avail
    BY PopLemma DEF Typed
  <2> QED
    BY <1>3, <2>1 DEF Last
<1>6. \A w \in All : pc[w] \in Resting => pc'[w] \in Resting
  <2>1. pc[t] \notin Resting
    BY DEF Resting
  <2> QED
    BY <1>1, <2>1 DEF All, Threads
<1>7. Handed'
  <2>1. \A v, w \in All : Task'[v] = Task'[w] /\ Task'[v] # "none" => v = w
    BY <1>4 DEF Orderly, Handed
  <2>2. \A w \in All : Task'[w] # "none" => Task'[w] \in given' /\ Task'[w] # "main"
    BY <1>4 DEF Orderly, Handed
  <2>3. \A w \in All : Busy'[w] => Task'[w] # "none"
    BY <1>4 DEF Orderly, Handed
  <2>4. ASSUME NEW u \in Threads, pc'[u] = "alloc"
        PROVE  \A w \in All : Task'[w] # (Call(u).arg)'
    <3>1. u # t /\ pc[u] = "alloc" /\ (Call(u).arg)' = Call(u).arg
      BY <1>1, <2>4
    <3>2. Call(u).arg # c
      BY <3>1 DEF Submits
    <3> QED
      BY <1>4, <3>1, <3>2 DEF Orderly, Handed
  <2>5. ASSUME NEW u \in Threads, pc'[u] = "go"
        PROVE  \E w \in All : /\ Task'[w] = (Call(u).arg)'
                              /\ ~Busy'[w] /\ pc'[w] \in Resting
                              /\ \A i \in DOMAIN Avail' : Avail'[i] # w
    <3>1. (Call(u).arg)' = Call(u).arg
      BY <1>1
    <3>2. CASE u = t
      BY <1>3, <1>4, <1>6, <3>1, <3>2
    <3>3. CASE u # t
      <4>1. PICK w \in All : /\ Task[w] = Call(u).arg
                             /\ ~Busy[w] /\ pc[w] \in Resting
                             /\ \A i \in DOMAIN Avail : Avail[i] # w
        BY <1>1, <2>5, <3>3 DEF Orderly, Handed
      <4>2. w # x
        BY <1>5, <4>1
      <4> QED
        BY <1>3, <1>4, <1>6, <3>1, <4>1, <4>2
    <3> QED
      BY <3>2, <3>3
  <2> QED
    BY <2>1, <2>2, <2>3, <2>4, <2>5 DEF Handed
<1>8. AvailRests'
  <2>1. \A i \in DOMAIN Avail' :
           /\ i \in DOMAIN Avail /\ Avail'[i] = Avail[i] /\ Avail[i] \in All
    BY <1>3, ElementOfSeq, LenProperties DEF Typed
  <2>2. \A i \in DOMAIN Avail' : ~Busy'[Avail'[i]] /\ pc'[Avail'[i]] \in Resting
    BY <1>6, <2>1 DEF Orderly, AvailRests
  <2>3. \A i, j \in DOMAIN Avail' : i # j => Avail'[i] # Avail'[j]
    BY <2>1 DEF Orderly, AvailRests
  <2>4. \A w \in All : pc'[w] = "release" => ~Busy'[w]
    BY <1>1 DEF Orderly, AvailRests, All, Threads
  <2> QED
    BY <2>2, <2>3, <2>4 DEF AvailRests
<1>9. QuitsInExit'
  <2>1. \A w \in All : pc'[w] = "gone" <=> pc[w] = "gone"
    BY <1>1 DEF All, Threads
  <2> QED
    BY <1>2, <2>1, QuitsLemma DEF Orderly
<1> QED
  BY <1>2, <1>7, <1>8, <1>9 DEF Orderly

\* Go raises the flag of a worker that nobody else has picked.
LEMMA GoOrderly ==
    ASSUME Typed, Placed, Once, Orderly, NEW t \in Threads, Go(t)
    PROVE  Orderly' /\ (ExitBegun => ExitBegun')
<1> DEFINE c == Call(t).arg
<1>1. /\ pc[t] = "go" /\ Advances(t) /\ stack[t] # <<>>
      /\ UNCHANGED <<prog, Avail, asleep, Task, StopThreads, joining, given, done>>
  BY GoesToLemma DEF Orderly
<1>2. PICK w \in All :
                 /\ w # t /\ w \in Threads /\ Task[w] = c
                 /\ ~Busy[w] /\ pc[w] \in Resting
                 /\ \A i \in DOMAIN Avail : Avail[i] # w
                 /\ Busy' = [Busy EXCEPT ![w] = TRUE]
                 /\ pc' \in [Threads -> Labels] /\ pc'[t] = "run"
                 /\ \A u \in Threads : u # t => pc'[u] = pc[u] \/ Wakes(u)
  BY GoesToLemma DEF Orderly
<1>3. ExitBegun => ExitBegun'
  BY <1>1, <1>2, ExitLemma DEF Leaving
<1>4. \A u \in Threads : u # t => Call(u)' = Call(u)
  BY <1>1, AdvancesLemma, SameStackLemma DEF Others
<1>5. c \in DOMAIN prog /\ c # "none" /\ OnceAt(c) /\ Submits(t, c)
  <2>1. Call(t).op = "exec" /\ Top(t).at \in DOMAIN prog[Top(t).task]
    BY <1>1 DEF Placed, PlacedAt, Calling
  <2>2. c \in DOMAIN prog
    BY <1>1, <2>1, CallLemma DEF Calling
  <2> QED
    BY <1>1, <2>2, ProgLemma DEF Once, Submits
<1>6. \A v \in All : Busy'[v] = (v = w \/ Busy[v])
  BY <1>2 DEF Typed
<1>7. \A v \in All : pc[v] \in Resting => pc'[v] \in Resting
  BY <1>1, <1>2 DEF Wakes, Resting, All, Threads
<1>8. Handed'
  <2>1. ASSUME NEW u \in Threads, pc'[u] = "go"
        PROVE  \E v \in All : /\ Task'[v] = (Call(u).arg)'
                              /\ ~Busy'[v] /\ pc'[v] \in Resting
                              /\ \A i \in DOMAIN Avail' : Avail'[i] # v
    <3>1. u # t /\ pc[u] = "go" /\ (Call(u).arg)' = Call(u).arg
      BY <1>2, <1>4, <2>1 DEF Wakes
    <3>2. PICK v \in All : /\ Task[v] = Call(u).arg
                           /\ ~Busy[v] /\ pc[v] \in Resting
                           /\ \A i \in DOMAIN Avail : Avail[i] # v
      BY <3>1 DEF Orderly, Handed
    <3>3. Call(u).arg # c
      BY <1>5, <3>1 DEF OnceAt, Submits
    <3>4. v # w
      BY <1>2, <3>2, <3>3
    <3> QED
      BY <1>1, <1>6, <1>7, <3>1, <3>2, <3>4
  <2>2. ASSUME NEW u \in Threads, pc'[u] = "alloc"
        PROVE  \A v \in All : Task'[v] # (Call(u).arg)'
    <3>1. u # t /\ pc[u] = "alloc" /\ (Call(u).arg)' = Call(u).arg
      BY <1>2, <1>4, <2>2 DEF Wakes
    <3> QED
      BY <1>1, <3>1 DEF Orderly, Handed
  <2>3. \A v \in All : Busy'[v] => Task'[v] # "none"
    BY <1>1, <1>2, <1>5, <1>6 DEF Orderly, Handed
  <2> QED
    BY <1>1, <2>1, <2>2, <2>3 DEF Orderly, Handed
<1>9. AvailRests'
  <2>1. \A i \in DOMAIN Avail : Avail[i] \in All
    BY ElementOfSeq, LenProperties DEF Typed
  <2>2. \A i \in DOMAIN Avail : ~Busy'[Avail[i]] /\ pc'[Avail[i]] \in Resting
    BY <1>2, <1>6, <1>7, <2>1 DEF Orderly, AvailRests
  <2>3. \A v \in All : pc'[v] = "release" => ~Busy'[v]
    BY <1>1, <1>2, <1>6 DEF Orderly, AvailRests, Wakes, Resting, All, Threads
  <2> QED
    BY <1>1, <2>2, <2>3, AvailRestsLemma DEF Orderly
<1>10. QuitsInExit'
  <2>1. \A v \in All : pc'[v] = "gone" <=> pc[v] = "gone"
    BY <1>1, <1>2 DEF Wakes, All, Threads
  <2> QED
    BY <1>1, <1>3, <2>1, QuitsLemma DEF Orderly
<1> QED
  BY <1>3, <1>8, <1>9, <1>10 DEF Orderly

\* The steps of a worker that change its flag or Avail.
LEMMA WorkerOrderly ==
    ASSUME Typed, Orderly, NEW w \in All,
           \/ Finish(w)
           \/ ReleaseThread(w)
           \/ WaitBusyTest(w) /\ StopThreads
    PROVE  Orderly' /\ (ExitBegun => ExitBegun')
<1>0. w \in Threads /\ w # Main /\ \A v \in All : v \in Threads
  BY DEF All, Threads, Main
<1>1. /\ UNCHANGED <<prog, stack, Task, StopThreads, joining, given>>
      /\ pc' \in [Threads -> Labels]
      /\ \A u \in Threads : u # w => pc'[u] = pc[u]
      /\ pc[w] \in {"finish", "release", "test"} /\ pc'[w] \in {"release", "enter", "gone"}
      /\ pc[w] = "test" <=> pc'[w] = "gone"
      /\ pc'[w] = "gone" => StopThreads
  BY <1>0 DEF Finish, ReleaseThread, WaitBusyTest, Goto, shutdown, jobs, Typed, Labels
<1>2. ExitBegun => ExitBegun'
  BY <1>0, <1>1, ExitLemma DEF Leaving
<1>3. \A u \in Threads : Call(u)' = Call(u)
  BY <1>1, SameStackLemma
<1>4. \A v \in All : Busy'[v] => Busy[v]
  BY DEF Finish, ReleaseThread, WaitBusyTest, Typed, jobs
<1>5. \A v \in All : pc[v] \in Resting => pc'[v] \in Resting
  BY <1>0, <1>1 DEF Resting
<1>6. \A i \in DOMAIN Avail' : \/ i \in DOMAIN Avail /\ Avail'[i] = Avail[i]
                               \/ pc[Avail'[i]] \notin Resting
  <2>1. CASE ReleaseThread(w)
    <3>1. Avail' = Append(Avail, w) /\ pc[w] \notin Resting
      BY <2>1 DEF ReleaseThread, Resting
    <3> QED
      BY <3>1, PushLemma DEF Typed
  <2>2. CASE ~ReleaseThread(w)
    BY <2>2 DEF Finish, WaitBusyTest
  <2> QED
    BY <2>1, <2>2
<1>7. Handed'
  <2>1. \A u \in Threads : pc'[u] = "go" => pc[u] = "go"
    BY <1>1
  <2>2. \A u \in Threads : pc'[u] = "alloc" => pc[u] = "alloc"
    BY <1>1
  <2> QED
    BY <1>1, <1>3, <1>4, <1>5, <1>6, <2>1, <2>2, HandedLemma DEF Orderly
<1>8. \A i \in DOMAIN Avail : /\ Avail[i] \in All
                              /\ ~Busy'[Avail[i]] /\ pc'[Avail[i]] \in Resting
  <2>1. \A i \in DOMAIN Avail : Avail[i] \in All
    BY ElementOfSeq, LenProperties DEF Typed
  <2> QED
    BY <1>4, <1>5, <2>1 DEF Orderly, AvailRests
<1>9. \A v \in All : pc'[v] = "release" => ~Busy'[v]
  <2>1. Finish(w) => ~Busy'[w]
    BY DEF Finish, Typed
  <2>2. pc'[w] = "release" => Finish(w)
    BY <1>0 DEF ReleaseThread, WaitBusyTest, Goto, Typed
  <2> QED
    BY <1>0, <1>1, <1>4, <2>1, <2>2 DEF Orderly, AvailRests
<1>10. AvailRests'
  <2>1. CASE ReleaseThread(w)
    <3>1. Avail' = Append(Avail, w) /\ pc[w] = "release" /\ Busy' = Busy /\ pc'[w] = "enter"
      BY <1>0, <2>1 DEF ReleaseThread, Goto, jobs, Typed
    <3>2. /\ DOMAIN Avail' = DOMAIN Avail \cup {Len(Avail) + 1}
          /\ Len(Avail) + 1 \notin DOMAIN Avail
          /\ \A j \in DOMAIN Avail : Avail'[j] = Avail[j]
          /\ Avail'[Len(Avail) + 1] = w
      BY <3>1, PushLemma DEF Typed
    <3>3. ~Busy'[w] /\ \A i \in DOMAIN Avail : Avail[i] # w
      BY <3>1 DEF Orderly, AvailRests, Resting
    <3>4. \A i \in DOMAIN Avail' : ~Busy'[Avail'[i]] /\ pc'[Avail'[i]] \in Resting
      BY <1>8, <3>1, <3>2, <3>3 DEF Resting
    <3>5. \A i, j \in DOMAIN Avail' : i # j => Avail'[i] # Avail'[j]
      BY <3>2, <3>3 DEF Orderly, AvailRests
    <3> QED
      BY <1>9, <3>4, <3>5 DEF AvailRests
  <2>2. CASE ~ReleaseThread(w)
    <3>1. Avail' = Avail
      BY <2>2 DEF Finish, WaitBusyTest
    <3> QED
      BY <1>8, <1>9, <3>1, AvailRestsLemma DEF Orderly
  <2> QED
    BY <2>1, <2>2
<1>11. QuitsInExit'
  <2>1. StopThreads' => ExitBegun'
    BY <1>1, <1>2 DEF Orderly, QuitsInExit
  <2>2. \A v \in All : pc'[v] = "gone" => StopThreads'
    BY <1>0, <1>1 DEF Orderly, QuitsInExit
  <2>3. \A v \in All : v < joining' => pc'[v] = "gone"
    BY <1>0, <1>1 DEF Orderly, QuitsInExit
  <2> QED
    BY <2>1, <2>2, <2>3 DEF QuitsInExit
<1> QED
  BY <1>2, <1>7, <1>10, <1>11 DEF Orderly

\* The steps of JoinAll: the thread that leaves it last leaves all workers gone.
LEMMA JoinOrderly ==
    ASSUME Typed, Orderly, NEW t \in Threads, JoinAll(t)
    PROVE  Orderly' /\ (ExitBegun => ExitBegun')
<1>0. \A v \in All : v \in Threads
  BY DEF All, Threads
<1>1. CASE NotifyJob(t) \/ JoinSelf(t)
  <2>1. UNCHANGED <<prog, stack, Avail, Task, Busy, StopThreads, joining, given, done>>
    BY <1>1 DEF NotifyJob, JoinSelf, jobs, shutdown
  <2>2. /\ pc[t] \in {"notify", "join"} /\ pc'[t] \in {"join", "abort"}
        /\ \A u \in Threads : u # t => pc'[u] = pc[u] \/ Wakes(u)
    BY <1>0, <1>1 DEF NotifyJob, JoinSelf, Goto, Typed, Wakes
  <2> QED
    BY <2>1, <2>2, CalmLemma DEF Leaving, Resting, Others
<1>2. CASE Stop(t) \/ JoinJob(t)
  <2>1. /\ UNCHANGED <<prog, stack, Avail, Task, Busy, given, done>>
        /\ pc[t] \in {"stop", "join"} /\ pc'[t] \in {"notify", "gone"}
        /\ \A u \in Threads : u # t => pc'[u] = pc[u]
    BY <1>2 DEF Stop, JoinJob, Goto, jobs, Typed
  <2>2. \A u \in Threads : Call(u)' = Call(u)
    BY <2>1, SameStackLemma
  <2>3. \A v \in All : pc[v] \in Resting => pc'[v] \in Resting
    BY <1>0, <2>1 DEF Resting
  <2>4. Handed'
    <3>1. \A u \in Threads : pc'[u] \in {"go", "alloc"} => pc'[u] = pc[u]
      BY <2>1
    <3> QED
      BY <2>1, <2>2, <2>3, <3>1, HandedLemma DEF Orderly
  <2>5. AvailRests'
    <3>1. \A i \in DOMAIN Avail : Avail[i] \in All
      BY ElementOfSeq, LenProperties DEF Typed
    <3>2. \A i \in DOMAIN Avail : ~Busy'[Avail[i]] /\ pc'[Avail[i]] \in Resting
      BY <2>1, <2>3, <3>1 DEF Orderly, AvailRests
    <3>3. \A v \in All : pc'[v] = "release" => ~Busy'[v]
      BY <1>0, <2>1 DEF Orderly, AvailRests
    <3> QED
      BY <2>1, <3>2, <3>3, AvailRestsLemma DEF Orderly
  <2>6. CASE Stop(t)
    <3>1. StopThreads' = TRUE /\ joining' = joining /\ pc'[t] = "notify" /\ pc[t] = "stop"
      BY <2>6 DEF Stop, Goto, Typed
    <3>2. ExitBegun'
      BY <3>1 DEF ExitBegun, Leaving
    <3>3. QuitsInExit'
      BY <1>0, <2>1, <3>1, <3>2 DEF Orderly, QuitsInExit
    <3> QED
      BY <2>4, <2>5, <3>2, <3>3 DEF Orderly
  <2>7. CASE JoinJob(t)
    <3>1. /\ StopThreads' = StopThreads /\ pc[t] = "join" /\ pc[joining] = "gone"
          /\ pc'[t] = IF joining = N THEN "gone" ELSE "notify"
          /\ joining' = IF joining = N THEN joining ELSE joining + 1
          /\ joining \in All
      BY <2>7 DEF JoinJob, Goto, Typed
    <3>2. StopThreads
      BY <3>1 DEF Orderly, QuitsInExit
    <3>3. \A v \in All : v < joining \/ v = joining => pc[v] = "gone"
      BY <3>1 DEF Orderly, QuitsInExit
    <3>4. \A v \in All : v < joining' => pc'[v] = "gone"
      <4>1. \A v \in All : v < joining' => v < joining \/ v = joining
        BY <3>1 DEF All
      <4>2. \A v \in All : pc[v] = "gone" => v # t
        BY <3>1
      <4> QED
        BY <1>0, <2>1, <3>3, <4>1, <4>2
    <3>5. ExitBegun'
      <4>1. CASE joining # N
        BY <3>1, <4>1 DEF ExitBegun, Leaving
      <4>2. CASE joining = N
        <5>1. \A v \in All : pc[v] = "gone"
          BY <3>3, <4>2, NAssumption DEF All
        <5>2. t = Main
          BY <3>1, <5>1 DEF All, Threads, Main
        <5> QED
          BY <3>1, <4>2, <5>2 DEF ExitBegun
      <4> QED
        BY <4>1, <4>2
    <3>6. QuitsInExit'
      BY <3>1, <3>2, <3>4, <3>5 DEF QuitsInExit
    <3> QED
      BY <2>4, <2>5, <3>5, <3>6 DEF Orderly
  <2> QED
    BY <1>2, <2>6, <2>7
<1> QED
  BY <1>1, <1>2 DEF JoinAll
-----------------------------------------------------------------------------
(* The invariant holds. *)

\* The parts about the tasks follow from what the step does to their places.
LEMMA InvLemma ==
    ASSUME Inv, Typed', Placed', Orderly', ExitBegun => ExitBegun', NEW c,
           \/ Keeps
           \/ Moves(c) /\ \/ c \notin given
                          \/ c \in done'
                          \/ \E u \in Threads : Submits(u, c)
                          \/ \E w \in All : Awaits(w, c),
           \A k \in DOMAIN prog : \A i \in DOMAIN prog[k] :
              prog[k][i].op = "exec" /\ prog[k][i].arg \in given' \ given => Passed(k, i)'
    PROVE  Inv'
<1>1. prog' = prog
  BY DEF Moves, Keeps
<1>2. stack' \in [Threads -> Seq(FrameSet)] /\ given' \subseteq DOMAIN prog
  BY <1>1 DEF Typed, FrameSet
<1>3. Once'
  BY OnceLemma DEF Inv
<1>4. CallsMade'
  BY <1>2, CallsMadeLemma DEF Inv
<1>5. NoneLost'
  BY <1>2, NoneLostLemma DEF Inv
<1> QED
  BY <1>3, <1>4, <1>5 DEF Inv, Orderly

\* The pool starts with all its workers in Avail.
LEMMA InvInit == Init => Inv
<1> SUFFICES ASSUME Init
             PROVE  Inv
  OBVIOUS
<1>0. Main \in Threads /\ Main = 0 /\ All \subseteq Threads /\ N \in Nat \ {0} /\ 0 \notin All
  BY NAssumption DEF Main, Threads, All
<1>1. /\ "main" \in DOMAIN prog /\ "none" \notin DOMAIN prog
      /\ Len(prog["main"]) \in Nat
  <2>1. IsWorkload(prog)
    BY WorkloadsAssumption DEF Init
  <2>2. "main" \in DOMAIN prog /\ "none" \notin DOMAIN prog
    BY <2>1, Zenon DEF IsWorkload
  <2>3. prog["main"] \in Seq([op : {"exec", "lock", "post", "idle", "throw"},
                              arg : STRING, wait : BOOLEAN])
    BY <2>1, <2>2 DEF IsWorkload
  <2> QED
    BY <2>2, <2>3, LenProperties
<1>2. /\ pc = [t \in Threads |-> IF t = Main THEN "run" ELSE "enter"]
      /\ stack = [t \in Threads |-> IF t = Main THEN <<Frame("main", 1)>> ELSE <<>>]
      /\ Avail = [i \in All |-> i] /\ asleep = {}
      /\ Task = [w \in All |-> "none"] /\ Busy = [w \in All |-> FALSE]
      /\ StopThreads = FALSE /\ joining = 1 /\ given = {"main"} /\ done = {}
      /\ prog \in Workloads
  BY DEF Init
<1>3. stack[Main] = <<Frame("main", 1)>> /\ \A t \in Threads : t # Main => stack[t] = <<>>
  BY <1>0, <1>2
<1> DEFINE f == Frame("main", 1)
<1>4. f \in FrameSet /\ f.task = "main" /\ f.at = 1
  BY <1>1 DEF Frame, FrameSet
<1> HIDE DEF f
<1>5. /\ stack[Main] = <<f>> /\ <<f>> \in Seq(FrameSet) /\ <<f>> # <<>>
      /\ DOMAIN stack[Main] = {1} /\ stack[Main][1] = f
  BY <1>3, <1>4 DEF f
<1>6. \A t \in Threads : t # Main => stack[t] = <<>> /\ DOMAIN stack[t] = {}
  BY <1>3
<1>7. Typed
  <2>1. Avail \in Seq(All)
    BY <1>0, <1>2, IsASeq DEF All
  <2>2. stack \in [Threads -> Seq(FrameSet)]
    BY <1>2, <1>3, <1>5, <1>6, EmptySeq
  <2>3. pc \in [Threads -> Labels]
    BY <1>2 DEF Labels
  <2>4. joining \in All
    BY <1>0, <1>2 DEF All
  <2> QED
    BY <1>1, <1>2, <2>1, <2>2, <2>3, <2>4 DEF Typed
<1>8. \A t \in Threads : \A j, k : On(t, j, k) <=> t = Main /\ j = 1 /\ k = "main"
  BY <1>4, <1>5, <1>6 DEF On
<1>9. \A t \in Threads : \A k : ~Submits(t, k)
  BY <1>2 DEF Submits
<1>10. \A w \in All : \A k : ~Awaits(w, k)
  BY <1>2 DEF Awaits, Pending
<1>11. Placed
  <2>1. \A j \in DOMAIN stack[Main] :
           stack[Main][j].at \in 1..Len(prog[stack[Main][j].task]) + 1
    BY <1>1, <1>4, <1>5
  <2>2. PlacedAt(Main)
    BY <1>0, <1>2, <1>5, <2>1 DEF PlacedAt, Calling
  <2>3. \A t \in Threads : t # Main => PlacedAt(t)
    BY <1>2, <1>6 DEF PlacedAt, Calling
  <2> QED
    BY <2>2, <2>3 DEF Placed
<1>12. Once
  BY <1>0, <1>2, <1>8, <1>9, <1>10 DEF Once, OnceAt
<1>13. CallsMade
  <2>1. \A k \in DOMAIN prog : \A i \in DOMAIN prog[k] :
           prog[k][i].op = "exec" => prog[k][i].arg # "main"
    BY <1>7, ProgLemma
  <2> QED
    BY <1>2, <2>1 DEF CallsMade
<1>14. Handed
  BY <1>2 DEF Handed
<1>15. AvailRests
  <2>1. DOMAIN Avail = All /\ \A i \in All : Avail[i] = i /\ pc[i] = "enter" /\ ~Busy[i]
    BY <1>0, <1>2
  <2> QED
    BY <2>1 DEF AvailRests, Resting
<1>16. QuitsInExit
  BY <1>0, <1>2 DEF QuitsInExit, All
<1>17. NoneLost
  <2>1. On(Main, 1, "main")
    BY <1>0, <1>8
  <2>2. Runs(Main, "main")
    BY <2>1 DEF Runs
  <2> QED
    BY <1>0, <1>2, <2>2 DEF NoneLost
<1> QED
  BY <1>7, <1>11, <1>12, <1>13, <1>14, <1>15, <1>16, <1>17 DEF Inv

\* The calls of a task that hand nothing over, and its return.
LEMMA CallsInv ==
    ASSUME Inv, NEW t \in Threads,
           \/ LockEnter(t) \/ LockSleep(t) \/ LockLeave(t) \/ PostIdle(t)
           \/ WaitIdle(t) \/ Throw(t) \/ Return(t)
    PROVE  Inv'
<1>1. Typed /\ Placed /\ Once /\ Orderly
  BY DEF Inv, Orderly
<1>2. /\ UNCHANGED <<prog, Avail, Task, Busy, StopThreads, joining, given>>
      /\ pc[t] \in {"run", "lock", "pool"}
      /\ pc'[t] \in {"run", "lock", "locked", "pool", "stop", "finish"}
      /\ \A u \in Threads : u # t => pc'[u] = pc[u] \/ Wakes(u)
      /\ Others(t)
  <2>1. CASE PostIdle(t)
    BY <1>1, <2>1 DEF PostIdle, Calls, jobs, shutdown, Wakes, Others, Typed
  <2>2. CASE LockEnter(t) \/ LockSleep(t) \/ LockLeave(t) \/ WaitIdle(t)
    BY <1>1, <2>2 DEF LockEnter, LockSleep, LockLeave, WaitIdle, Calls, Goto, jobs, shutdown,
                      Others, Typed
  <2>3. CASE Throw(t) \/ Return(t)
    BY <1>1, <2>3 DEF Throw, Return, Calls, Goto, jobs, shutdown, Others, Typed
  <2> QED
    BY <2>1, <2>2, <2>3
<1>3. Orderly' /\ (ExitBegun => ExitBegun')
  BY <1>1, <1>2, CalmLemma DEF Leaving, Resting
<1>4. CASE Return(t)
  <2>1. PICK c : c = Top(t).task
    OBVIOUS
  <2>2. Typed' /\ Placed' /\ Moves(c) /\ c \in done'
    BY <1>1, <1>4, <2>1, ReturnStep
  <2> QED
    BY <1>2, <1>3, <2>2, InvLemma
<1>5. CASE ~Return(t)
  <2>1. Typed' /\ Placed' /\ Keeps
    BY <1>1, <1>5, LockEnterStep, LockSleepStep, LockLeaveStep, PostIdleStep,
       WaitIdleStep, ThrowStep
  <2> QED
    BY <1>2, <1>3, <2>1, InvLemma
<1> QED
  BY <1>4, <1>5

\* Execute, AllocThread and Go.
LEMMA HandOverInv ==
    ASSUME Inv, NEW t \in Threads, Execute(t) \/ AllocAgain(t) \/ Go(t)
    PROVE  Inv'
<1>1. Typed /\ Placed /\ Once /\ CallsMade /\ Handed /\ AvailRests /\ QuitsInExit /\ Orderly
  BY DEF Inv, Orderly
<1>2. PICK c : c = Call(t).arg
  OBVIOUS
<1>3. CASE Execute(t)
  <2>1. /\ Typed' /\ Placed' /\ Moves(c) /\ c \notin given
        /\ \A k \in DOMAIN prog : \A i \in DOMAIN prog[k] :
              prog[k][i].op = "exec" /\ prog[k][i].arg \in given' \ given => Passed(k, i)'
    BY <1>1, <1>2, <1>3, ExecuteStep
  <2>2. /\ Calls(t, "exec") /\ pc[t] = "run" /\ given' = given \cup {c}
        /\ UNCHANGED <<prog, Busy, StopThreads, joining>>
    BY <1>2, <1>3 DEF Execute, Calls, shutdown
  <2>3. c \in DOMAIN prog \ {"main"} /\ stack[t] # <<>> /\ Top(t).at \in DOMAIN prog[Top(t).task]
    BY <1>1, <1>2, <2>2, NotGivenLemma, CallLemma DEF Calls
  <2>4. \A w \in All : Task[w] # c
    BY <1>1, <2>1, <2>3, ProgLemma DEF Handed
  <2>5. \A u \in Threads : ~Submits(u, c)
    BY <1>1, <2>1, <2>3 DEF Once, OnceAt
  <2>6. Orderly' /\ (ExitBegun => ExitBegun')
    <3>1. CASE ~StopWaiting(AllocWaiting + Weight(Call(t).wait), Call(t).wait)
      <4>1. /\ pc' = [pc EXCEPT ![t] = "alloc"] /\ UNCHANGED <<stack, Avail, Task>>
        BY <1>3, <3>1 DEF Execute, Goto
      <4>2. pc'[t] = "alloc" /\ \A u \in Threads : u # t => pc'[u] = pc[u]
        BY <1>1, <4>1 DEF Typed
      <4>3. (Call(t).arg)' = c
        BY <1>2, <2>2, <4>1, SameStackLemma
      <4> QED
        BY <1>1, <2>2, <2>4, <4>1, <4>2, <4>3, CalmLemma DEF Leaving, Resting, Others
    <3>2. CASE StopWaiting(AllocWaiting + Weight(Call(t).wait), Call(t).wait)
      <4>1. Take(t, AllocWaiting)
        BY <1>3, <3>2 DEF Execute
      <4>2. CASE Avail # <<>>
        <5>1. /\ pc' = [pc EXCEPT ![t] = "go"] /\ stack' = stack
              /\ Task' = [Task EXCEPT ![Last(Avail)] = c]
              /\ Avail' = Front(Avail)
          BY <1>2, <2>2, <2>3, <4>1, <4>2, TakeLemma
        <5> QED
          BY <1>1, <1>2, <2>1, <2>2, <2>3, <2>4, <2>5, <4>2, <5>1, PickLemma
      <4>3. CASE Avail = <<>>
        <5>1. /\ pc' = [pc EXCEPT ![t] = "run"] /\ Pushes(t, c)
              /\ Task' = Task /\ Avail' = Avail
          BY <1>2, <2>2, <2>3, <4>1, <4>3, TakeLemma
        <5>2. pc'[t] = "run" /\ \A u \in Threads : u # t => pc'[u] = pc[u]
          BY <1>1, <5>1 DEF Typed
        <5>3. Others(t)
          BY <1>1, <2>3, <5>1, PushesLemma
        <5> QED
          BY <1>1, <2>2, <5>1, <5>2, <5>3, CalmLemma DEF Leaving, Resting
      <4> QED
        BY <4>2, <4>3
    <3> QED
      BY <3>1, <3>2
  <2> QED
    BY <2>1, <2>6, InvLemma
<1>4. CASE AllocAgain(t)
  <2>1. /\ pc[t] = "alloc" /\ UNCHANGED <<prog, Busy, StopThreads, joining, given>>
    BY <1>4 DEF AllocAgain, shutdown
  <2>2. CASE ~StopWaiting(AllocWaiting, Call(t).wait)
    <3>1. Typed' /\ Placed' /\ Keeps
      BY <1>1, <1>4, <2>2, AllocSleeps
    <3>2. UNCHANGED <<pc, stack, Avail, Task>>
      BY <1>4, <2>2 DEF AllocAgain
    <3>3. Call(t)' = Call(t)
      BY <2>1, <3>2, SameStackLemma
    <3>4. Orderly' /\ (ExitBegun => ExitBegun')
      BY <1>1, <2>1, <3>2, <3>3, CalmLemma DEF Leaving, Resting, Others
    <3> QED
      BY <2>1, <3>1, <3>4, InvLemma
  <2>3. CASE StopWaiting(AllocWaiting, Call(t).wait)
    <3>1. Typed' /\ Placed' /\ (Moves(c) \/ Keeps) /\ Submits(t, c)
      BY <1>1, <1>2, <1>4, <2>3, AllocTakes
    <3>2. /\ stack[t] # <<>> /\ Top(t).at \in DOMAIN prog[Top(t).task]
          /\ c \in DOMAIN prog \ {"main"}
      <4>1. Call(t).op = "exec" /\ Top(t).at \in DOMAIN prog[Top(t).task]
        BY <1>1, <2>1 DEF Placed, PlacedAt, Calling
      <4> QED
        BY <1>1, <1>2, <2>1, <4>1, CallLemma DEF Calling
    <3>3. /\ c \in given /\ \A u \in Threads : Submits(u, c) => u = t
          /\ \A w \in All : Task[w] # c
      BY <1>1, <1>2, <2>1, <3>1, <3>2 DEF Once, OnceAt, Handed
    <3>4. Take(t, AllocWaiting - Weight(Call(t).wait))
      BY <1>4, <2>3 DEF AllocAgain
    <3>5. Orderly' /\ (ExitBegun => ExitBegun')
      <4>1. CASE Avail # <<>>
        <5>1. /\ pc' = [pc EXCEPT ![t] = "go"] /\ stack' = stack
              /\ Task' = [Task EXCEPT ![Last(Avail)] = c]
              /\ Avail' = Front(Avail)
          BY <1>2, <2>1, <3>2, <3>4, <4>1, TakeLemma
        <5> QED
          BY <1>1, <1>2, <2>1, <3>1, <3>2, <3>3, <4>1, <5>1, PickLemma
      <4>2. CASE Avail = <<>>
        <5>1. /\ pc' = [pc EXCEPT ![t] = "run"] /\ Pushes(t, c)
              /\ Task' = Task /\ Avail' = Avail
          BY <1>2, <2>1, <3>2, <3>4, <4>2, TakeLemma
        <5>2. pc'[t] = "run" /\ \A u \in Threads : u # t => pc'[u] = pc[u]
          BY <1>1, <5>1 DEF Typed
        <5>3. Others(t)
          BY <1>1, <3>2, <5>1, PushesLemma
        <5> QED
          BY <1>1, <2>1, <5>1, <5>2, <5>3, CalmLemma DEF Leaving, Resting
      <4> QED
        BY <4>1, <4>2
    <3> QED
      BY <2>1, <3>1, <3>5, InvLemma
  <2> QED
    BY <2>2, <2>3
<1>5. CASE Go(t)
  <2>1. Orderly' /\ (ExitBegun => ExitBegun')
    BY <1>1, <1>5, GoOrderly
  <2>2. Typed' /\ Placed' /\ Moves(c) /\ Submits(t, c)
    BY <1>1, <1>2, <1>5, <2>1, GoStep
  <2>3. given' = given
    BY <1>5 DEF Go
  <2> QED
    BY <2>1, <2>2, <2>3, InvLemma
<1> QED
  BY <1>3, <1>4, <1>5

\* The steps of the workers' loop and of JoinAll.
LEMMA LoopInv ==
    ASSUME Inv,
           \/ \E w \in All : WorkerStep(w)
           \/ \E t \in Threads : JoinAll(t)
    PROVE  Inv'
<1>1. Typed /\ Placed /\ Once /\ CallsMade /\ Handed /\ AvailRests /\ QuitsInExit /\ Orderly
  BY DEF Inv, Orderly
<1>2. ASSUME NEW t \in Threads, JoinAll(t)
      PROVE  Inv'
  <2>1. Typed' /\ Placed' /\ Keeps
    BY <1>1, <1>2, JoinSteps
  <2>2. Orderly' /\ (ExitBegun => ExitBegun')
    BY <1>1, <1>2, JoinOrderly
  <2>3. given' = given
    BY <1>2 DEF JoinAll, Stop, NotifyJob, JoinJob, JoinSelf
  <2> QED
    BY <2>1, <2>2, <2>3, InvLemma
<1>3. ASSUME NEW w \in All, Finish(w) \/ ReleaseThread(w) \/ WaitBusyEnter(w) \/ FallAsleep(w)
      PROVE  Inv'
  <2>1. Typed' /\ Placed' /\ Keeps
    BY <1>1, <1>3, WorkerSteps
  <2>2. given' = given
    BY <1>3 DEF Finish, ReleaseThread, WaitBusyEnter, FallAsleep
  <2>3. CASE Finish(w) \/ ReleaseThread(w)
    <3>1. Orderly' /\ (ExitBegun => ExitBegun')
      BY <1>1, <2>3, WorkerOrderly
    <3> QED
      BY <2>1, <2>2, <3>1, InvLemma
  <2>4. CASE WaitBusyEnter(w) \/ FallAsleep(w)
    <3>0. w \in Threads
      BY DEF All, Threads
    <3>1. /\ UNCHANGED <<prog, stack, Avail, Task, Busy, StopThreads, joining>>
          /\ pc[w] \in {"enter", "doze"} /\ pc'[w] \in {"test", "asleep"}
          /\ \A u \in Threads : u # w => pc'[u] = pc[u]
      BY <1>1, <2>4, <3>0 DEF WaitBusyEnter, FallAsleep, Goto, jobs, shutdown, Typed
    <3>2. Orderly' /\ (ExitBegun => ExitBegun')
      BY <1>1, <2>2, <3>0, <3>1, CalmLemma DEF Leaving, Resting, Others
    <3> QED
      BY <2>1, <2>2, <3>2, InvLemma
  <2> QED
    BY <1>3, <2>3, <2>4
<1>4. ASSUME NEW w \in All, WaitBusyTest(w)
      PROVE  Inv'
  <2>0. w \in Threads
    BY DEF All, Threads
  <2>1. given' = given
    BY <1>4 DEF WaitBusyTest
  <2>2. CASE StopThreads
    <3>1. Typed' /\ Placed' /\ Keeps
      BY <1>1, <1>4, <2>2, WaitBusyRest
    <3>2. Orderly' /\ (ExitBegun => ExitBegun')
      BY <1>1, <1>4, <2>2, WorkerOrderly
    <3> QED
      BY <2>1, <3>1, <3>2, InvLemma
  <2>3. CASE ~StopThreads
    <3>1. /\ UNCHANGED <<prog, Avail, Task, Busy, StopThreads, joining>>
          /\ pc[w] = "test" /\ pc'[w] = IF Busy[w] THEN "run" ELSE "doze"
          /\ \A u \in Threads : u # w => pc'[u] = pc[u]
          /\ Others(w)
      BY <1>1, <1>4, <2>0, <2>3 DEF WaitBusyTest, Goto, shutdown, Typed, Others
    <3>2. Orderly' /\ (ExitBegun => ExitBegun')
      BY <1>1, <2>0, <2>1, <3>1, CalmLemma DEF Leaving, Resting
    <3>3. CASE Busy[w]
      <4>1. PICK c : c = Task[w]
        OBVIOUS
      <4>2. Typed' /\ Placed' /\ Moves(c) /\ Awaits(w, c)
        BY <1>1, <1>4, <2>3, <3>3, <4>1, BeginStep
      <4> QED
        BY <2>1, <3>2, <4>2, InvLemma
    <3>4. CASE ~Busy[w]
      <4>1. Typed' /\ Placed' /\ Keeps
        BY <1>1, <1>4, <3>4, WaitBusyRest
      <4> QED
        BY <2>1, <3>2, <4>1, InvLemma
    <3> QED
      BY <3>3, <3>4
  <2> QED
    BY <2>2, <2>3
<1> QED
  BY <1>2, <1>3, <1>4 DEF WorkerStep

\* A step in which nothing happens.
LEMMA StutterInv ==
    ASSUME Inv, UNCHANGED vars
    PROVE  Inv'
<1>1. UNCHANGED <<prog, pc, stack, Avail, asleep, Task, Busy, StopThreads, joining, given, done>>
  BY DEF vars, jobs, shutdown
<1>2. \A t : /\ Top(t)' = Top(t) /\ Call(t)' = Call(t)
             /\ \A j, k : On(t, j, k)' <=> On(t, j, k)
  BY <1>1, SameStackLemma
<1>3. /\ \A t, k : (Submits(t, k)' <=> Submits(t, k)) /\ (Runs(t, k)' <=> Runs(t, k))
      /\ \A w, k : Awaits(w, k)' <=> Awaits(w, k)
      /\ ExitBegun' <=> ExitBegun
  BY <1>1, <1>2 DEF Submits, Runs, On, Awaits, Pending, ExitBegun
<1>4. Typed'
  BY <1>1 DEF Inv, Typed, FrameSet
<1>5. Placed'
  BY <1>1, <1>2 DEF Inv, Placed, PlacedAt
<1>6. Once'
  BY <1>1, <1>2, <1>3 DEF Inv, Once, OnceAt
<1>7. CallsMade'
  BY <1>1, <1>2, <1>3 DEF Inv, CallsMade, Passed
<1>8. Handed'
  BY <1>1, <1>2 DEF Inv, Handed
<1>9. AvailRests' /\ QuitsInExit'
  BY <1>1, <1>3 DEF Inv, AvailRests, QuitsInExit
<1>10. NoneLost'
  BY <1>1, <1>3 DEF Inv, NoneLost
<1> QED
  BY <1>4, <1>5, <1>6, <1>7, <1>8, <1>9, <1>10 DEF Inv

\* Every step of the pool keeps the invariant.
LEMMA InvStep == Inv /\ [Next]_vars => Inv'
<1> SUFFICES ASSUME Inv, [Next]_vars
             PROVE  Inv'
  OBVIOUS
<1>1. CASE UNCHANGED vars
  BY <1>1, StutterInv
<1>2. CASE \E t \in Threads : RunStep(t)
  BY <1>2, CallsInv, HandOverInv DEF RunStep
<1>3. CASE (\E t \in Threads : JoinAll(t)) \/ \E w \in All : WorkerStep(w)
  BY <1>3, LoopInv
<1> QED
  BY <1>1, <1>2, <1>3 DEF Next

\* The inductive invariant, for every number of workers and every workload.
THEOREM Invariant == Spec => []Inv
BY InvInit, InvStep, PTL DEF Spec

\* A worker AllocThread may pick is free and is in Avail once (the assert of
\* ThreadPool.cpp:38-40 that a job is only given to an idle worker).
THEOREM AvailableWorkersAreFree == Spec => []AvailableIsFree
<1>1. ASSUME Inv
      PROVE  AvailableIsFree
  <2>1. \A i \in DOMAIN Avail : Avail[i] \in Threads
    <3>1. \A i \in DOMAIN Avail : Avail[i] \in All
      BY <1>1, ElementOfSeq, LenProperties DEF Inv, Typed
    <3> QED
      BY <3>1 DEF All, Threads
  <2>2. \A i \in DOMAIN Avail : stack[Avail[i]] = <<>>
    BY <1>1, <2>1 DEF Inv, AvailRests, Placed, PlacedAt, Resting, Calling
  <2> QED
    BY <1>1, <2>2 DEF Inv, AvailRests, AvailableIsFree
<1> QED
  BY <1>1, Invariant, PTL
-----------------------------------------------------------------------------
(* No task is lost or run twice. *)

\* The places of a task, in the terms of the invariant.
LEMMA PlacesLemma ==
    ASSUME Typed, NEW k, NEW p
    PROVE  p \in Places(k) <=>
              \/ \E t \in Threads : Submits(t, k) /\ p = <<"submitter", t>>
              \/ \E w \in All : Awaits(w, k) /\ p = <<"worker", w>>
              \/ \E t \in Threads : \E j : On(t, j, k) /\ p = <<"stack", t, j>>
              \/ k \in done /\ p = <<"done">>
<1> DEFINE A == {<<"submitter", t>> : t \in {u \in Threads : pc[u] \in {"alloc", "go"} /\ Call(u).arg = k}}
           B == {<<"worker", w>> : w \in {v \in All : Pending(v) /\ Task[v] = k}}
           C == UNION {{<<"stack", t, i>> : i \in {j \in DOMAIN stack[t] : stack[t][j].task = k}} :
                       t \in Threads}
           D == {<<"done">> : d \in {k} \cap done}
<1>1. p \in A <=> \E t \in Threads : Submits(t, k) /\ p = <<"submitter", t>>
  BY DEF Submits
<1>2. p \in B <=> \E w \in All : Awaits(w, k) /\ p = <<"worker", w>>
  BY DEF Awaits
<1>3. p \in C <=> \E t \in Threads : \E j : On(t, j, k) /\ p = <<"stack", t, j>>
  BY DEF On
<1>4. p \in D <=> k \in done /\ p = <<"done">>
  OBVIOUS
<1>5. Places(k) = A \cup B \cup C \cup D
  BY DEF Places
<1> QED
  BY <1>1, <1>2, <1>3, <1>4, <1>5

\* Each task that has been submitted is in exactly one place, from Execute over the
\* worker's Busy flag to its end, unless a thread throws.
THEOREM EachTaskOnce == Spec => []EachTaskInOnePlace
<1>1. ASSUME Inv
      PROVE  EachTaskInOnePlace
  <2> SUFFICES ASSUME \A t \in Threads : pc[t] \notin {"stop", "notify", "join", "gone", "abort"},
                      NEW k \in given
               PROVE  Cardinality(Places(k)) = 1
    BY DEF EachTaskInOnePlace
  <2>1. Typed /\ Handed /\ k \in DOMAIN prog /\ OnceAt(k)
    BY <1>1 DEF Inv, Typed, Once
  <2>2. Main \in Threads
    BY NAssumption DEF Main, Threads
  <2>3. ~ExitBegun
    BY <2>2 DEF ExitBegun, Leaving
  <2>4. \/ k \in done
        \/ \E t \in Threads : Submits(t, k)
        \/ \E w \in All : Awaits(w, k)
        \/ \E t \in Threads : Runs(t, k)
    BY <1>1, <2>3 DEF Inv, NoneLost
  <2>5. \A v, w \in All : Awaits(v, k) /\ Awaits(w, k) => v = w
    BY <2>1 DEF Awaits, Pending, Handed
  <2>6. CASE k \in done
    <3>1. <<"done">> \in Places(k)
      BY <2>1, <2>6, PlacesLemma
    <3>2. \A q \in Places(k) : q = <<"done">>
      BY <2>1, <2>6, PlacesLemma DEF OnceAt
    <3>3. Places(k) = {<<"done">>}
      BY <3>1, <3>2
    <3> QED
      BY <3>3, FS_Singleton
  <2>7. ASSUME NEW t \in Threads, Submits(t, k)
        PROVE  Cardinality(Places(k)) = 1
    <3>1. /\ \A u \in Threads : Submits(u, k) => u = t
          /\ \A w \in All : ~Awaits(w, k)
          /\ k \notin done
          /\ \A u \in Threads : \A i : ~On(u, i, k)
      BY <2>1, <2>7 DEF OnceAt
    <3>2. <<"submitter", t>> \in Places(k)
      BY <2>1, <2>7, <3>1, PlacesLemma
    <3>3. \A q \in Places(k) : q = <<"submitter", t>>
      BY <2>1, <2>7, <3>1, PlacesLemma
    <3>4. Places(k) = {<<"submitter", t>>}
      BY <3>2, <3>3
    <3> QED
      BY <3>4, FS_Singleton
  <2>8. ASSUME NEW w \in All, Awaits(w, k)
        PROVE  Cardinality(Places(k)) = 1
    <3>1. /\ \A u \in Threads : ~Submits(u, k) /\ \A i : ~On(u, i, k)
          /\ k \notin done
      BY <2>1, <2>8 DEF OnceAt
    <3>2. <<"worker", w>> \in Places(k)
      BY <2>1, <2>5, <2>8, <3>1, PlacesLemma
    <3>3. \A q \in Places(k) : q = <<"worker", w>>
      BY <2>1, <2>5, <2>8, <3>1, PlacesLemma
    <3>4. Places(k) = {<<"worker", w>>}
      BY <3>2, <3>3
    <3> QED
      BY <3>4, FS_Singleton
  <2>9. ASSUME NEW t \in Threads, NEW j, On(t, j, k)
        PROVE  Cardinality(Places(k)) = 1
    <3>1. /\ \A u \in Threads : ~Submits(u, k)
          /\ \A w \in All : ~Awaits(w, k)
          /\ k \notin done
          /\ \A u \in Threads : \A i : On(u, i, k) => u = t /\ i = j
      BY <2>1, <2>9 DEF OnceAt
    <3>2. <<"stack", t, j>> \in Places(k)
      BY <2>1, <2>9, <3>1, PlacesLemma
    <3>3. \A q \in Places(k) : q = <<"stack", t, j>>
      BY <2>1, <2>9, <3>1, PlacesLemma
    <3>4. Places(k) = {<<"stack", t, j>>}
      BY <3>2, <3>3
    <3> QED
      BY <3>4, FS_Singleton
  <2> QED
    BY <2>4, <2>6, <2>7, <2>8, <2>9 DEF Runs
<1> QED
  BY <1>1, Invariant, PTL
-----------------------------------------------------------------------------
(* ThreadPool.WaitIdle passes only when all is done. *)

\* When Avail is full, every worker is in it.
LEMMA FullLemma ==
    ASSUME Typed, AvailRests, Len(Avail) = N
    PROVE  \A w \in All : ~Busy[w] /\ pc[w] \in Resting
<1>1. DOMAIN Avail = All /\ Avail \in [All -> All]
  BY LenProperties DEF Typed, All
<1>2. \A i, j \in All : Avail[i] = Avail[j] => i = j
  BY <1>1 DEF AvailRests
<1>3. Avail \in Injection(All, All)
  BY <1>1, <1>2 DEF Injection, IsInjective
<1>4. IsFiniteSet(All)
  BY NAssumption, FS_Interval DEF All
<1>5. Avail \in Surjection(All, All)
  BY <1>3, <1>4, FS_Injection
<1>6. \A w \in All : \E i \in All : Avail[i] = w
  BY <1>5 DEF Surjection
<1> QED
  <2> SUFFICES ASSUME NEW w \in All PROVE ~Busy[w] /\ pc[w] \in Resting
    OBVIOUS
  <2>1. PICK i \in All : Avail[i] = w
    BY <1>6
  <2>2. ~Busy[Avail[i]] /\ pc[Avail[i]] \in Resting
    BY <1>1 DEF AvailRests
  <2> QED
    BY <2>1, <2>2

\* Only WaitIdle takes a thread out of its call of WaitIdle.
LEMMA IdleLeaves ==
    ASSUME Typed, Placed, [Next]_vars, NEW t \in Threads, Calls(t, "idle") \/ pc[t] = "pool",
           stack'[t] # stack[t]
    PROVE  WaitIdle(t) /\ Len(Avail) = N
<1>0. pc[t] \in {"run", "pool"} /\ \A w \in All : w \in Threads
  BY DEF Calls, All, Threads
<1>1. CASE UNCHANGED vars
  BY <1>1 DEF vars
<1>2. ASSUME NEW u \in Threads, JoinAll(u)
      PROVE  FALSE
  BY <1>2 DEF JoinAll, Stop, NotifyJob, JoinJob, JoinSelf
<1>3. ASSUME NEW w \in All, WorkerStep(w)
      PROVE  FALSE
  <2>1. WaitBusyTest(w) => w # t
    BY <1>0 DEF WaitBusyTest
  <2> QED
    BY <1>0, <1>3, <2>1 DEF WorkerStep, Finish, ReleaseThread, WaitBusyEnter, WaitBusyTest, FallAsleep,
                     Typed
<1>4. ASSUME NEW u \in Threads, RunStep(u), u # t
      PROVE  FALSE
  <2>1. stack'[t] = stack[t]
    BY <1>4 DEF RunStep, Execute, AllocAgain, Take, Go, LockEnter, LockSleep, LockLeave, PostIdle,
                WaitIdle, Return, Throw, Typed
  <2> QED
    BY <2>1
<1>5. ASSUME RunStep(t)
      PROVE  WaitIdle(t) /\ Len(Avail) = N
  <2>1. ~Execute(t) /\ ~LockEnter(t) /\ ~PostIdle(t) /\ ~Throw(t) /\ ~Return(t)
    BY <1>0 DEF Execute, LockEnter, PostIdle, Throw, Return, Calls
  <2>2. ~AllocAgain(t) /\ ~Go(t) /\ ~LockSleep(t) /\ ~LockLeave(t)
    BY <1>0 DEF AllocAgain, Go, LockSleep, LockLeave
  <2>3. WaitIdle(t)
    BY <1>5, <2>1, <2>2 DEF RunStep
  <2> QED
    BY <2>3 DEF WaitIdle
<1> QED
  BY <1>1, <1>2, <1>3, <1>4, <1>5 DEF Next

\* ThreadPool.WaitIdle lets main () pass only when every task submitted so far has
\* finished, and never when one has thrown (what DoCreate, DoExtract and DoTest
\* assume when they go on to mark the archive as finished).
THEOREM IdleOnlyWhenDone == Spec => IdleMeansDone
<1>1. ASSUME Inv, [Next]_vars,
             NEW t \in Threads, Calls(t, "idle") \/ pc[t] = "pool", stack'[t] # stack[t]
      PROVE  given = done \cup {"main"}
  <2>1. /\ Typed /\ Placed /\ Once /\ AvailRests /\ QuitsInExit /\ NoneLost
        /\ Len(Avail) = N /\ pc[t] \in {"run", "pool"}
    BY <1>1, IdleLeaves DEF Inv, Calls
  <2>2. \A w \in All : ~Busy[w] /\ pc[w] \in Resting
    BY <2>1, FullLemma
  <2>3. t = Main /\ \A u \in Threads : u = Main \/ u \in All
    <3>1. t \notin All
      BY <2>1, <2>2 DEF Resting
    <3> QED
      BY <3>1, NAssumption DEF All, Threads, Main
  <2>4. ~ExitBegun
    BY <2>1, <2>2, <2>3 DEF ExitBegun, Leaving, Resting
  <2>5. \A u \in Threads : u # Main => stack[u] = <<>> /\ DOMAIN stack[u] = {}
    <3>1. \A u \in Threads : u # Main => stack[u] = <<>>
      BY <2>1, <2>2, <2>3 DEF Placed, PlacedAt, Resting, Calling
    <3> QED
      BY <3>1
  <2>6. stack[t] # <<>> /\ Top(t).task = "main"
    <3>1. Call(t).op = "idle" /\ Top(t).at \in DOMAIN prog[Top(t).task]
      BY <1>1, <2>1, CallLemma DEF Calls, Placed, PlacedAt, Calling
    <3> QED
      BY <2>1, <3>1, CallLemma DEF Calling
  <2>7. On(t, Len(stack[t]), "main") /\ "main" \in DOMAIN prog /\ DOMAIN stack[t] = 1..Len(stack[t])
    BY <2>1, <2>6, TopLemma
  <2>8. "main" \in given /\ Len(stack[t]) = 1
    BY <2>1, <2>7 DEF Once, OnceAt
  <2>9. \A u \in Threads : \A j, k : On(u, j, k) => k = "main"
    BY <2>3, <2>5, <2>7, <2>8 DEF On
  <2>10. \A u \in Threads : \A k : ~Submits(u, k)
    BY <2>1, <2>2, <2>3 DEF Submits, Resting
  <2>11. \A w \in All : \A k : ~Awaits(w, k)
    BY <2>2 DEF Awaits, Pending
  <2>12. \A k \in given : k \in done \/ k = "main"
    BY <2>1, <2>4, <2>9, <2>10, <2>11 DEF NoneLost, Runs
  <2> QED
    BY <2>1, <2>8, <2>12 DEF Typed
<1>2. Inv /\ [Next]_vars =>
         \A t \in Threads : (Calls(t, "idle") \/ pc[t] = "pool") /\ stack'[t] # stack[t]
                            => given = done \cup {"main"}
  BY <1>1
<1>3. Inv /\ [Next]_vars => [\A t \in Threads :
          /\ Calls(t, "idle") \/ pc[t] = "pool"
          /\ stack'[t] # stack[t]
          => given = done \cup {"main"}]_vars
  BY <1>2
<1> QED
  BY <1>3, Invariant, PTL DEF IdleMeansDone, Spec
-----------------------------------------------------------------------------
(* The counters AllocThread adds up. *)

InLock == {"lock", "locked", "test", "doze", "asleep"}  \* a thread inside of a BusyLock

\* The number of threads at the labels L changes with the thread that moves.
LEMMA CountLemma ==
    ASSUME Typed, NEW L, NEW t \in Threads,
           \A u \in Threads : u # t => (pc'[u] \in L <=> pc[u] \in L)
    PROVE  LET S == {u \in Threads : pc[u] \in L}
               R == {u \in Threads : pc'[u] \in L}
           IN  /\ Cardinality(S) \in Nat
               /\ (pc'[t] \in L <=> pc[t] \in L) => Cardinality(R) = Cardinality(S)
               /\ pc'[t] \in L /\ pc[t] \notin L => Cardinality(R) = Cardinality(S) + 1
               /\ pc'[t] \notin L /\ pc[t] \in L => Cardinality(R) = Cardinality(S) - 1
<1> DEFINE S == {u \in Threads : pc[u] \in L}
           R == {u \in Threads : pc'[u] \in L}
<1>1. IsFiniteSet(Threads)
  BY NAssumption, FS_Interval DEF Threads
<1>2. IsFiniteSet(S) /\ Cardinality(S) \in Nat
  BY <1>1, FS_Subset, FS_CardinalityType
<1>3. (pc'[t] \in L <=> pc[t] \in L) => R = S
  OBVIOUS
<1>4. ASSUME pc'[t] \in L, pc[t] \notin L
      PROVE  Cardinality(R) = Cardinality(S) + 1
  <2>1. R = S \cup {t} /\ t \notin S
    BY <1>4
  <2> HIDE DEF S, R
  <2> QED
    BY <1>2, <2>1, FS_AddElement
<1>5. ASSUME pc'[t] \notin L, pc[t] \in L
      PROVE  Cardinality(R) = Cardinality(S) - 1
  <2>1. R = S \ {t} /\ t \in S
    BY <1>5
  <2> HIDE DEF S, R
  <2> QED
    BY <1>2, <2>1, FS_RemoveElement
<1> QED
  BY <1>2, <1>3, <1>4, <1>5

\* The two counters, by sets of labels.
Exact ==
    /\ AllocWaiting = Cardinality({u \in Threads : pc[u] \in {"alloc"}})
    /\ BusyLocksWaiting = Cardinality({u \in Threads : pc[u] \in InLock})

\* A step of one thread that counts itself in or out.
LEMMA CountsLemma ==
    ASSUME Typed, Exact, NEW t \in Threads,
           \A u \in Threads : u # t => pc'[u] = pc[u] \/ Wakes(u),
           AllocWaiting' = IF pc'[t] = "alloc" /\ pc[t] # "alloc" THEN AllocWaiting + 1
                           ELSE IF pc'[t] # "alloc" /\ pc[t] = "alloc" THEN AllocWaiting - 1
                           ELSE AllocWaiting,
           BusyLocksWaiting' =
              IF pc'[t] \in InLock /\ pc[t] \notin InLock THEN BusyLocksWaiting + 1
              ELSE IF pc'[t] \notin InLock /\ pc[t] \in InLock THEN BusyLocksWaiting - 1
              ELSE BusyLocksWaiting
    PROVE  Exact'
<1> DEFINE A == {u \in Threads : pc[u] \in {"alloc"}}
           B == {u \in Threads : pc[u] \in InLock}
           AA == {u \in Threads : pc'[u] \in {"alloc"}}
           BB == {u \in Threads : pc'[u] \in InLock}
<1>1. \A u \in Threads : u # t => (pc'[u] \in {"alloc"} <=> pc[u] \in {"alloc"})
  BY DEF Wakes
<1>2. \A u \in Threads : u # t => (pc'[u] \in InLock <=> pc[u] \in InLock)
  BY DEF Wakes, InLock
<1>3. /\ (pc'[t] \in {"alloc"} <=> pc[t] \in {"alloc"}) => Cardinality(AA) = Cardinality(A)
      /\ pc'[t] \in {"alloc"} /\ pc[t] \notin {"alloc"} => Cardinality(AA) = Cardinality(A) + 1
      /\ pc'[t] \notin {"alloc"} /\ pc[t] \in {"alloc"} => Cardinality(AA) = Cardinality(A) - 1
  BY <1>1, CountLemma
<1>4. /\ (pc'[t] \in InLock <=> pc[t] \in InLock) => Cardinality(BB) = Cardinality(B)
      /\ pc'[t] \in InLock /\ pc[t] \notin InLock => Cardinality(BB) = Cardinality(B) + 1
      /\ pc'[t] \notin InLock /\ pc[t] \in InLock => Cardinality(BB) = Cardinality(B) - 1
  BY <1>2, CountLemma
<1>5. AllocWaiting = Cardinality(A) /\ BusyLocksWaiting = Cardinality(B)
  BY DEF Exact
<1>6. AllocWaiting' = Cardinality(AA)
  BY <1>3, <1>5
<1>7. BusyLocksWaiting' = Cardinality(BB)
  BY <1>4, <1>5
<1> QED
  BY <1>6, <1>7 DEF Exact

\* Nobody waits at the start.
LEMMA ExactInit == Init => Exact
<1> SUFFICES ASSUME Init
             PROVE  Exact
  OBVIOUS
<1>1. pc = [t \in Threads |-> IF t = Main THEN "run" ELSE "enter"]
  BY DEF Init
<1>2. /\ {u \in Threads : pc[u] \in {"alloc"}} = {}
      /\ {u \in Threads : pc[u] \in InLock} = {}
  BY <1>1 DEF InLock
<1> QED
  BY <1>2, FS_EmptySet DEF Exact, Init

\* The steps of BusyLock and of the workers' loop.
LEMMA LocksExact ==
    ASSUME Inv, Exact, NEW t \in Threads,
           \/ LockEnter(t) \/ LockSleep(t) \/ LockLeave(t) \/ PostIdle(t)
           \/ t \in All /\ WorkerStep(t)
    PROVE  Exact'
<1>1. Typed
  BY DEF Inv
<1>2. CASE LockEnter(t)
  BY <1>1, <1>2, CountsLemma DEF LockEnter, Calls, Goto, InLock, Typed
<1>3. CASE LockSleep(t)
  BY <1>1, <1>3, CountsLemma DEF LockSleep, Goto, InLock, Typed, counters
<1>4. CASE LockLeave(t)
  BY <1>1, <1>4, CountsLemma DEF LockLeave, Goto, InLock, Typed
<1>5. CASE PostIdle(t)
  <2>1. /\ pc[t] = "run" /\ pc'[t] = "run" /\ UNCHANGED counters
        /\ \A u \in Threads : u # t => pc'[u] = pc[u] \/ Wakes(u)
    BY <1>1, <1>5 DEF PostIdle, Calls, Wakes
  <2> QED
    BY <1>1, <2>1, CountsLemma DEF InLock, counters
<1>6. CASE t \in All /\ (Finish(t) \/ ReleaseThread(t))
  BY <1>1, <1>6, CountsLemma DEF Finish, ReleaseThread, Goto, InLock, Typed, counters
<1>7. CASE t \in All /\ (WaitBusyEnter(t) \/ FallAsleep(t))
  BY <1>1, <1>7, CountsLemma DEF WaitBusyEnter, FallAsleep, Goto, InLock, Typed, counters
<1>8. CASE t \in All /\ WaitBusyTest(t)
  <2>1. /\ pc[t] = "test" /\ pc'[t] \in {"doze", "run", "gone"}
        /\ \A u \in Threads : u # t => pc'[u] = pc[u]
        /\ AllocWaiting' = AllocWaiting
        /\ BusyLocksWaiting' = IF pc'[t] = "doze" THEN BusyLocksWaiting ELSE BusyLocksWaiting - 1
    BY <1>1, <1>8 DEF WaitBusyTest, Goto, Typed
  <2> QED
    BY <1>1, <2>1, CountsLemma DEF InLock
<1> QED
  BY <1>2, <1>3, <1>4, <1>5, <1>6, <1>7, <1>8 DEF WorkerStep

\* The steps of AllocThread: one that waits is inside of an Execute that waits, so it
\* counts itself out by what it counted itself in.
LEMMA AllocExact ==
    ASSUME Inv, Exact, NEW t \in Threads, Execute(t) \/ AllocAgain(t) \/ Go(t)
    PROVE  Exact'
<1>1. Typed /\ Placed /\ Handed
  BY DEF Inv
<1>2. CASE Execute(t)
  <2>1. pc[t] = "run" /\ BusyLocksWaiting' = BusyLocksWaiting
    BY <1>2 DEF Execute, Calls
  <2>2. CASE ~StopWaiting(AllocWaiting + Weight(Call(t).wait), Call(t).wait)
    <3>1. /\ pc'[t] = "alloc" /\ \A u \in Threads : u # t => pc'[u] = pc[u]
          /\ AllocWaiting' = AllocWaiting + Weight(Call(t).wait)
      BY <1>1, <1>2, <2>2 DEF Execute, Goto, Typed
    <3>2. Weight(Call(t).wait) = 1
      BY <2>2 DEF StopWaiting, Weight
    <3> QED
      BY <1>1, <2>1, <3>1, <3>2, CountsLemma DEF InLock
  <2>3. CASE StopWaiting(AllocWaiting + Weight(Call(t).wait), Call(t).wait)
    <3>1. /\ pc'[t] \in {"go", "run"} /\ \A u \in Threads : u # t => pc'[u] = pc[u]
          /\ AllocWaiting' = AllocWaiting
      BY <1>1, <1>2, <2>3 DEF Execute, Take, Goto, Typed
    <3> QED
      BY <1>1, <2>1, <3>1, CountsLemma DEF InLock
  <2> QED
    BY <2>2, <2>3
<1>3. CASE AllocAgain(t)
  <2>1. pc[t] = "alloc" /\ BusyLocksWaiting' = BusyLocksWaiting
    BY <1>3 DEF AllocAgain
  <2>2. CASE ~StopWaiting(AllocWaiting, Call(t).wait)
    <3>1. pc' = pc /\ AllocWaiting' = AllocWaiting
      BY <1>3, <2>2 DEF AllocAgain
    <3> QED
      BY <2>1, <3>1 DEF Exact
  <2>3. CASE StopWaiting(AllocWaiting, Call(t).wait)
    <3>1. /\ pc'[t] \in {"go", "run"} /\ \A u \in Threads : u # t => pc'[u] = pc[u]
          /\ AllocWaiting' = AllocWaiting - Weight(Call(t).wait)
      BY <1>1, <1>3, <2>3 DEF AllocAgain, Take, Goto, Typed
    <3>2. Weight(Call(t).wait) = 1
      BY <1>1, <2>1 DEF Placed, PlacedAt, Weight
    <3> QED
      BY <1>1, <2>1, <3>1, <3>2, CountsLemma DEF InLock
  <2> QED
    BY <2>2, <2>3
<1>4. CASE Go(t)
  <2>1. /\ pc[t] = "go" /\ pc'[t] = "run"
        /\ \A u \in Threads : u # t => pc'[u] = pc[u] \/ Wakes(u)
    BY <1>1, <1>4, GoesToLemma
  <2>2. UNCHANGED counters
    BY <1>4 DEF Go
  <2> QED
    BY <1>1, <2>1, <2>2, CountsLemma DEF InLock, counters
<1> QED
  BY <1>2, <1>3, <1>4

\* The steps that leave the counters alone.
LEMMA OthersExact ==
    ASSUME Inv, Exact, NEW t \in Threads, WaitIdle(t) \/ Return(t) \/ Throw(t) \/ JoinAll(t)
    PROVE  Exact'
<1>1. Typed
  BY DEF Inv
<1>2. CASE WaitIdle(t) \/ Return(t) \/ Throw(t)
  <2>1. /\ pc[t] \in {"run", "pool"} /\ pc'[t] \in {"run", "pool", "stop", "finish"}
        /\ \A u \in Threads : u # t => pc'[u] = pc[u]
    BY <1>1, <1>2 DEF WaitIdle, Return, Throw, Calls, Goto, Typed
  <2>2. UNCHANGED counters
    BY <1>2 DEF WaitIdle, Return, Throw
  <2> QED
    BY <1>1, <2>1, <2>2, CountsLemma DEF InLock, counters
<1>3. CASE JoinAll(t)
  <2>1. /\ pc[t] \in {"stop", "notify", "join"} /\ pc'[t] \in {"notify", "join", "gone", "abort"}
        /\ \A u \in Threads : u # t => pc'[u] = pc[u] \/ Wakes(u)
    BY <1>1, <1>3 DEF JoinAll, Stop, NotifyJob, JoinJob, JoinSelf, Goto, Typed, Wakes, All, Threads
  <2>2. UNCHANGED counters
    BY <1>3 DEF JoinAll, Stop, NotifyJob, JoinJob, JoinSelf
  <2> QED
    BY <1>1, <2>1, <2>2, CountsLemma DEF InLock, counters
<1> QED
  BY <1>2, <1>3

\* The counters by which AllocThread decides that nobody is left to give it a worker
\* (ThreadPool.cpp:121) are the numbers of waiting threads.
THEOREM CountersAreExact == Spec => []CountersExact
<1>1. Inv /\ Exact /\ [Next]_vars => Exact'
  <2> SUFFICES ASSUME Inv, Exact, [Next]_vars
               PROVE  Exact'
    OBVIOUS
  <2>1. CASE UNCHANGED vars
    BY <2>1 DEF vars, counters, Exact
  <2>2. ASSUME NEW t \in Threads, RunStep(t) \/ JoinAll(t)
        PROVE  Exact'
    BY <2>2, LocksExact, AllocExact, OthersExact DEF RunStep
  <2>3. ASSUME NEW w \in All, WorkerStep(w)
        PROVE  Exact'
    <3>1. w \in Threads
      BY DEF All, Threads
    <3> QED
      BY <2>3, <3>1, LocksExact
  <2> QED
    BY <2>1, <2>2, <2>3 DEF Next
<1>2. Exact => CountersExact
  BY DEF Exact, CountersExact, InLock
<1> QED
  BY <1>1, <1>2, ExactInit, Invariant, PTL DEF Spec

\* Types and bounds of the pool's state: no more waiters than threads.
THEOREM TypeCorrect == Spec => []TypeOK
<1>1. ASSUME Inv, CountersExact
      PROVE  TypeOK
  <2>1. IsFiniteSet(Threads) /\ Cardinality(Threads) = N + 1
    BY NAssumption, FS_Interval DEF Threads
  <2>2. \A S \in SUBSET Threads : Cardinality(S) \in 0..N + 1
    <3>1. ASSUME NEW S \in SUBSET Threads
          PROVE  Cardinality(S) \in Nat /\ Cardinality(S) <= N + 1
      BY <2>1, FS_Subset, FS_CardinalityType
    <3> QED
      BY <3>1, NAssumption
  <2>3. AllocWaiting \in 0..N + 1 /\ BusyLocksWaiting \in 0..N + 1
    BY <1>1, <2>2 DEF CountersExact
  <2> QED
    BY <1>1, <2>3 DEF TypeOK, Inv, Typed, Labels
<1> QED
  BY <1>1, Invariant, CountersAreExact, PTL
=============================================================================
