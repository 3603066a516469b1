-------------------------- MODULE CreateWalkProofs --------------------------
(***************************************************************************)
(* Theorems about the walk of the create command (CreateWalk.tla), for     *)
(* every tree of files, every command line and every order of the tasks.   *)
(***************************************************************************)
EXTENDS CreateWalk, FilePathProofs

\* What the walk may be called for.
Called == Paths \cup Range(FileArgs) \cup Roots(FileArgs)

Keys == (0..DevMod - 1) \X (0..INoMod - 1)

TodoRec  == [name : Called, recurse : BOOLEAN]
TaskRec  == [do : {"create", "link"}, name : Paths, key : Keys,
             st : {"ready", "complete", "push", "done"}]
InodeRec == [first : Paths, complete : BOOLEAN, links : Seq(Paths)]

Phases == {"walk", "idle", "deleted", "finished"}

\* What each variable holds.
Typed ==
    /\ scene \in Scenes
    /\ todo \in Seq(TodoRec)
    /\ tasks \in Seq(TaskRec)
    /\ inodes \in [DOMAIN inodes -> InodeRec]
    /\ lines \in [Paths -> Seq(Paths)]
    /\ phase \in Phases

\* What lstat says of a file, and the number that Inodes keeps it under.
LEMMA KeyType ==
    ASSUME scene \in Scenes, NEW n \in Paths
    PROVE  Key(n) \in Keys /\ (Tracked(n) <=> Key(n)[2] # 0)
<1>1. Stat(n) \in Stats
  BY ScenesAssumption DEF IsScene, Paths, Stat
<1>2. Stat(n).dev \in Nat /\ Stat(n).ino \in Nat
  BY <1>1 DEF Stats
<1>3. Stat(n).dev % DevMod \in 0..DevMod - 1 /\ Stat(n).ino % INoMod \in 0..INoMod - 1
  BY <1>2, ModAssumption
<1>4. INodeNum(n) \in 0..INoMod - 1
  BY <1>3, ModAssumption DEF INodeNum, Linkable
<1> QED
  BY <1>3, <1>4 DEF Key, Keys, Tracked

\* The number of each file, and the files that have one.
KeyOf  == [n \in Paths |-> Key(n)]
Shared == {n \in Paths : Tracked(n)}

\* The tasks of a name know its number: a task that waits for the mutex of an
\* inode, or for the first name, has one.
Keyed ==
    \A i \in DOMAIN tasks :
        /\ tasks[i].key = KeyOf[tasks[i].name]
        /\ tasks[i].do = "create" => tasks[i].st # "push"
        /\ tasks[i].do = "link" => tasks[i].st # "complete"
        /\ tasks[i].do = "link" \/ tasks[i].st = "complete" => tasks[i].key[2] # 0

\* Once the walk has waited for its tasks there are no others.
Rests == phase # "walk" => \A i \in DOMAIN tasks : tasks[i].st = "done"

\* Until they are deleted, Inodes has that of every task.
Kept ==
    phase \in {"walk", "idle"} =>
        \A i \in DOMAIN tasks : tasks[i].key[2] # 0 => tasks[i].key \in DOMAIN inodes

\* An inode is about the names of its number, and those that wait in it do so
\* only until it is complete.
InodesOfNames ==
    \A k \in DOMAIN inodes :
        /\ inodes[k].first \in Shared /\ KeyOf[inodes[k].first] = k
        /\ \A j \in DOMAIN inodes[k].links : KeyOf[inodes[k].links[j]] = k
        /\ inodes[k].complete => inodes[k].links = <<>>

\* Each inode has one task that completes it, which is that of the first name.
Creators ==
    /\ \A k \in DOMAIN inodes :
          \E i \in DOMAIN tasks : tasks[i].do = "create" /\ tasks[i].key = k
    /\ \A i, j \in DOMAIN tasks :
          /\ tasks[i].do = "create" /\ tasks[j].do = "create"
          /\ tasks[i].key = tasks[j].key /\ tasks[i].key[2] # 0
          => i = j
    /\ \A i \in DOMAIN tasks :
          tasks[i].do = "create" /\ tasks[i].key \in DOMAIN inodes =>
              /\ inodes[tasks[i].key].first = tasks[i].name
              /\ inodes[tasks[i].key].complete <=> tasks[i].st = "done"

\* The lines of a name repeat the entry of the first name of its number.
Entries ==
    \A n \in Paths : \A i \in DOMAIN lines[n] :
        /\ n \notin Shared => lines[n][i] = n
        /\ n \in Shared => KeyOf[lines[n][i]] = KeyOf[n]
        /\ n \in Shared /\ phase \in {"walk", "idle"} =>
              KeyOf[n] \in DOMAIN inodes /\ lines[n][i] = inodes[KeyOf[n]].first

\* So all the lines of a number repeat one entry.
OneEntry ==
    \A m, n \in Shared : \A i \in DOMAIN lines[m] : \A j \in DOMAIN lines[n] :
        KeyOf[m] = KeyOf[n] => lines[m][i] = lines[n][j]

\* The inductive invariant of the tasks, the inodes and the list.
Inv ==
    /\ Typed /\ Keyed /\ Rests /\ Kept /\ InodesOfNames
    /\ Creators /\ Entries /\ OneEntry

-----------------------------------------------------------------------------
(* What the steps do to the tasks. *)

\* The names and their numbers stay while the scene does.
LEMMA SceneStays ==
    ASSUME scene' = scene
    PROVE  /\ Paths' = Paths /\ KeyOf' = KeyOf /\ Shared' = Shared /\ Called' = Called
           /\ TodoRec' = TodoRec /\ TaskRec' = TaskRec /\ InodeRec' = InodeRec
           /\ FileArgs' = FileArgs
<1>1. Paths' = Paths /\ FileArgs' = FileArgs
  BY DEF Paths, FileArgs
<1>2. Called' = Called
  BY <1>1 DEF Called
<1>3. \A n : Key(n)' = Key(n) /\ (Tracked(n)' <=> Tracked(n))
  BY DEF Key, Tracked, INodeNum, Linkable, Stat
<1>4. KeyOf' = KeyOf /\ Shared' = Shared
  BY <1>1, <1>3 DEF KeyOf, Shared
<1> QED
  BY <1>1, <1>2, <1>4 DEF TodoRec, TaskRec, InodeRec

\* A task that goes on keeps what it is for.
LEMMA GotoFacts ==
    ASSUME tasks \in Seq(TaskRec), NEW i \in DOMAIN tasks,
           NEW st \in {"ready", "complete", "push", "done"}, Goto(i, st)
    PROVE  /\ tasks' \in Seq(TaskRec) /\ DOMAIN tasks' = DOMAIN tasks
           /\ \A j \in DOMAIN tasks :
                 /\ tasks'[j].do = tasks[j].do /\ tasks'[j].name = tasks[j].name
                 /\ tasks'[j].key = tasks[j].key
                 /\ tasks'[j].st = IF j = i THEN st ELSE tasks[j].st
<1>1. /\ Len(tasks) \in Nat /\ DOMAIN tasks = 1..Len(tasks)
      /\ tasks \in [1..Len(tasks) -> TaskRec]
  BY LenProperties
<1>2. tasks[i] \in TaskRec
  BY <1>1
<1>3. PICK new : new = [tasks[i] EXCEPT !.st = st]
  OBVIOUS
<1>4. /\ new \in TaskRec /\ new.do = tasks[i].do /\ new.name = tasks[i].name
      /\ new.key = tasks[i].key /\ new.st = st
  BY <1>2, <1>3 DEF TaskRec
<1>5. tasks' = [tasks EXCEPT ![i] = new]
  BY <1>3 DEF Goto
<1>6. tasks' \in Seq(TaskRec) /\ Len(tasks') = Len(tasks)
  BY <1>1, <1>4, <1>5, ExceptSeq
<1>7. DOMAIN tasks' = DOMAIN tasks
  BY <1>5
<1>8. \A j \in DOMAIN tasks : tasks'[j] = IF j = i THEN new ELSE tasks[j]
  BY <1>1, <1>5
<1> QED
  BY <1>4, <1>6, <1>7, <1>8

\* A new task comes last.
LEMMA AppendFacts ==
    ASSUME tasks \in Seq(TaskRec), NEW t \in TaskRec, tasks' = Append(tasks, t)
    PROVE  /\ tasks' \in Seq(TaskRec)
           /\ \E new \in Nat :
                 /\ new \notin DOMAIN tasks /\ DOMAIN tasks' = DOMAIN tasks \cup {new}
                 /\ tasks'[new] = t
                 /\ \A j \in DOMAIN tasks : tasks'[j] = tasks[j]
<1>1. Len(tasks) \in Nat /\ DOMAIN tasks = 1..Len(tasks)
  BY LenProperties
<1>2. /\ tasks' \in Seq(TaskRec) /\ Len(tasks') = Len(tasks) + 1
      /\ \A j \in 1..Len(tasks) : tasks'[j] = tasks[j]
      /\ tasks'[Len(tasks) + 1] = t
  BY AppendProperties
<1>3. DOMAIN tasks' = 1..Len(tasks) + 1
  BY <1>2, LenProperties
<1>4. DOMAIN tasks' = DOMAIN tasks \cup {Len(tasks) + 1} /\ Len(tasks) + 1 \notin DOMAIN tasks
  BY <1>1, <1>3
<1> QED
  BY <1>1, <1>2, <1>4

-----------------------------------------------------------------------------
(* Sequences of the elements of a finite set, and the roots. *)

\* A sequence of SetToSeqs has each element of the set in one place.
LEMMA SetToSeqsFacts ==
    ASSUME NEW S, IsFiniteSet(S), NEW f \in SetToSeqs(S)
    PROVE  /\ f \in Seq(S) /\ DOMAIN f = 1..Len(f)
           /\ \A i, j \in DOMAIN f : f[i] = f[j] => i = j
           /\ \A x \in S : \E i \in DOMAIN f : f[i] = x
<1>1. Cardinality(S) \in Nat
  BY FS_CardinalityType
<1>2. f \in [1..Cardinality(S) -> S] /\ \A i, j \in 1..Cardinality(S) : i # j => f[i] # f[j]
  BY DEF SetToSeqs
<1>3. f \in Injection(1..Cardinality(S), S)
  BY <1>2 DEF Injection, IsInjective
<1>4. IsFiniteSet(1..Cardinality(S)) /\ Cardinality(1..Cardinality(S)) = Cardinality(S)
  BY <1>1, FS_Interval
<1>5. f \in Surjection(1..Cardinality(S), S)
  BY <1>3, <1>4, FS_Injection
<1>6. f \in Seq(S)
  BY <1>1, <1>2, SeqDef
<1>7. DOMAIN f = 1..Len(f)
  BY <1>6, LenProperties
<1>8. \A x \in S : \E i \in 1..Cardinality(S) : f[i] = x
  BY <1>5 DEF Surjection
<1> QED
  BY <1>2, <1>6, <1>7, <1>8

\* Where the elements of two sequences are once they are put together.
LEMMA ConcatFacts ==
    ASSUME NEW S, NEW s \in Seq(S), NEW t \in Seq(S)
    PROVE  /\ s \o t \in Seq(S) /\ Len(s \o t) = Len(s) + Len(t)
           /\ Len(s) \in Nat /\ Len(t) \in Nat
           /\ \A i \in 1..Len(s) : (s \o t)[i] = s[i]
           /\ \A i \in 1..Len(t) : (s \o t)[Len(s) + i] = t[i]
<1>1. Len(s) \in Nat /\ Len(t) \in Nat
  BY LenProperties
<1>2. /\ s \o t \in Seq(S) /\ Len(s \o t) = Len(s) + Len(t)
      /\ \A i \in 1..Len(s) + Len(t) :
            (s \o t)[i] = IF i <= Len(s) THEN s[i] ELSE t[i - Len(s)]
  BY ConcatProperties
<1>3. \A i \in 1..Len(s) : i \in 1..Len(s) + Len(t) /\ i <= Len(s)
  BY <1>1
<1>4. \A i \in 1..Len(t) :
         /\ Len(s) + i \in 1..Len(s) + Len(t)
         /\ ~(Len(s) + i <= Len(s)) /\ (Len(s) + i) - Len(s) = i
  BY <1>1
<1> QED
  BY <1>1, <1>2, <1>3, <1>4

\* There are finitely many directories above the arguments.
LEMMA RootsFacts ==
    ASSUME NEW args \in Seq(Path)
    PROVE  /\ IsFiniteSet(Roots(args))
           /\ Roots(args) \subseteq Path
           /\ \A r \in Roots(args) :
                 r # <<>> /\ \E i \in DOMAIN args : IsPrefix(r, args[i]) /\ Len(r) < Len(args[i])
<1> DEFINE Given == Range(args) \ {<<>>}
           Above(a) == Prefixes(Front(a)) \ {<<>>}
<1>1. Len(args) \in Nat /\ DOMAIN args = 1..Len(args) /\ \A i \in DOMAIN args : args[i] \in Path
  BY LenProperties
<1>2. Given \subseteq Path
  BY <1>1 DEF Range
<1>3. IsFiniteSet(Given)
  <2>1. args \in Surjection(DOMAIN args, Range(args))
    BY <1>1 DEF Surjection, Range
  <2>2. IsFiniteSet(Range(args))
    BY <1>1, <2>1, FS_Interval, FS_Surjection
  <2> QED
    BY <2>2, FS_Difference
<1>4. \A a \in Given : IsFiniteSet(Above(a))
  <2> TAKE a \in Given
  <2>1. Front(a) \in Path
    BY <1>2, FrontFacts
  <2> QED
    BY <2>1, PrefixesFacts, FS_Difference
<1>5. IsFiniteSet({Above(a) : a \in Given})
  <2> DEFINE f == [a \in Given |-> Above(a)]
  <2>1. f \in Surjection(Given, {Above(a) : a \in Given})
    BY DEF Surjection
  <2> QED
    BY <1>3, <2>1, FS_Surjection
<1>6. Roots(args) = UNION {Above(a) : a \in Given}
  BY DEF Roots
<1>7. IsFiniteSet(Roots(args))
  <2> HIDE DEF Above, Given
  <2> QED
    BY <1>4, <1>5, <1>6, FS_UNION
<1>8. ASSUME NEW r \in Roots(args)
      PROVE  /\ r \in Path /\ r # <<>>
             /\ \E i \in DOMAIN args : IsPrefix(r, args[i]) /\ Len(r) < Len(args[i])
  <2>1. PICK a \in Given : r \in Above(a)
    BY <1>6
  <2>2. /\ Front(a) \in Path /\ Len(Front(a)) = Len(a) - 1 /\ Len(a) \in Nat \ {0}
        /\ Front(a) = SubSeq(a, 1, Len(a) - 1)
    BY <1>2, FrontFacts DEF Front
  <2>3. r \in Path /\ r # <<>> /\ Len(r) <= Len(Front(a)) /\ r \in Prefixes(Front(a))
    BY <2>1, <2>2, PrefixesFacts
  <2>4. PICK l \in 0..Len(a) - 1 : r = SubSeq(Front(a), 1, l)
    BY <2>2, <2>3 DEF Prefixes
  <2>5. r = SubSeq(a, 1, l) /\ Len(r) = l
    <3>1. a \in Path /\ \A i \in 1..l : a[i] \in STRING /\ Front(a)[i] \in STRING
      BY <1>2, <2>2, ElementOfSeq DEF Path
    <3>2. \A i \in 1..l : Front(a)[i] = a[i]
      BY <2>2, <3>1, SubSeqProperties, ElementOfSeq DEF Path
    <3> QED
      BY <2>2, <2>4, <3>1, <3>2, SubSeqProperties, SeqEqual
  <2>6. IsPrefix(r, a) /\ Len(r) < Len(a)
    <3>1. SubSeq(r, 1, l) = r
      BY <2>3, <2>5, SubSeqFull DEF Path
    <3> QED
      BY <2>2, <2>5, <3>1 DEF IsPrefix
  <2>7. PICK i \in DOMAIN args : args[i] = a
    BY DEF Range
  <2> QED
    BY <2>3, <2>6, <2>7
<1> QED
  BY <1>7, <1>8

-----------------------------------------------------------------------------
(* The invariant holds at first, and every step keeps it. *)

\* A scene's files and arguments are paths.
LEMMA SceneFacts ==
    ASSUME scene \in Scenes
    PROVE  /\ Paths \subseteq Path /\ IsFiniteSet(Paths)
           /\ FileArgs \in Seq(Path) /\ scene.args \in Seq(Path)
           /\ KeyOf \in [Paths -> Keys]
           /\ \A n \in Paths : KeyOf[n] = Key(n) /\ (n \in Shared <=> KeyOf[n][2] # 0)
<1>1. IsScene(scene)
  BY ScenesAssumption
<1>2. KeyOf \in [Paths -> Keys]
  BY KeyType DEF KeyOf
<1>3. \A n \in Paths : KeyOf[n] = Key(n) /\ (n \in Shared <=> KeyOf[n][2] # 0)
  BY KeyType DEF KeyOf, Shared
<1> QED
  BY <1>1, <1>2, <1>3 DEF IsScene, Paths, FileArgs

\* What the first line of Init gives the walk to do.
LEMMA InitTodo ==
    ASSUME Init
    PROVE  \E roots \in Seq(Roots(FileArgs)) :
              /\ todo \in Seq(TodoRec) /\ Len(todo) = Len(roots) + Len(FileArgs)
              /\ DOMAIN roots = 1..Len(roots) /\ Len(roots) \in Nat
              /\ \A i, j \in DOMAIN roots : roots[i] = roots[j] => i = j
              /\ \A r \in Roots(FileArgs) : \E i \in DOMAIN roots : roots[i] = r
              /\ \A i \in 1..Len(roots) : todo[i] = Todo(roots[i], FALSE)
              /\ \A i \in 1..Len(FileArgs) : todo[Len(roots) + i] = Todo(FileArgs[i], TRUE)
<1>1. scene \in Scenes
  BY DEF Init
<1>2. PICK args \in Seq(Path) : args = FileArgs
  BY <1>1, SceneFacts
<1>3. IsFiniteSet(Roots(args))
  BY <1>2, RootsFacts
<1>4. PICK roots \in SetToSeqs(Roots(args)) :
         todo = [i \in DOMAIN roots |-> Todo(roots[i], FALSE)]
                \o [i \in DOMAIN args |-> Todo(args[i], TRUE)]
  BY <1>2 DEF Init
<1>5. /\ roots \in Seq(Roots(args)) /\ DOMAIN roots = 1..Len(roots)
      /\ \A i, j \in DOMAIN roots : roots[i] = roots[j] => i = j
      /\ \A r \in Roots(args) : \E i \in DOMAIN roots : roots[i] = r
  BY <1>3, SetToSeqsFacts
<1>6. /\ Len(roots) \in Nat /\ \A i \in 1..Len(roots) : roots[i] \in Roots(args)
      /\ Len(args) \in Nat /\ DOMAIN args = 1..Len(args)
      /\ \A i \in 1..Len(args) : args[i] \in Range(args)
  BY <1>5, LenProperties, ElementOfSeq DEF Range
<1> DEFINE first == [i \in 1..Len(roots) |-> Todo(roots[i], FALSE)]
           last  == [i \in 1..Len(args) |-> Todo(args[i], TRUE)]
<1>7. /\ \A i \in 1..Len(roots) : Todo(roots[i], FALSE) \in TodoRec
      /\ \A i \in 1..Len(args) : Todo(args[i], TRUE) \in TodoRec
  BY <1>2, <1>6 DEF Todo, TodoRec, Called
<1>8. first \in Seq(TodoRec) /\ last \in Seq(TodoRec)
  <2>1. first \in [1..Len(roots) -> TodoRec] /\ last \in [1..Len(args) -> TodoRec]
    BY <1>7
  <2> HIDE DEF first, last
  <2> QED
    BY <1>6, <2>1, SeqDef
<1>9. /\ Len(first) = Len(roots) /\ \A i \in 1..Len(roots) : first[i] = Todo(roots[i], FALSE)
      /\ Len(last) = Len(args) /\ \A i \in 1..Len(args) : last[i] = Todo(args[i], TRUE)
  BY <1>6, <1>8, LenProperties
<1>10. todo = first \o last
  BY <1>4, <1>5, <1>6
<1>11. /\ todo \in Seq(TodoRec) /\ Len(todo) = Len(roots) + Len(args)
       /\ \A i \in 1..Len(roots) : todo[i] = Todo(roots[i], FALSE)
       /\ \A i \in 1..Len(args) : todo[Len(roots) + i] = Todo(args[i], TRUE)
  <2> HIDE DEF first, last
  <2>1. /\ first \o last \in Seq(TodoRec) /\ Len(first \o last) = Len(first) + Len(last)
        /\ \A i \in 1..Len(first) : (first \o last)[i] = first[i]
        /\ \A i \in 1..Len(last) : (first \o last)[Len(first) + i] = last[i]
    BY <1>8, ConcatFacts
  <2> QED
    BY <1>9, <1>10, <2>1
<1> QED
  BY <1>2, <1>5, <1>6, <1>11

\* At first there are no tasks.
LEMMA InitInv == Init => Inv
<1> SUFFICES ASSUME Init PROVE Inv
  OBVIOUS
<1>1. todo \in Seq(TodoRec)
  BY InitTodo
<1>2. /\ scene \in Scenes /\ tasks = <<>> /\ inodes = <<>> /\ phase = "walk"
      /\ lines = [n \in Paths |-> <<>>]
  BY DEF Init, Paths
<1>3. /\ DOMAIN tasks = {} /\ DOMAIN inodes = {} /\ tasks \in Seq(TaskRec)
      /\ inodes = [k \in {} |-> 0] /\ <<>> \in Seq(Paths) /\ DOMAIN <<>> = {}
  BY <1>2, EmptySeq
<1>4. Typed
  <2>1. inodes \in [DOMAIN inodes -> InodeRec]
    BY <1>3
  <2> QED
    BY <1>1, <1>2, <1>3, <2>1 DEF Typed, Phases
<1>5. \A n \in Paths : DOMAIN lines[n] = {}
  BY <1>2, <1>3
<1>6. Entries /\ OneEntry
  BY <1>5 DEF Entries, OneEntry, Shared
<1> QED
  BY <1>2, <1>3, <1>4, <1>6 DEF Inv, Keyed, Rests, Kept, InodesOfNames, Creators

\* The name of the call that the walk has come to, and the calls after it.
LEMMA TailFacts ==
    ASSUME Typed, todo # <<>>
    PROVE  /\ Head(todo) \in TodoRec /\ Name \in Called /\ Head(todo) = todo[1]
           /\ Tail(todo) \in Seq(TodoRec)
           /\ DOMAIN Tail(todo) = 1..Len(todo) - 1 /\ Len(todo) \in Nat \ {0}
           /\ \A i \in 1..Len(todo) - 1 : Tail(todo)[i] = todo[i + 1]
<1>1. todo \in Seq(TodoRec)
  BY DEF Typed
<1>2. Head(todo) \in TodoRec
  BY <1>1, HeadTailProperties
<1>3. /\ Tail(todo) \in Seq(TodoRec) /\ Len(Tail(todo)) = Len(todo) - 1
      /\ \A i \in 1..Len(Tail(todo)) : Tail(todo)[i] = todo[i + 1]
  BY <1>1, HeadTailProperties
<1>4. DOMAIN Tail(todo) = 1..Len(todo) - 1 /\ Len(todo) \in Nat \ {0}
  BY <1>1, <1>3, LenProperties, EmptySeq
<1>5. Head(todo) = todo[1]
  BY <1>1
<1> QED
  BY <1>2, <1>3, <1>4, <1>5 DEF Name, TodoRec

\* A link to a file that has been seen: a task more.
LEMMA VisitLinkInv == ASSUME Inv, VisitLink PROVE Inv'
<1>1. /\ Typed /\ Keyed /\ Rests /\ Kept /\ InodesOfNames /\ Creators /\ Entries /\ OneEntry
      /\ scene \in Scenes /\ tasks \in Seq(TaskRec)
  BY DEF Inv, Typed
<1>2. /\ phase = "walk" /\ todo # <<>> /\ Name \in Paths /\ Tracked(Name)
      /\ Key(Name) \in DOMAIN inodes /\ todo' = Tail(todo)
      /\ scene' = scene /\ inodes' = inodes /\ lines' = lines /\ phase' = phase
  BY DEF VisitLink, Visits
<1> DEFINE t == Task("link", Name, Key(Name))
<1>3. /\ t \in TaskRec /\ t.do = "link" /\ t.name = Name /\ t.key = KeyOf[Name] /\ t.st = "ready"
      /\ t.key[2] # 0 /\ t.key \in DOMAIN inodes
  BY <1>1, <1>2, KeyType, SceneFacts DEF Task, TaskRec
<1>4. tasks' = Append(tasks, t)
  BY DEF VisitLink
<1> HIDE DEF t
<1>5. tasks' \in Seq(TaskRec)
  BY <1>1, <1>3, <1>4, AppendFacts
<1>6. PICK new \in Nat :
         /\ new \notin DOMAIN tasks /\ DOMAIN tasks' = DOMAIN tasks \cup {new}
         /\ tasks'[new] = t /\ \A j \in DOMAIN tasks : tasks'[j] = tasks[j]
  BY <1>1, <1>3, <1>4, AppendFacts
<1>7. /\ Paths' = Paths /\ KeyOf' = KeyOf /\ Shared' = Shared
      /\ TodoRec' = TodoRec /\ TaskRec' = TaskRec /\ InodeRec' = InodeRec
  BY <1>2, SceneStays
<1>8. Typed'
  BY <1>1, <1>2, <1>5, <1>7, TailFacts DEF Typed
<1>9. Keyed'
  BY <1>1, <1>3, <1>6, <1>7 DEF Keyed
<1>10. Rests' /\ Kept'
  BY <1>1, <1>2, <1>3, <1>6 DEF Rests, Kept
<1>11. InodesOfNames' /\ Entries' /\ OneEntry'
  BY <1>1, <1>2, <1>7 DEF InodesOfNames, Entries, OneEntry
<1>12. Creators'
  BY <1>1, <1>2, <1>3, <1>6 DEF Creators
<1> QED
  BY <1>8, <1>9, <1>10, <1>11, <1>12 DEF Inv

\* What a new name leaves the walk to do: what lies in it, then the calls after it.
LEMMA VisitNewTodo ==
    ASSUME Typed, VisitNew
    PROVE  \E subs \in Seq(Paths) :
              /\ todo' \in Seq(TodoRec) /\ Len(subs) \in Nat /\ DOMAIN subs = 1..Len(subs)
              /\ \A i, j \in DOMAIN subs : subs[i] = subs[j] => i = j
              /\ \A i \in DOMAIN subs : Head(todo).recurse /\ subs[i] \in Subs(Name)
              /\ Head(todo).recurse => \A m \in Subs(Name) : \E i \in DOMAIN subs : subs[i] = m
              /\ Len(todo') = Len(subs) + (Len(todo) - 1)
              /\ \A i \in 1..Len(subs) : todo'[i] = Todo(subs[i], TRUE)
              /\ \A i \in 1..Len(todo) - 1 : todo'[Len(subs) + i] = todo[i + 1]
<1> DEFINE Below == IF Head(todo).recurse THEN Subs(Name) ELSE {}
<1>1. todo # <<>> /\ scene \in Scenes
  BY DEF VisitNew, Visits, Typed
<1>2. Below \subseteq Paths /\ IsFiniteSet(Below)
  <2>1. Below \subseteq Paths
    BY DEF Subs
  <2> QED
    BY <1>1, <2>1, SceneFacts, FS_Subset
<1>3. PICK subs \in SetToSeqs(Below) :
         todo' = [i \in DOMAIN subs |-> Todo(subs[i], TRUE)] \o Tail(todo)
  BY DEF VisitNew
<1>4. /\ subs \in Seq(Below) /\ DOMAIN subs = 1..Len(subs)
      /\ \A i, j \in DOMAIN subs : subs[i] = subs[j] => i = j
      /\ \A x \in Below : \E i \in DOMAIN subs : subs[i] = x
  <2> HIDE DEF Below
  <2> QED
    BY <1>2, <1>3, SetToSeqsFacts
<1>5. Len(subs) \in Nat /\ \A i \in 1..Len(subs) : subs[i] \in Below
  <2> HIDE DEF Below
  <2> QED
    BY <1>4, LenProperties, ElementOfSeq
<1>6. subs \in Seq(Paths)
  <2> HIDE DEF Below
  <2> QED
    BY <1>2, <1>4, SeqMonotonic
<1> DEFINE first == [i \in 1..Len(subs) |-> Todo(subs[i], TRUE)]
<1>7. first \in Seq(TodoRec)
  <2>1. \A i \in 1..Len(subs) : Todo(subs[i], TRUE) \in TodoRec
    BY <1>2, <1>5 DEF Todo, TodoRec, Called
  <2>2. first \in [1..Len(subs) -> TodoRec]
    BY <2>1
  <2> HIDE DEF first
  <2> QED
    BY <1>5, <2>2, SeqDef
<1>8. Len(first) = Len(subs) /\ \A i \in 1..Len(subs) : first[i] = Todo(subs[i], TRUE)
  BY <1>5, <1>7, LenProperties
<1>9. todo' = first \o Tail(todo)
  BY <1>3, <1>4
<1>10. /\ Tail(todo) \in Seq(TodoRec) /\ Len(Tail(todo)) = Len(todo) - 1
       /\ \A i \in 1..Len(todo) - 1 : Tail(todo)[i] = todo[i + 1]
  BY <1>1, TailFacts, LenProperties
<1>11. /\ todo' \in Seq(TodoRec) /\ Len(todo') = Len(subs) + (Len(todo) - 1)
       /\ \A i \in 1..Len(subs) : todo'[i] = Todo(subs[i], TRUE)
       /\ \A i \in 1..Len(todo) - 1 : todo'[Len(subs) + i] = todo[i + 1]
  <2> DEFINE f == first
             rest == Tail(todo)
  <2>1. f \in Seq(TodoRec) /\ rest \in Seq(TodoRec)
    BY <1>7, <1>10
  <2> HIDE DEF f, rest
  <2>2. /\ f \o rest \in Seq(TodoRec) /\ Len(f \o rest) = Len(f) + Len(rest)
        /\ \A i \in 1..Len(f) : (f \o rest)[i] = f[i]
        /\ \A i \in 1..Len(rest) : (f \o rest)[Len(f) + i] = rest[i]
    BY <2>1, ConcatFacts
  <2>3. todo' = f \o rest
    BY <1>9 DEF f, rest
  <2>4. /\ Len(f) = Len(subs) /\ \A i \in 1..Len(subs) : f[i] = Todo(subs[i], TRUE)
        /\ Len(rest) = Len(todo) - 1 /\ \A i \in 1..Len(todo) - 1 : rest[i] = todo[i + 1]
    BY <1>8, <1>10 DEF f, rest
  <2> QED
    BY <2>2, <2>3, <2>4
<1> QED
  BY <1>4, <1>5, <1>6, <1>11

\* A file that has not been seen: a task more, and an inode if it may have links.
LEMMA VisitNewInv == ASSUME Inv, VisitNew PROVE Inv'
<1>1. /\ Typed /\ Keyed /\ Rests /\ Kept /\ InodesOfNames /\ Creators /\ Entries /\ OneEntry
      /\ scene \in Scenes /\ tasks \in Seq(TaskRec)
  BY DEF Inv, Typed
<1>2. /\ phase = "walk" /\ todo # <<>> /\ Name \in Paths
      /\ scene' = scene /\ lines' = lines /\ phase' = phase
      /\ inodes' = IF Tracked(Name) THEN WithInode(Name) ELSE inodes
      /\ Tracked(Name) => Key(Name) \notin DOMAIN inodes
  BY DEF VisitNew, Visits
<1> DEFINE t == Task("create", Name, Key(Name))
<1>3. /\ t \in TaskRec /\ t.do = "create" /\ t.name = Name /\ t.key = KeyOf[Name] /\ t.st = "ready"
      /\ Name \in Shared <=> t.key[2] # 0
  BY <1>1, <1>2, KeyType, SceneFacts DEF Task, TaskRec
<1>4. tasks' = Append(tasks, t)
  BY DEF VisitNew
<1>5. PICK in \in InodeRec :
         in = Inode(Name) /\ in.first = Name /\ in.complete = FALSE /\ in.links = <<>>
  <2>1. <<>> \in Seq(Paths)
    BY EmptySeq
  <2>2. Inode(Name) \in InodeRec
    BY <1>2, <2>1 DEF Inode, InodeRec
  <2> QED
    BY <2>2 DEF Inode
<1>6. /\ Name \in Shared =>
            /\ KeyOf[Name] \notin DOMAIN inodes /\ DOMAIN inodes' = DOMAIN inodes \cup {KeyOf[Name]}
            /\ inodes'[KeyOf[Name]] = in
            /\ \A k \in DOMAIN inodes : inodes'[k] = inodes[k]
            /\ inodes' \in [DOMAIN inodes \cup {KeyOf[Name]} -> InodeRec]
      /\ Name \notin Shared => inodes' = inodes
  <2>1. Key(Name) = KeyOf[Name] /\ (Tracked(Name) <=> Name \in Shared)
    BY <1>1, <1>2, SceneFacts DEF Shared
  <2>2. inodes \in [DOMAIN inodes -> InodeRec]
    BY <1>1 DEF Typed
  <2> QED
    BY <1>2, <1>5, <2>1, <2>2 DEF WithInode
<1> HIDE DEF t
<1>7. tasks' \in Seq(TaskRec)
  BY <1>1, <1>3, <1>4, AppendFacts
<1>8. PICK new \in Nat :
         /\ new \notin DOMAIN tasks /\ DOMAIN tasks' = DOMAIN tasks \cup {new}
         /\ tasks'[new] = t /\ \A j \in DOMAIN tasks : tasks'[j] = tasks[j]
  BY <1>1, <1>3, <1>4, AppendFacts
<1>9. /\ Paths' = Paths /\ KeyOf' = KeyOf /\ Shared' = Shared
      /\ TodoRec' = TodoRec /\ TaskRec' = TaskRec /\ InodeRec' = InodeRec
  BY <1>2, SceneStays
<1>10. Typed'
  <2>1. todo' \in Seq(TodoRec)
    BY <1>1, VisitNewTodo
  <2>2. inodes' \in [DOMAIN inodes' -> InodeRec]
    BY <1>1, <1>6 DEF Typed
  <2> QED
    BY <1>1, <1>2, <1>7, <1>9, <2>1, <2>2 DEF Typed
<1>11. Keyed'
  BY <1>1, <1>3, <1>8, <1>9 DEF Keyed
<1>12. Rests' /\ Kept'
  BY <1>1, <1>2, <1>3, <1>6, <1>8 DEF Rests, Kept
<1>13. InodesOfNames'
  BY <1>1, <1>3, <1>5, <1>6, <1>9 DEF InodesOfNames
<1>14. Entries' /\ OneEntry'
  BY <1>1, <1>2, <1>6, <1>9 DEF Entries, OneEntry
<1>15. Creators'
  <2>1. \A i \in DOMAIN tasks : tasks[i].key[2] # 0 /\ tasks[i].key = t.key => ~(Name \in Shared)
    BY <1>1, <1>2, <1>3, <1>6 DEF Kept
  <2>2. \A k \in DOMAIN inodes' :
           \E i \in DOMAIN tasks' : tasks'[i].do = "create" /\ tasks'[i].key = k
    BY <1>1, <1>3, <1>6, <1>8 DEF Creators
  <2>3. \A i, j \in DOMAIN tasks' :
           /\ tasks'[i].do = "create" /\ tasks'[j].do = "create"
           /\ tasks'[i].key = tasks'[j].key /\ tasks'[i].key[2] # 0
           => i = j
    BY <1>1, <1>3, <1>8, <2>1 DEF Creators
  <2>4. \A i \in DOMAIN tasks' :
           tasks'[i].do = "create" /\ tasks'[i].key \in DOMAIN inodes' =>
              /\ inodes'[tasks'[i].key].first = tasks'[i].name
              /\ inodes'[tasks'[i].key].complete <=> tasks'[i].st = "done"
    <3>1. \A k \in DOMAIN inodes : k[2] # 0
      BY <1>1, SceneFacts DEF InodesOfNames, Shared
    <3> QED
      BY <1>1, <1>3, <1>5, <1>6, <1>8, <2>1, <3>1 DEF Creators
  <2> QED
    BY <2>2, <2>3, <2>4 DEF Creators
<1> QED
  BY <1>10, <1>11, <1>12, <1>13, <1>14, <1>15 DEF Inv

\* A line more of one name.
LEMMA AddLineFacts ==
    ASSUME lines \in [Paths -> Seq(Paths)], NEW n \in Paths, NEW e \in Paths, AddLine(n, e)
    PROVE  /\ lines' \in [Paths -> Seq(Paths)]
           /\ \A m \in Paths : m # n => lines'[m] = lines[m]
           /\ Len(lines[n]) \in Nat /\ Len(lines'[n]) = Len(lines[n]) + 1
           /\ \E new \in Nat : /\ DOMAIN lines'[n] = DOMAIN lines[n] \cup {new}
                               /\ lines'[n][new] = e
           /\ \A j \in DOMAIN lines[n] : lines'[n][j] = lines[n][j]
<1>1. PICK old \in Seq(Paths) : old = lines[n]
  OBVIOUS
<1>2. PICK more : more = Append(old, e)
  OBVIOUS
<1>3. /\ Len(old) \in Nat /\ DOMAIN old = 1..Len(old)
      /\ more \in Seq(Paths) /\ Len(more) = Len(old) + 1 /\ more[Len(old) + 1] = e
      /\ \A j \in 1..Len(old) : more[j] = old[j]
  BY <1>2, LenProperties, AppendProperties
<1>4. DOMAIN more = 1..Len(old) + 1
  BY <1>3, LenProperties
<1>5. lines' = [lines EXCEPT ![n] = more]
  BY <1>1, <1>2 DEF AddLine
<1>6. /\ lines' \in [Paths -> Seq(Paths)] /\ lines'[n] = more
      /\ \A m \in Paths : m # n => lines'[m] = lines[m]
  BY <1>3, <1>5
<1>7. \E new \in Nat : DOMAIN more = DOMAIN old \cup {new} /\ more[new] = e
  <2>1. Len(old) + 1 \in Nat /\ DOMAIN more = DOMAIN old \cup {Len(old) + 1}
    BY <1>3, <1>4
  <2> QED
    BY <1>3, <2>1
<1> QED
  BY <1>1, <1>3, <1>6, <1>7

\* What is so of a task that has not finished: the walk has not either, and the
\* inode of its number is there.
LEMMA BusyTask ==
    ASSUME Inv, NEW i \in DOMAIN tasks, tasks[i].st # "done"
    PROVE  /\ phase = "walk" /\ tasks[i] \in TaskRec /\ tasks[i].name \in Paths
           /\ tasks[i].key = KeyOf[tasks[i].name]
           /\ tasks[i].name \in Shared <=> tasks[i].key[2] # 0
           /\ tasks[i].key[2] # 0 => tasks[i].key \in DOMAIN inodes
           /\ \A k \in DOMAIN inodes : k[2] # 0 /\ inodes[k] \in InodeRec
<1>1. Typed /\ Keyed /\ Rests /\ Kept /\ InodesOfNames
  BY DEF Inv
<1>2. tasks[i] \in TaskRec
  BY <1>1, ElementOfSeq, LenProperties DEF Typed
<1>3. tasks[i].name \in Paths
  BY <1>2 DEF TaskRec
<1>4. phase = "walk"
  BY <1>1 DEF Rests
<1>5. \A k \in DOMAIN inodes : k[2] # 0 /\ inodes[k] \in InodeRec
  BY <1>1, SceneFacts DEF Typed, InodesOfNames, Shared
<1> QED
  BY <1>1, <1>2, <1>3, <1>4, <1>5, SceneFacts DEF Typed, Keyed, Kept

\* A task that goes on as its kind does leaves the tasks and their numbers so.
LEMMA MoveKeyed ==
    ASSUME Keyed, NEW i \in DOMAIN tasks, KeyOf' = KeyOf,
           DOMAIN tasks' = DOMAIN tasks,
           \A j \in DOMAIN tasks :
               /\ tasks'[j].do = tasks[j].do /\ tasks'[j].name = tasks[j].name
               /\ tasks'[j].key = tasks[j].key
               /\ j # i => tasks'[j].st = tasks[j].st,
           tasks[i].do = "create" => tasks'[i].st # "push",
           tasks[i].do = "link" => tasks'[i].st # "complete",
           tasks'[i].st = "complete" => tasks[i].key[2] # 0
    PROVE  Keyed'
<1> SUFFICES ASSUME NEW j \in DOMAIN tasks
             PROVE  /\ tasks'[j].key = KeyOf[tasks'[j].name]
                    /\ tasks'[j].do = "create" => tasks'[j].st # "push"
                    /\ tasks'[j].do = "link" => tasks'[j].st # "complete"
                    /\ tasks'[j].do = "link" \/ tasks'[j].st = "complete" => tasks'[j].key[2] # 0
  BY DEF Keyed
<1>1. /\ tasks[j].key = KeyOf[tasks[j].name]
      /\ tasks[j].do = "create" => tasks[j].st # "push"
      /\ tasks[j].do = "link" => tasks[j].st # "complete"
      /\ tasks[j].do = "link" \/ tasks[j].st = "complete" => tasks[j].key[2] # 0
  BY DEF Keyed
<1>2. /\ tasks'[j].do = tasks[j].do /\ tasks'[j].name = tasks[j].name
      /\ tasks'[j].key = tasks[j].key
      /\ j # i => tasks'[j].st = tasks[j].st
  OBVIOUS
<1> QED
  BY <1>1, <1>2

\* It leaves each inode the task that completes it, if that goes to its end when
\* the inode becomes complete and only then.
LEMMA MoveCreators ==
    ASSUME Creators, NEW i \in DOMAIN tasks,
           DOMAIN tasks' = DOMAIN tasks,
           \A j \in DOMAIN tasks :
               /\ tasks'[j].do = tasks[j].do /\ tasks'[j].name = tasks[j].name
               /\ tasks'[j].key = tasks[j].key
               /\ j # i => tasks'[j].st = tasks[j].st,
           DOMAIN inodes' = DOMAIN inodes,
           \A k \in DOMAIN inodes :
               /\ k[2] # 0 /\ inodes'[k].first = inodes[k].first
               /\ inodes'[k].complete <=>
                     \/ inodes[k].complete
                     \/ tasks[i].do = "create" /\ tasks[i].key = k /\ tasks'[i].st = "done",
           tasks[i].st # "done"
    PROVE  Creators'
<1>1. \A j \in DOMAIN tasks :
         /\ tasks'[j].do = tasks[j].do /\ tasks'[j].name = tasks[j].name
         /\ tasks'[j].key = tasks[j].key
         /\ j # i => tasks'[j].st = tasks[j].st
  OBVIOUS
<1>2. ASSUME NEW k \in DOMAIN inodes
      PROVE  \E j \in DOMAIN tasks' : tasks'[j].do = "create" /\ tasks'[j].key = k
  <2>1. PICK j \in DOMAIN tasks : tasks[j].do = "create" /\ tasks[j].key = k
    BY DEF Creators
  <2> QED
    BY <1>1, <2>1
<1>3. ASSUME NEW a \in DOMAIN tasks, NEW b \in DOMAIN tasks,
             tasks'[a].do = "create", tasks'[b].do = "create",
             tasks'[a].key = tasks'[b].key, tasks'[a].key[2] # 0
      PROVE  a = b
  <2>1. /\ tasks[a].do = "create" /\ tasks[b].do = "create"
        /\ tasks[a].key = tasks[b].key /\ tasks[a].key[2] # 0
    BY <1>1, <1>3
  <2> QED
    BY <2>1 DEF Creators
<1>4. ASSUME NEW j \in DOMAIN tasks, tasks'[j].do = "create", tasks'[j].key \in DOMAIN inodes
      PROVE  /\ inodes'[tasks'[j].key].first = tasks'[j].name
             /\ inodes'[tasks'[j].key].complete <=> tasks'[j].st = "done"
  <2>1. PICK k \in DOMAIN inodes : k = tasks[j].key /\ k = tasks'[j].key
    BY <1>1, <1>4
  <2>2. /\ inodes[k].first = tasks[j].name /\ tasks[j].do = "create"
        /\ inodes[k].complete <=> tasks[j].st = "done"
    BY <1>1, <1>4, <2>1 DEF Creators
  <2>3. tasks[i].do = "create" /\ tasks[i].key = k => j = i
    BY <2>1, <2>2 DEF Creators
  <2> QED
    BY <1>1, <2>1, <2>2, <2>3
<1> QED
  BY <1>2, <1>3, <1>4 DEF Creators

\* A task that goes on does not come to an end of the walk, nor to a number that
\* has no inode.
LEMMA MoveKept ==
    ASSUME Rests, Kept, phase = "walk", phase' = phase, DOMAIN inodes' = DOMAIN inodes,
           DOMAIN tasks' = DOMAIN tasks, \A j \in DOMAIN tasks : tasks'[j].key = tasks[j].key
    PROVE  Rests' /\ Kept'
BY DEF Rests, Kept

\* A line more repeats the entry of the first name, as the others do.
LEMMA MoreEntries ==
    ASSUME Entries, NEW n \in Paths, NEW e \in Paths, phase = "walk", phase' = phase,
           inodes' = inodes, Paths' = Paths, KeyOf' = KeyOf, Shared' = Shared,
           \A m \in Paths : m # n => lines'[m] = lines[m],
           \E new \in Nat : DOMAIN lines'[n] = DOMAIN lines[n] \cup {new} /\ lines'[n][new] = e,
           \A j \in DOMAIN lines[n] : lines'[n][j] = lines[n][j],
           n \notin Shared => e = n,
           n \in Shared => /\ KeyOf[e] = KeyOf[n] /\ KeyOf[n] \in DOMAIN inodes
                           /\ inodes[KeyOf[n]].first = e
    PROVE  Entries'
<1> SUFFICES ASSUME NEW m \in Paths, NEW j \in DOMAIN lines'[m]
             PROVE  /\ m \notin Shared => lines'[m][j] = m
                    /\ m \in Shared => KeyOf[lines'[m][j]] = KeyOf[m]
                    /\ m \in Shared =>
                          KeyOf[m] \in DOMAIN inodes /\ lines'[m][j] = inodes[KeyOf[m]].first
  BY DEF Entries
<1>1. PICK new \in Nat : DOMAIN lines'[n] = DOMAIN lines[n] \cup {new} /\ lines'[n][new] = e
  OBVIOUS
<1>2. CASE j \in DOMAIN lines[m] /\ lines'[m][j] = lines[m][j]
  BY <1>2 DEF Entries
<1>3. CASE m = n /\ lines'[m][j] = e
  BY <1>3
<1> QED
  BY <1>1, <1>2, <1>3

\* The line of a file of its own.
LEMMA CreatePushInv ==
    ASSUME Inv, NEW i \in DOMAIN tasks, CreatePush(i)
    PROVE  Inv'
<1>1. /\ Typed /\ Keyed /\ Rests /\ Kept /\ InodesOfNames /\ Creators /\ Entries /\ OneEntry
      /\ scene \in Scenes /\ tasks \in Seq(TaskRec) /\ lines \in [Paths -> Seq(Paths)]
  BY DEF Inv, Typed
<1>2. /\ tasks[i].do = "create" /\ tasks[i].st = "ready"
      /\ scene' = scene /\ todo' = todo /\ inodes' = inodes /\ phase' = phase
      /\ AddLine(tasks[i].name, tasks[i].name)
  BY DEF CreatePush, At
<1>3. /\ phase = "walk" /\ tasks[i].name \in Paths /\ tasks[i].key = KeyOf[tasks[i].name]
      /\ tasks[i].name \in Shared <=> tasks[i].key[2] # 0
      /\ tasks[i].key[2] # 0 => tasks[i].key \in DOMAIN inodes
      /\ \A k \in DOMAIN inodes : k[2] # 0
  BY <1>2, BusyTask
<1>4. PICK st \in {"complete", "done"} :
         st = IF tasks[i].key[2] # 0 THEN "complete" ELSE "done"
  OBVIOUS
<1>5. Goto(i, st)
  BY <1>4 DEF CreatePush, HasInode
<1>6. /\ tasks' \in Seq(TaskRec) /\ DOMAIN tasks' = DOMAIN tasks
      /\ \A j \in DOMAIN tasks :
            /\ tasks'[j].do = tasks[j].do /\ tasks'[j].name = tasks[j].name
            /\ tasks'[j].key = tasks[j].key
            /\ tasks'[j].st = IF j = i THEN st ELSE tasks[j].st
  BY <1>1, <1>5, GotoFacts
<1>7. /\ Paths' = Paths /\ KeyOf' = KeyOf /\ Shared' = Shared
      /\ TodoRec' = TodoRec /\ TaskRec' = TaskRec /\ InodeRec' = InodeRec
  BY <1>2, SceneStays
<1>8. PICK n \in Paths : n = tasks[i].name
  BY <1>3
<1>9. /\ lines' \in [Paths -> Seq(Paths)]
      /\ \A m \in Paths : m # n => lines'[m] = lines[m]
      /\ \E new \in Nat : DOMAIN lines'[n] = DOMAIN lines[n] \cup {new} /\ lines'[n][new] = n
      /\ \A j \in DOMAIN lines[n] : lines'[n][j] = lines[n][j]
  BY <1>1, <1>2, <1>8, AddLineFacts
<1>10. Typed'
  BY <1>1, <1>2, <1>6, <1>7, <1>9 DEF Typed
<1>11. Keyed'
  BY <1>1, <1>2, <1>4, <1>6, <1>7, MoveKeyed
<1>12. Rests' /\ Kept' /\ InodesOfNames'
  <2>1. InodesOfNames'
    BY <1>1, <1>2, <1>7 DEF InodesOfNames
  <2> QED
    BY <1>1, <1>2, <1>3, <1>6, <2>1, MoveKept
<1>13. Creators'
  <2>1. tasks[i].key[2] # 0 => st # "done"
    BY <1>4
  <2>2. \A k \in DOMAIN inodes :
           /\ k[2] # 0 /\ inodes'[k].first = inodes[k].first
           /\ inodes'[k].complete <=>
                 \/ inodes[k].complete
                 \/ tasks[i].do = "create" /\ tasks[i].key = k /\ tasks'[i].st = "done"
    BY <1>2, <1>3, <1>6, <2>1
  <2>3. DOMAIN inodes' = DOMAIN inodes /\ tasks[i].st # "done"
    BY <1>2
  <2> QED
    BY <1>1, <1>6, <2>2, <2>3, MoveCreators
<1>14. Entries'
  <2>1. n \in Shared => KeyOf[n] \in DOMAIN inodes /\ inodes[KeyOf[n]].first = n
    BY <1>1, <1>2, <1>3, <1>8 DEF Creators
  <2> QED
    BY <1>1, <1>2, <1>3, <1>7, <1>9, <2>1, MoreEntries
<1>15. OneEntry'
  BY <1>2, <1>3, <1>7, <1>14 DEF Entries, OneEntry, Shared
<1> QED
  BY <1>10, <1>11, <1>12, <1>13, <1>14, <1>15 DEF Inv

\* The line of a link to a file that is complete.
LEMMA LinkPushInv ==
    ASSUME Inv, NEW i \in DOMAIN tasks, LinkPush(i)
    PROVE  Inv'
<1>1. /\ Typed /\ Keyed /\ Rests /\ Kept /\ InodesOfNames /\ Creators /\ Entries /\ OneEntry
      /\ scene \in Scenes /\ tasks \in Seq(TaskRec) /\ lines \in [Paths -> Seq(Paths)]
  BY DEF Inv, Typed
<1>2. /\ tasks[i].do = "link" /\ tasks[i].st = "push" /\ Goto(i, "done")
      /\ scene' = scene /\ todo' = todo /\ inodes' = inodes /\ phase' = phase
      /\ AddLine(tasks[i].name, inodes[tasks[i].key].first)
  BY DEF LinkPush, At
<1>3. /\ phase = "walk" /\ tasks[i].name \in Paths /\ tasks[i].key = KeyOf[tasks[i].name]
      /\ tasks[i].name \in Shared <=> tasks[i].key[2] # 0
      /\ tasks[i].key \in DOMAIN inodes
  BY <1>1, <1>2, BusyTask DEF Keyed
<1>4. /\ tasks' \in Seq(TaskRec) /\ DOMAIN tasks' = DOMAIN tasks
      /\ \A j \in DOMAIN tasks :
            /\ tasks'[j].do = tasks[j].do /\ tasks'[j].name = tasks[j].name
            /\ tasks'[j].key = tasks[j].key
            /\ tasks'[j].st = IF j = i THEN "done" ELSE tasks[j].st
  BY <1>1, <1>2, GotoFacts
<1>5. /\ Paths' = Paths /\ KeyOf' = KeyOf /\ Shared' = Shared
      /\ TodoRec' = TodoRec /\ TaskRec' = TaskRec /\ InodeRec' = InodeRec
  BY <1>2, SceneStays
<1>6. PICK n \in Paths : n = tasks[i].name
  BY <1>3
<1>7. PICK e \in Paths : e = inodes[tasks[i].key].first /\ KeyOf[e] = KeyOf[n]
  BY <1>1, <1>3, <1>6 DEF InodesOfNames, Shared
<1>8. /\ lines' \in [Paths -> Seq(Paths)]
      /\ \A m \in Paths : m # n => lines'[m] = lines[m]
      /\ \E new \in Nat : DOMAIN lines'[n] = DOMAIN lines[n] \cup {new} /\ lines'[n][new] = e
      /\ \A j \in DOMAIN lines[n] : lines'[n][j] = lines[n][j]
  BY <1>1, <1>2, <1>6, <1>7, AddLineFacts
<1>9. Typed'
  BY <1>1, <1>2, <1>4, <1>5, <1>8 DEF Typed
<1>10. Keyed'
  BY <1>1, <1>2, <1>4, <1>5, MoveKeyed
<1>11. Rests' /\ Kept' /\ InodesOfNames'
  <2>1. InodesOfNames'
    BY <1>1, <1>2, <1>5 DEF InodesOfNames
  <2> QED
    BY <1>1, <1>2, <1>3, <1>4, <2>1, MoveKept
<1>12. Creators'
  BY <1>1, <1>2, <1>3, <1>4, BusyTask, MoveCreators
<1>13. Entries'
  <2>1. n \in Shared /\ KeyOf[n] \in DOMAIN inodes /\ inodes[KeyOf[n]].first = e
    BY <1>1, <1>2, <1>3, <1>6, <1>7 DEF Keyed
  <2> QED
    BY <1>1, <1>2, <1>3, <1>5, <1>7, <1>8, <2>1, MoreEntries
<1>14. OneEntry'
  BY <1>2, <1>3, <1>5, <1>13 DEF Entries, OneEntry, Shared
<1> QED
  BY <1>9, <1>10, <1>11, <1>12, <1>13, <1>14 DEF Inv

\* A link that finds its file complete.
LEMMA LinkReadyInv ==
    ASSUME Inv, NEW i \in DOMAIN tasks, LinkReady(i)
    PROVE  Inv'
<1>1. /\ Typed /\ Keyed /\ Rests /\ Kept /\ InodesOfNames /\ Creators /\ Entries /\ OneEntry
      /\ scene \in Scenes /\ tasks \in Seq(TaskRec)
  BY DEF Inv, Typed
<1>2. /\ tasks[i].do = "link" /\ tasks[i].st = "ready" /\ Goto(i, "push")
      /\ scene' = scene /\ todo' = todo /\ inodes' = inodes /\ phase' = phase /\ lines' = lines
  BY DEF LinkReady, At
<1>3. phase = "walk"
  BY <1>2, BusyTask
<1>4. /\ tasks' \in Seq(TaskRec) /\ DOMAIN tasks' = DOMAIN tasks
      /\ \A j \in DOMAIN tasks :
            /\ tasks'[j].do = tasks[j].do /\ tasks'[j].name = tasks[j].name
            /\ tasks'[j].key = tasks[j].key
            /\ tasks'[j].st = IF j = i THEN "push" ELSE tasks[j].st
  BY <1>1, <1>2, GotoFacts
<1>5. /\ Paths' = Paths /\ KeyOf' = KeyOf /\ Shared' = Shared
      /\ TodoRec' = TodoRec /\ TaskRec' = TaskRec /\ InodeRec' = InodeRec
  BY <1>2, SceneStays
<1>6. Typed' /\ Keyed'
  BY <1>1, <1>2, <1>4, <1>5, MoveKeyed DEF Typed
<1>7. Rests' /\ Kept' /\ InodesOfNames' /\ Entries' /\ OneEntry'
  BY <1>1, <1>2, <1>3, <1>4, <1>5 DEF Rests, Kept, InodesOfNames, Entries, OneEntry
<1>8. Creators'
  BY <1>1, <1>2, <1>4, BusyTask, MoveCreators
<1> QED
  BY <1>6, <1>7, <1>8 DEF Inv

\* A link waits in the inode of its file.
LEMMA LinkWaitsFacts ==
    ASSUME Inv, NEW i \in DOMAIN tasks, LinkWaits(i)
    PROVE  /\ phase = "walk" /\ tasks[i].name \in Paths /\ tasks[i].key \in DOMAIN inodes
           /\ tasks[i].key = KeyOf[tasks[i].name] /\ tasks[i].name \in Shared
           /\ inodes' \in [DOMAIN inodes -> InodeRec]
           /\ \A k \in DOMAIN inodes : k # tasks[i].key => inodes'[k] = inodes[k]
           /\ inodes'[tasks[i].key].first = inodes[tasks[i].key].first
           /\ ~inodes[tasks[i].key].complete /\ ~inodes'[tasks[i].key].complete
           /\ inodes[tasks[i].key].links \in Seq(Paths)
           /\ inodes'[tasks[i].key].links = Append(inodes[tasks[i].key].links, tasks[i].name)
<1>1. /\ tasks[i].do = "link" /\ tasks[i].st = "ready" /\ ~inodes[tasks[i].key].complete
      /\ Typed /\ Keyed
  BY DEF LinkWaits, At, Inv
<1>2. /\ phase = "walk" /\ tasks[i].name \in Paths /\ tasks[i].key = KeyOf[tasks[i].name]
      /\ tasks[i].name \in Shared /\ tasks[i].key \in DOMAIN inodes
      /\ inodes[tasks[i].key] \in InodeRec
  BY <1>1, BusyTask DEF Keyed
<1>3. PICK k \in DOMAIN inodes : k = tasks[i].key
  BY <1>2
<1>4. PICK n \in Paths : n = tasks[i].name
  BY <1>2
<1>5. PICK old \in InodeRec : old = inodes[k]
  BY <1>2, <1>3
<1>6. old.links \in Seq(Paths) /\ Append(old.links, n) \in Seq(Paths)
  BY AppendProperties DEF InodeRec
<1>7. PICK new : new = [old EXCEPT !.links = Append(old.links, n)]
  OBVIOUS
<1>8. /\ new \in InodeRec /\ new.first = old.first /\ new.complete = old.complete
      /\ new.links = Append(old.links, n)
  BY <1>6, <1>7 DEF InodeRec
<1>9. inodes' = [inodes EXCEPT ![k] = new]
  BY <1>3, <1>4, <1>5, <1>7 DEF LinkWaits
<1>10. inodes \in [DOMAIN inodes -> InodeRec]
  BY <1>1 DEF Typed
<1> QED
  BY <1>1, <1>2, <1>3, <1>4, <1>5, <1>6, <1>8, <1>9, <1>10

\* A link that waits is of the file whose inode it waits in.
LEMMA LinkWaitsInv ==
    ASSUME Inv, NEW i \in DOMAIN tasks, LinkWaits(i)
    PROVE  Inv'
<1>1. /\ Typed /\ Keyed /\ Rests /\ Kept /\ InodesOfNames /\ Creators /\ Entries /\ OneEntry
      /\ scene \in Scenes /\ tasks \in Seq(TaskRec)
  BY DEF Inv, Typed
<1>2. /\ tasks[i].do = "link" /\ tasks[i].st = "ready" /\ Goto(i, "done")
      /\ scene' = scene /\ todo' = todo /\ lines' = lines /\ phase' = phase
  BY DEF LinkWaits, At
<1>3. PICK k \in DOMAIN inodes : k = tasks[i].key
  BY LinkWaitsFacts
<1>4. PICK n \in Paths : n = tasks[i].name
  BY LinkWaitsFacts
<1>5. /\ phase = "walk" /\ k = KeyOf[n] /\ n \in Shared
      /\ inodes' \in [DOMAIN inodes -> InodeRec]
      /\ \A q \in DOMAIN inodes : q # k => inodes'[q] = inodes[q]
      /\ inodes'[k].first = inodes[k].first
      /\ ~inodes[k].complete /\ ~inodes'[k].complete
      /\ inodes[k].links \in Seq(Paths)
      /\ inodes'[k].links = Append(inodes[k].links, n)
  BY <1>3, <1>4, LinkWaitsFacts
<1>6. DOMAIN inodes' = DOMAIN inodes
  BY <1>5
<1>7. /\ tasks' \in Seq(TaskRec) /\ DOMAIN tasks' = DOMAIN tasks
      /\ \A j \in DOMAIN tasks :
            /\ tasks'[j].do = tasks[j].do /\ tasks'[j].name = tasks[j].name
            /\ tasks'[j].key = tasks[j].key
            /\ tasks'[j].st = IF j = i THEN "done" ELSE tasks[j].st
  BY <1>1, <1>2, GotoFacts
<1>8. /\ Paths' = Paths /\ KeyOf' = KeyOf /\ Shared' = Shared
      /\ TodoRec' = TodoRec /\ TaskRec' = TaskRec /\ InodeRec' = InodeRec
  BY <1>2, SceneStays
<1>9. Typed'
  BY <1>1, <1>2, <1>5, <1>6, <1>7, <1>8 DEF Typed
<1>10. Keyed'
  BY <1>1, <1>2, <1>7, <1>8, MoveKeyed
<1>11. Rests' /\ Kept'
  BY <1>1, <1>2, <1>5, <1>6, <1>7, MoveKept
<1>12. InodesOfNames'
  <2> SUFFICES ASSUME NEW q \in DOMAIN inodes
               PROVE  /\ inodes'[q].first \in Shared /\ KeyOf[inodes'[q].first] = q
                      /\ \A j \in DOMAIN inodes'[q].links : KeyOf[inodes'[q].links[j]] = q
                      /\ inodes'[q].complete => inodes'[q].links = <<>>
    BY <1>6, <1>8 DEF InodesOfNames
  <2>1. CASE q # k
    BY <1>1, <1>5, <2>1 DEF InodesOfNames
  <2>2. CASE q = k
    <3>1. \A j \in DOMAIN inodes'[k].links : KeyOf[inodes'[k].links[j]] = k
      <4>1. PICK old \in Seq(Paths) : old = inodes[k].links
        BY <1>5
      <4>2. PICK more : more = Append(old, n)
        OBVIOUS
      <4>3. /\ Len(old) \in Nat /\ DOMAIN old = 1..Len(old) /\ DOMAIN more = 1..Len(old) + 1
            /\ \A j \in 1..Len(old) : more[j] = old[j]
            /\ more[Len(old) + 1] = n
        BY <4>2, LenProperties, AppendProperties
      <4>4. \A j \in DOMAIN old : KeyOf[old[j]] = k
        BY <1>1, <4>1 DEF InodesOfNames
      <4>5. \A j \in DOMAIN more : KeyOf[more[j]] = k
        BY <1>5, <4>3, <4>4
      <4> QED
        BY <1>5, <4>1, <4>2, <4>5
    <3> QED
      BY <1>1, <1>5, <2>2, <3>1 DEF InodesOfNames
  <2> QED
    BY <2>1, <2>2
<1>13. Creators'
  <2>1. \A q \in DOMAIN inodes :
           /\ q[2] # 0 /\ inodes'[q].first = inodes[q].first
           /\ inodes'[q].complete <=> inodes[q].complete
    BY <1>2, <1>5, BusyTask
  <2>2. tasks[i].do # "create" /\ tasks[i].st # "done"
    BY <1>2
  <2> QED
    BY <1>1, <1>6, <1>7, <2>1, <2>2, MoveCreators
<1>14. Entries'
  <2>1. \A q \in DOMAIN inodes : inodes'[q].first = inodes[q].first
    BY <1>5
  <2> QED
    BY <1>1, <1>2, <1>6, <1>8, <2>1 DEF Entries
<1>15. OneEntry'
  BY <1>1, <1>2, <1>8 DEF OneEntry
<1> QED
  BY <1>9, <1>10, <1>11, <1>12, <1>13, <1>14, <1>15 DEF Inv

\* The places in the inode k where the name n waits.
Places(k, n) == {j \in DOMAIN inodes[k].links : inodes[k].links[j] = n}

\* The first name of a file is complete: the links that waited get their lines.
LEMMA CreateCompleteFacts ==
    ASSUME Inv, NEW i \in DOMAIN tasks, CreateComplete(i)
    PROVE  /\ phase = "walk" /\ tasks[i].name \in Paths /\ tasks[i].key \in DOMAIN inodes
           /\ tasks[i].key = KeyOf[tasks[i].name] /\ tasks[i].name \in Shared
           /\ inodes' \in [DOMAIN inodes -> InodeRec]
           /\ \A k \in DOMAIN inodes : k # tasks[i].key => inodes'[k] = inodes[k]
           /\ inodes'[tasks[i].key].first = inodes[tasks[i].key].first
           /\ inodes'[tasks[i].key].complete /\ inodes'[tasks[i].key].links = <<>>
           /\ lines' \in [Paths -> Seq(Paths)]
           /\ \A n \in Paths :
                 /\ IsFiniteSet(Places(tasks[i].key, n)) /\ Len(lines[n]) \in Nat
                 /\ Len(lines'[n]) = Len(lines[n]) + Cardinality(Places(tasks[i].key, n))
                 /\ \A j \in DOMAIN lines'[n] :
                       \/ j \in DOMAIN lines[n] /\ lines'[n][j] = lines[n][j]
                       \/ lines'[n][j] = tasks[i].name /\ Places(tasks[i].key, n) # {}
<1>1. /\ tasks[i].do = "create" /\ tasks[i].st = "complete" /\ Typed /\ Keyed
  BY DEF CreateComplete, At, Inv
<1>2. /\ phase = "walk" /\ tasks[i].name \in Paths /\ tasks[i].key = KeyOf[tasks[i].name]
      /\ tasks[i].name \in Shared /\ tasks[i].key \in DOMAIN inodes
      /\ inodes[tasks[i].key] \in InodeRec
  BY <1>1, BusyTask DEF Keyed
<1>3. PICK k \in DOMAIN inodes : k = tasks[i].key
  BY <1>2
<1>4. PICK e \in Paths : e = tasks[i].name
  BY <1>2
<1>5. PICK old \in InodeRec : old = inodes[k]
  BY <1>2, <1>3
<1>6. PICK new : new = [[old EXCEPT !.complete = TRUE] EXCEPT !.links = <<>>]
  OBVIOUS
<1>7. /\ new \in InodeRec /\ new.first = old.first /\ new.complete = TRUE /\ new.links = <<>>
  BY <1>6, EmptySeq DEF InodeRec
<1>8. inodes \in [DOMAIN inodes -> InodeRec] /\ lines \in [Paths -> Seq(Paths)]
  BY <1>1 DEF Typed
<1>9. inodes' = [inodes EXCEPT ![k] = new]
  <2>1. inodes' = [inodes EXCEPT ![k].complete = TRUE, ![k].links = <<>>]
    BY <1>3 DEF CreateComplete
  <2> QED
    BY <1>5, <1>6, <1>8, <2>1
<1>10. /\ inodes' \in [DOMAIN inodes -> InodeRec]
       /\ \A q \in DOMAIN inodes : q # k => inodes'[q] = inodes[q]
       /\ inodes'[k] = new
  BY <1>7, <1>8, <1>9
<1>11. lines' = [n \in Paths |-> lines[n] \o [j \in 1..Cardinality(Places(k, n)) |-> e]]
  BY <1>3, <1>4 DEF CreateComplete, Places
<1>12. ASSUME NEW n \in Paths
       PROVE  /\ IsFiniteSet(Places(k, n)) /\ Len(lines[n]) \in Nat /\ lines'[n] \in Seq(Paths)
              /\ Len(lines'[n]) = Len(lines[n]) + Cardinality(Places(k, n))
              /\ \A j \in DOMAIN lines'[n] :
                    \/ j \in DOMAIN lines[n] /\ lines'[n][j] = lines[n][j]
                    \/ lines'[n][j] = e /\ Places(k, n) # {}
  <2>1. old.links \in Seq(Paths)
    BY DEF InodeRec
  <2>2. IsFiniteSet(Places(k, n))
    <3>1. Len(old.links) \in Nat /\ DOMAIN old.links = 1..Len(old.links)
      BY <2>1, LenProperties
    <3>2. IsFiniteSet(DOMAIN old.links)
      BY <3>1, FS_Interval
    <3>3. Places(k, n) \subseteq DOMAIN old.links
      BY <1>5 DEF Places
    <3> QED
      BY <3>2, <3>3, FS_Subset
  <2>3. PICK c \in Nat : c = Cardinality(Places(k, n))
    BY <2>2, FS_CardinalityType
  <2>4. c = 0 \/ Places(k, n) # {}
    BY <2>2, <2>3, FS_EmptySet
  <2> DEFINE more == [j \in 1..c |-> e]
  <2>5. more \in Seq(Paths) /\ DOMAIN more = 1..c /\ \A j \in 1..c : more[j] = e
    <3>1. more \in [1..c -> Paths]
      OBVIOUS
    <3>2. more \in Seq(Paths)
      <4> HIDE DEF more
      <4> QED
        BY <3>1, SeqDef
    <3> QED
      BY <3>2
  <2> HIDE DEF more
  <2>6. Len(more) = c
    BY <2>5, LenProperties
  <2>7. PICK l \in Seq(Paths) : l = lines[n]
    BY <1>8
  <2>8. lines'[n] = l \o more
    BY <1>11, <2>3, <2>7 DEF more
  <2>9. /\ l \o more \in Seq(Paths) /\ Len(l \o more) = Len(l) + Len(more) /\ Len(l) \in Nat
        /\ \A j \in 1..Len(l) : (l \o more)[j] = l[j]
        /\ \A j \in 1..Len(more) : (l \o more)[Len(l) + j] = more[j]
    BY <2>5, ConcatFacts
  <2>10. DOMAIN l = 1..Len(l) /\ DOMAIN (l \o more) = 1..Len(l) + c
    BY <2>6, <2>9, LenProperties
  <2>11. ASSUME NEW j \in 1..Len(l) + c
         PROVE  \/ j \in DOMAIN l /\ (l \o more)[j] = l[j]
                \/ (l \o more)[j] = e /\ Places(k, n) # {}
    <3>1. CASE j <= Len(l)
      BY <2>9, <2>10, <3>1
    <3>2. CASE j > Len(l)
      <4>1. j - Len(l) \in 1..c /\ j = Len(l) + (j - Len(l)) /\ c # 0
        BY <2>9, <3>2
      <4> QED
        BY <2>4, <2>5, <2>6, <2>9, <4>1
    <3>3. Len(l) \in Nat /\ j \in Int
      BY <2>9
    <3>4. j <= Len(l) \/ j > Len(l)
      BY <3>3
    <3> QED
      BY <3>1, <3>2, <3>4
  <2> QED
    BY <2>2, <2>3, <2>6, <2>7, <2>8, <2>9, <2>10, <2>11
<1>13. lines' \in [Paths -> Seq(Paths)]
  <2>1. \A n \in Paths : lines'[n] \in Seq(Paths)
    BY <1>12
  <2> QED
    BY <1>11, <2>1
<1> QED
  BY <1>2, <1>3, <1>4, <1>5, <1>7, <1>10, <1>12, <1>13

\* The links that waited repeat the entry of the first name, as their number does.
LEMMA CreateCompleteInv ==
    ASSUME Inv, NEW i \in DOMAIN tasks, CreateComplete(i)
    PROVE  Inv'
<1>1. /\ Typed /\ Keyed /\ Rests /\ Kept /\ InodesOfNames /\ Creators /\ Entries /\ OneEntry
      /\ scene \in Scenes /\ tasks \in Seq(TaskRec)
  BY DEF Inv, Typed
<1>2. /\ tasks[i].do = "create" /\ tasks[i].st = "complete" /\ Goto(i, "done")
      /\ scene' = scene /\ todo' = todo /\ phase' = phase
  BY DEF CreateComplete, At
<1>3. PICK k \in DOMAIN inodes : k = tasks[i].key
  BY CreateCompleteFacts
<1>4. PICK e \in Paths : e = tasks[i].name
  BY CreateCompleteFacts
<1>5. /\ phase = "walk" /\ k = KeyOf[e] /\ e \in Shared
      /\ inodes' \in [DOMAIN inodes -> InodeRec]
      /\ \A q \in DOMAIN inodes : q # k => inodes'[q] = inodes[q]
      /\ inodes'[k].first = inodes[k].first
      /\ inodes'[k].complete /\ inodes'[k].links = <<>>
      /\ lines' \in [Paths -> Seq(Paths)]
      /\ \A n \in Paths : \A j \in DOMAIN lines'[n] :
            \/ j \in DOMAIN lines[n] /\ lines'[n][j] = lines[n][j]
            \/ lines'[n][j] = e /\ Places(k, n) # {}
  BY <1>3, <1>4, CreateCompleteFacts
<1>6. DOMAIN inodes' = DOMAIN inodes
  BY <1>5
<1>7. /\ tasks' \in Seq(TaskRec) /\ DOMAIN tasks' = DOMAIN tasks
      /\ \A j \in DOMAIN tasks :
            /\ tasks'[j].do = tasks[j].do /\ tasks'[j].name = tasks[j].name
            /\ tasks'[j].key = tasks[j].key
            /\ tasks'[j].st = IF j = i THEN "done" ELSE tasks[j].st
  BY <1>1, <1>2, GotoFacts
<1>8. /\ Paths' = Paths /\ KeyOf' = KeyOf /\ Shared' = Shared
      /\ TodoRec' = TodoRec /\ TaskRec' = TaskRec /\ InodeRec' = InodeRec
  BY <1>2, SceneStays
<1>9. Typed'
  BY <1>1, <1>2, <1>5, <1>6, <1>7, <1>8 DEF Typed
<1>10. Keyed'
  BY <1>1, <1>2, <1>7, <1>8, MoveKeyed
<1>11. Rests' /\ Kept'
  BY <1>1, <1>2, <1>5, <1>6, <1>7, MoveKept
<1>12. InodesOfNames'
  <2>1. DOMAIN <<>> = {}
    OBVIOUS
  <2> SUFFICES ASSUME NEW q \in DOMAIN inodes
               PROVE  /\ inodes'[q].first \in Shared /\ KeyOf[inodes'[q].first] = q
                      /\ \A j \in DOMAIN inodes'[q].links : KeyOf[inodes'[q].links[j]] = q
                      /\ inodes'[q].complete => inodes'[q].links = <<>>
    BY <1>6, <1>8 DEF InodesOfNames
  <2>2. /\ inodes[q].first \in Shared /\ KeyOf[inodes[q].first] = q
        /\ \A j \in DOMAIN inodes[q].links : KeyOf[inodes[q].links[j]] = q
        /\ inodes[q].complete => inodes[q].links = <<>>
    BY <1>1 DEF InodesOfNames
  <2>3. CASE q # k
    <3>1. inodes'[q] = inodes[q]
      BY <1>5, <2>3
    <3> QED
      BY <2>2, <3>1
  <2>4. CASE q = k
    <3>1. inodes'[q].first = inodes[q].first /\ inodes'[q].links = <<>>
      BY <1>5, <2>4
    <3> QED
      BY <2>1, <2>2, <3>1
  <2> QED
    BY <2>3, <2>4
<1>13. Creators'
  <2>1. \A q \in DOMAIN inodes :
           /\ q[2] # 0 /\ inodes'[q].first = inodes[q].first
           /\ inodes'[q].complete <=> \/ inodes[q].complete
                                      \/ tasks[i].do = "create" /\ tasks[i].key = q
                                         /\ tasks'[i].st = "done"
    <3>1. tasks'[i].st = "done"
      BY <1>7
    <3> QED
      BY <1>2, <1>3, <1>5, <3>1, BusyTask
  <2>2. tasks[i].st # "done"
    BY <1>2
  <2> QED
    BY <1>1, <1>6, <1>7, <2>1, <2>2, MoveCreators
<1>14. Entries'
  <2>1. \A q \in DOMAIN inodes : inodes'[q].first = inodes[q].first
    BY <1>5
  <2>2. inodes[k].first = e
    BY <1>1, <1>2, <1>3, <1>4 DEF Creators
  <2> SUFFICES ASSUME NEW n \in Paths, NEW j \in DOMAIN lines'[n]
               PROVE  /\ n \notin Shared => lines'[n][j] = n
                      /\ n \in Shared => KeyOf[lines'[n][j]] = KeyOf[n]
                      /\ n \in Shared =>
                            KeyOf[n] \in DOMAIN inodes' /\ lines'[n][j] = inodes'[KeyOf[n]].first
    BY <1>8 DEF Entries
  <2>3. CASE j \in DOMAIN lines[n] /\ lines'[n][j] = lines[n][j]
    <3>1. /\ n \notin Shared => lines[n][j] = n
          /\ n \in Shared => KeyOf[lines[n][j]] = KeyOf[n]
          /\ n \in Shared => KeyOf[n] \in DOMAIN inodes /\ lines[n][j] = inodes[KeyOf[n]].first
      BY <1>1, <1>5, <2>3 DEF Entries
    <3> QED
      BY <1>6, <2>1, <2>3, <3>1
  <2>4. CASE lines'[n][j] = e /\ Places(k, n) # {}
    <3>1. KeyOf[n] = k
      BY <1>1, <2>4 DEF Places, InodesOfNames
    <3>2. n \in Shared
      <4>1. k[2] # 0
        BY <1>1, <1>5, SceneFacts
      <4> QED
        BY <1>1, <3>1, <4>1, SceneFacts
    <3> QED
      BY <1>5, <1>6, <2>1, <2>2, <2>4, <3>1, <3>2
  <2> QED
    BY <1>5, <2>3, <2>4
<1>15. OneEntry'
  <2>1. \A n \in Shared : \A j \in DOMAIN lines'[n] : lines'[n][j] = inodes'[KeyOf[n]].first
    BY <1>2, <1>5, <1>8, <1>14 DEF Entries, Shared
  <2> QED
    BY <1>8, <2>1 DEF OneEntry
<1> QED
  BY <1>9, <1>10, <1>11, <1>12, <1>13, <1>14, <1>15 DEF Inv

\* The steps of the main thread that hand out no task.
LEMMA MainInv ==
    ASSUME Inv, VisitFails \/ WaitIdle \/ DeleteInodes \/ Finish
    PROVE  Inv'
<1>1. /\ Typed /\ Keyed /\ Rests /\ Kept /\ InodesOfNames /\ Creators /\ Entries /\ OneEntry
  BY DEF Inv
<1>2. scene' = scene /\ todo' = todo /\ tasks' = tasks /\ lines' = lines
  BY DEF VisitFails, WaitIdle, DeleteInodes, Finish
<1>3. /\ Paths' = Paths /\ KeyOf' = KeyOf /\ Shared' = Shared
      /\ TodoRec' = TodoRec /\ TaskRec' = TaskRec /\ InodeRec' = InodeRec
  BY <1>2, SceneStays
<1>4. Keyed' /\ OneEntry'
  BY <1>1, <1>2, <1>3 DEF Keyed, OneEntry
<1>5. CASE VisitFails
  <2>1. phase' = phase /\ inodes' = inodes
    BY <1>5 DEF VisitFails
  <2> QED
    BY <1>1, <1>2, <1>3, <1>4, <2>1
    DEF Inv, Typed, Rests, Kept, InodesOfNames, Creators, Entries
<1>6. CASE WaitIdle
  <2>1. phase = "walk" /\ phase' = "idle" /\ inodes' = inodes /\ Idle
    BY <1>6 DEF WaitIdle
  <2>2. Typed' /\ Rests' /\ Kept'
    BY <1>1, <1>2, <1>3, <2>1 DEF Typed, Phases, Rests, Kept, Idle
  <2> QED
    BY <1>1, <1>2, <1>3, <1>4, <2>1, <2>2 DEF Inv, InodesOfNames, Creators, Entries
<1>7. CASE DeleteInodes
  <2>1. phase = "idle" /\ phase' = "deleted" /\ inodes' = <<>>
    BY <1>7 DEF DeleteInodes
  <2>2. DOMAIN inodes' = {} /\ inodes' = [k \in {} |-> 0]
    BY <2>1
  <2>3. inodes' \in [DOMAIN inodes' -> InodeRec]
    BY <2>2
  <2>4. Typed' /\ Rests' /\ Kept'
    BY <1>1, <1>2, <1>3, <2>1, <2>3 DEF Typed, Phases, Rests, Kept
  <2>5. InodesOfNames' /\ Creators'
    BY <1>1, <1>2, <2>2 DEF InodesOfNames, Creators
  <2>6. Entries'
    BY <1>1, <1>2, <1>3, <2>1 DEF Entries
  <2> QED
    BY <1>4, <2>4, <2>5, <2>6 DEF Inv
<1>8. CASE Finish
  <2>1. phase = "deleted" /\ phase' = "finished" /\ inodes' = inodes
    BY <1>8 DEF Finish
  <2>2. Typed' /\ Rests' /\ Kept'
    BY <1>1, <1>2, <1>3, <2>1 DEF Typed, Phases, Rests, Kept
  <2>3. InodesOfNames' /\ Creators' /\ Entries'
    BY <1>1, <1>2, <1>3, <2>1 DEF InodesOfNames, Creators, Entries
  <2> QED
    BY <1>4, <2>2, <2>3 DEF Inv
<1> QED
  BY <1>5, <1>6, <1>7, <1>8

\* Every step keeps the invariant.
LEMMA NextInv == Inv /\ [Next]_vars => Inv'
<1> SUFFICES ASSUME Inv, [Next]_vars PROVE Inv'
  OBVIOUS
<1>1. CASE UNCHANGED vars
  <2>1. /\ scene' = scene /\ todo' = todo /\ tasks' = tasks /\ inodes' = inodes
        /\ lines' = lines /\ phase' = phase
    BY <1>1 DEF vars
  <2>2. /\ Paths' = Paths /\ KeyOf' = KeyOf /\ Shared' = Shared
        /\ TodoRec' = TodoRec /\ TaskRec' = TaskRec /\ InodeRec' = InodeRec
    BY <2>1, SceneStays
  <2> QED
    BY <2>1, <2>2
    DEF Inv, Typed, Keyed, Rests, Kept, InodesOfNames, Creators, Entries, OneEntry
<1>2. CASE Main
  BY <1>2, VisitLinkInv, VisitNewInv, MainInv DEF Main
<1>3. CASE \E i \in DOMAIN tasks : TaskStep(i)
  BY <1>3, CreatePushInv, CreateCompleteInv, LinkWaitsInv, LinkReadyInv, LinkPushInv DEF TaskStep
<1> QED
  BY <1>1, <1>2, <1>3 DEF Next

\* The inductive invariant of the tasks, the inodes and the list.
THEOREM Invariant == Spec => []Inv
BY InitInv, NextInv, PTL DEF Spec

-----------------------------------------------------------------------------
(* What follows from the invariant. *)

\* The variables have their types: the walk is called for the arguments, their
\* roots and what directories hold, and Inodes keeps its inodes under what the
\* types of its keys can hold.
THEOREM TypeCorrect == Spec => []TypeOK
<1>1. Inv => TypeOK
  <2> SUFFICES ASSUME Inv PROVE TypeOK
    OBVIOUS
  <2>1. Typed /\ InodesOfNames
    BY DEF Inv
  <2>2. todo \in Seq([name : Paths \cup Range(FileArgs) \cup Roots(FileArgs), recurse : BOOLEAN])
    BY <2>1 DEF Typed, TodoRec, Called
  <2>3. lines \in [Paths -> Seq(Paths)] /\ phase \in {"walk", "idle", "deleted", "finished"}
    BY <2>1 DEF Typed, Phases
  <2>4. ASSUME NEW k \in DOMAIN inodes
        PROVE  /\ k \in (0..DevMod - 1) \X (1..INoMod - 1)
               /\ inodes[k].first \in Paths /\ inodes[k].links \in Seq(Paths)
    <3>1. inodes[k] \in InodeRec /\ inodes[k].first \in Shared /\ KeyOf[inodes[k].first] = k
      BY <2>1 DEF Typed, InodesOfNames
    <3>2. inodes[k].first \in Paths /\ inodes[k].links \in Seq(Paths)
      BY <3>1 DEF InodeRec
    <3>3. k \in Keys /\ k[2] # 0
      BY <2>1, <3>1, <3>2, SceneFacts DEF Typed
    <3>4. k \in (0..DevMod - 1) \X (1..INoMod - 1)
      BY <3>3, ModAssumption DEF Keys
    <3> QED
      BY <3>2, <3>4
  <2> QED
    BY <2>2, <2>3, <2>4 DEF TypeOK
<1> QED
  BY <1>1, Invariant, PTL

\* ~Create deletes the inodes when no task can come to use one: each task that
\* has not finished finds the inode it was given (Create.cpp:41-48, 85).
THEOREM InodesOutlive == Spec => []InodesOutliveTasks
<1>1. Inv => InodesOutliveTasks
  <2> SUFFICES ASSUME Inv, NEW i \in DOMAIN tasks, tasks[i].st # "done", HasInode(tasks[i])
               PROVE  tasks[i].key \in DOMAIN inodes
    BY DEF InodesOutliveTasks
  <2> QED
    BY BusyTask DEF HasInode
<1> QED
  BY <1>1, Invariant, PTL

\* Names that repeat an entry are names of one file, so that extraction makes them
\* hard links of it, provided that no two files have one number once st_dev is
\* cut to 16 bits and st_ino to 32 (Create.cpp:103-111, LiveFile.h:41-44): the
\* tasks themselves never mix up two files.
THEOREM LinksTellFiles ==
    ASSUME \A s \in Scenes : KeysTell(s)
    PROVE  Spec => []LinksAreOfOneFile
<1>1. Inv => LinksAreOfOneFile
  <2> SUFFICES ASSUME Inv, NEW n \in Paths, NEW i \in DOMAIN lines[n]
               PROVE  SameFile(lines[n][i], n)
    BY DEF LinksAreOfOneFile
  <2>1. scene \in Scenes /\ lines \in [Paths -> Seq(Paths)] /\ Entries
    BY DEF Inv, Typed
  <2>2. PICK m \in Paths : m = lines[n][i]
    BY <2>1, LenProperties, ElementOfSeq
  <2>3. CASE n \notin Shared
    BY <2>1, <2>3 DEF Entries, SameFile
  <2>4. CASE n \in Shared
    <3>1. KeyOf[m] = KeyOf[n]
      BY <2>1, <2>2, <2>4 DEF Entries
    <3>2. Key(m) = Key(n) /\ Tracked(n)
      BY <2>1, <2>4, <3>1, SceneFacts DEF Shared
    <3>3. /\ Stat(m).dev % DevMod = Stat(n).dev % DevMod
          /\ INodeNum(m) = INodeNum(n) /\ INodeNum(n) # 0
      BY <3>2 DEF Key, Tracked
    <3>4. /\ m \in Linked(scene.stat) /\ n \in Linked(scene.stat)
          /\ Stat(m).ino % INoMod = Stat(n).ino % INoMod
      BY <3>3 DEF INodeNum, Linkable
    <3>5. KeysTell(scene)
      BY <2>1
    <3>6. Stat(m).dev = Stat(n).dev /\ Stat(m).ino = Stat(n).ino
      BY <3>3, <3>4, <3>5 DEF KeysTell, Stat
    <3> QED
      BY <2>2, <3>6 DEF SameFile
  <2> QED
    BY <2>3, <2>4
<1> QED
  BY <1>1, Invariant, PTL

-----------------------------------------------------------------------------
(* Each name asked for is walked to once, and gets one line. *)

\* A call of the walk comes to its name, and to what lies under it.
Covers(t, m) == m = t.name \/ (t.recurse /\ IsPrefix(t.name, m))

\* What the walk has come to and what it has still to come to are apart, and are
\* together what is asked for.
Walk ==
    /\ \A i, j \in DOMAIN tasks : tasks[i].name = tasks[j].name => i = j
    /\ \A i \in DOMAIN todo : \A j \in DOMAIN tasks : ~Covers(todo[i], tasks[j].name)
    /\ \A i, j \in DOMAIN todo : \A m \in Path :
          Covers(todo[i], m) /\ Covers(todo[j], m) => i = j
    /\ \A m \in Asked : \/ \E j \in DOMAIN tasks : tasks[j].name = m
                        \/ \E i \in DOMAIN todo : Covers(todo[i], m)
    /\ \A j \in DOMAIN tasks : tasks[j].name \in Asked
    /\ \A i \in DOMAIN todo : \A m \in Paths : Covers(todo[i], m) => m \in Asked
    /\ phase # "walk" => todo = <<>>

\* The names that wait in the inode of their file.
Waiting ==
    {n \in Paths : /\ KeyOf[n] \in DOMAIN inodes
                   /\ \E j \in DOMAIN inodes[KeyOf[n]].links : inodes[KeyOf[n]].links[j] = n}

\* A name has a line once its task is done, or waits, once, for the task of the
\* first name to write it.
Listed ==
    /\ \A k \in DOMAIN inodes : \A i, j \in DOMAIN inodes[k].links :
          inodes[k].links[i] = inodes[k].links[j] => i = j
    /\ \A i \in DOMAIN tasks :
          /\ tasks[i].st \in {"ready", "push"} =>
                Len(lines[tasks[i].name]) = 0 /\ tasks[i].name \notin Waiting
          /\ tasks[i].st = "complete" =>
                Len(lines[tasks[i].name]) = 1 /\ tasks[i].name \notin Waiting
          /\ tasks[i].st = "done" =>
                Len(lines[tasks[i].name]) = IF tasks[i].name \in Waiting THEN 0 ELSE 1
    /\ \A n \in Paths : Len(lines[n]) # 0 \/ n \in Waiting =>
          \E i \in DOMAIN tasks : tasks[i].name = n

\* What is asked for stays what it is.
LEMMA AskedStays == ASSUME scene' = scene PROVE Asked' = Asked
BY DEF Asked, Paths

\* What a call of a path covers is the path, or is under it.
LEMMA CoversFacts ==
    ASSUME NEW t, t.name \in Path, t.recurse \in BOOLEAN, NEW m \in Path
    PROVE  /\ Covers(t, t.name)
           /\ Covers(t, m) => IsPrefix(t.name, m)
           /\ t.recurse => (Covers(t, m) <=> IsPrefix(t.name, m))
           /\ ~t.recurse => (Covers(t, m) <=> m = t.name)
BY PrefixSelf DEF Covers

\* The calls of the walk are for paths.
LEMMA CalledFacts ==
    ASSUME Typed
    PROVE  /\ Called \subseteq Path
           /\ \A i \in DOMAIN todo : todo[i].name \in Path /\ todo[i].recurse \in BOOLEAN
<1>1. /\ scene \in Scenes /\ todo \in Seq(TodoRec)
      /\ Paths \subseteq Path /\ FileArgs \in Seq(Path)
  BY SceneFacts DEF Typed
<1>2. Range(FileArgs) \subseteq Path
  BY <1>1, RangeOfSeq
<1>3. Roots(FileArgs) \subseteq Path
  BY <1>1, RootsFacts
<1>4. \A i \in DOMAIN todo : todo[i] \in TodoRec
  BY <1>1, ElementOfSeq, LenProperties
<1> QED
  BY <1>1, <1>2, <1>3, <1>4 DEF Called, TodoRec

\* At first the calls are for the directories above the arguments and for the
\* arguments, which are apart.
LEMMA InitWalk ==
    ASSUME Init, ArgsApart(scene), BaseOfArgs(scene)
    PROVE  Walk
<1>1. scene \in Scenes /\ tasks = <<>> /\ phase = "walk" /\ FileArgs = scene.args
  BY DEF Init, FileArgs, BaseOfArgs
<1>2. PICK args \in Seq(Path) : args = FileArgs /\ args = scene.args
  BY <1>1, SceneFacts
<1>3. PICK roots \in Seq(Roots(FileArgs)) :
         /\ todo \in Seq(TodoRec) /\ Len(todo) = Len(roots) + Len(FileArgs)
         /\ DOMAIN roots = 1..Len(roots) /\ Len(roots) \in Nat
         /\ \A i, j \in DOMAIN roots : roots[i] = roots[j] => i = j
         /\ \A q \in Roots(FileArgs) : \E i \in DOMAIN roots : roots[i] = q
         /\ \A i \in 1..Len(roots) : todo[i] = Todo(roots[i], FALSE)
         /\ \A i \in 1..Len(FileArgs) : todo[Len(roots) + i] = Todo(FileArgs[i], TRUE)
  BY InitTodo
<1>4. /\ Len(args) \in Nat /\ DOMAIN args = 1..Len(args) /\ \A i \in 1..Len(args) : args[i] \in Path
      /\ \A i \in 1..Len(roots) : roots[i] \in Roots(FileArgs)
  BY <1>3, LenProperties, ElementOfSeq
<1>5. PICK a \in Nat : a = Len(args)
  BY <1>4
<1>6. PICK r \in Nat : r = Len(roots)
  BY <1>3
<1>7. /\ DOMAIN args = 1..a /\ \A i \in 1..a : args[i] \in Path
      /\ \A i, j \in 1..r : roots[i] = roots[j] => i = j
      /\ \A i \in 1..r : roots[i] \in Roots(args)
      /\ \A q \in Roots(args) : \E i \in 1..r : roots[i] = q
  BY <1>2, <1>3, <1>4, <1>5, <1>6
<1>8. /\ DOMAIN todo = 1..r + a
      /\ \A i \in 1..r : todo[i].name = roots[i] /\ ~todo[i].recurse
      /\ \A j \in 1..a : todo[r + j].name = args[j] /\ todo[r + j].recurse
  <2>1. DOMAIN todo = 1..r + a
    BY <1>2, <1>3, <1>5, <1>6, LenProperties
  <2>2. ASSUME NEW i \in 1..r PROVE todo[i].name = roots[i] /\ ~todo[i].recurse
    <3>1. todo[i] = Todo(roots[i], FALSE)
      BY <1>3, <1>6
    <3> QED
      BY <3>1 DEF Todo
  <2>3. ASSUME NEW j \in 1..a PROVE todo[r + j].name = args[j] /\ todo[r + j].recurse
    <3>1. todo[r + j] = Todo(args[j], TRUE)
      BY <1>2, <1>3, <1>5, <1>6
    <3> QED
      BY <3>1 DEF Todo
  <2> QED
    BY <2>1, <2>2, <2>3
<1>9. /\ \A i \in 1..r : \A m : Covers(todo[i], m) <=> m = roots[i]
      /\ \A j \in 1..a : \A m \in Path : Covers(todo[r + j], m) <=> IsPrefix(args[j], m)
      /\ \A i \in DOMAIN todo : i \in 1..r \/ \E j \in 1..a : i = r + j
      /\ \A i \in 1..r : i \in DOMAIN todo
      /\ \A j \in 1..a : r + j \in DOMAIN todo
  <2>1. \A i \in 1..r : \A m : Covers(todo[i], m) <=> m = roots[i]
    BY <1>8 DEF Covers
  <2>2. \A j \in 1..a : \A m \in Path : Covers(todo[r + j], m) <=> IsPrefix(args[j], m)
    BY <1>7, <1>8, PrefixSelf DEF Covers
  <2>3. ASSUME NEW i \in 1..r + a PROVE i \in 1..r \/ \E j \in 1..a : i = r + j
    <3>1. CASE i > r
      <4>1. i - r \in 1..a /\ i = r + (i - r)
        BY <3>1
      <4> QED
        BY <4>1
    <3> QED
      BY <3>1
  <2>4. /\ \A i \in 1..r : i \in 1..r + a
        /\ \A j \in 1..a : r + j \in 1..r + a
    OBVIOUS
  <2> QED
    BY <1>8, <2>1, <2>2, <2>3, <2>4
<1>10. \A i, j \in 1..a : IsPrefix(args[i], args[j]) => i = j
  BY <1>2, <1>7 DEF ArgsApart
<1>11. ASSUME NEW i \in 1..r, NEW j \in 1..a, NEW m \in Path, m = roots[i], IsPrefix(args[j], m)
       PROVE  FALSE
  <2>1. m \in Roots(args) /\ Roots(args) \subseteq Path
    BY <1>7, <1>11, RootsFacts
  <2>2. PICK q \in 1..a : IsPrefix(m, args[q]) /\ Len(m) < Len(args[q])
    BY <1>7, <2>1, RootsFacts
  <2>3. args[q] \in Path /\ args[j] \in Path
    BY <1>7
  <2>4. IsPrefix(args[j], args[q])
    BY <1>11, <2>2, <2>3, PrefixOrder
  <2>5. j = q
    BY <1>10, <2>4
  <2>6. Len(args[j]) <= Len(m) /\ Len(args[j]) \in Nat /\ Len(m) \in Nat
    BY <1>11, <2>3, PrefixPoints
  <2> QED
    BY <2>2, <2>5, <2>6
<1>12. ASSUME NEW i \in 1..a, NEW j \in 1..a, NEW m \in Path, IsPrefix(args[i], m), IsPrefix(args[j], m)
       PROVE  i = j
  <2>1. args[i] \in Path /\ args[j] \in Path
    BY <1>7
  <2>2. Len(args[i]) \in Nat /\ Len(args[j]) \in Nat
    BY <2>1, PrefixPoints
  <2>3. CASE Len(args[i]) <= Len(args[j])
    BY <1>10, <1>12, <2>1, <2>3, PrefixOrder
  <2>4. CASE Len(args[j]) <= Len(args[i])
    BY <1>10, <1>12, <2>1, <2>4, PrefixOrder
  <2> QED
    BY <2>2, <2>3, <2>4
<1>13. ASSUME NEW i \in DOMAIN todo, NEW j \in DOMAIN todo, NEW m \in Path,
              Covers(todo[i], m), Covers(todo[j], m)
       PROVE  i = j
  <2>1. CASE i \in 1..r /\ j \in 1..r
    <3>1. m = roots[i] /\ m = roots[j]
      BY <1>9, <1>13, <2>1
    <3> QED
      BY <1>7, <2>1, <3>1
  <2>2. ASSUME i \in 1..r, NEW q \in 1..a, j = r + q PROVE FALSE
    BY <1>9, <1>11, <1>13, <2>2
  <2>3. ASSUME j \in 1..r, NEW q \in 1..a, i = r + q PROVE FALSE
    BY <1>9, <1>11, <1>13, <2>3
  <2>4. ASSUME NEW p \in 1..a, i = r + p, NEW q \in 1..a, j = r + q PROVE i = j
    BY <1>9, <1>12, <1>13, <2>4
  <2> QED
    BY <1>9, <2>1, <2>2, <2>3, <2>4
<1>14. ASSUME NEW m \in Asked
       PROVE  \E i \in DOMAIN todo : Covers(todo[i], m)
  <2>1. m \in Path
    BY <1>1, SceneFacts DEF Asked
  <2>2. CASE m \in Roots(args)
    <3>1. PICK i \in 1..r : roots[i] = m
      BY <1>7, <2>2
    <3> QED
      BY <1>9, <3>1
  <2>3. CASE \E b \in Range(args) : IsPrefix(b, m)
    <3>1. PICK j \in 1..a : IsPrefix(args[j], m)
      BY <1>7, <2>3 DEF Range
    <3> QED
      BY <1>9, <2>1, <3>1
  <2> QED
    BY <1>2, <2>2, <2>3 DEF Asked
<1>15. ASSUME NEW i \in DOMAIN todo, NEW m \in Paths, Covers(todo[i], m)
       PROVE  m \in Asked
  <2>1. m \in Path
    BY <1>1, SceneFacts
  <2>2. CASE i \in 1..r
    <3>1. m = roots[i]
      BY <1>9, <1>15, <2>2
    <3>2. m \in Roots(args)
      BY <1>7, <2>2, <3>1
    <3> QED
      BY <1>2, <3>2 DEF Asked
  <2>3. ASSUME NEW p \in 1..a, i = r + p PROVE m \in Asked
    <3>1. IsPrefix(args[p], m) /\ args[p] \in Range(args)
      BY <1>7, <1>9, <1>15, <2>1, <2>3 DEF Range
    <3> QED
      BY <1>2, <3>1 DEF Asked
  <2> QED
    BY <1>9, <2>2, <2>3
<1>16. DOMAIN tasks = {}
  BY <1>1
<1> QED
  BY <1>1, <1>13, <1>14, <1>15, <1>16 DEF Walk

\* A step of a task, or of the main thread that visits nothing, walks nowhere.
LEMMA MoveWalk ==
    ASSUME Walk, scene' = scene, todo' = todo, DOMAIN tasks' = DOMAIN tasks,
           \A j \in DOMAIN tasks : tasks'[j].name = tasks[j].name,
           phase' # "walk" => phase # "walk" \/ todo = <<>>
    PROVE  Walk'
<1>1. Paths' = Paths /\ Asked' = Asked
  BY SceneStays, AskedStays
<1> QED
  BY <1>1 DEF Walk

\* A visit keeps what is covered: the name gets its task, and the calls that take
\* the place of its own cover the rest of what that one did.
LEMMA VisitWalk ==
    ASSUME Typed, Walk, todo # <<>>, Name \in Paths, scene' = scene, phase = "walk", phase' = phase,
           \E new \in Nat :
              /\ new \notin DOMAIN tasks /\ DOMAIN tasks' = DOMAIN tasks \cup {new}
              /\ tasks'[new].name = Name
              /\ \A j \in DOMAIN tasks : tasks'[j] = tasks[j],
           \E k \in Nat :
              /\ DOMAIN todo' = 1..k + (Len(todo) - 1)
              /\ \A i \in 1..Len(todo) - 1 : todo'[k + i] = todo[i + 1]
              /\ \A i \in 1..k : \A m \in Path :
                    Covers(todo'[i], m) => m # Name /\ Covers(todo[1], m)
              /\ \A i, j \in 1..k : \A m \in Path :
                    Covers(todo'[i], m) /\ Covers(todo'[j], m) => i = j
              /\ \A m \in Paths : Covers(todo[1], m) =>
                    m = Name \/ \E i \in 1..k : Covers(todo'[i], m)
    PROVE  Walk'
<1>1. Paths' = Paths /\ Asked' = Asked
  BY SceneStays, AskedStays
<1>2. PICK new \in Nat :
         /\ new \notin DOMAIN tasks /\ DOMAIN tasks' = DOMAIN tasks \cup {new}
         /\ tasks'[new].name = Name
         /\ \A j \in DOMAIN tasks : tasks'[j] = tasks[j]
  OBVIOUS
<1>3. PICK k \in Nat :
         /\ DOMAIN todo' = 1..k + (Len(todo) - 1)
         /\ \A i \in 1..Len(todo) - 1 : todo'[k + i] = todo[i + 1]
         /\ \A i \in 1..k : \A m \in Path :
               Covers(todo'[i], m) => m # Name /\ Covers(todo[1], m)
         /\ \A i, j \in 1..k : \A m \in Path :
               Covers(todo'[i], m) /\ Covers(todo'[j], m) => i = j
         /\ \A m \in Paths : Covers(todo[1], m) =>
               m = Name \/ \E i \in 1..k : Covers(todo'[i], m)
  OBVIOUS
<1>4. /\ Len(todo) \in Nat \ {0} /\ DOMAIN todo = 1..Len(todo) /\ Name = todo[1].name
      /\ Paths \subseteq Path
  BY TailFacts, SceneFacts, LenProperties DEF Typed, Name
<1>5. /\ \A i \in DOMAIN todo' :
            \/ i \in 1..k
            \/ \E p \in DOMAIN todo : p # 1 /\ i = k + p - 1 /\ todo'[i] = todo[p]
      /\ \A p \in DOMAIN todo : p # 1 => k + p - 1 \in DOMAIN todo' /\ todo'[k + p - 1] = todo[p]
      /\ 1 \in DOMAIN todo
  <2>1. ASSUME NEW p \in DOMAIN todo, p # 1
        PROVE  k + p - 1 \in DOMAIN todo' /\ todo'[k + p - 1] = todo[p]
    <3>1. p - 1 \in 1..Len(todo) - 1 /\ k + (p - 1) = k + p - 1 /\ (p - 1) + 1 = p
      BY <1>4, <2>1
    <3>2. k + p - 1 \in 1..k + (Len(todo) - 1)
      BY <1>4, <2>1
    <3>3. todo'[k + (p - 1)] = todo[(p - 1) + 1]
      BY <1>3, <3>1
    <3> QED
      BY <1>3, <3>1, <3>2, <3>3
  <2>2. ASSUME NEW i \in DOMAIN todo', i \notin 1..k
        PROVE  \E p \in DOMAIN todo : p # 1 /\ i = k + p - 1
    <3>1. i - k + 1 \in DOMAIN todo /\ i - k + 1 # 1 /\ i = k + (i - k + 1) - 1
      BY <1>3, <1>4, <2>2
    <3> QED
      BY <3>1
  <2>3. 1 \in DOMAIN todo
    BY <1>4
  <2> QED
    BY <2>1, <2>2, <2>3
<1>6. \A j \in DOMAIN tasks : tasks[j].name \in Path
  <2>1. \A j \in DOMAIN tasks : tasks[j] \in TaskRec
    BY ElementOfSeq, LenProperties DEF Typed
  <2> QED
    BY <1>4, <2>1 DEF TaskRec
<1>7. Covers(todo[1], Name) /\ Name \in Path
  BY <1>4 DEF Covers
<1>8. \A j \in DOMAIN tasks : tasks[j].name # Name
  BY <1>5, <1>7 DEF Walk
<1>9. \A i \in DOMAIN todo : Covers(todo[i], Name) => i = 1
  BY <1>5, <1>7 DEF Walk
<1>10. \A i, j \in DOMAIN tasks' : tasks'[i].name = tasks'[j].name => i = j
  BY <1>2, <1>8 DEF Walk
<1>11. ASSUME NEW i \in DOMAIN todo', NEW j \in DOMAIN tasks'
       PROVE  ~Covers(todo'[i], tasks'[j].name)
  <2>1. CASE i \in 1..k /\ j \in DOMAIN tasks
    BY <1>2, <1>3, <1>5, <1>6, <2>1 DEF Walk
  <2>2. CASE i \in 1..k /\ j = new
    BY <1>2, <1>3, <1>7, <2>2
  <2>3. ASSUME NEW p \in DOMAIN todo, p # 1, todo'[i] = todo[p], j \in DOMAIN tasks
        PROVE  ~Covers(todo'[i], tasks'[j].name)
    BY <1>2, <2>3 DEF Walk
  <2>4. ASSUME NEW p \in DOMAIN todo, p # 1, todo'[i] = todo[p], j = new
        PROVE  ~Covers(todo'[i], tasks'[j].name)
    BY <1>2, <1>9, <2>4
  <2> QED
    BY <1>2, <1>5, <2>1, <2>2, <2>3, <2>4
<1>12. ASSUME NEW i \in DOMAIN todo', NEW j \in DOMAIN todo', NEW m \in Path,
              Covers(todo'[i], m), Covers(todo'[j], m)
       PROVE  i = j
  <2>1. CASE i \in 1..k /\ j \in 1..k
    BY <1>3, <1>12, <2>1
  <2>2. ASSUME i \in 1..k, NEW p \in DOMAIN todo, p # 1, todo'[j] = todo[p] PROVE FALSE
    BY <1>3, <1>5, <1>12, <2>2 DEF Walk
  <2>3. ASSUME j \in 1..k, NEW p \in DOMAIN todo, p # 1, todo'[i] = todo[p] PROVE FALSE
    BY <1>3, <1>5, <1>12, <2>3 DEF Walk
  <2>4. ASSUME NEW p \in DOMAIN todo, i = k + p - 1, todo'[i] = todo[p],
               NEW q \in DOMAIN todo, j = k + q - 1, todo'[j] = todo[q]
        PROVE  i = j
    <3>1. p = q
      BY <1>12, <2>4 DEF Walk
    <3> QED
      BY <2>4, <3>1
  <2> QED
    BY <1>5, <2>1, <2>2, <2>3, <2>4
<1>13. ASSUME NEW m \in Asked
       PROVE  \/ \E j \in DOMAIN tasks' : tasks'[j].name = m
              \/ \E i \in DOMAIN todo' : Covers(todo'[i], m)
  <2>1. m \in Paths
    BY DEF Asked
  <2>2. CASE \E j \in DOMAIN tasks : tasks[j].name = m
    BY <1>2, <2>2
  <2>3. CASE Covers(todo[1], m)
    <3>1. CASE m = Name
      BY <1>2, <3>1
    <3>2. ASSUME NEW i \in 1..k, Covers(todo'[i], m)
          PROVE  \E q \in DOMAIN todo' : Covers(todo'[q], m)
      <4>1. i \in DOMAIN todo'
        BY <1>3, <1>4
      <4> QED
        BY <3>2, <4>1
    <3> QED
      BY <1>3, <2>1, <2>3, <3>1, <3>2
  <2>4. ASSUME NEW p \in DOMAIN todo, p # 1, Covers(todo[p], m)
        PROVE  \E q \in DOMAIN todo' : Covers(todo'[q], m)
    BY <1>5, <2>4
  <2> QED
    BY <2>2, <2>3, <2>4 DEF Walk
<1>14. \A j \in DOMAIN tasks' : tasks'[j].name \in Asked
  BY <1>2, <1>5, <1>7 DEF Walk
<1>15. \A i \in DOMAIN todo' : \A m \in Paths : Covers(todo'[i], m) => m \in Asked
  BY <1>3, <1>4, <1>5 DEF Walk
<1> QED
  BY <1>1, <1>10, <1>11, <1>12, <1>13, <1>14, <1>15 DEF Walk

\* A visit makes one task, for the name that it visits.
LEMMA VisitTask ==
    ASSUME Typed, VisitLink \/ VisitNew
    PROVE  /\ todo # <<>> /\ Name \in Paths /\ scene' = scene /\ phase = "walk" /\ phase' = phase
           /\ lines' = lines
           /\ \E new \in Nat :
                 /\ new \notin DOMAIN tasks /\ DOMAIN tasks' = DOMAIN tasks \cup {new}
                 /\ tasks'[new].name = Name /\ tasks'[new].st = "ready"
                 /\ \A j \in DOMAIN tasks : tasks'[j] = tasks[j]
<1>1. /\ todo # <<>> /\ Name \in Paths /\ scene' = scene /\ phase = "walk" /\ phase' = phase
      /\ lines' = lines /\ scene \in Scenes /\ tasks \in Seq(TaskRec)
  BY DEF Typed, VisitLink, VisitNew, Visits
<1>2. PICK do \in {"create", "link"} : tasks' = Append(tasks, Task(do, Name, Key(Name)))
  BY DEF VisitLink, VisitNew
<1> DEFINE t == Task(do, Name, Key(Name))
<1>3. t \in TaskRec /\ t.name = Name /\ t.st = "ready"
  BY <1>1, KeyType DEF Task, TaskRec
<1>4. tasks' = Append(tasks, t)
  BY <1>2
<1> HIDE DEF t
<1> QED
  BY <1>1, <1>3, <1>4, AppendFacts

\* A link has nothing under it: its visit covers its name.
LEMMA VisitLinkWalk == ASSUME Typed, Walk, VisitLink PROVE Walk'
<1>1. /\ todo # <<>> /\ Name \in Paths /\ scene' = scene /\ phase = "walk" /\ phase' = phase
      /\ \E new \in Nat :
            /\ new \notin DOMAIN tasks /\ DOMAIN tasks' = DOMAIN tasks \cup {new}
            /\ tasks'[new].name = Name
            /\ \A j \in DOMAIN tasks : tasks'[j] = tasks[j]
  BY VisitTask
<1>2. /\ scene \in Scenes /\ Paths \subseteq Path /\ IsTree(scene.stat)
      /\ Len(todo) \in Nat \ {0} /\ Name = todo[1].name
  BY <1>1, SceneFacts, TailFacts, ScenesAssumption DEF Typed, IsScene, Name
<1>3. Stat(Name).kind # "dir"
  BY DEF VisitLink, Tracked, INodeNum, Linkable, Linked, Stat
<1>4. ASSUME NEW m \in Paths, Covers(todo[1], m)
      PROVE  m = Name
  <2>1. SUFFICES ASSUME m # Name PROVE FALSE
    OBVIOUS
  <2>2. IsPrefix(Name, m) /\ m \in Path /\ Name \in Path
    BY <1>1, <1>2, <1>4, <2>1 DEF Covers
  <2>3. m # <<>> /\ Name \in Prefixes(Front(m))
    BY <2>1, <2>2, Between
  <2> QED
    BY <1>1, <1>2, <1>3, <2>3 DEF IsTree, Paths, Stat
<1>5. \E k \in Nat :
         /\ DOMAIN todo' = 1..k + (Len(todo) - 1)
         /\ \A i \in 1..Len(todo) - 1 : todo'[k + i] = todo[i + 1]
         /\ \A i \in 1..k : \A m \in Path :
               Covers(todo'[i], m) => m # Name /\ Covers(todo[1], m)
         /\ \A i, j \in 1..k : \A m \in Path :
               Covers(todo'[i], m) /\ Covers(todo'[j], m) => i = j
         /\ \A m \in Paths : Covers(todo[1], m) =>
               m = Name \/ \E i \in 1..k : Covers(todo'[i], m)
  <2>1. /\ DOMAIN todo' = 1..0 + (Len(todo) - 1)
        /\ \A i \in 1..Len(todo) - 1 : todo'[0 + i] = todo[i + 1]
    <3>1. todo' = Tail(todo)
      BY DEF VisitLink
    <3> QED
      BY <1>1, <1>2, <3>1, TailFacts
  <2>2. 0 \in Nat /\ 1..0 = {}
    OBVIOUS
  <2> QED
    BY <1>4, <2>1, <2>2
<1> QED
  BY <1>1, <1>5, VisitWalk

\* What is under a new name lies in one of the files in it, and files that lie in
\* one directory have nothing under them in common.
LEMMA VisitNewWalk == ASSUME Typed, Walk, VisitNew PROVE Walk'
<1>1. /\ todo # <<>> /\ Name \in Paths /\ scene' = scene /\ phase = "walk" /\ phase' = phase
      /\ \E new \in Nat :
            /\ new \notin DOMAIN tasks /\ DOMAIN tasks' = DOMAIN tasks \cup {new}
            /\ tasks'[new].name = Name
            /\ \A j \in DOMAIN tasks : tasks'[j] = tasks[j]
  BY VisitTask
<1>2. /\ scene \in Scenes /\ Paths \subseteq Path /\ IsTree(scene.stat)
      /\ Len(todo) \in Nat \ {0} /\ Name = todo[1].name /\ Head(todo) = todo[1]
  BY <1>1, SceneFacts, TailFacts, ScenesAssumption DEF Typed, IsScene, Name
<1>3. PICK subs \in Seq(Paths) :
         /\ todo' \in Seq(TodoRec) /\ Len(subs) \in Nat /\ DOMAIN subs = 1..Len(subs)
         /\ \A i, j \in DOMAIN subs : subs[i] = subs[j] => i = j
         /\ \A i \in DOMAIN subs : Head(todo).recurse /\ subs[i] \in Subs(Name)
         /\ Head(todo).recurse => \A m \in Subs(Name) : \E i \in DOMAIN subs : subs[i] = m
         /\ Len(todo') = Len(subs) + (Len(todo) - 1)
         /\ \A i \in 1..Len(subs) : todo'[i] = Todo(subs[i], TRUE)
         /\ \A i \in 1..Len(todo) - 1 : todo'[Len(subs) + i] = todo[i + 1]
  BY VisitNewTodo
<1>4. PICK k \in Nat : k = Len(subs)
  BY <1>3
<1>5. Name \in Path
  BY <1>1, <1>2
<1>6. ASSUME NEW i \in 1..k
      PROVE  /\ todo[1].recurse /\ subs[i] \in Path /\ subs[i] \in Paths
             /\ subs[i] # <<>> /\ Front(subs[i]) = Name
  BY <1>2, <1>3, <1>4, <1>6 DEF Subs
<1>7. ASSUME NEW i \in 1..k, NEW m \in Path
      PROVE  Covers(todo'[i], m) <=> IsPrefix(subs[i], m)
  <2>1. todo'[i] = Todo(subs[i], TRUE)
    BY <1>3, <1>4
  <2>2. todo'[i].name = subs[i] /\ todo'[i].recurse
    BY <2>1 DEF Todo
  <2> QED
    BY <1>6, <2>2, PrefixSelf DEF Covers
<1>8. ASSUME NEW i \in 1..k, NEW m \in Path, Covers(todo'[i], m)
      PROVE  m # Name /\ Covers(todo[1], m)
  <2>1. PICK s \in Path : s = subs[i] /\ s # <<>> /\ Front(s) = Name /\ IsPrefix(s, m)
    BY <1>6, <1>7, <1>8
  <2>2. Len(Name) = Len(s) - 1 /\ Len(s) \in Nat \ {0} /\ IsPrefix(Name, s)
    BY <2>1, FrontFacts
  <2>3. Len(s) <= Len(m)
    BY <2>1, PrefixPoints
  <2>4. IsPrefix(Name, m)
    BY <1>5, <2>1, <2>2, PrefixOrder
  <2> QED
    BY <1>2, <1>6, <2>2, <2>3, <2>4 DEF Covers
<1>9. ASSUME NEW i \in 1..k, NEW j \in 1..k, NEW m \in Path,
             Covers(todo'[i], m), Covers(todo'[j], m)
      PROVE  i = j
  <2>1. PICK s \in Path : s = subs[i] /\ s # <<>> /\ Front(s) = Name /\ IsPrefix(s, m)
    BY <1>6, <1>7, <1>9
  <2>2. PICK t \in Path : t = subs[j] /\ t # <<>> /\ Front(t) = Name /\ IsPrefix(t, m)
    BY <1>6, <1>7, <1>9
  <2>3. Len(Name) = Len(s) - 1 /\ Len(s) \in Nat /\ Len(Name) = Len(t) - 1 /\ Len(t) \in Nat
    BY <2>1, <2>2, FrontFacts
  <2>4. Len(s) = Len(t)
    BY <2>3
  <2>5. s = t
    BY <2>1, <2>2, <2>4, PrefixOrder
  <2> QED
    BY <1>3, <1>4, <2>1, <2>2, <2>5
<1>10. ASSUME NEW m \in Paths, Covers(todo[1], m)
       PROVE  m = Name \/ \E i \in 1..k : Covers(todo'[i], m)
  <2>1. SUFFICES ASSUME m # Name PROVE \E i \in 1..k : Covers(todo'[i], m)
    OBVIOUS
  <2>2. IsPrefix(Name, m) /\ m \in Path /\ todo[1].recurse
    BY <1>2, <1>10, <2>1 DEF Covers
  <2>3. m # <<>>
    BY <1>5, <2>1, <2>2, Between
  <2>4. PICK c \in Path : /\ c # <<>> /\ Front(c) = Name /\ IsPrefix(c, m)
                          /\ c = m \/ c \in Prefixes(Front(m))
    BY <1>5, <2>1, <2>2, Between
  <2>5. c \in Paths
    BY <1>2, <2>3, <2>4 DEF IsTree, Paths
  <2>6. c \in Subs(Name)
    BY <2>4, <2>5 DEF Subs
  <2>7. PICK i \in 1..k : subs[i] = c
    BY <1>2, <1>3, <1>4, <2>2, <2>6
  <2> QED
    BY <1>7, <2>2, <2>4, <2>7
<1>11. /\ DOMAIN todo' = 1..k + (Len(todo) - 1)
       /\ \A i \in 1..Len(todo) - 1 : todo'[k + i] = todo[i + 1]
  BY <1>3, <1>4, LenProperties
<1>12. \E q \in Nat :
          /\ DOMAIN todo' = 1..q + (Len(todo) - 1)
          /\ \A i \in 1..Len(todo) - 1 : todo'[q + i] = todo[i + 1]
          /\ \A i \in 1..q : \A m \in Path :
                Covers(todo'[i], m) => m # Name /\ Covers(todo[1], m)
          /\ \A i, j \in 1..q : \A m \in Path :
                Covers(todo'[i], m) /\ Covers(todo'[j], m) => i = j
          /\ \A m \in Paths : Covers(todo[1], m) =>
                m = Name \/ \E i \in 1..q : Covers(todo'[i], m)
  BY <1>8, <1>9, <1>10, <1>11
<1> QED
  BY <1>1, <1>12, VisitWalk

\* A task of one name is about that name only, but for the links that are listed
\* with the first name of their file.
LEMMA MoveListed ==
    ASSUME Walk, Listed, tasks \in Seq(TaskRec), NEW i \in DOMAIN tasks, Paths' = Paths,
           DOMAIN tasks' = DOMAIN tasks,
           \A j \in DOMAIN tasks :
               tasks'[j].name = tasks[j].name /\ (j # i => tasks'[j].st = tasks[j].st),
           \A k \in DOMAIN inodes' : \A p, q \in DOMAIN inodes'[k].links :
               inodes'[k].links[p] = inodes'[k].links[q] => p = q,
           \A n \in Paths : n # tasks[i].name =>
               \/ Len(lines'[n]) = Len(lines[n]) /\ (n \in Waiting' <=> n \in Waiting)
               \/ n \in Waiting /\ n \notin Waiting' /\ Len(lines'[n]) = Len(lines[n]) + 1,
           tasks'[i].st \in {"ready", "push"} =>
               Len(lines'[tasks[i].name]) = 0 /\ tasks[i].name \notin Waiting',
           tasks'[i].st = "complete" =>
               Len(lines'[tasks[i].name]) = 1 /\ tasks[i].name \notin Waiting',
           tasks'[i].st = "done" =>
               Len(lines'[tasks[i].name]) = IF tasks[i].name \in Waiting' THEN 0 ELSE 1
    PROVE  Listed'
<1>1. \A j \in DOMAIN tasks :
         /\ tasks[j].name \in Paths
         /\ tasks[j].st \in {"ready", "complete", "push", "done"}
         /\ j # i => tasks[j].name # tasks[i].name
  <2>1. \A j \in DOMAIN tasks : tasks[j] \in TaskRec
    BY ElementOfSeq, LenProperties
  <2> QED
    BY <2>1 DEF TaskRec, Walk
<1>2. ASSUME NEW j \in DOMAIN tasks', j # i
      PROVE  /\ tasks'[j].st \in {"ready", "push"} =>
                   Len(lines'[tasks'[j].name]) = 0 /\ tasks'[j].name \notin Waiting'
             /\ tasks'[j].st = "complete" =>
                   Len(lines'[tasks'[j].name]) = 1 /\ tasks'[j].name \notin Waiting'
             /\ tasks'[j].st = "done" =>
                   Len(lines'[tasks'[j].name]) = IF tasks'[j].name \in Waiting' THEN 0 ELSE 1
  <2>1. PICK n \in Paths : n = tasks[j].name
    BY <1>1
  <2>2. /\ tasks'[j].name = n /\ tasks'[j].st = tasks[j].st /\ n # tasks[i].name
        /\ tasks[j].st \in {"ready", "complete", "push", "done"}
    BY <1>1, <1>2, <2>1
  <2>3. /\ tasks[j].st \in {"ready", "push"} => Len(lines[n]) = 0 /\ n \notin Waiting
        /\ tasks[j].st = "complete" => Len(lines[n]) = 1 /\ n \notin Waiting
        /\ tasks[j].st = "done" => Len(lines[n]) = IF n \in Waiting THEN 0 ELSE 1
    BY <1>2, <2>1 DEF Listed
  <2> QED
    BY <2>2, <2>3
<1>3. ASSUME NEW n \in Paths, Len(lines'[n]) # 0 \/ n \in Waiting'
      PROVE  \E j \in DOMAIN tasks' : tasks'[j].name = n
  <2>1. CASE n = tasks[i].name
    BY <2>1
  <2>2. CASE n # tasks[i].name
    BY <1>3, <2>2 DEF Listed
  <2> QED
    BY <2>1, <2>2
<1>4. \A j \in DOMAIN tasks' :
         /\ tasks'[j].st \in {"ready", "push"} =>
               Len(lines'[tasks'[j].name]) = 0 /\ tasks'[j].name \notin Waiting'
         /\ tasks'[j].st = "complete" =>
               Len(lines'[tasks'[j].name]) = 1 /\ tasks'[j].name \notin Waiting'
         /\ tasks'[j].st = "done" =>
               Len(lines'[tasks'[j].name]) = IF tasks'[j].name \in Waiting' THEN 0 ELSE 1
  BY <1>2
<1> QED
  BY <1>3, <1>4 DEF Listed

\* A visit lists nothing: its name has no line yet, and does not wait.
LEMMA VisitListed == ASSUME Inv, Walk, Listed, VisitLink \/ VisitNew PROVE Listed'
<1>1. Typed /\ scene \in Scenes
  BY DEF Inv, Typed
<1>2. /\ todo # <<>> /\ Name \in Paths /\ scene' = scene /\ lines' = lines
      /\ Paths' = Paths /\ KeyOf' = KeyOf
  BY <1>1, VisitTask, SceneStays
<1>3. PICK new \in Nat :
         /\ new \notin DOMAIN tasks /\ DOMAIN tasks' = DOMAIN tasks \cup {new}
         /\ tasks'[new].name = Name /\ tasks'[new].st = "ready"
         /\ \A j \in DOMAIN tasks : tasks'[j] = tasks[j]
  BY <1>1, VisitTask
<1>4. \A j \in DOMAIN tasks : tasks[j].name # Name
  <2>1. 1 \in DOMAIN todo /\ Covers(todo[1], Name)
    BY <1>1, <1>2, TailFacts, LenProperties DEF Covers, Name, Typed
  <2> QED
    BY <2>1 DEF Walk
<1>5. /\ DOMAIN inodes \subseteq DOMAIN inodes'
      /\ \A k \in DOMAIN inodes' :
            \/ k \in DOMAIN inodes /\ inodes'[k] = inodes[k]
            \/ k \notin DOMAIN inodes /\ inodes'[k].links = <<>>
  <2>1. CASE inodes' = inodes
    BY <2>1
  <2>2. CASE inodes' = WithInode(Name) /\ Key(Name) \notin DOMAIN inodes
    BY <2>2 DEF WithInode, Inode
  <2> QED
    BY <2>1, <2>2 DEF VisitLink, VisitNew
<1>6. Waiting' = Waiting
  <2>1. \A n \in Paths : n \in Waiting' <=> n \in Waiting
    BY <1>2, <1>5 DEF Waiting
  <2>2. Waiting \subseteq Paths /\ Waiting' \subseteq Paths
    BY <1>2 DEF Waiting
  <2> QED
    BY <2>1, <2>2
<1>7. \A k \in DOMAIN inodes' : \A i, j \in DOMAIN inodes'[k].links :
         inodes'[k].links[i] = inodes'[k].links[j] => i = j
  BY <1>5 DEF Listed
<1>8. Len(lines[Name]) = 0 /\ Name \notin Waiting
  BY <1>2, <1>4 DEF Listed
<1>9. \A n \in Paths : Len(lines[n]) # 0 \/ n \in Waiting =>
         \E i \in DOMAIN tasks' : tasks'[i].name = n
  BY <1>3 DEF Listed
<1> QED
  BY <1>2, <1>3, <1>6, <1>7, <1>8, <1>9 DEF Listed

\* A line of the task's own.
LEMMA PushListed ==
    ASSUME Inv, Walk, Listed, NEW i \in DOMAIN tasks, CreatePush(i) \/ LinkPush(i)
    PROVE  Listed'
<1>1. /\ Typed /\ scene \in Scenes /\ tasks \in Seq(TaskRec) /\ lines \in [Paths -> Seq(Paths)]
  BY DEF Inv, Typed
<1>2. /\ scene' = scene /\ inodes' = inodes /\ tasks[i].st \in {"ready", "push"}
  BY DEF CreatePush, LinkPush, At
<1>3. tasks[i].name \in Paths /\ tasks[i].key = KeyOf[tasks[i].name]
  BY <1>2, BusyTask
<1>4. PICK st \in {"complete", "done"} : Goto(i, st)
  BY DEF CreatePush, LinkPush
<1>5. PICK n \in Paths : n = tasks[i].name
  BY <1>3
<1>6. PICK e \in Paths : AddLine(n, e)
  <2>1. CASE CreatePush(i)
    BY <1>5, <2>1 DEF CreatePush
  <2>2. CASE LinkPush(i)
    <3>1. tasks[i].key \in DOMAIN inodes /\ inodes[tasks[i].key].first \in Paths
      <4>1. /\ tasks[i].key[2] # 0
        BY <2>2 DEF Inv, Keyed, LinkPush, At
      <4>2. tasks[i].key \in DOMAIN inodes /\ inodes[tasks[i].key] \in InodeRec
        BY <1>2, <4>1, BusyTask
      <4> QED
        BY <4>2 DEF InodeRec
    <3> QED
      BY <1>5, <2>2, <3>1 DEF LinkPush
  <2> QED
    BY <2>1, <2>2
<1>7. /\ DOMAIN tasks' = DOMAIN tasks
      /\ \A j \in DOMAIN tasks :
            /\ tasks'[j].name = tasks[j].name
            /\ tasks'[j].st = IF j = i THEN st ELSE tasks[j].st
  BY <1>1, <1>4, GotoFacts
<1>8. /\ \A m \in Paths : m # n => lines'[m] = lines[m]
      /\ Len(lines[n]) \in Nat /\ Len(lines'[n]) = Len(lines[n]) + 1
  BY <1>1, <1>6, AddLineFacts
<1>9. Paths' = Paths /\ KeyOf' = KeyOf /\ Waiting' = Waiting
  <2>1. Paths' = Paths /\ KeyOf' = KeyOf
    BY <1>2, SceneStays
  <2> QED
    BY <1>2, <2>1 DEF Waiting
<1>10. Len(lines[n]) = 0 /\ n \notin Waiting
  BY <1>2, <1>5 DEF Listed
<1>11. \A k \in DOMAIN inodes' : \A p, q \in DOMAIN inodes'[k].links :
          inodes'[k].links[p] = inodes'[k].links[q] => p = q
  BY <1>2 DEF Listed
<1>12. /\ \A j \in DOMAIN tasks :
             tasks'[j].name = tasks[j].name /\ (j # i => tasks'[j].st = tasks[j].st)
       /\ \A m \in Paths : m # tasks[i].name =>
             \/ Len(lines'[m]) = Len(lines[m]) /\ (m \in Waiting' <=> m \in Waiting)
             \/ m \in Waiting /\ m \notin Waiting' /\ Len(lines'[m]) = Len(lines[m]) + 1
  BY <1>5, <1>7, <1>8, <1>9
<1>13. /\ tasks'[i].st \in {"complete", "done"}
       /\ Len(lines'[tasks[i].name]) = 1 /\ tasks[i].name \notin Waiting'
  BY <1>5, <1>7, <1>8, <1>9, <1>10
<1> QED
  BY <1>1, <1>7, <1>9, <1>11, <1>12, <1>13, MoveListed

\* A link that finds its file complete has still no line.
LEMMA LinkReadyListed ==
    ASSUME Inv, Walk, Listed, NEW i \in DOMAIN tasks, LinkReady(i)
    PROVE  Listed'
<1>1. /\ scene \in Scenes /\ tasks \in Seq(TaskRec)
      /\ scene' = scene /\ inodes' = inodes /\ lines' = lines /\ tasks[i].st = "ready"
      /\ Goto(i, "push")
  BY DEF Inv, Typed, LinkReady, At
<1>2. /\ DOMAIN tasks' = DOMAIN tasks
      /\ \A j \in DOMAIN tasks :
            /\ tasks'[j].name = tasks[j].name
            /\ tasks'[j].st = IF j = i THEN "push" ELSE tasks[j].st
  BY <1>1, GotoFacts
<1>3. Paths' = Paths /\ KeyOf' = KeyOf /\ Waiting' = Waiting
  <2>1. Paths' = Paths /\ KeyOf' = KeyOf
    BY <1>1, SceneStays
  <2> QED
    BY <1>1, <2>1 DEF Waiting
<1>4. /\ \A j \in DOMAIN tasks :
            tasks'[j].name = tasks[j].name /\ (j # i => tasks'[j].st = tasks[j].st)
      /\ \A m \in Paths : m # tasks[i].name =>
            \/ Len(lines'[m]) = Len(lines[m]) /\ (m \in Waiting' <=> m \in Waiting)
            \/ m \in Waiting /\ m \notin Waiting' /\ Len(lines'[m]) = Len(lines[m]) + 1
  BY <1>1, <1>2, <1>3
<1>5. /\ tasks'[i].st = "push"
      /\ Len(lines'[tasks[i].name]) = 0 /\ tasks[i].name \notin Waiting'
  BY <1>1, <1>2, <1>3 DEF Listed
<1>6. \A k \in DOMAIN inodes' : \A p, q \in DOMAIN inodes'[k].links :
         inodes'[k].links[p] = inodes'[k].links[q] => p = q
  BY <1>1 DEF Listed
<1> QED
  BY <1>1, <1>2, <1>3, <1>4, <1>5, <1>6, MoveListed

\* A link that comes before its file is complete has its place, and only one, in
\* the list of its inode.
LEMMA LinkWaitsListed ==
    ASSUME Inv, Walk, Listed, NEW i \in DOMAIN tasks, LinkWaits(i)
    PROVE  Listed'
<1>1. /\ scene \in Scenes /\ tasks \in Seq(TaskRec)
      /\ scene' = scene /\ lines' = lines /\ tasks[i].st = "ready" /\ Goto(i, "done")
      /\ DOMAIN inodes' = DOMAIN inodes
  BY DEF Inv, Typed, LinkWaits, At
<1>2. /\ DOMAIN tasks' = DOMAIN tasks
      /\ \A j \in DOMAIN tasks :
            /\ tasks'[j].name = tasks[j].name
            /\ tasks'[j].st = IF j = i THEN "done" ELSE tasks[j].st
  BY <1>1, GotoFacts
<1>3. Paths' = Paths /\ KeyOf' = KeyOf
  BY <1>1, SceneStays
<1>4. PICK n \in Paths : n = tasks[i].name
  BY LinkWaitsFacts
<1>5. PICK k \in DOMAIN inodes : k = tasks[i].key /\ k = KeyOf[n]
  BY <1>4, LinkWaitsFacts
<1>6. PICK links \in Seq(Paths) :
         links = inodes[k].links /\ inodes'[k].links = Append(links, n)
  BY <1>4, <1>5, LinkWaitsFacts
<1>7. \A q \in DOMAIN inodes : q # k => inodes'[q] = inodes[q]
  BY <1>5, LinkWaitsFacts
<1>8. Len(lines[n]) = 0 /\ n \notin Waiting
  BY <1>1, <1>4 DEF Listed
<1>9. \A j \in DOMAIN links : links[j] # n
  BY <1>5, <1>6, <1>8 DEF Waiting
<1>10. PICK new :
          /\ new \notin DOMAIN links /\ DOMAIN inodes'[k].links = DOMAIN links \cup {new}
          /\ inodes'[k].links[new] = n
          /\ \A j \in DOMAIN links : inodes'[k].links[j] = links[j]
  <2> DEFINE more == Append(links, n)
  <2>1. /\ more \in Seq(Paths) /\ Len(more) = Len(links) + 1 /\ more[Len(links) + 1] = n
        /\ \A j \in 1..Len(links) : more[j] = links[j]
    BY AppendProperties
  <2>2. inodes'[k].links = more
    BY <1>6
  <2> HIDE DEF more
  <2>3. /\ DOMAIN more = 1..Len(links) + 1 /\ DOMAIN links = 1..Len(links) /\ Len(links) \in Nat
    BY <2>1, LenProperties
  <2>4. DOMAIN more = DOMAIN links \cup {Len(links) + 1} /\ Len(links) + 1 \notin DOMAIN links
    BY <2>3
  <2> QED
    BY <2>1, <2>2, <2>3, <2>4
<1>11. \A m \in Paths : m # n => (m \in Waiting' <=> m \in Waiting)
  <2> TAKE m \in Paths
  <2> HAVE m # n
  <2>1. CASE KeyOf[m] = k
    BY <1>1, <1>3, <1>6, <1>10, <2>1 DEF Waiting
  <2>2. CASE KeyOf[m] # k
    BY <1>1, <1>3, <1>7, <2>2 DEF Waiting
  <2> QED
    BY <2>1, <2>2
<1>12. n \in Waiting'
  BY <1>1, <1>3, <1>5, <1>10 DEF Waiting
<1>13. \A c \in DOMAIN inodes' : \A p, q \in DOMAIN inodes'[c].links :
          inodes'[c].links[p] = inodes'[c].links[q] => p = q
  <2>1. \A p, q \in DOMAIN inodes'[k].links : inodes'[k].links[p] = inodes'[k].links[q] => p = q
    <3>1. \A p, q \in DOMAIN links : links[p] = links[q] => p = q
      BY <1>6 DEF Listed
    <3> QED
      BY <1>9, <1>10, <3>1
  <2>2. \A c \in DOMAIN inodes : c # k =>
           \A p, q \in DOMAIN inodes'[c].links : inodes'[c].links[p] = inodes'[c].links[q] => p = q
    BY <1>7 DEF Listed
  <2> QED
    BY <1>1, <2>1, <2>2
<1>14. /\ \A j \in DOMAIN tasks :
             tasks'[j].name = tasks[j].name /\ (j # i => tasks'[j].st = tasks[j].st)
       /\ \A m \in Paths : m # tasks[i].name =>
             \/ Len(lines'[m]) = Len(lines[m]) /\ (m \in Waiting' <=> m \in Waiting)
             \/ m \in Waiting /\ m \notin Waiting' /\ Len(lines'[m]) = Len(lines[m]) + 1
  BY <1>1, <1>2, <1>4, <1>11
<1>15. /\ tasks'[i].st = "done"
       /\ Len(lines'[tasks[i].name]) = 0 /\ tasks[i].name \in Waiting'
  BY <1>1, <1>2, <1>4, <1>8, <1>12
<1> QED
  BY <1>1, <1>2, <1>3, <1>13, <1>14, <1>15, MoveListed

\* The first name is complete: each link that waited gets its one line, and none
\* waits any more.
LEMMA CreateCompleteListed ==
    ASSUME Inv, Walk, Listed, NEW i \in DOMAIN tasks, CreateComplete(i)
    PROVE  Listed'
<1>1. /\ scene \in Scenes /\ tasks \in Seq(TaskRec) /\ InodesOfNames
      /\ scene' = scene /\ tasks[i].st = "complete" /\ Goto(i, "done")
      /\ DOMAIN inodes' = DOMAIN inodes
  BY DEF Inv, Typed, CreateComplete, At
<1>2. /\ DOMAIN tasks' = DOMAIN tasks
      /\ \A j \in DOMAIN tasks :
            /\ tasks'[j].name = tasks[j].name
            /\ tasks'[j].st = IF j = i THEN "done" ELSE tasks[j].st
  BY <1>1, GotoFacts
<1>3. Paths' = Paths /\ KeyOf' = KeyOf
  BY <1>1, SceneStays
<1>4. PICK n \in Paths : n = tasks[i].name
  BY CreateCompleteFacts
<1>5. PICK k \in DOMAIN inodes : k = tasks[i].key /\ k = KeyOf[n]
  BY <1>4, CreateCompleteFacts
<1>6. /\ \A q \in DOMAIN inodes : q # k => inodes'[q] = inodes[q]
      /\ inodes'[k].links = <<>>
      /\ \A m \in Paths : /\ Len(lines[m]) \in Nat
                          /\ Len(lines'[m]) = Len(lines[m]) + Cardinality(Places(k, m))
  <2>1. /\ \A q \in DOMAIN inodes : q # tasks[i].key => inodes'[q] = inodes[q]
        /\ inodes'[tasks[i].key].links = <<>>
        /\ \A m \in Paths :
              /\ Len(lines[m]) \in Nat
              /\ Len(lines'[m]) = Len(lines[m]) + Cardinality(Places(tasks[i].key, m))
    BY CreateCompleteFacts
  <2>2. \A m : Places(k, m) = Places(tasks[i].key, m)
    BY <1>5
  <2> QED
    BY <1>5, <2>1, <2>2
<1>7. \A m \in Paths : m \in Waiting =>
         \E j \in DOMAIN inodes[KeyOf[m]].links : inodes[KeyOf[m]].links[j] = m
  BY DEF Waiting
<1>8. ASSUME NEW m \in Paths, m \in Waiting, KeyOf[m] = k
      PROVE  m \notin Waiting' /\ Len(lines'[m]) = Len(lines[m]) + 1
  <2>1. PICK j \in DOMAIN inodes[k].links : inodes[k].links[j] = m
    BY <1>7, <1>8
  <2>2. j \in Places(k, m) /\ \A q \in Places(k, m) : q = j
    BY <2>1 DEF Places, Listed
  <2>3. Places(k, m) = {j}
    BY <2>2
  <2>4. Cardinality(Places(k, m)) = 1
    BY <2>3, FS_Singleton
  <2> QED
    BY <1>3, <1>6, <1>8, <2>4 DEF Waiting
<1>9. ASSUME NEW m \in Paths, m \notin Waiting \/ KeyOf[m] # k
      PROVE  Len(lines'[m]) = Len(lines[m])
  <2>1. Places(k, m) = {}
    BY <1>1, <1>9 DEF Places, Waiting, InodesOfNames
  <2>2. Cardinality(Places(k, m)) = 0
    BY <2>1, FS_EmptySet
  <2> QED
    BY <1>6, <2>2
<1>10. ASSUME NEW m \in Paths, m \notin Waiting \/ KeyOf[m] # k
       PROVE  m \in Waiting' <=> m \in Waiting
  <2>1. CASE KeyOf[m] = k
    BY <1>3, <1>6, <1>10, <2>1 DEF Waiting
  <2>2. CASE KeyOf[m] # k
    BY <1>1, <1>3, <1>6, <2>2 DEF Waiting
  <2> QED
    BY <2>1, <2>2
<1>11. \A c \in DOMAIN inodes' : \A p, q \in DOMAIN inodes'[c].links :
          inodes'[c].links[p] = inodes'[c].links[q] => p = q
  BY <1>1, <1>6 DEF Listed
<1>12. Len(lines[n]) = 1 /\ n \notin Waiting
  BY <1>1, <1>4 DEF Listed
<1>13. /\ \A j \in DOMAIN tasks :
             tasks'[j].name = tasks[j].name /\ (j # i => tasks'[j].st = tasks[j].st)
       /\ \A m \in Paths : m # tasks[i].name =>
             \/ Len(lines'[m]) = Len(lines[m]) /\ (m \in Waiting' <=> m \in Waiting)
             \/ m \in Waiting /\ m \notin Waiting' /\ Len(lines'[m]) = Len(lines[m]) + 1
  BY <1>2, <1>8, <1>9, <1>10
<1>14. /\ tasks'[i].st = "done"
       /\ Len(lines'[tasks[i].name]) = 1 /\ tasks[i].name \notin Waiting'
  BY <1>2, <1>4, <1>9, <1>10, <1>12
<1> QED
  BY <1>1, <1>2, <1>3, <1>11, <1>13, <1>14, MoveListed

\* The other steps of the main thread list nothing; the inodes are deleted when
\* none of them has links that wait.
LEMMA MainListed ==
    ASSUME Inv, Walk, Listed, VisitFails \/ WaitIdle \/ DeleteInodes \/ Finish
    PROVE  Listed'
<1>1. scene' = scene /\ tasks' = tasks /\ lines' = lines
  BY DEF VisitFails, WaitIdle, DeleteInodes, Finish
<1>2. Paths' = Paths /\ KeyOf' = KeyOf
  BY <1>1, SceneStays
<1>3. CASE inodes' = inodes
  <2>1. Waiting' = Waiting
    BY <1>2, <1>3 DEF Waiting
  <2> QED
    BY <1>1, <1>2, <1>3, <2>1 DEF Listed
<1>4. CASE DeleteInodes
  <2>1. DOMAIN inodes' = {} /\ phase # "walk"
    BY <1>4 DEF DeleteInodes
  <2>2. \A c \in DOMAIN inodes : inodes[c].links = <<>>
    BY <2>1 DEF Inv, Rests, Creators, InodesOfNames
  <2>3. Waiting = {} /\ Waiting' = {}
    BY <2>1, <2>2 DEF Waiting
  <2> QED
    BY <1>1, <1>2, <2>1, <2>3 DEF Listed
<1> QED
  BY <1>3, <1>4 DEF VisitFails, WaitIdle, DeleteInodes, Finish

\* At first there are no lines, and no tasks.
LEMMA InitListed == ASSUME Init PROVE Listed
<1>1. /\ tasks = <<>> /\ inodes = <<>> /\ lines = [n \in Paths |-> <<>>]
  BY DEF Init, Paths
<1>2. DOMAIN tasks = {} /\ DOMAIN inodes = {} /\ \A n \in Paths : Len(lines[n]) = 0
  BY <1>1, EmptySeq
<1>3. Waiting = {}
  BY <1>2 DEF Waiting
<1> QED
  BY <1>2, <1>3 DEF Listed

\* Each step keeps what is walked and what is listed.
LEMMA NextListed == Inv /\ Walk /\ Listed /\ [Next]_vars => Walk' /\ Listed'
<1> SUFFICES ASSUME Inv, Walk, Listed, [Next]_vars PROVE Walk' /\ Listed'
  OBVIOUS
<1>1. Typed /\ scene \in Scenes /\ tasks \in Seq(TaskRec)
  BY DEF Inv, Typed
<1>2. CASE UNCHANGED vars
  <2>1. /\ scene' = scene /\ todo' = todo /\ tasks' = tasks /\ inodes' = inodes
        /\ lines' = lines /\ phase' = phase
    BY <1>2 DEF vars
  <2>2. Paths' = Paths /\ KeyOf' = KeyOf
    BY <2>1, SceneStays
  <2>3. Waiting' = Waiting
    BY <2>1, <2>2 DEF Waiting
  <2>4. Listed'
    BY <2>1, <2>2, <2>3 DEF Listed
  <2> QED
    BY <2>1, <2>4, MoveWalk
<1>3. CASE VisitLink \/ VisitNew
  BY <1>1, <1>3, VisitLinkWalk, VisitNewWalk, VisitListed
<1>4. CASE VisitFails \/ WaitIdle \/ DeleteInodes \/ Finish
  <2>1. /\ scene' = scene /\ todo' = todo /\ tasks' = tasks
        /\ phase' # "walk" => phase # "walk" \/ todo = <<>>
    BY <1>4 DEF VisitFails, WaitIdle, DeleteInodes, Finish
  <2> QED
    BY <1>4, <2>1, MoveWalk, MainListed
<1>5. ASSUME NEW i \in DOMAIN tasks, TaskStep(i) PROVE Walk' /\ Listed'
  <2>1. scene' = scene /\ todo' = todo /\ phase' = phase
    BY <1>5 DEF TaskStep, CreatePush, CreateComplete, LinkWaits, LinkReady, LinkPush
  <2>2. PICK st \in {"complete", "push", "done"} : Goto(i, st)
    BY <1>5 DEF TaskStep, CreatePush, CreateComplete, LinkWaits, LinkReady, LinkPush
  <2>3. /\ DOMAIN tasks' = DOMAIN tasks
        /\ \A j \in DOMAIN tasks : tasks'[j].name = tasks[j].name
    BY <1>1, <2>2, GotoFacts
  <2>4. Walk'
    BY <2>1, <2>3, MoveWalk
  <2>5. Listed'
    BY <1>5, PushListed, LinkReadyListed, LinkWaitsListed, CreateCompleteListed DEF TaskStep
  <2> QED
    BY <2>4, <2>5
<1> QED
  BY <1>2, <1>3, <1>4, <1>5 DEF Next, Main

\* Each name is walked to once, and listed by one task: the invariant holds when
\* the arguments are apart and the base archive was made of the same ones.
THEOREM WalkInvariant ==
    ASSUME \A s \in Scenes : ArgsApart(s) /\ BaseOfArgs(s)
    PROVE  Spec => [](Inv /\ Walk /\ Listed)
<1>1. Init => Inv /\ Walk /\ Listed
  BY InitInv, InitWalk, InitListed DEF Init
<1>2. Inv /\ Walk /\ Listed /\ [Next]_vars => (Inv /\ Walk /\ Listed)'
  BY NextInv, NextListed
<1> QED
  BY <1>1, <1>2, PTL DEF Spec

\* A finished archive has one line for each name it was asked for, and no others:
\* neither is a link that comes while its file is being stored forgotten, nor is
\* it listed by its own task and again by the first name's (Archive.cpp:819-858).
THEOREM EachNameOnce ==
    ASSUME \A s \in Scenes : ArgsApart(s) /\ BaseOfArgs(s)
    PROVE  Spec => []ListedOnce
<1>1. Inv /\ Walk /\ Listed => ListedOnce
  <2> SUFFICES ASSUME Inv, Walk, Listed, phase = "finished", NEW n \in Paths
               PROVE  Len(lines[n]) = IF n \in Asked THEN 1 ELSE 0
    BY DEF ListedOnce
  <2>1. \A i \in DOMAIN tasks : tasks[i].st = "done"
    BY DEF Inv, Rests
  <2>2. Waiting = {}
    <3>1. \A c \in DOMAIN inodes : inodes[c].links = <<>>
      BY <2>1 DEF Inv, Creators, InodesOfNames
    <3> QED
      BY <3>1 DEF Waiting
  <2>3. CASE n \in Asked
    <3>1. DOMAIN todo = {}
      BY DEF Walk
    <3>2. PICK i \in DOMAIN tasks : tasks[i].name = n
      BY <2>3, <3>1 DEF Walk
    <3> QED
      BY <2>1, <2>2, <2>3, <3>2 DEF Listed
  <2>4. CASE n \notin Asked
    BY <2>4 DEF Walk, Listed
  <2> QED
    BY <2>3, <2>4
<1> QED
  BY <1>1, WalkInvariant, PTL

\* And all the names of a file that a finished archive holds repeat one entry, so
\* that extraction makes them one file again.
THEOREM OneEntryEach ==
    ASSUME \A s \in Scenes : ArgsApart(s) /\ BaseOfArgs(s) /\ NumbersStay(s)
    PROVE  Spec => []OneEntryPerFile
<1>1. Spec => [](Inv /\ ListedOnce)
  <2>1. Spec => []ListedOnce
    BY EachNameOnce
  <2> QED
    BY <2>1, Invariant, PTL
<1>2. Inv /\ ListedOnce => OneEntryPerFile
  <2> SUFFICES ASSUME Inv, ListedOnce, phase = "finished",
                      NEW m \in Asked, NEW n \in Asked, Linkable(m), SameFile(m, n)
               PROVE  lines[m] = lines[n]
    BY DEF OneEntryPerFile
  <2>1. /\ scene \in Scenes /\ lines \in [Paths -> Seq(Paths)] /\ OneEntry
        /\ m \in Paths /\ n \in Paths
    BY DEF Inv, Typed, Asked
  <2>2. m \in Linked(scene.stat) /\ n \in DOMAIN scene.stat /\ NumbersStay(scene)
    BY <2>1 DEF Linkable, Paths
  <2>3. Stat(m) = Stat(n) /\ Stat(m).ino % INoMod # 0
    BY <2>2 DEF NumbersStay, SameFile, Stat
  <2>4. Linkable(n)
    BY <2>2, <2>3 DEF Linkable, Linked, Stat
  <2>5. INodeNum(m) = INodeNum(n) /\ INodeNum(m) # 0
    BY <2>3, <2>4 DEF INodeNum
  <2>6. m \in Shared /\ n \in Shared /\ KeyOf[m] = KeyOf[n]
    BY <2>1, <2>3, <2>5 DEF Shared, Tracked, KeyOf, Key
  <2>7. Len(lines[m]) = 1 /\ Len(lines[n]) = 1
    BY <2>1 DEF ListedOnce
  <2>8. lines[m] \in Seq(Paths) /\ lines[n] \in Seq(Paths)
    BY <2>1
  <2>9. DOMAIN lines[m] = 1..1 /\ DOMAIN lines[n] = 1..1
    BY <2>7, <2>8, LenProperties
  <2>10. \A i \in 1..1 : lines[m][i] = lines[n][i]
    BY <2>1, <2>6, <2>9 DEF OneEntry
  <2> QED
    BY <2>7, <2>8, <2>10, SeqEqual
<1> QED
  BY <1>1, <1>2, PTL

=============================================================================
